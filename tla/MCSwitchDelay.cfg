SPECIFICATION Spec
CONSTANTS
  Masters = {0, 2}
  Machines = {6, 8}
  Links = {1, 3, 5, 7}
  Switches = {4}
  OffsetMod = 8
  HeapWords = {}
  RoutePath <- MCRoutePath
  LinkFrom <- MCLinkFrom
  LinkTo <- MCLinkTo
  LinkLatency <- MCLinkLatency
  LinkUnitCost <- MCLinkUnitCost
  SwitchLatency <- MCSwitchLatency
  SwitchUnitCost <- MCSwitchUnitCost
  Cores <- MCCores
  MachineUnitCost <- MCMachineUnitCost
  InitialCoreTimes = {0, 9}
  Slaves <- MCSlaves
  WorkloadSize <- MCWorkloadSize
  TaskSizes <- MCTaskSizes
  FreshPointers = {"null"}
  BuilderTasks <- MCBuilderTasks
  ArrivalTimes = {0}
PROPERTIES
  SwitchDelays
\* the simulation ends when its queue is empty
CHECK_DEADLOCK FALSE
