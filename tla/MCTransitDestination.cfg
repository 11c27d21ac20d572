SPECIFICATION Spec
CONSTANTS
  Masters = {0, 2, 6, 10, 12, 14}
  Machines = {4, 8}
  Links = {1, 3, 5, 7, 9}
  Switches = {}
  OffsetMod = 8
  HeapWords = {}
  RoutePath <- MCRoutePath
  LinkFrom <- MCLinkFrom
  LinkTo <- MCLinkTo
  LinkLatency <- MCLinkLatency
  LinkUnitCost <- MCLinkUnitCost
  SwitchLatency <- MCSwitchLatency
  SwitchUnitCost <- MCSwitchUnitCost
  Cores <- MCCores
  MachineUnitCost <- MCMachineUnitCost
  InitialCoreTimes = {0}
  Slaves <- MCSlaves
  WorkloadSize <- MCWorkloadSize
  TaskSizes <- MCTaskSizes
  FreshPointers = {"null", "wild"}
  BuilderTasks <- MCBuilderTasks
  ArrivalTimes = {0, 9}
PROPERTIES
  DestinationKept
\* the simulation ends when its queue is empty
CHECK_DEADLOCK FALSE
