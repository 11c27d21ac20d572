SPECIFICATION Spec
CONSTANTS
  Masters = {0, 2, 4}
  Machines = {6, 8, 12, 14, 16}
  Links = {1, 3, 5, 7, 11, 13, 15}
  Switches = {}
  OffsetMod = 8
  HeapWords = {0}
  RoutePath <- MCRoutePath
  LinkFrom <- MCLinkFrom
  LinkTo <- MCLinkTo
  LinkLatency <- MCLinkLatency
  LinkUnitCost <- MCLinkUnitCost
  SwitchLatency <- MCSwitchLatency
  SwitchUnitCost <- MCSwitchUnitCost
  Cores <- MCCores
  MachineUnitCost <- MCMachineUnitCost
  InitialCoreTimes = {0}
  Slaves <- MCSlaves
  WorkloadSize <- MCWorkloadSize
  TaskSizes <- MCTaskSizes
  FreshPointers = {"null"}
  BuilderTasks <- MCBuilderTasks
  ArrivalTimes = {0}
INVARIANTS
  IndexesInRoute
\* the simulation ends when its queue is empty
CHECK_DEADLOCK FALSE
