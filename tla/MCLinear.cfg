SPECIFICATION FairSpec
CONSTANTS
  Masters = {0}
  Machines = {2, 4}
  Links = {1, 3}
  Switches = {}
  OffsetMod = 8
  HeapWords = {}
  RoutePath <- MCRoutePath
  LinkFrom <- MCLinkFrom
  LinkTo <- MCLinkTo
  LinkLatency <- MCLinkLatency
  LinkUnitCost <- MCLinkUnitCost
  SwitchLatency <- MCSwitchLatency
  SwitchUnitCost <- MCSwitchUnitCost
  Cores <- MCCores
  MachineUnitCost <- MCMachineUnitCost
  InitialCoreTimes = {0}
  Slaves <- MCSlaves
  WorkloadSize <- MCWorkloadSize
  TaskSizes <- MCTaskSizes
  FreshPointers = {"null"}
  BuilderTasks <- MCBuilderTasks
  ArrivalTimes = {0, 3, 7}
INVARIANTS
  PacketsOnRoute
  IndexesInRoute
  NoFault
  TasksDistinct
  TasksProcessedOnce
  TasksReturnOnce
  SharedEvenly
  NothingInThePast
  LinksSerial
  NoIdleCore
  HopsAccountedFor
PROPERTIES
  FollowsTaskFlow
  Completes
\* the simulation ends when its queue is empty
CHECK_DEADLOCK FALSE
