SPECIFICATION FairOptimisticSpec
CONSTANTS
  Masters = {0}
  Machines = {4, 6}
  Links = {1, 3, 5}
  Switches = {2}
  OffsetMod = 8
  HeapWords = {}
  RoutePath <- MCRoutePath
  LinkFrom <- MCLinkFrom
  LinkTo <- MCLinkTo
  LinkLatency <- MCLinkLatency
  LinkUnitCost <- MCLinkUnitCost
  SwitchLatency <- MCSwitchLatency
  SwitchUnitCost <- MCSwitchUnitCost
  Cores <- MCCores
  MachineUnitCost <- MCMachineUnitCost
  InitialCoreTimes = {0}
  Slaves <- MCSlaves
  WorkloadSize <- MCWorkloadSize
  TaskSizes <- MCTaskSizes
  FreshPointers = {"null"}
  BuilderTasks <- MCBuilderTasks
  ArrivalTimes = {0}
  ThreadCounts = {1}
  CheckpointIntervals = {2}
  CoreBindings = {FALSE}
  GvtPeriods = {1000}
  AvailableCores = 2
  AutoInterval = 1
  RandomSize <- MCRandomSize
INVARIANTS
  OptimisticTypeOK
  MemoryIsReplayed
PROPERTIES
  ResendsTheSame
  FinalStays
  FinalIsSequential
  AllBecomesFinal
\* the simulation ends when its queue is empty
CHECK_DEADLOCK FALSE
