------------------------------ MODULE Machine -------------------------------
(***************************************************************************)
(* The machines (service/machine): a machine processes the tasks sent to   *)
(* it on the first of its cores to be free, answers to the service that    *)
(* delivered the task, and forwards every other packet.                    *)
(*                                                                         *)
(* The array of the times at which the cores are free is allocated by the  *)
(* constructor and never initialised: InitialCoreTimes holds the values    *)
(* the memory may contain (a negative one acts as 0).                      *)
(***************************************************************************)
EXTENDS Engine

CONSTANTS
  Cores,             \* cores of each machine
  MachineUnitCost,   \* time to process a unit of size
  InitialCoreTimes

ASSUME MachineAssumption ==
  /\ Cores \in [Machines -> Nat \ {0}]
  /\ MachineUnitCost \in [Machines -> Nat]
  /\ InitialCoreTimes \in (SUBSET Nat) \ {{}}

VARIABLES coreFreeTimes,     \* when each core has done the work it was given
          machineMetrics

machineVars == <<coreFreeTimes, machineMetrics>>

MachineMetrics ==
  [lastActivityTime : Nat, procMFlops : Nat, procTime : Nat, procTasks : Nat,
   forwardedPackets : Nat]

CoreTimes(m) == [0 .. Cores[m] - 1 -> Nat]

MachineTypeOK ==
  /\ DOMAIN coreFreeTimes = Machines
  /\ \A m \in Machines : coreFreeTimes[m] \in CoreTimes(m)
  /\ machineMetrics \in [Machines -> MachineMetrics]

MachineInit ==
  /\ coreFreeTimes \in
       {t \in [Machines -> UNION {[0 .. Cores[m] - 1 -> InitialCoreTimes] : m \in Machines}] :
          \A m \in Machines : DOMAIN t[m] = 0 .. Cores[m] - 1}
  /\ machineMetrics = [m \in Machines |->
       [lastActivityTime |-> 0, procMFlops |-> 0, procTime |-> 0, procTasks |-> 0,
        forwardedPackets |-> 0]]

-----------------------------------------------------------------------------
TimeToProcess(m, size) == size * MachineUnitCost[m]

(* Mutated form: the first core is taken even when another is free earlier. *)
FirstCore(m, c) == c = 0

(* timeToAttend: the first of the cores that are free the earliest. *)
AttendingCore(m, c) ==
  /\ \A d \in 0 .. Cores[m] - 1 : coreFreeTimes[m][c] <= coreFreeTimes[m][d]
  /\ \A d \in 0 .. c - 1 : coreFreeTimes[m][c] < coreFreeTimes[m][d]

(* Mutated form: the task starts at once, even when all cores are busy. *)
StartAtOnce(m, c, e) == e.time + TimeToProcess(m, e.procSize)

CoreDeparture(m, c, e) ==
  LET waitingTime == IF coreFreeTimes[m][c] > e.time THEN coreFreeTimes[m][c] - e.time ELSE 0
  IN  e.time + waitingTime + TimeToProcess(m, e.procSize)

(* Mutated form: the answer skips only one element of the route. *)
AnswerOneBack(offset) == Decrement(offset)

(* From the element after the link that delivered the task to the one before
   that link. *)
AnswerOffset(offset) == Decrement(Decrement(offset))

(* Mutated form: a packet that passes through counts as a task. *)
CountForwarded(m, e) ==
  /\ Forward(m, e)
  /\ machineMetrics' = [machineMetrics EXCEPT ![m].lastActivityTime = e.time,
                                              ![m].forwardedPackets = @ + 1,
                                              ![m].procTasks = @ + 1]
  /\ UNCHANGED coreFreeTimes

MachineForward(m, e) ==
  /\ Forward(m, e)
  /\ machineMetrics' = [machineMetrics EXCEPT ![m].lastActivityTime = e.time,
                                              ![m].forwardedPackets = @ + 1]
  /\ UNCHANGED coreFreeTimes

MachineProcess(m, e) ==
  \E c \in 0 .. Cores[m] - 1 :
    /\ AttendingCore(m, c)
    /\ coreFreeTimes' = [coreFreeTimes EXCEPT ![m][c] = CoreDeparture(m, c, e)]
    /\ machineMetrics' = [machineMetrics EXCEPT
         ![m].lastActivityTime = e.time,
         ![m].procMFlops = @ + e.procSize,
         ![m].procTime   = @ + TimeToProcess(m, e.procSize),
         ![m].procTasks  = @ + 1]
    /\ Replace(e, {[e EXCEPT !.to = e.previous,
                             !.time = CoreDeparture(m, c, e),
                             !.processed = TRUE,
                             !.previous = m,
                             !.offset = AnswerOffset(e.offset),
                             !.forward = FALSE]})

MachineOnTaskArrival(m, e) ==
  \/ e.destination # m /\ MachineForward(m, e)
  \/ e.destination = m /\ MachineProcess(m, e)
=============================================================================
