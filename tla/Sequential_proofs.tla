------------------------- MODULE Sequential_proofs --------------------------
(***************************************************************************)
(* What becomes final in the optimistic mode of a flat grid is an          *)
(* execution of Grid: Commit is the delivery of one event, StartScheduler  *)
(* that of a TASK_SCHEDULER_INIT, and every other step of the kernel a     *)
(* stutter.                                                                *)
(*                                                                         *)
(* The argument goes from the handlers to the logs and from the logs to    *)
(* the final state.  A handler sends one message of a set that depends on  *)
(* the memory of its service and on the event alone (Emits); the entries   *)
(* of a log hold such messages (LogSends), so that an entry that becomes   *)
(* final is a delivery from the final memory (CarriesOut).                 *)
(***************************************************************************)
EXTENDS Optimistic_proofs

-----------------------------------------------------------------------------
(* The message of a handler, from the memory of the service and the event: one
   of a set, in which there are several when a task is drawn. *)

LinkEmits(l, memory, e) ==
  {[e EXCEPT !.to = OtherEnd(l, e), !.time = LinkOutcome(l, memory, e).available,
             !.previous = l]}

PassEmits(self, e) ==
  {[e EXCEPT !.to = next, !.previous = self, !.offset = NextOffset(e)] :
     next \in RouteElement(RoutePath[<<e.source, e.destination>>], e.offset)}

CoreEnd(m, free, c, e) ==
  LET waiting == IF free[c] > e.time THEN free[c] - e.time ELSE 0
  IN  e.time + waiting + e.procSize * MachineUnitCost[m]

FirstFree(m, free) == {c \in 0 .. Cores[m] - 1 : IsFirstFree(m, free, c)}

ProcessEmits(m, free, e) ==
  {[e EXCEPT !.to = e.previous, !.time = CoreEnd(m, free, c, e), !.processed = TRUE,
             !.previous = m, !.offset = AnswerOffset(e.offset), !.forward = FALSE] :
     c \in FirstFree(m, free)}

MachineEmits(m, memory, e) ==
  IF e.destination = m THEN ProcessEmits(m, memory.coreFreeTimes, e) ELSE PassEmits(m, e)

NextSlave(m, memory) == Slaves[m][(memory.nextResource % Len(Slaves[m])) + 1]

MasterEmits(m, memory, e) ==
  IF ~ e.processed
    THEN {ToSlave(m, NextSlave(m, memory), e.time, e)}
    ELSE {ToSlave(m, NextSlave(m, memory), e.time,
                  NewTask("scheduler", m, memory.remaining, size)) :
            size \in IF memory.remaining > 0 THEN TaskSizes ELSE {}}

Emits(p, memory, e) ==
  CASE p \in Links    -> LinkEmits(p, memory, e)
    [] p \in Switches -> PassEmits(p, e)
    [] p \in Machines -> MachineEmits(p, memory, e)
    [] p \in Masters  -> MasterEmits(p, memory, e)

(* A task comes home to a master that has no more of them. *)
NothingLeft(p, memory, e) == p \in Masters /\ e.processed /\ ~ memory.remaining > 0

IsSent(p, memory, e, sent) ==
  \/ NothingLeft(p, memory, e) /\ sent = {}
  \/ \E f \in Emits(p, memory, e) : sent = {f}

LEMMA EmitsOf ==
  ASSUME NEW memory, NEW e
  PROVE  /\ \A p \in Links : Emits(p, memory, e) = LinkEmits(p, memory, e)
         /\ \A p \in Switches : Emits(p, memory, e) = PassEmits(p, e)
         /\ \A p \in Machines : Emits(p, memory, e) = MachineEmits(p, memory, e)
         /\ \A p \in Masters : Emits(p, memory, e) = MasterEmits(p, memory, e)
BY Kinds DEF Emits


(* The handler of e has sent what it sends. *)
Leaves(e) == IsSent(e.to, Memory(e.to), e, pending')

LEMMA ReplaceLeaves ==
  ASSUME pending = {}, NEW e, NEW sent, IsSent(e.to, Memory(e.to), e, sent), Replace(e, sent)
  PROVE  Leaves(e)
<1>1. pending' = sent
  BY DEF Replace
<1> QED
  BY <1>1 DEF Leaves

LEMMA StopFaults ==
  ASSUME NEW e, NEW why, why # "none", UNCHANGED fault, fault = Running
  PROVE  ~ Stop(e, why)
BY StopKills

LEMMA LinkLeaves ==
  ASSUME pending = {}, NEW e \in Event, e.to \in Links, UNCHANGED fault, fault = Running,
         LinkOnTaskArrival(e.to, e)
  PROVE  Leaves(e)
<1> DEFINE l == e.to
           f == [e EXCEPT !.to = OtherEnd(l, e), !.time = LinkDeparture(l, e), !.previous = l]
<1>1. LinkOutcome(l, Memory(l), e).available = LinkDeparture(l, e)
  BY MemoryOf DEF LinkOutcome, LinkDeparture, LinkCommTime
<1>2. IsSent(l, Memory(l), e, {f})
  <2>1. Emits(l, Memory(l), e) = LinkEmits(l, Memory(l), e)
    BY EmitsOf
  <2>2. f \in LinkEmits(l, Memory(l), e)
    BY <1>1, Zenon DEF LinkEmits
  <2> HIDE DEF f
  <2> QED
    BY <2>1, <2>2 DEF IsSent
<1>3. Replace(e, {f})
  BY StopFaults DEF LinkOnTaskArrival
<1> HIDE DEF f
<1> QED
  BY <1>2, <1>3, ReplaceLeaves

LEMMA ForwardLeaves ==
  ASSUME pending = {}, NEW e, UNCHANGED fault, fault = Running,
         Emits(e.to, Memory(e.to), e) = PassEmits(e.to, e), Forward(e.to, e)
  PROVE  Leaves(e)
<1> DEFINE path == RoutePath[<<e.source, e.destination>>]
           f(next) == [e EXCEPT !.to = next, !.previous = e.to, !.offset = NextOffset(e)]
<1>1. \E next \in RouteElement(path, e.offset) : Replace(e, {f(next)})
  BY StopFaults DEF Forward
<1>2. \A next \in RouteElement(path, e.offset) : IsSent(e.to, Memory(e.to), e, {f(next)})
  BY DEF IsSent, PassEmits
<1> HIDE DEF f, path
<1> QED
  BY <1>1, <1>2, ReplaceLeaves

LEMMA MachineLeaves ==
  ASSUME pending = {}, NEW e \in Event, e.to \in Machines, UNCHANGED fault, fault = Running,
         MachineOnTaskArrival(e.to, e)
  PROVE  Leaves(e)
<1> DEFINE m == e.to
           free == coreFreeTimes[m]
           f(c) == [e EXCEPT !.to = e.previous, !.time = CoreDeparture(m, c, e),
                             !.processed = TRUE, !.previous = m,
                             !.offset = AnswerOffset(e.offset), !.forward = FALSE]
<1>1. Emits(m, Memory(m), e) = MachineEmits(m, Memory(m), e) /\ Memory(m).coreFreeTimes = free
  BY EmitsOf, MemoryOf
<1>2. CASE e.destination # m
  <2>1. Emits(m, Memory(m), e) = PassEmits(m, e)
    BY <1>1, <1>2 DEF MachineEmits
  <2> QED
    BY <1>2, <2>1, ForwardLeaves DEF MachineOnTaskArrival, MachineForward
<1>3. CASE e.destination = m
  <2>1. PICK c \in 0 .. Cores[m] - 1 : AttendingCore(m, c) /\ Replace(e, {f(c)})
    BY <1>3 DEF MachineOnTaskArrival, MachineProcess
  <2>2. c \in FirstFree(m, free)
    BY <2>1 DEF FirstFree, IsFirstFree, AttendingCore
  <2>3. CoreDeparture(m, c, e) = CoreEnd(m, free, c, e)
    BY DEF CoreDeparture, CoreEnd, TimeToProcess
  <2>4. f(c) \in ProcessEmits(m, free, e)
    BY <2>2, <2>3 DEF ProcessEmits
  <2>5. Emits(m, Memory(m), e) = ProcessEmits(m, free, e)
    BY <1>1, <1>3 DEF MachineEmits
  <2> HIDE DEF f
  <2>6. IsSent(m, Memory(m), e, {f(c)})
    BY <2>4, <2>5 DEF IsSent
  <2> QED
    BY <2>1, <2>6, ReplaceLeaves
<1> QED
  BY <1>2, <1>3

LEMMA MasterLeaves ==
  ASSUME pending = {}, TypeOK, NEW e \in Event, e.to \in Masters, UNCHANGED fault,
         fault = Running, e.origin = e.to, workload[e.to] = "assigned",
         MasterOnTaskArrival(e.to, e)
  PROVE  Leaves(e)
<1> DEFINE m == e.to
           memory == Memory(m)
           f(t) == ToSlave(m, Slave(m, 0), e.time, t)
           drawn(size) == NewTask("scheduler", m, TaskNumber(m, 0), size)
<1>1. /\ memory.remaining = remaining[m] /\ memory.nextResource = nextResource[m]
      /\ nextResource[m] \in Nat /\ remaining[m] \in Nat
  BY MemoryOf DEF TypeOK, MasterTypeOK
<1>2. Slave(m, 0) = NextSlave(m, memory) /\ TaskNumber(m, 0) = memory.remaining
  <2>1. nextResource[m] + 0 = nextResource[m] /\ remaining[m] - 0 = remaining[m]
    BY <1>1
  <2> QED
    BY <1>1, <2>1 DEF Slave, NextSlave, TaskNumber
<1>3. Emits(m, memory, e) = MasterEmits(m, memory, e)
  BY EmitsOf
<1> HIDE DEF memory
<1>4. ASSUME NEW t PROVE SendToNext(m, e, t) => Replace(e, {f(t)})
  BY StopFaults DEF SendToNext
<1>5. ASSUME ~ e.processed PROVE IsSent(m, memory, e, {f(e)})
  BY <1>2, <1>3, <1>5 DEF IsSent, MasterEmits
<1>6. ASSUME e.processed, ~ remaining[m] > 0 PROVE IsSent(m, memory, e, {})
  BY <1>1, <1>6 DEF IsSent, NothingLeft
<1>7. ASSUME e.processed, remaining[m] > 0, NEW size \in TaskSizes
      PROVE  IsSent(m, memory, e, {f(drawn(size))})
  <2>1. f(drawn(size)) = ToSlave(m, NextSlave(m, memory), e.time,
                                 NewTask("scheduler", m, memory.remaining, size))
    BY <1>2
  <2>2. f(drawn(size)) \in Emits(m, memory, e)
    <3> HIDE DEF f
    <3> QED
      BY <1>1, <1>3, <1>7, <2>1 DEF MasterEmits
  <2> HIDE DEF f, drawn
  <2> QED
    BY <2>2 DEF IsSent
<1>8. OnCompletedTask(m, e) =>
        \/ ~ remaining[m] > 0 /\ Replace(e, {})
        \/ remaining[m] > 0 /\ \E size \in TaskSizes : SendToNext(m, e, drawn(size))
  BY DEF OnCompletedTask, HasRemainingWorkload
<1> HIDE DEF f, drawn
<1>9. ASSUME NEW sent, IsSent(m, memory, e, sent), Replace(e, sent) PROVE Leaves(e)
  BY <1>9, ReplaceLeaves DEF memory
<1>10. CASE ~ e.processed
  BY <1>4, <1>5, <1>9, <1>10 DEF MasterOnTaskArrival
<1>11. CASE e.processed
  <2>1. OnCompletedTask(m, e)
    BY <1>11 DEF MasterOnTaskArrival
  <2> QED
    BY <1>4, <1>6, <1>7, <1>8, <1>9, <1>11, <2>1
<1> QED
  BY <1>10, <1>11

LEMMA HandlerLeaves ==
  ASSUME RoutesInv, pending = {}, NEW e, HasSender(e), Routed(e), Dispatch(e)
  PROVE  Leaves(e)
<1>1. /\ TypeOK /\ Supplied /\ fault = Running /\ e \in Event /\ Routable(e)
      /\ UNCHANGED fault
  BY HandlerRoutes, RoutedIsRoutable
     DEF RoutesInv, RoutingInv, TypeInv, NoFault, Routed
<1>2. e.to \in Masters => e.origin = e.to /\ workload[e.to] = "assigned"
  BY <1>1 DEF Routable, Supplied
<1>3. CASE e.to \in Links
  BY <1>1, <1>3, Kinds, LinkLeaves DEF Dispatch
<1>4. CASE e.to \in Switches
  <2>1. Emits(e.to, Memory(e.to), e) = PassEmits(e.to, e)
    BY <1>4, EmitsOf
  <2> QED
    BY <1>1, <1>4, <2>1, Kinds, ForwardLeaves DEF Dispatch, SwitchOnTaskArrival
<1>5. CASE e.to \in Machines
  BY <1>1, <1>5, Kinds, MachineLeaves DEF Dispatch
<1>6. CASE e.to \in Masters
  BY <1>1, <1>2, <1>6, Kinds, MasterLeaves DEF Dispatch
<1> QED
  BY <1>1, <1>3, <1>4, <1>5, <1>6, Kinds DEF Event
-----------------------------------------------------------------------------
(* What becomes final is a step of the sequential execution. *)

(* An event becomes final, seen from the state of the sequential execution. *)
CarriesOut(e, sent) ==
  /\ e \in outstanding /\ e \in Event /\ Routable(e)
  /\ \A f \in outstanding : e.time <= f.time
  /\ inits = {} /\ fault = Running /\ UNCHANGED <<inits, fault, workload>>
  /\ e.origin \in DOMAIN WorkloadSize => workload[e.origin] = "assigned"
  /\ IsSent(e.to, Final(e.to), e, sent)
  /\ outstanding' = (outstanding \ {e}) \cup sent
  /\ \A q \in Services : Final(q) \in MemoryType(q)
  /\ Final(e.to)' = Outcome(e.to, Final(e.to), e)
  /\ \A q \in Services \ {e.to} : Final(q)' = Final(q)
  /\ FinalTime' = e.time

LEMMA CarriesOutReady ==
  ASSUME NEW e, NEW sent, CarriesOut(e, sent)
  PROVE  Sequential!Ready(e) /\ Sequential!Replace(e, sent)
BY DEF CarriesOut, Sequential!Ready, Sequential!Replace, Sequential!Running, Running,
       Sequential!Nobody, Nobody

LEMMA OtherLinks ==
  ASSUME \A q \in Links : Final(q)' = Final(q) PROVE UNCHANGED Sequential!linkVars
BY DEF Sequential!linkVars

LEMMA OtherSwitches ==
  ASSUME \A q \in Switches : Final(q)' = Final(q) PROVE UNCHANGED Sequential!switchVars
BY DEF Sequential!switchVars

LEMMA OtherMachines ==
  ASSUME \A q \in Machines : Final(q)' = Final(q) PROVE UNCHANGED Sequential!machineVars
BY DEF Sequential!machineVars

LEMMA OtherMasters ==
  ASSUME \A q \in Masters : Final(q)' = Final(q), UNCHANGED workload
  PROVE  UNCHANGED Sequential!masterVars
BY DEF Sequential!masterVars

LEMMA LinkCarriesOut ==
  ASSUME NEW e, NEW sent, CarriesOut(e, sent), e.to \in Links
  PROVE  Sequential!LinkArrival
<1> DEFINE l == e.to
           memory == Final(l)
           available == [q \in Links |-> Final(q).available]
           metrics == [q \in Links |-> Final(q).metrics]
<1>1. /\ Final(l)' = LinkOutcome(l, memory, e)
      /\ \A q \in Links \ {l} : Final(q)' = Final(q)
  BY Kinds DEF CarriesOut, Outcome
<1>2. Sequential!LinkDeparture(l, e) = LinkOutcome(l, memory, e).available
  BY DEF Sequential!LinkDeparture, Sequential!LinkCommTime, LinkOutcome
<1>3. [q \in Links |-> Final(q).available]' =
        [available EXCEPT ![l] = Sequential!LinkDeparture(l, e)]
  BY <1>1, <1>2
<1>4. Sequential!LinkCount(l, e)
  <2>1. [q \in Links |-> Final(q).metrics]' =
          [metrics EXCEPT ![l] = LinkOutcome(l, memory, e).metrics]
    BY <1>1
  <2>2. LinkOutcome(l, memory, e).metrics =
          [metrics[l] EXCEPT !.commMBits = @ + e.commSize,
                             !.commTime  = @ + Sequential!LinkCommTime(l, e.commSize),
                             !.commTasks = @ + 1]
    BY DEF LinkOutcome, Sequential!LinkCommTime
  <2>3. metrics[l] \in LinkMetrics
    BY Kinds, MemoryFields DEF CarriesOut
  <2> QED
    BY <2>1, <2>2, <2>3 DEF Sequential!LinkCount, LinkMetrics
<1>5. e.previous \in {LinkFrom[l], LinkTo[l]}
  BY DEF CarriesOut, Routable
<1>6. Sequential!Replace(e, {[e EXCEPT !.to = Sequential!OtherEnd(l, e),
                                       !.time = Sequential!LinkDeparture(l, e),
                                       !.previous = l]})
  <2>1. Sequential!OtherEnd(l, e) = OtherEnd(l, e)
    BY DEF Sequential!OtherEnd, OtherEnd
  <2>2. Emits(l, memory, e) = LinkEmits(l, memory, e) /\ IsSent(l, memory, e, sent)
    BY EmitsOf DEF CarriesOut
  <2>3. sent = {[e EXCEPT !.to = Sequential!OtherEnd(l, e),
                          !.time = Sequential!LinkDeparture(l, e),
                          !.previous = l]}
    BY <1>2, <2>1, <2>2, Kinds DEF IsSent, NothingLeft, LinkEmits
  <2>4. Sequential!Replace(e, sent)
    BY CarriesOutReady
  <2> QED
    BY <2>3, <2>4
<1>7. Sequential!LinkOnTaskArrival(l, e)
  BY <1>3, <1>4, <1>5, <1>6 DEF Sequential!LinkOnTaskArrival
<1>8. UNCHANGED <<Sequential!switchVars, Sequential!machineVars, Sequential!masterVars>>
  BY Kinds, OtherSwitches, OtherMachines, OtherMasters DEF CarriesOut
<1> QED
  BY <1>7, <1>8, CarriesOutReady DEF Sequential!LinkArrival, CarriesOut

LEMMA ForwardCarriesOut ==
  ASSUME NEW e, NEW sent, CarriesOut(e, sent), e.to \in Switches \cup Machines,
         Emits(e.to, Final(e.to), e) = PassEmits(e.to, e)
  PROVE  Sequential!Forward(e.to, e)
<1> DEFINE path == RoutePath[<<e.source, e.destination>>]
           f(next) == [e EXCEPT !.to = next, !.previous = e.to,
                                !.offset = Sequential!NextOffset(e)]
<1>1. Sequential!HasRoute(e.source, e.destination)
  BY DEF CarriesOut, Routable, HasRoute, Sequential!HasRoute
<1>2. /\ Sequential!NextOffset(e) = NextOffset(e)
      /\ Sequential!RouteElement(path, e.offset) = RouteElement(path, e.offset)
  BY DEF Sequential!NextOffset, NextOffset, Sequential!Increment, Increment,
         Sequential!Decrement, Decrement, Sequential!RouteElement, RouteElement
<1>3. PICK next \in RouteElement(path, e.offset) : sent = {f(next)}
  <2>1. e.to \notin Masters
    BY Kinds
  <2>2. \E g \in PassEmits(e.to, e) : sent = {g}
    BY <2>1 DEF CarriesOut, IsSent, NothingLeft
  <2> QED
    BY <1>2, <2>2 DEF PassEmits
<1>4. Sequential!Replace(e, {f(next)})
  BY <1>3, CarriesOutReady
<1> HIDE DEF f, path
<1>5. next \in Sequential!RouteElement(path, e.offset)
  BY <1>2
<1> QED
  BY <1>1, <1>4, <1>5 DEF Sequential!Forward, f, path

LEMMA SwitchCarriesOut ==
  ASSUME NEW e, NEW sent, CarriesOut(e, sent), e.to \in Switches
  PROVE  Sequential!SwitchArrival
<1> DEFINE s == e.to
           memory == Final(s)
           available == [q \in Switches |-> Final(q).available]
           metrics == [q \in Switches |-> Final(q).metrics]
<1>1. /\ Final(s)' = SwitchOutcome(s, memory, e)
      /\ \A q \in Switches \ {s} : Final(q)' = Final(q)
  BY Kinds DEF CarriesOut, Outcome
<1>2. Sequential!SwitchDeparture(s, e) = SwitchOutcome(s, memory, e).available
  BY DEF Sequential!SwitchDeparture, Sequential!SwitchCommTime, SwitchOutcome
<1>3. [q \in Switches |-> Final(q).available]' =
        [available EXCEPT ![s] = Sequential!SwitchDeparture(s, e)]
  BY <1>1, <1>2
<1>4. Sequential!SwitchCount(s, e)
  <2>1. [q \in Switches |-> Final(q).metrics]' =
          [metrics EXCEPT ![s] = SwitchOutcome(s, memory, e).metrics]
    BY <1>1
  <2>2. SwitchOutcome(s, memory, e).metrics =
          [metrics[s] EXCEPT !.lastActivityTime = Sequential!SwitchDeparture(s, e),
                             !.commMBits   = @ + e.commSize,
                             !.commTime    = @ + Sequential!SwitchCommTime(s, e.commSize),
                             !.commPackets = @ + 1]
    BY DEF SwitchOutcome, Sequential!SwitchDeparture, Sequential!SwitchCommTime
  <2>3. metrics[s] \in SwitchMetrics
    BY Kinds, MemoryFields DEF CarriesOut
  <2> QED
    BY <2>1, <2>2, <2>3 DEF Sequential!SwitchCount, SwitchMetrics
<1>5. Emits(s, memory, e) = PassEmits(s, e)
  BY EmitsOf
<1>6. Sequential!SwitchOnTaskArrival(s, e)
  BY <1>3, <1>4, <1>5, ForwardCarriesOut DEF Sequential!SwitchOnTaskArrival
<1>7. UNCHANGED <<Sequential!linkVars, Sequential!machineVars, Sequential!masterVars>>
  BY Kinds, OtherLinks, OtherMachines, OtherMasters DEF CarriesOut
<1> QED
  BY <1>6, <1>7, CarriesOutReady DEF Sequential!SwitchArrival, CarriesOut

LEMMA MachinePassesOn ==
  ASSUME NEW e, NEW sent, CarriesOut(e, sent), e.to \in Machines, e.destination # e.to
  PROVE  Sequential!MachineForward(e.to, e)
<1> DEFINE m == e.to
           memory == Final(m)
           metrics == [q \in Machines |-> Final(q).metrics]
<1>1. /\ Final(m)' = PassOutcome(memory, e)
      /\ \A q \in Machines \ {m} : Final(q)' = Final(q)
  BY Kinds DEF CarriesOut, Outcome
<1>2. metrics[m] \in MachineMetrics
  BY Kinds, MemoryFields DEF CarriesOut
<1>3. [q \in Machines |-> Final(q).metrics]' =
        [metrics EXCEPT ![m].lastActivityTime = e.time, ![m].forwardedPackets = @ + 1]
  <2>1. [q \in Machines |-> Final(q).metrics]' =
          [metrics EXCEPT ![m] = PassOutcome(memory, e).metrics]
    BY <1>1
  <2>2. PassOutcome(memory, e).metrics =
          [metrics[m] EXCEPT !.lastActivityTime = e.time, !.forwardedPackets = @ + 1]
    BY DEF PassOutcome
  <2> QED
    BY <1>2, <2>1, <2>2 DEF MachineMetrics
<1>4. UNCHANGED [q \in Machines |-> Final(q).coreFreeTimes]
  BY <1>1 DEF PassOutcome
<1>5. Emits(m, memory, e) = PassEmits(m, e)
  BY EmitsOf DEF MachineEmits
<1> QED
  BY <1>3, <1>4, <1>5, ForwardCarriesOut DEF Sequential!MachineForward

LEMMA MachineCarriesOutTask ==
  ASSUME NEW e, NEW sent, CarriesOut(e, sent), e.to \in Machines, e.destination = e.to
  PROVE  Sequential!MachineProcess(e.to, e)
<1> DEFINE m == e.to
           memory == Final(m)
           free == memory.coreFreeTimes
           times == [q \in Machines |-> Final(q).coreFreeTimes]
           metrics == [q \in Machines |-> Final(q).metrics]
<1>1. /\ Final(m)' = ProcessOutcome(m, memory, e)
      /\ \A q \in Machines \ {m} : Final(q)' = Final(q)
  BY Kinds DEF CarriesOut, Outcome
<1>2. metrics[m] \in MachineMetrics /\ free \in CoreTimes(m) /\ times[m] = free
  BY Kinds, MemoryFields DEF CarriesOut
<1>3. IsSent(m, memory, e, sent) /\ Emits(m, memory, e) = ProcessEmits(m, free, e)
  BY EmitsOf DEF CarriesOut, MachineEmits
<1>4. PICK c \in FirstFree(m, free) :
        sent = {[e EXCEPT !.to = e.previous, !.time = CoreEnd(m, free, c, e),
                          !.processed = TRUE, !.previous = m,
                          !.offset = AnswerOffset(e.offset), !.forward = FALSE]}
  BY <1>3, Kinds DEF IsSent, NothingLeft, ProcessEmits
<1>5. /\ c \in 0 .. Cores[m] - 1 /\ IsFirstFree(m, free, c)
      /\ c = CHOOSE d \in 0 .. Cores[m] - 1 : IsFirstFree(m, free, d)
  BY <1>2, <1>4, OneFirstCore DEF FirstFree
<1>6. Sequential!CoreDeparture(m, c, e) = CoreEnd(m, free, c, e)
  BY <1>2 DEF Sequential!CoreDeparture, Sequential!TimeToProcess, CoreEnd
<1>7. Sequential!AttendingCore(m, c)
  BY <1>2, <1>5 DEF Sequential!AttendingCore, IsFirstFree
<1>8. times' = [times EXCEPT ![m][c] = Sequential!CoreDeparture(m, c, e)]
  <2>1. times' = [times EXCEPT ![m] = ProcessOutcome(m, memory, e).coreFreeTimes]
    BY <1>1
  <2>2. ProcessOutcome(m, memory, e).coreFreeTimes =
          [free EXCEPT ![c] = CoreEnd(m, free, c, e)]
    BY <1>5 DEF ProcessOutcome, CoreEnd
  <2> QED
    BY <1>2, <1>6, <2>1, <2>2
<1>9. metrics' = [metrics EXCEPT
                    ![m].lastActivityTime = e.time,
                    ![m].procMFlops = @ + e.procSize,
                    ![m].procTime   = @ + Sequential!TimeToProcess(m, e.procSize),
                    ![m].procTasks  = @ + 1]
  <2>1. metrics' = [metrics EXCEPT ![m] = ProcessOutcome(m, memory, e).metrics]
    BY <1>1
  <2>2. ProcessOutcome(m, memory, e).metrics =
          [metrics[m] EXCEPT !.lastActivityTime = e.time,
                             !.procMFlops = @ + e.procSize,
                             !.procTime   = @ + Sequential!TimeToProcess(m, e.procSize),
                             !.procTasks  = @ + 1]
    BY DEF ProcessOutcome, Sequential!TimeToProcess
  <2> QED
    BY <1>2, <2>1, <2>2 DEF MachineMetrics
<1>10. Sequential!Replace(e, {[e EXCEPT !.to = e.previous,
                                        !.time = Sequential!CoreDeparture(m, c, e),
                                        !.processed = TRUE,
                                        !.previous = m,
                                        !.offset = Sequential!AnswerOffset(e.offset),
                                        !.forward = FALSE]})
  <2>1. Sequential!AnswerOffset(e.offset) = AnswerOffset(e.offset)
    BY DEF Sequential!AnswerOffset, AnswerOffset, Sequential!Decrement, Decrement
  <2>2. Sequential!Replace(e, sent)
    BY CarriesOutReady
  <2> QED
    BY <1>4, <1>6, <2>1, <2>2
<1> QED
  BY <1>5, <1>7, <1>8, <1>9, <1>10 DEF Sequential!MachineProcess

LEMMA MachineCarriesOut ==
  ASSUME NEW e, NEW sent, CarriesOut(e, sent), e.to \in Machines
  PROVE  Sequential!MachineArrival
<1>1. Sequential!MachineOnTaskArrival(e.to, e)
  BY MachinePassesOn, MachineCarriesOutTask DEF Sequential!MachineOnTaskArrival
<1>2. UNCHANGED <<Sequential!linkVars, Sequential!switchVars, Sequential!masterVars>>
  BY Kinds, OtherLinks, OtherSwitches, OtherMasters DEF CarriesOut
<1> QED
  BY <1>1, <1>2, CarriesOutReady DEF Sequential!MachineArrival, CarriesOut

LEMMA TaskCarriesOut ==
  ASSUME NEW e, NEW sent, CarriesOut(e, sent), e.to \in Masters,
         NEW t, sent = {ToSlave(e.to, NextSlave(e.to, Final(e.to)), e.time, t)},
         Final(e.to)'.nextResource =
           (Final(e.to).nextResource + 1) % Len(Slaves[e.to])
  PROVE  Sequential!SendToNext(e.to, e, t)
<1> DEFINE m == e.to
           memory == Final(m)
           next == [q \in Masters |-> Final(q).nextResource]
<1>1. next[m] \in Nat /\ next[m] = memory.nextResource /\ next[m] + 0 = next[m]
  BY Kinds, MemoryFields DEF CarriesOut
<1>2. \A q \in Masters \ {m} : Final(q)' = Final(q)
  BY Kinds DEF CarriesOut
<1>3. Slaves[m] # <<>> /\ \A s \in SlaveSet(m) : HasRoute(m, s)
  BY DEF CarriesOut, Routable
<1>4. NextSlave(m, memory) \in SlaveSet(m)
  <2>1. Len(Slaves[m]) \in Nat \ {0} /\ DOMAIN Slaves[m] = 1 .. Len(Slaves[m])
    <3>1. Slaves[m] \in Seq(Masters \cup Machines)
      BY MasterAssumption
    <3> QED
      BY <1>3, <3>1
  <2>2. memory.nextResource % Len(Slaves[m]) \in 0 .. Len(Slaves[m]) - 1
    BY <1>1, <2>1
  <2>3. (memory.nextResource % Len(Slaves[m])) + 1 \in DOMAIN Slaves[m]
    BY <2>1, <2>2
  <2> QED
    BY <2>3 DEF NextSlave, SlaveSet
<1>5. Sequential!Slave(m, 0) = NextSlave(m, memory)
  BY <1>1 DEF Sequential!Slave, NextSlave
<1>6. Sequential!HasRoute(m, Sequential!Slave(m, 0))
  BY <1>3, <1>4, <1>5 DEF HasRoute, Sequential!HasRoute
<1>7. Sequential!ToSlave(m, Sequential!Slave(m, 0), e.time, t)
        = ToSlave(m, NextSlave(m, memory), e.time, t)
  BY <1>5 DEF Sequential!ToSlave, ToSlave
<1>8. Sequential!Replace(e, {Sequential!ToSlave(m, Sequential!Slave(m, 0), e.time, t)})
  BY <1>7, CarriesOutReady
<1>9. next' = [next EXCEPT ![m] = Sequential!Advanced(m, 1)]
  <2>1. Sequential!Advanced(m, 1) = Final(m)'.nextResource
    BY <1>1 DEF Sequential!Advanced
  <2> QED
    BY <1>2, <2>1
<1> QED
  BY <1>3, <1>6, <1>8, <1>9 DEF Sequential!SendToNext

LEMMA MasterCarriesOut ==
  ASSUME NEW e, NEW sent, CarriesOut(e, sent), e.to \in Masters
  PROVE  Sequential!MasterArrival
<1> DEFINE m == e.to
           memory == Final(m)
           left == [q \in Masters |-> Final(q).remaining]
           next == [q \in Masters |-> Final(q).nextResource]
           metrics == [q \in Masters |-> Final(q).metrics]
<1>1. /\ Final(m)' = MasterOutcome(m, memory, e)
      /\ \A q \in Masters \ {m} : Final(q)' = Final(q)
  BY Kinds DEF CarriesOut, Outcome
<1>2. /\ metrics[m] \in MasterMetrics /\ left[m] \in Nat /\ next[m] \in Nat
      /\ left[m] = memory.remaining /\ next[m] = memory.nextResource
  BY Kinds, MemoryFields DEF CarriesOut
<1>3. e.origin = m /\ workload[m] = "assigned"
  BY DEF CarriesOut, Routable
<1>4. Sequential!MasterCount(m, e)
  <2>1. metrics' = [metrics EXCEPT ![m] = MasterOutcome(m, memory, e).metrics]
    BY <1>1
  <2>2. MasterOutcome(m, memory, e).metrics =
          [metrics[m] EXCEPT !.lastActivityTime = e.time,
                             !.completedTasks = IF e.processed THEN @ + 1 ELSE @]
    BY DEF MasterOutcome
  <2> QED
    BY <1>2, <2>1, <2>2 DEF Sequential!MasterCount, MasterMetrics
<1>5. /\ IsSent(m, memory, e, sent) /\ Emits(m, memory, e) = MasterEmits(m, memory, e)
  BY EmitsOf DEF CarriesOut
<1>6. ASSUME ~ e.processed PROVE Sequential!SendToNext(m, e, e) /\ left' = left
  <2>1. sent = {ToSlave(m, NextSlave(m, memory), e.time, e)}
    BY <1>5, <1>6 DEF IsSent, NothingLeft, MasterEmits
  <2>2. /\ Final(m)'.nextResource = (memory.nextResource + 1) % Len(Slaves[m])
        /\ Final(m)'.remaining = memory.remaining
    BY <1>1, <1>6 DEF MasterOutcome
  <2>3. Sequential!SendToNext(m, e, e)
    BY <2>1, <2>2, TaskCarriesOut
  <2>4. left' = left
    BY <1>1, <2>2
  <2> QED
    BY <2>3, <2>4
<1>7. ASSUME e.processed, memory.remaining > 0 PROVE Sequential!OnCompletedTask(m, e)
  <2>1. PICK size \in TaskSizes :
          sent = {ToSlave(m, NextSlave(m, memory), e.time,
                          NewTask("scheduler", m, memory.remaining, size))}
    BY <1>5, <1>7 DEF IsSent, NothingLeft, MasterEmits
  <2>2. /\ Final(m)'.nextResource = (memory.nextResource + 1) % Len(Slaves[m])
        /\ Final(m)'.remaining = memory.remaining - 1
    BY <1>1, <1>3, <1>7 DEF MasterOutcome
  <2> DEFINE t == NewTask("scheduler", m, memory.remaining, size)
  <2>3. Sequential!SendToNext(m, e, t)
    <3>1. sent = {ToSlave(m, NextSlave(m, memory), e.time, t)}
      BY <2>1
    <3> HIDE DEF t
    <3> QED
      BY <2>2, <3>1, TaskCarriesOut
  <2>4. Sequential!NewTask("scheduler", m, Sequential!TaskNumber(m, 0), size) = t
    <3>1. Sequential!TaskNumber(m, 0) = memory.remaining
      BY <1>2 DEF Sequential!TaskNumber
    <3> QED
      BY <3>1 DEF Sequential!NewTask, NewTask, Sequential!Szudzik, Szudzik, Sequential!Nobody,
                  Nobody
  <2>5. left' = [left EXCEPT ![m] = @ - 1]
    BY <1>1, <2>2
  <2>6. Sequential!HasRemainingWorkload(m)
    BY <1>2, <1>7 DEF Sequential!HasRemainingWorkload
  <2> HIDE DEF t
  <2>7. Sequential!SendToNext(m, e,
          Sequential!NewTask("scheduler", m, Sequential!TaskNumber(m, 0), size))
    BY <2>3, <2>4
  <2> QED
    BY <1>3, <2>5, <2>6, <2>7 DEF Sequential!OnCompletedTask
<1>8. ASSUME e.processed, ~ memory.remaining > 0 PROVE Sequential!OnCompletedTask(m, e)
  <2>1. sent = {}
    BY <1>5, <1>8 DEF IsSent, MasterEmits
  <2>2. left' = left /\ next' = next
    BY <1>1, <1>8 DEF MasterOutcome
  <2>3. ~ Sequential!HasRemainingWorkload(m)
    BY <1>2, <1>8 DEF Sequential!HasRemainingWorkload
  <2>4. Sequential!Replace(e, {})
    BY <2>1, CarriesOutReady
  <2> QED
    BY <1>3, <2>2, <2>3, <2>4 DEF Sequential!OnCompletedTask
<1>9. Sequential!MasterOnTaskArrival(m, e)
  BY <1>3, <1>4, <1>6, <1>7, <1>8 DEF Sequential!MasterOnTaskArrival, CarriesOut
<1>10. UNCHANGED <<Sequential!linkVars, Sequential!switchVars, Sequential!machineVars>>
  BY Kinds, OtherLinks, OtherSwitches, OtherMachines DEF CarriesOut
<1> QED
  BY <1>9, <1>10, CarriesOutReady DEF Sequential!MasterArrival, CarriesOut

LEMMA CarriesOutIsNext == ASSUME NEW e, NEW sent, CarriesOut(e, sent) PROVE Sequential!Next
<1>1. e.to \in Links \cup Switches \cup Machines \cup Masters
  BY Kinds DEF CarriesOut, Event
<1> QED
  BY <1>1, LinkCarriesOut, SwitchCarriesOut, MachineCarriesOut, MasterCarriesOut
     DEF Sequential!Next
-----------------------------------------------------------------------------
(* What the logs hold has been sent by handlers, each time from the memory
   before the event and with the sizes that the random numbers give. *)
SentFrom(p, memory, entry) ==
  /\ IsSent(p, memory, entry.message.event, EventsOf(entry.sent))
  /\ DrawsAsSeeded(EventsOf(entry.sent))

LogSends ==
  \A p \in Services : \A i \in 1 .. Len(log[p]) : SentFrom(p, MemoryAfter(p, i - 1), log[p][i])

(* What is sent by final executions, and not final, is not before them. *)
FinalInOrder ==
  \A p \in Services : \A i \in 1 .. committed[p] : \A f \in outstanding :
    log[p][i].message.event.time <= f.time

SequentialInv == RoutesInv /\ LogSends /\ FinalInOrder

LEMMA SequentialInvParts ==
  ASSUME SequentialInv
  PROVE  /\ ReplayInv /\ RoutingInv /\ QueueRoutes /\ LoggedRoutes /\ LogSends /\ FinalInOrder
         /\ TimeWarpInv /\ TypeInv /\ TypeOK /\ LogsOK /\ MarksOK /\ QueuesOK
         /\ SimulatorBuilderTypeOK
         /\ fault = Running /\ LogIsExecution /\ Supplied /\ WellRouted
         /\ \A q \in Services : Memory(q) = MemoryAfter(q, replayed[q])
BY DEF SequentialInv, RoutesInv, RoutingInv, NoFault, ReplayInv, TimeWarpInv, KernelType,
       TypeInv, MemoryIsReplayed

(* Steps that add nothing to the logs. *)
LogsKept ==
  \A q \in Services : \A i \in 1 .. Len(log'[q]) :
    /\ i \in 1 .. Len(log[q]) /\ log'[q][i] = log[q][i]
    /\ MemoryAfter(q, i - 1)' = MemoryAfter(q, i - 1)

LEMMA LogsKeptSends == ASSUME LogSends, LogsKept PROVE LogSends'
<1> SUFFICES ASSUME NEW q \in Services, NEW i \in 1 .. Len(log'[q])
             PROVE  SentFrom(q, MemoryAfter(q, i - 1)', log'[q][i])
  BY DEF LogSends, SentFrom
<1>1. /\ i \in 1 .. Len(log[q]) /\ log'[q][i] = log[q][i]
      /\ MemoryAfter(q, i - 1)' = MemoryAfter(q, i - 1)
  BY DEF LogsKept
<1> QED
  BY <1>1 DEF LogSends

LEMMA SameLogsKept == ASSUME UNCHANGED <<log, loaded>> PROVE LogsKept
BY DEF LogsKept, MemoryAfter

LEMMA StartLogsKept == ASSUME ReplayInv, StartScheduler PROVE LogsKept
<1>1. /\ SchedulerInit /\ UNCHANGED log /\ LogsOK /\ TypeOK /\ SchedulersWait
      /\ loaded' = [p \in Services |-> IF p \in inits \ inits' THEN Memory(p)' ELSE loaded[p]]
  BY DEF StartScheduler, ReplayInv, TimeWarpInv, KernelType, TypeInv
<1>2. SUFFICES ASSUME NEW q \in Services, NEW i \in 1 .. Len(log[q])
               PROVE  MemoryAfter(q, i - 1)' = MemoryAfter(q, i - 1)
  BY <1>1 DEF LogsKept
<1>3. q \notin inits
  <2>1. Len(log[q]) # 0
    OBVIOUS
  <2> QED
    BY <1>1, <2>1 DEF SchedulersWait
<1>4. loaded'[q] = loaded[q]
  BY <1>1, <1>3
<1> QED
  BY <1>1, <1>4 DEF MemoryAfter

LEMMA RollbackLogsKept ==
  ASSUME TimeWarpInv, NEW m, Straggler(m) \/ AntiMessage(m) PROVE LogsKept
<1> DEFINE e == m.event
<1>1. LogsOK /\ MarksOK /\ e.to \in Services
  BY RollbackPlace DEF TimeWarpInv, KernelType
<1>2. PICK k : RightPlace(e.to, k, e) /\ RolledBack(e.to, k)
  BY RollbackPlace
<1>3. Len(log[e.to]) \in Nat /\ committed[e.to] \in Nat
  BY <1>1, LogLength DEF MarksOK
<1>4. k \in 0 .. Len(log[e.to])
  BY <1>2, <1>3 DEF RightPlace
<1>5. /\ Len(log'[e.to]) = k
      /\ \A i \in 1 .. k : log'[e.to][i] = log[e.to][i]
      /\ \A q \in Services \ {e.to} : log'[q] = log[q]
  BY <1>1, <1>2, <1>4, LogIsCut DEF RolledBack
<1>6. UNCHANGED loaded
  BY <1>2 DEF RolledBack
<1>7. \A q \in Services : \A i \in 1 .. Len(log'[q]) :
        i \in 1 .. Len(log[q]) /\ log'[q][i] = log[q][i]
  BY <1>3, <1>4, <1>5
<1> SUFFICES ASSUME NEW q \in Services, NEW i \in 1 .. Len(log'[q])
             PROVE  MemoryAfter(q, i - 1)' = MemoryAfter(q, i - 1)
  BY <1>7 DEF LogsKept
<1>8. CASE i = 1
  BY <1>6, <1>8 DEF MemoryAfter
<1>9. CASE i # 1
  <2>1. Len(log'[q]) \in Nat
    BY <1>1, <1>4, <1>5, LogLength
  <2>2. i - 1 \in 1 .. Len(log'[q]) /\ i - 1 # 0
    BY <1>9, <2>1
  <2>3. log'[q][i - 1] = log[q][i - 1]
    BY <1>7, <2>2
  <2> QED
    BY <2>2, <2>3 DEF MemoryAfter
<1> QED
  BY <1>8, <1>9

(* The log of the service gets one entry, after the n it has. *)
ExtendsLog(m, c, n) ==
  LET p == m.event.to IN
  /\ Len(log[p]) = n /\ Len(log'[p]) = n + 1
  /\ \A i \in 1 .. n : log'[p][i] = log[p][i]
  /\ log'[p][n + 1] = NewEntry(m, c)
  /\ \A q \in Services \ {p} : log'[q] = log[q]
  /\ \A q \in Services : \A k \in 0 .. Len(log[q]) : MemoryAfter(q, k)' = MemoryAfter(q, k)
  /\ MemoryAfter(p, n) = Memory(p)
  /\ EventsOf(Copies(pending', c)) = pending'

LEMMA ExecuteExtends ==
  ASSUME SequentialInv, NEW m, Execute(m) PROVE \E c, n \in Nat : ExtendsLog(m, c, n)
<1> DEFINE p == m.event.to
<1>1. /\ TimeWarpInv /\ LogsOK
      /\ \A q \in Services : Memory(q) = MemoryAfter(q, replayed[q])
  BY SequentialInvParts
<1>2. p \in Services /\ UNCHANGED loaded
  BY <1>1, ExecuteFacts
<1>3. PICK c \in Nat :
        /\ NewEntry(m, c) \in Entry(p) /\ EventsOf(Copies(pending', c)) = pending'
        /\ log' = [log EXCEPT ![p] = Append(@, NewEntry(m, c))]
  BY <1>1, ExecuteFacts
<1> HIDE DEF p
<1>4. PICK n \in Nat : Len(log[p]) = n
  BY <1>1, <1>2, LogLength
<1>5. /\ Len(log'[p]) = n + 1
      /\ \A i \in 1 .. n : log'[p][i] = log[p][i]
      /\ log'[p][n + 1] = NewEntry(m, c)
      /\ \A q \in Services \ {p} : log'[q] = log[q]
  BY <1>1, <1>2, <1>3, <1>4, EntryIsAppended
<1>6. ASSUME NEW q \in Services, NEW k \in 0 .. Len(log[q])
      PROVE  MemoryAfter(q, k)' = MemoryAfter(q, k)
  <2>1. CASE k = 0
    BY <1>2, <2>1 DEF MemoryAfter
  <2>2. CASE k # 0
    <3>1. k \in 1 .. Len(log[q])
      BY <1>1, <2>2, LogLength
    <3>2. log'[q][k] = log[q][k]
      BY <1>4, <1>5, <3>1
    <3> QED
      BY <2>2, <3>2 DEF MemoryAfter
  <2> QED
    BY <2>1, <2>2
<1>7. replayed[p] = n
  BY <1>2, <1>4 DEF Execute, Settled, UpToDate
<1> QED
  BY <1>1, <1>2, <1>3, <1>4, <1>5, <1>6, <1>7 DEF ExtendsLog, p

LEMMA ExecuteLogs == ASSUME SequentialInv, NEW m, Execute(m) PROVE LogSends'
<1> DEFINE p == m.event.to
<1>1. /\ TimeWarpInv /\ LogsOK /\ LogSends /\ RoutesInv /\ QueueRoutes
  BY SequentialInvParts DEF SequentialInv
<1>2. p \in Services /\ HasSender(m.event) /\ m \in queue
  BY <1>1, ExecuteFacts
<1>3. PICK c, n \in Nat : ExtendsLog(m, c, n)
  BY ExecuteExtends
<1>4. Dispatch(m.event) /\ DrawsAsSeeded(pending') /\ pending = {}
  BY DEF Execute, Settled
<1>5. Routed(m.event)
  BY <1>1, <1>2 DEF QueueRoutes
<1>6. IsSent(p, Memory(p), m.event, pending')
  BY <1>1, <1>2, <1>4, <1>5, HandlerLeaves DEF Leaves
<1>7. SentFrom(p, Memory(p), NewEntry(m, c))
  <2>1. NewEntry(m, c).message = m /\ NewEntry(m, c).sent = Copies(pending', c)
    BY DEF NewEntry
  <2>2. EventsOf(NewEntry(m, c).sent) = pending'
    BY <1>3, <2>1 DEF ExtendsLog
  <2> QED
    BY <1>4, <1>6, <2>1, <2>2 DEF SentFrom
<1>8. \A k \in 0 .. n : MemoryAfter(p, k)' = MemoryAfter(p, k)
  BY <1>2, <1>3 DEF ExtendsLog
<1>9. Memory(p) = MemoryAfter(p, n) /\ n \in 0 .. n
  BY <1>3 DEF ExtendsLog
<1>10. /\ Len(log[p]) = n /\ Len(log'[p]) = n + 1
       /\ \A i \in 1 .. n : log'[p][i] = log[p][i]
       /\ log'[p][n + 1] = NewEntry(m, c)
       /\ \A q \in Services \ {p} : log'[q] = log[q]
       /\ \A q \in Services : \A k \in 0 .. Len(log[q]) : MemoryAfter(q, k)' = MemoryAfter(q, k)
  BY <1>3 DEF ExtendsLog
<1> HIDE DEF p
<1> SUFFICES ASSUME NEW q \in Services, NEW i \in 1 .. Len(log'[q])
             PROVE  SentFrom(q, MemoryAfter(q, i - 1)', log'[q][i])
  BY DEF LogSends, SentFrom
<1>11. CASE q = p /\ i = n + 1
  <2>1. log'[q][i] = NewEntry(m, c) /\ i - 1 = n
    BY <1>10, <1>11
  <2>2. MemoryAfter(q, i - 1)' = Memory(p)
    <3>1. PICK k \in 0 .. n : k = n
      BY <1>9
    <3>2. MemoryAfter(p, k)' = Memory(p)
      BY <1>8, <1>9, <3>1
    <3> QED
      BY <1>11, <2>1, <3>1, <3>2
  <2> QED
    BY <1>7, <1>11, <2>1, <2>2
<1>12. CASE ~ (q = p /\ i = n + 1)
  <2>1. i \in 1 .. Len(log[q]) /\ log'[q][i] = log[q][i]
    BY <1>10, <1>12
  <2>2. i - 1 \in 0 .. Len(log[q])
    BY <1>1, <2>1, LogLength
  <2>3. MemoryAfter(q, i - 1)' = MemoryAfter(q, i - 1)
    BY <1>10, <2>2
  <2> QED
    BY <1>1, <2>1, <2>3 DEF LogSends
<1> QED
  BY <1>11, <1>12

-----------------------------------------------------------------------------
(* Final events, final memories and the time of the last final event. *)

LEMMA LatestIs ==
  ASSUME NEW S \in SUBSET Nat, NEW t \in S, \A x \in S : x <= t PROVE Max(S) = t
<1>1. \A x \in S : t >= x
  OBVIOUS
<1>2. \A u \in S : (\A x \in S : u >= x) => u = t
  OBVIOUS
<1> QED
  BY <1>1, <1>2 DEF Max

FinalTimes == {0} \cup UNION {{log[p][i].message.event.time : i \in 1 .. committed[p]} : p \in Services}

LEMMA FinalTimeIs ==
  /\ FinalTime = Max(FinalTimes)
  /\ \A x : x \in FinalTimes <=>
              x = 0 \/ \E p \in Services : \E i \in 1 .. committed[p] : x = log[p][i].message.event.time
BY DEF FinalTime, FinalTimes

LEMMA FinalPlaces ==
  ASSUME LogsOK, MarksOK, NEW q \in Services, NEW i \in 1 .. committed[q]
  PROVE  i \in 1 .. Len(log[q]) /\ log[q][i].message.event.time \in Nat
<1>1. /\ Len(log[q]) \in Nat /\ committed[q] \in Nat /\ committed[q] <= Len(log[q])
  BY LogLength DEF MarksOK
<1>2. i \in 1 .. Len(log[q])
  BY <1>1
<1> QED
  BY <1>2, EntryFields

LEMMA FinalMemoryType ==
  ASSUME LogsOK, MarksOK, NEW q \in Services PROVE Final(q) \in MemoryType(q)
<1>1. committed[q] \in 0 .. Len(log[q])
  BY LogLength DEF MarksOK
<1> QED
  BY <1>1, MemoryAfterType DEF Final

(* Steps after which the same events are final. *)
LEMMA SameFinal ==
  ASSUME LogsOK, MarksOK, FinalKept, UNCHANGED <<committed, loaded>>
  PROVE  (\A q \in Services : Final(q)' = Final(q)) /\ FinalTime' = FinalTime
<1>1. \A q \in Services : \A i \in 1 .. committed[q] : log'[q][i] = log[q][i]
  BY DEF FinalKept
<1>2. ASSUME NEW q \in Services PROVE Final(q)' = Final(q)
  <2>1. CASE committed[q] = 0
    BY <2>1 DEF Final, MemoryAfter
  <2>2. CASE committed[q] # 0
    <3>1. committed[q] \in 1 .. committed[q]
      BY <2>2 DEF MarksOK
    <3>2. log'[q][committed[q]] = log[q][committed[q]]
      BY <1>1, <3>1
    <3> QED
      BY <2>2, <3>2 DEF Final, MemoryAfter
  <2> QED
    BY <2>1, <2>2
<1>3. \A x : x \in FinalTimes' <=>
               x = 0 \/ \E p \in Services : \E i \in 1 .. committed[p] : x = log'[p][i].message.event.time
  BY DEF FinalTimes
<1>4. \A x : x \in FinalTimes' <=> x \in FinalTimes
  BY <1>1, <1>3, FinalTimeIs
<1>5. FinalTimes' = FinalTimes
  BY <1>4
<1>6. FinalTime' = Max(FinalTimes')
  BY DEF FinalTime, FinalTimes
<1> QED
  BY <1>2, <1>5, <1>6, FinalTimeIs

LEMMA FinalInOrderKept ==
  ASSUME FinalInOrder, FinalKept, UNCHANGED <<committed, outstanding>> PROVE FinalInOrder'
BY DEF FinalInOrder, FinalKept

(* One more event of p is final. *)
BecomesFinal(p, e, sent) ==
  /\ CanCommit(p)
  /\ e = log[p][committed[p] + 1].message.event
  /\ sent = EventsOf(log[p][committed[p] + 1].sent)
  /\ outstanding' = (outstanding \ {e}) \cup sent
  /\ committed' = [committed EXCEPT ![p] = @ + 1]
  /\ UNCHANGED <<vars, log, loaded>>

LEMMA CommitIs ==
  ASSUME Commit PROVE \E p \in Services : \E e, sent : BecomesFinal(p, e, sent)
BY DEF Commit, BecomesFinal

LEMMA CommitFacts ==
  ASSUME SequentialInv, NEW p \in Services, NEW e, NEW sent, BecomesFinal(p, e, sent)
  PROVE  /\ committed[p] \in Nat /\ committed[p] + 1 \in 1 .. Len(log[p])
         /\ committed'[p] = committed[p] + 1
         /\ \A q \in Services \ {p} : committed'[q] = committed[q]
         /\ e \in Event /\ e.to = p /\ Logged(e) /\ e.time \in Nat
         /\ e \in outstanding /\ \A f \in outstanding : e.time <= f.time
         /\ inits = {}
         /\ \A f \in sent : f \in Event /\ f.time >= e.time
<1>1. LogsOK /\ MarksOK /\ TimeWarpInv
  BY SequentialInvParts
<1>2. committed[p] \in Nat /\ committed[p] + 1 \in 1 .. Len(log[p])
  BY <1>1, LogLength DEF MarksOK, BecomesFinal, CanCommit
<1>3. PICK i \in 1 .. Len(log[p]) : i = committed[p] + 1
  BY <1>2
<1>4. e = log[p][i].message.event /\ sent = EventsOf(log[p][i].sent)
  BY <1>3 DEF BecomesFinal
<1>5. /\ e \in Event /\ e.to = p /\ Logged(e) /\ e.time \in Nat
      /\ log[p][i].sent \in SUBSET Message
  BY <1>1, <1>4, EntryFields DEF Logged
<1>6. ASSUME NEW f \in sent PROVE f \in Event /\ f.time >= e.time
  <2>1. PICK g \in log[p][i].sent : f = g.event
    BY <1>4, <1>6 DEF EventsOf
  <2> QED
    BY <1>1, <1>4, <1>5, <2>1 DEF TimeWarpInv, SentLater, Message
<1>7. /\ committed'[p] = committed[p] + 1
      /\ \A q \in Services \ {p} : committed'[q] = committed[q]
  BY <1>1 DEF BecomesFinal, MarksOK
<1>8. e \in outstanding /\ inits = {} /\ \A f \in outstanding : e.time <= f.time
  BY DEF BecomesFinal, CanCommit
<1> QED
  BY <1>2, <1>5, <1>6, <1>7, <1>8

LEMMA CommitOrder ==
  ASSUME SequentialInv, NEW p \in Services, NEW e, NEW sent, BecomesFinal(p, e, sent)
  PROVE  FinalInOrder' /\ FinalTime' = e.time
<1>1. LogsOK /\ MarksOK /\ FinalInOrder
  BY SequentialInvParts
<1>2. /\ committed[p] \in Nat /\ committed'[p] = committed[p] + 1
      /\ \A q \in Services \ {p} : committed'[q] = committed[q]
      /\ e \in outstanding /\ \A f \in outstanding : e.time <= f.time
      /\ e.time \in Nat
      /\ \A f \in sent : f \in Event /\ f.time >= e.time
  BY CommitFacts
<1>3. /\ UNCHANGED log /\ e = log[p][committed[p] + 1].message.event
      /\ outstanding' = (outstanding \ {e}) \cup sent
  BY DEF BecomesFinal
<1>4. outstanding \subseteq Event
  BY SequentialInvParts DEF QueuesOK
<1>5. ASSUME NEW q \in Services, NEW i \in 1 .. committed'[q]
      PROVE  (q = p /\ i = committed[p] + 1) \/ i \in 1 .. committed[q]
  BY <1>2
<1>6. ASSUME NEW q \in Services, NEW i \in 1 .. committed'[q]
      PROVE  log[q][i].message.event.time \in Nat /\ log[q][i].message.event.time <= e.time
  <2>1. CASE q = p /\ i = committed[p] + 1
    BY <1>2, <1>3, <2>1
  <2>2. CASE i \in 1 .. committed[q]
    BY <1>1, <1>2, <2>2, FinalPlaces DEF FinalInOrder
  <2> QED
    BY <1>5, <2>1, <2>2
<1>7. \A f \in outstanding' : f.time \in Nat /\ e.time <= f.time
  BY <1>2, <1>3, <1>4 DEF Event
<1>8. FinalInOrder'
  <2> SUFFICES ASSUME NEW q \in Services, NEW i \in 1 .. committed'[q], NEW f \in outstanding'
               PROVE  log[q][i].message.event.time <= f.time
    BY <1>3 DEF FinalInOrder
  <2> QED
    BY <1>2, <1>6, <1>7
<1>9. \A x : x \in FinalTimes' <=>
               x = 0 \/ \E q \in Services : \E i \in 1 .. committed'[q] : x = log[q][i].message.event.time
  BY <1>3 DEF FinalTimes
<1>10. FinalTimes' \subseteq Nat /\ \A x \in FinalTimes' : x <= e.time
  BY <1>2, <1>6, <1>9
<1>11. e.time \in FinalTimes'
  <2>1. committed[p] + 1 \in 1 .. committed'[p]
    BY <1>2
  <2> QED
    BY <1>3, <1>9, <2>1
<1>12. FinalTime' = Max(FinalTimes')
  BY DEF FinalTime, FinalTimes
<1> QED
  BY <1>8, <1>10, <1>11, <1>12, LatestIs

LEMMA CommitCarriesOut ==
  ASSUME SequentialInv, NEW p \in Services, NEW e, NEW sent, BecomesFinal(p, e, sent)
  PROVE  CarriesOut(e, sent)
<1>1. /\ LogsOK /\ MarksOK /\ LogSends /\ LogIsExecution /\ LoggedRoutes /\ Supplied
      /\ fault = Running /\ WellRouted
  BY SequentialInvParts
<1>2. /\ committed[p] \in Nat /\ committed[p] + 1 \in 1 .. Len(log[p])
      /\ committed'[p] = committed[p] + 1
      /\ \A q \in Services \ {p} : committed'[q] = committed[q]
      /\ e \in Event /\ e.to = p /\ Logged(e)
      /\ e \in outstanding /\ \A f \in outstanding : e.time <= f.time
      /\ inits = {}
  BY CommitFacts
<1>3. /\ e = log[p][committed[p] + 1].message.event
      /\ sent = EventsOf(log[p][committed[p] + 1].sent)
      /\ outstanding' = (outstanding \ {e}) \cup sent
      /\ UNCHANGED <<inits, fault, workload, log, loaded>>
  BY DEF BecomesFinal, vars, engineVars, masterVars
<1>4. (committed[p] + 1) - 1 = committed[p] /\ committed[p] + 1 # 0
  BY <1>2
<1>5. Routable(e)
  BY <1>1, <1>2, RoutedIsRoutable DEF LoggedRoutes
<1>6. IsSent(p, Final(p), e, sent)
  BY <1>1, <1>2, <1>3, <1>4 DEF LogSends, SentFrom, Final
<1>7. Final(p)' = Outcome(p, Final(p), e)
  <2>1. log[p][committed[p] + 1].memory = Outcome(p, Final(p), e)
    BY <1>1, <1>2, <1>3, <1>4 DEF LogIsExecution, Final
  <2>2. Final(p)' = log[p][committed[p] + 1].memory
    BY <1>2, <1>3, <1>4 DEF Final, MemoryAfter
  <2> QED
    BY <2>1, <2>2
<1>8. \A q \in Services \ {p} : Final(q)' = Final(q)
  BY <1>2, <1>3 DEF Final, MemoryAfter
<1>9. \A q \in Services : Final(q) \in MemoryType(q)
  BY <1>1, FinalMemoryType
<1>10. FinalTime' = e.time
  BY CommitOrder
<1>11. e.origin \in DOMAIN WorkloadSize => workload[e.origin] = "assigned"
  BY <1>1, MasterAssumption DEF Supplied
<1> QED
  BY <1>1, <1>2, <1>3, <1>5, <1>6, <1>7, <1>8, <1>9, <1>10, <1>11 DEF CarriesOut

-----------------------------------------------------------------------------
(* A master starts: its first memory is final. *)
LEMMA StartIsFinal ==
  ASSUME SequentialInv, StartScheduler
  PROVE  \E m \in Masters :
           /\ MasterOnSchedulerInit(m) /\ UNCHANGED <<linkVars, switchVars, machineVars>>
           /\ Final(m) = Memory(m) /\ Final(m)' = Memory(m)'
           /\ \A q \in Services \ {m} : Final(q)' = Final(q)
<1>1. /\ SchedulerInit /\ UNCHANGED <<log, replayed, committed>>
      /\ loaded' = [p \in Services |-> IF p \in inits \ inits' THEN Memory(p)' ELSE loaded[p]]
  BY DEF StartScheduler
<1>2. /\ LogsOK /\ MarksOK /\ TypeOK
      /\ \A q \in Services : Memory(q) = MemoryAfter(q, replayed[q])
      /\ SchedulersWait /\ NoneFinalYet
  BY SequentialInvParts DEF ReplayInv, TimeWarpInv
<1>3. PICK m \in Masters :
        MasterOnSchedulerInit(m) /\ UNCHANGED <<linkVars, switchVars, machineVars>>
  BY <1>1 DEF SchedulerInit
<1>4. m \in inits /\ inits' = inits \ {m} /\ m \in Services
  BY <1>3, Kinds DEF MasterOnSchedulerInit
<1>5. \A q \in Services : Final(q) = loaded[q] /\ Final(q)' = loaded'[q]
  <2>1. \A q \in Services : committed[q] = 0 /\ committed'[q] = 0
    BY <1>1, <1>2, <1>4 DEF NoneFinalYet
  <2> QED
    BY <2>1 DEF Final, MemoryAfter
<1>6. loaded[m] = Memory(m)
  <2>1. log[m] = <<>> /\ Len(log[m]) = 0
    BY <1>2, <1>4 DEF SchedulersWait
  <2>2. replayed[m] = 0
    BY <1>2, <1>4, <2>1 DEF MarksOK
  <2> QED
    BY <1>2, <1>4, <2>2 DEF MemoryAfter
<1>7. loaded'[m] = Memory(m)' /\ \A q \in Services \ {m} : loaded'[q] = loaded[q]
  <2>1. inits \ inits' = {m}
    BY <1>2, <1>4 DEF TypeOK, EngineTypeOK
  <2> QED
    BY <1>1, <1>4, <2>1
<1> QED
  BY <1>3, <1>4, <1>5, <1>6, <1>7

LEMMA StartTime ==
  ASSUME SequentialInv, StartScheduler PROVE FinalTime' = FinalTime
<1>1. UNCHANGED <<log, committed>>
  BY DEF StartScheduler
<1>2. FinalTimes' = FinalTimes
  BY <1>1 DEF FinalTimes
<1>3. FinalTime' = Max(FinalTimes')
  BY DEF FinalTime, FinalTimes
<1> QED
  BY <1>2, <1>3, FinalTimeIs

LEMMA StartCarriesOut ==
  ASSUME SequentialInv, RoutesInv', StartScheduler PROVE Sequential!SchedulerInit
<1> DEFINE left == [q \in Masters |-> Final(q).remaining]
           next == [q \in Masters |-> Final(q).nextResource]
           metrics == [q \in Masters |-> Final(q).metrics]
<1>1. /\ TypeOK /\ WellRouted /\ Supplied /\ fault = Running /\ fault' = Running
      /\ pending = {} /\ outstanding' = outstanding \cup pending'
  BY SequentialInvParts DEF RoutesInv, RoutingInv, NoFault, Running, StartScheduler, Settled
<1>2. PICK m \in Masters :
        /\ MasterOnSchedulerInit(m) /\ UNCHANGED <<linkVars, switchVars, machineVars>>
        /\ Final(m) = Memory(m) /\ Final(m)' = Memory(m)'
        /\ \A q \in Services \ {m} : Final(q)' = Final(q)
  BY StartIsFinal
<1>3. /\ m \in inits /\ inits' = inits \ {m} /\ OnInit(m)
      /\ UNCHANGED <<workload, masterMetrics>>
  BY <1>2 DEF MasterOnSchedulerInit
<1>4. /\ remaining \in [Masters -> Nat] /\ nextResource \in [Masters -> Nat]
      /\ DOMAIN masterMetrics = Masters
  BY <1>1 DEF TypeOK, MasterTypeOK
<1>5. /\ left[m] = remaining[m] /\ next[m] = nextResource[m]
      /\ left'[m] = remaining'[m] /\ next'[m] = nextResource'[m]
      /\ \A q \in Masters \ {m} : left'[q] = left[q] /\ next'[q] = next[q]
      /\ metrics' = metrics
  <2>1. Memory(m) = [remaining |-> remaining[m], nextResource |-> nextResource[m],
                     metrics |-> masterMetrics[m]]
    BY MemoryOf
  <2>2. Memory(m)' = [remaining |-> remaining'[m], nextResource |-> nextResource'[m],
                      metrics |-> masterMetrics'[m]]
    BY NextMemoryOf
  <2>3. \A q \in Masters \ {m} : Final(q)' = Final(q)
    BY <1>2, Kinds
  <2> QED
    BY <1>2, <1>3, <2>1, <2>2, <2>3
<1>6. UNCHANGED <<Sequential!linkVars, Sequential!switchVars, Sequential!machineVars>>
  <2>1. \A q \in Links \cup Switches \cup Machines : Final(q)' = Final(q)
    BY <1>2, Kinds
  <2> QED
    BY <2>1, OtherLinks, OtherSwitches, OtherMachines
<1>7. UNCHANGED FinalTime
  BY StartTime
<1>8. ASSUME workload[m] = "null", UNCHANGED <<pending, remaining, nextResource>>
      PROVE  Sequential!OnInit(m)
  <2>1. outstanding' = outstanding
    BY <1>1, <1>8
  <2>2. left' = left /\ next' = next
    BY <1>5, <1>8
  <2> QED
    BY <1>1, <1>8, <2>1, <2>2 DEF Sequential!OnInit
<1>9. ASSUME workload[m] = "assigned",
             \A i \in 0 .. InitialBatch(m) - 1 : HasRoute(m, Slave(m, i)),
             NEW size \in [0 .. InitialBatch(m) - 1 -> TaskSizes],
             pending' = pending \cup
               {ToSlave(m, Slave(m, i), 0, NewTask("scheduler", m, TaskNumber(m, i), size[i])) :
                  i \in 0 .. InitialBatch(m) - 1},
             remaining' = [remaining EXCEPT ![m] = @ - InitialBatch(m)],
             nextResource' = [nextResource EXCEPT ![m] = Advanced(m, InitialBatch(m))]
      PROVE  Sequential!OnInit(m)
  <2> DEFINE sent(i) == ToSlave(m, Slave(m, i), 0,
                                NewTask("scheduler", m, TaskNumber(m, i), size[i]))
             new == {sent(i) : i \in 0 .. InitialBatch(m) - 1}
             seqSent(i) == Sequential!ToSlave(m, Sequential!Slave(m, i), 0,
                             Sequential!NewTask("scheduler", m, Sequential!TaskNumber(m, i),
                                                size[i]))
  <2>1. Sequential!InitialBatch(m) = InitialBatch(m)
    BY <1>5 DEF Sequential!InitialBatch, InitialBatch
  <2>2. \A i : Sequential!Slave(m, i) = Slave(m, i)
    BY <1>5 DEF Sequential!Slave, Slave
  <2>3. \A i \in 0 .. InitialBatch(m) - 1 : Sequential!HasRoute(m, Sequential!Slave(m, i))
    BY <1>9, <2>2 DEF Sequential!HasRoute, HasRoute
  <2>4. \A i : Sequential!TaskNumber(m, i) = TaskNumber(m, i)
    BY <1>5 DEF Sequential!TaskNumber, TaskNumber
  <2>5. \A i : seqSent(i) = sent(i)
    <3> SUFFICES ASSUME NEW i PROVE seqSent(i) = sent(i)
      OBVIOUS
    <3>1. ASSUME NEW n, NEW x
          PROVE  Sequential!NewTask("scheduler", m, n, x) = NewTask("scheduler", m, n, x)
      BY DEF Sequential!NewTask, NewTask, Sequential!Szudzik, Szudzik, Sequential!Nobody, Nobody
    <3>2. ASSUME NEW slave, NEW t PROVE Sequential!ToSlave(m, slave, 0, t) = ToSlave(m, slave, 0, t)
      BY DEF Sequential!ToSlave, ToSlave
    <3> QED
      BY <2>2, <2>4, <3>1, <3>2
  <2>6. outstanding' = outstanding \cup new
    <3>1. pending' = pending \cup new
      BY <1>9
    <3> HIDE DEF new
    <3> QED
      BY <1>1, <3>1
  <2> HIDE DEF sent, seqSent
  <2>7. outstanding' = outstanding \cup {seqSent(i) : i \in 0 .. InitialBatch(m) - 1}
    BY <2>5, <2>6
  <2>8. left' = [left EXCEPT ![m] = @ - InitialBatch(m)]
    BY <1>4, <1>5, <1>9
  <2>9. next' = [next EXCEPT ![m] = Sequential!Advanced(m, InitialBatch(m))]
    <3>1. Sequential!Advanced(m, InitialBatch(m)) = Advanced(m, InitialBatch(m))
      BY <1>5 DEF Sequential!Advanced, Advanced
    <3> QED
      BY <1>4, <1>5, <1>9, <3>1
  <2> DEFINE Batch(b) ==
        \E s \in [0 .. b - 1 -> TaskSizes] :
          outstanding' = outstanding \cup
            {Sequential!ToSlave(m, Sequential!Slave(m, i), 0,
               Sequential!NewTask("scheduler", m, Sequential!TaskNumber(m, i), s[i])) :
               i \in 0 .. b - 1}
  <2>10. Batch(InitialBatch(m))
    BY <2>7 DEF seqSent
  <2> HIDE DEF Batch, left, next
  <2>11. /\ Batch(Sequential!InitialBatch(m))
         /\ \A i \in 0 .. Sequential!InitialBatch(m) - 1 :
              Sequential!HasRoute(m, Sequential!Slave(m, i))
         /\ left' = [left EXCEPT ![m] = @ - Sequential!InitialBatch(m)]
         /\ next' = [next EXCEPT ![m] = Sequential!Advanced(m, Sequential!InitialBatch(m))]
    BY <2>1, <2>3, <2>8, <2>9, <2>10
  <2> QED
    BY <1>1, <1>9, <2>11 DEF Sequential!OnInit, Batch, left, next
<1>10. Sequential!OnInit(m)
  <2>1. [why |-> "bad workload", at |-> m] # Running /\ [why |-> "no route", at |-> m] # Running
    <3>1. [why |-> "bad workload", at |-> m].why # Running.why
      BY DEF Running
    <3>2. [why |-> "no route", at |-> m].why # Running.why
      BY DEF Running
    <3> QED
      BY <3>1, <3>2
  <2> QED
    BY <1>1, <1>3, <1>8, <1>9, <2>1 DEF OnInit
<1>11. Sequential!MasterOnSchedulerInit(m)
  BY <1>1, <1>3, <1>5, <1>7, <1>10
     DEF Sequential!MasterOnSchedulerInit, Sequential!Running, Running, Sequential!Nobody, Nobody
<1> QED
  BY <1>6, <1>11 DEF Sequential!SchedulerInit

-----------------------------------------------------------------------------
LEMMA SequentialStart ==
  ASSUME WellRouted, OptimisticInit PROVE SequentialInv /\ Sequential!Init
<1>1. /\ Init /\ log = [p \in Services |-> <<>>] /\ loaded = [p \in Services |-> Memory(p)]
      /\ committed = [p \in Services |-> 0] /\ outstanding = pending
  BY DEF OptimisticInit
<1>2. RoutesInv
  BY RoutesStart
<1>3. \A p \in Services : Len(log[p]) = 0 /\ committed[p] = 0
  BY <1>1
<1>5. SequentialInv
  BY <1>2, <1>3 DEF SequentialInv, LogSends, FinalInOrder
<1>6. \A p \in Services : Final(p) = Memory(p)
  BY <1>1, <1>3 DEF Final, MemoryAfter
<1>7. FinalTime = 0
  <2>1. \A x : x \in FinalTimes <=> x = 0
    BY <1>3, FinalTimeIs
  <2>2. FinalTimes \in SUBSET Nat /\ 0 \in FinalTimes /\ \A x \in FinalTimes : x <= 0
    BY <2>1
  <2> QED
    BY <2>2, LatestIs, FinalTimeIs
<1>8. Sequential!BuilderInit
  <2>1. PICK time \in [BuilderNumbers -> ArrivalTimes], size \in [Masters -> TaskSizes] :
          /\ \A x, y \in BuilderNumbers : x[1] = y[1] /\ x[2] < y[2] => time[x] <= time[y]
          /\ pending = {[NewTask("builder", x[1], x[2], size[x[1]]) EXCEPT !.time = time[x]] :
                          x \in BuilderNumbers}
    BY <1>1 DEF Init, BuilderInit
  <2>2. Sequential!BuilderNumbers = BuilderNumbers
    BY DEF Sequential!BuilderNumbers, BuilderNumbers
  <2>3. ASSUME NEW a, NEW b, NEW c
        PROVE  Sequential!NewTask("builder", a, b, c) = NewTask("builder", a, b, c)
    BY DEF Sequential!NewTask, NewTask, Sequential!Szudzik, Szudzik, Sequential!Nobody, Nobody
  <2>4. outstanding =
          {[Sequential!NewTask("builder", x[1], x[2], size[x[1]]) EXCEPT !.time = time[x]] :
             x \in Sequential!BuilderNumbers}
    BY <1>1, <2>1, <2>2, <2>3
  <2> QED
    BY <2>1, <2>2, <2>4 DEF Sequential!BuilderInit
<1>9. Sequential!LinkInit /\ Sequential!SwitchInit
  <2>1. /\ \A l \in Links : Final(l) = [available |-> linkAvailable[l], metrics |-> linkMetrics[l]]
        /\ \A s \in Switches :
             Final(s) = [available |-> switchAvailable[s], metrics |-> switchMetrics[s]]
    BY <1>6, MemoryOf, Kinds
  <2> QED
    BY <1>1, <2>1 DEF Init, LinkInit, SwitchInit, Sequential!LinkInit, Sequential!SwitchInit
<1>10. Sequential!MachineInit
  <2>1. \A m \in Machines :
          Final(m) = [coreFreeTimes |-> coreFreeTimes[m], metrics |-> machineMetrics[m]]
    BY <1>6, MemoryOf, Kinds
  <2> QED
    BY <1>1, <2>1 DEF Init, MachineInit, Sequential!MachineInit
<1>11. Sequential!MasterInit
  <2>1. \A m \in Masters :
          Final(m) = [remaining |-> remaining[m], nextResource |-> nextResource[m],
                      metrics |-> masterMetrics[m]]
    BY <1>6, MemoryOf, Kinds
  <2> QED
    BY <1>1, <2>1 DEF Init, MasterInit, Sequential!MasterInit
<1> QED
  BY <1>1, <1>5, <1>7, <1>8, <1>9, <1>10, <1>11
     DEF Init, Sequential!Init, Sequential!Running, Running, Sequential!Nobody, Nobody

-----------------------------------------------------------------------------
(* The invariant of the refinement. *)

(* Neither the start of a scheduler nor a step towards the final state. *)
Speculates ==
  \/ ConfigureSimulator \/ CoastForward \/ Return \/ UNCHANGED optimisticVars
  \/ \E m \in queue \cup anti : Process(m)

LEMMA StepKinds ==
  ASSUME [OptimisticNext]_optimisticVars PROVE StartScheduler \/ Commit \/ Speculates
BY DEF OptimisticNext, Kernel, Speculates

(* A service executes the next event of its log again. *)
LEMMA CoastForwardFacts ==
  ASSUME SequentialInv, CoastForward
  PROVE  /\ UNCHANGED <<inits, workload, log, loaded, committed, outstanding>>
         /\ \E p \in Services : \E i \in 1 .. Len(log[p]) :
              LET e == log[p][i].message.event IN
              /\ replayed' = [replayed EXCEPT ![p] = @ + 1] /\ i = replayed[p] + 1
              /\ e \in Event /\ e.to = p /\ HasSender(e) /\ Routed(e)
              /\ Dispatch(e) /\ DrawsAsSeeded(pending') /\ pending = {}
<1>1. /\ LogsOK /\ MarksOK /\ TypeOK /\ TypeInv /\ fault = Running /\ RoutesInv /\ LoggedRoutes
  BY SequentialInvParts DEF SequentialInv
<1>2. PICK p \in Services :
        /\ ~ UpToDate(p) /\ replayed' = [replayed EXCEPT ![p] = @ + 1]
        /\ Dispatch(log[p][replayed[p] + 1].message.event) /\ DrawsAsSeeded(pending')
  BY DEF CoastForward
<1>3. replayed[p] + 1 \in 1 .. Len(log[p])
  BY <1>1, <1>2, LogLength DEF MarksOK, UpToDate
<1>4. PICK i \in 1 .. Len(log[p]) : i = replayed[p] + 1
  BY <1>3
<1>5. PICK e : e = log[p][i].message.event
  OBVIOUS
<1>6. e \in Event /\ e.to = p /\ HasSender(e) /\ Logged(e)
  BY <1>1, <1>5, EntryFields DEF Logged
<1>7. Dispatch(e) /\ pending = {} /\ UNCHANGED <<log, loaded, committed, outstanding>>
  BY <1>2, <1>4, <1>5 DEF CoastForward
<1>8. Routed(e)
  BY <1>1, <1>6 DEF LoggedRoutes
<1>9. UNCHANGED <<inits, workload>>
  BY <1>1, <1>6, <1>7, HandlerType, Replays
<1> QED
  BY <1>2, <1>4, <1>5, <1>6, <1>7, <1>8, <1>9

(* It touches nothing that is final. *)
LEMMA SpeculatesOnly ==
  ASSUME SequentialInv, Speculates
  PROVE  UNCHANGED <<inits, workload, loaded, committed, outstanding>>
<1>1. TimeWarpInv /\ TypeOK /\ fault = Running /\ RoutesInv
  BY SequentialInvParts DEF SequentialInv
<1>2. ASSUME ConfigureSimulator \/ Return \/ UNCHANGED optimisticVars
      PROVE  UNCHANGED <<inits, workload, loaded, committed, outstanding>>
  BY <1>2 DEF ConfigureSimulator, Return, optimisticVars, kernelVars, vars, engineVars,
              masterVars
<1>3. ASSUME NEW m, Straggler(m) \/ AntiMessage(m)
      PROVE  UNCHANGED <<inits, workload, loaded, committed, outstanding>>
  <2>1. PICK k : RolledBack(m.event.to, k)
    BY <1>1, <1>3, RollbackPlace
  <2>2. UNCHANGED workload
    BY <2>1 DEF RolledBack, Restore, RestoreLink, RestoreSwitch, RestoreMachine, RestoreMaster,
                masterVars
  <2> QED
    BY <2>1, <2>2 DEF RolledBack
<1>4. ASSUME NEW m, Execute(m)
      PROVE  UNCHANGED <<inits, workload, loaded, committed, outstanding>>
  <2>1. m.event \in Event /\ Dispatch(m.event)
    BY <1>1, <1>4, ExecuteFacts DEF Execute
  <2>2. UNCHANGED workload
    BY <1>1, <2>1, Replays
  <2> QED
    BY <1>1, <1>4, <2>2, ExecuteFacts
<1> QED
  BY <1>2, <1>3, <1>4, CoastForwardFacts DEF Speculates, Process

LEMMA LogSendsStep ==
  ASSUME SequentialInv, [OptimisticNext]_optimisticVars PROVE LogSends'
<1>1. LogSends /\ TimeWarpInv /\ ReplayInv
  BY SequentialInvParts
<1>2. ASSUME ConfigureSimulator \/ Return \/ Commit \/ UNCHANGED optimisticVars
      PROVE  UNCHANGED <<log, loaded>>
  BY <1>2 DEF ConfigureSimulator, Return, Commit, optimisticVars, kernelVars
<1>3. ASSUME CoastForward PROVE UNCHANGED <<log, loaded>>
  BY <1>3, CoastForwardFacts
<1>4. ASSUME UNCHANGED <<log, loaded>> PROVE LogsKept
  BY <1>4, SameLogsKept
<1> QED
  BY <1>1, <1>2, <1>3, <1>4, StepKinds, StartLogsKept, RollbackLogsKept, LogsKeptSends,
     ExecuteLogs DEF Speculates, Process

LEMMA FinalInOrderStep ==
  ASSUME SequentialInv, [OptimisticNext]_optimisticVars PROVE FinalInOrder'
<1>1. FinalInOrder /\ TimeWarpInv /\ NoneFinalYet
  BY SequentialInvParts DEF TimeWarpInv
<1>2. CASE StartScheduler
  <2>1. \A q \in Services : committed'[q] = 0
    <3>1. PICK m \in Masters : MasterOnSchedulerInit(m)
      BY <1>2 DEF StartScheduler, SchedulerInit
    <3>2. inits # {} /\ UNCHANGED committed
      BY <1>2, <3>1 DEF StartScheduler, MasterOnSchedulerInit
    <3> QED
      BY <1>1, <3>2 DEF NoneFinalYet
  <2> QED
    BY <2>1 DEF FinalInOrder
<1>3. CASE Commit
  BY <1>3, CommitIs, CommitOrder
<1>4. CASE Speculates
  <2>1. UNCHANGED <<committed, outstanding>>
    BY <1>4, SpeculatesOnly
  <2>2. FinalKept \/ UNCHANGED optimisticVars
    BY <1>1, FinalStep
  <2>3. CASE UNCHANGED optimisticVars
    BY <1>1, <2>3 DEF FinalInOrder, optimisticVars, kernelVars
  <2> QED
    BY <1>1, <2>1, <2>2, <2>3, FinalInOrderKept
<1> QED
  BY <1>2, <1>3, <1>4, StepKinds

LEMMA SequentialInvStep == SequentialInv /\ [OptimisticNext]_optimisticVars => SequentialInv'
<1> SUFFICES ASSUME SequentialInv, [OptimisticNext]_optimisticVars PROVE SequentialInv'
  OBVIOUS
<1>1. RoutesInv'
  BY RoutesStep DEF SequentialInv
<1> QED
  BY <1>1, LogSendsStep, FinalInOrderStep DEF SequentialInv

-----------------------------------------------------------------------------
(* The refinement. *)
LEMMA StaysFinal ==
  ASSUME \A q \in Services : Final(q)' = Final(q),
         UNCHANGED <<FinalTime, outstanding, inits, fault, workload>>
  PROVE  UNCHANGED Sequential!vars
<1>1. UNCHANGED <<Sequential!linkVars, Sequential!switchVars, Sequential!machineVars,
                  Sequential!masterVars>>
  <2>1. /\ \A q \in Links : Final(q)' = Final(q)
        /\ \A q \in Switches : Final(q)' = Final(q)
        /\ \A q \in Machines : Final(q)' = Final(q)
        /\ \A q \in Masters : Final(q)' = Final(q)
    BY Kinds
  <2> QED
    BY <2>1, OtherLinks, OtherSwitches, OtherMachines, OtherMasters
<1>2. UNCHANGED Sequential!engineVars
  BY DEF Sequential!engineVars
<1> QED
  BY <1>1, <1>2 DEF Sequential!vars

LEMMA SpeculationIsStutter ==
  ASSUME SequentialInv, RoutesInv', Speculates, [OptimisticNext]_optimisticVars
  PROVE  UNCHANGED Sequential!vars
<1>1. LogsOK /\ MarksOK /\ TimeWarpInv /\ fault = Running /\ fault' = Running
  BY SequentialInvParts DEF RoutesInv, RoutingInv, NoFault, Running
<1>2. UNCHANGED <<inits, workload, loaded, committed, outstanding>>
  BY SpeculatesOnly
<1>3. CASE UNCHANGED log
  <2>1. \A q \in Services : Final(q)' = Final(q)
    BY <1>2, <1>3 DEF Final, MemoryAfter
  <2>2. FinalTimes' = FinalTimes
    BY <1>2, <1>3 DEF FinalTimes
  <2>3. FinalTime' = Max(FinalTimes')
    BY DEF FinalTime, FinalTimes
  <2> QED
    BY <1>1, <1>2, <2>1, <2>2, <2>3, FinalTimeIs, StaysFinal
<1>4. CASE FinalKept
  BY <1>1, <1>2, <1>4, SameFinal, StaysFinal
<1>5. FinalKept \/ UNCHANGED log
  BY <1>1, FinalStep DEF optimisticVars, kernelVars
<1> QED
  BY <1>3, <1>4, <1>5

LEMMA SequentialStep ==
  SequentialInv /\ SequentialInv' /\ [OptimisticNext]_optimisticVars
    => [Sequential!Next]_(Sequential!vars)
<1> SUFFICES ASSUME SequentialInv, SequentialInv', [OptimisticNext]_optimisticVars
             PROVE  Sequential!Next \/ UNCHANGED Sequential!vars
  OBVIOUS
<1>1. RoutesInv'
  BY DEF SequentialInv
<1>2. CASE StartScheduler
  BY <1>1, <1>2, StartCarriesOut DEF Sequential!Next
<1>3. CASE Commit
  <2>1. PICK p \in Services : \E e, sent : BecomesFinal(p, e, sent)
    BY <1>3, CommitIs
  <2>2. PICK e, sent : BecomesFinal(p, e, sent)
    BY <2>1
  <2> QED
    BY <2>2, CommitCarriesOut, CarriesOutIsNext
<1>4. CASE Speculates
  BY <1>1, <1>4, SpeculationIsStutter
<1> QED
  BY <1>2, <1>3, <1>4, StepKinds

(* In a flat grid what becomes final is an execution of Grid: with any number
   of threads, whatever they execute too early and undo, and whatever the
   checkpoint interval, the optimistic mode simulates what the sequential mode
   simulates. *)
THEOREM OptimisticIsSequential == WellRouted /\ OptimisticSpec => FinalIsSequential
<1>1. WellRouted /\ OptimisticInit => SequentialInv /\ Sequential!Init
  BY SequentialStart
<1> QED
  BY <1>1, SequentialInvStep, SequentialStep, PTL
     DEF OptimisticSpec, FinalIsSequential, Sequential!Spec

-----------------------------------------------------------------------------
(* An event executed again sends what it has sent before. *)

(* A packet that a switch or a machine passes on reads inside its route. *)
LEMMA InsideRoute ==
  ASSUME WellRouted, NEW e \in Event, OnTheWay(e), e.to \in Switches \cup Machines,
         e.to # e.destination
  PROVE  e.offset < Len(RoutePath[<<e.source, e.destination>>])
<1> DEFINE path == RoutePath[<<e.source, e.destination>>]
           walk == Walk[<<e.source, e.destination>>]
<1>2. e.source \in Masters /\ e.destination \in SlaveSet(e.source)
  BY DEF OnTheWay, AlongRoute, Event
<1>3. PICK k \in 1 .. Len(path) : \/ GoingAtLink(e, path, walk, k)
                                  \/ GoingAtService(e, path, walk, k)
                                  \/ BackAtLink(e, path, walk, k)
                                  \/ BackAtService(e, path, walk, k)
  BY DEF OnTheWay, AlongRoute
<1>4. /\ Len(path) \in Nat /\ walk[0] = e.source /\ walk[Len(path)] = e.destination
      /\ path[k] \in Links
  BY <1>2, <1>3, LinkOfRoute
<1> HIDE DEF path, walk
<1>5. CASE GoingAtService(e, path, walk, k)
  <2>1. e.to = walk[k] /\ e.offset = k
    BY <1>5 DEF GoingAtService
  <2>2. k # Len(path)
    BY <1>4, <2>1
  <2> QED
    BY <1>3, <1>4, <2>1, <2>2 DEF path
<1>6. CASE BackAtService(e, path, walk, k)
  <2>1. e.to = walk[k-1] /\ e.offset = Decrement(k - 1)
    BY <1>6 DEF BackAtService
  <2>2. k # 1
    <3>1. e.to # walk[0]
      BY <1>2, <1>4, Kinds
    <3> QED
      BY <2>1, <3>1
  <2>3. e.offset = k - 2
    BY <1>3, <1>4, <2>1, <2>2 DEF Decrement
  <2> QED
    BY <1>3, <1>4, <2>3 DEF path
<1>7. e.to \notin Links
  BY Kinds
<1> QED
  BY <1>3, <1>4, <1>5, <1>6, <1>7 DEF GoingAtLink, BackAtLink

(* The size apart, nothing that a handler sends is a choice. *)
LEMMA OneMessage ==
  ASSUME WellRouted, NEW e, Routed(e), NEW memory \in MemoryType(e.to),
         NEW f \in Emits(e.to, memory, e), NEW g \in Emits(e.to, memory, e),
         DrawsAsSeeded({f}), DrawsAsSeeded({g})
  PROVE  f = g
<1>0. e \in Event /\ e.to \in Services /\ (e.to \notin Masters => OnTheWay(e))
  BY OnTheWayIfElsewhere DEF Routed, Event
<1>1. CASE e.to \in Links
  <2>1. f \in LinkEmits(e.to, memory, e) /\ g \in LinkEmits(e.to, memory, e)
    BY <1>1, EmitsOf
  <2> QED
    BY <2>1, Zenon DEF LinkEmits
<1>2. ASSUME e.to \in Switches \cup Machines, e.to # e.destination,
             f \in PassEmits(e.to, e), g \in PassEmits(e.to, e)
      PROVE  f = g
  <2> DEFINE path == RoutePath[<<e.source, e.destination>>]
  <2>1. RouteElement(path, e.offset) = {path[e.offset + 1]}
    BY <1>0, <1>2, Kinds, InsideRoute DEF RouteElement
  <2> HIDE DEF path
  <2> QED
    BY <1>2, <2>1 DEF PassEmits, path
<1>3. CASE e.to \in Switches
  <2>1. e.to # e.destination
    <3>1. OnTheWay(e) /\ e.source \in Masters /\ e.destination \in SlaveSet(e.source)
      BY <1>0, <1>3, Kinds DEF OnTheWay, AlongRoute, Event
    <3> QED
      BY <1>3, <3>1, Kinds DEF WellRouted
  <2> QED
    BY <1>2, <1>3, <2>1, EmitsOf
<1>4. CASE e.to \in Machines
  <2>1. f \in MachineEmits(e.to, memory, e) /\ g \in MachineEmits(e.to, memory, e)
    BY <1>4, EmitsOf
  <2>2. CASE e.destination = e.to
    <3>1. memory.coreFreeTimes \in CoreTimes(e.to)
      BY <1>4, Kinds, MemoryFields
    <3>2. ASSUME NEW c \in FirstFree(e.to, memory.coreFreeTimes),
                 NEW d \in FirstFree(e.to, memory.coreFreeTimes)
          PROVE  c = d
      BY <1>4, <3>1, OneFirstCore DEF FirstFree
    <3>3. /\ f \in ProcessEmits(e.to, memory.coreFreeTimes, e)
          /\ g \in ProcessEmits(e.to, memory.coreFreeTimes, e)
      BY <2>1, <2>2 DEF MachineEmits
    <3> QED
      BY <3>2, <3>3 DEF ProcessEmits
  <2> QED
    BY <1>2, <1>4, <2>1, <2>2 DEF MachineEmits
<1>5. CASE e.to \in Masters
  <2>1. f \in MasterEmits(e.to, memory, e) /\ g \in MasterEmits(e.to, memory, e)
    BY <1>5, EmitsOf
  <2> DEFINE drawn(size) == ToSlave(e.to, NextSlave(e.to, memory), e.time,
                                    NewTask("scheduler", e.to, memory.remaining, size))
             seeded == RandomSize(e.to, Szudzik(memory.remaining, e.to))
  <2>2. ASSUME NEW size \in TaskSizes, DrawsAsSeeded({drawn(size)}) PROVE size = seeded
    <3>1. /\ drawn(size).batch = "scheduler" /\ drawn(size).origin = e.to
          /\ drawn(size).tid = Szudzik(memory.remaining, e.to)
          /\ drawn(size).procSize = size[1] /\ drawn(size).commSize = size[2]
      BY DEF ToSlave, NewTask
    <3> HIDE DEF drawn
    <3>2. <<size[1], size[2]>> = seeded
      BY <2>2, <3>1 DEF DrawsAsSeeded
    <3>3. size = <<size[1], size[2]>>
      BY MasterAssumption
    <3> QED
      BY <3>2, <3>3
  <2>3. CASE e.processed
    <3>1. PICK size \in TaskSizes : f = drawn(size)
      BY <2>1, <2>3 DEF MasterEmits
    <3>2. PICK again \in TaskSizes : g = drawn(again)
      BY <2>1, <2>3 DEF MasterEmits
    <3> HIDE DEF drawn, seeded
    <3> QED
      BY <2>2, <3>1, <3>2
  <2>4. CASE ~ e.processed
    BY <2>1, <2>4, Zenon DEF MasterEmits
  <2> QED
    BY <2>3, <2>4
<1> QED
  BY <1>0, <1>1, <1>3, <1>4, <1>5, Kinds DEF Event

LEMMA SameSent ==
  ASSUME WellRouted, NEW e, Routed(e), NEW memory \in MemoryType(e.to),
         NEW sent, IsSent(e.to, memory, e, sent), DrawsAsSeeded(sent),
         NEW again, IsSent(e.to, memory, e, again), DrawsAsSeeded(again)
  PROVE  sent = again
<1>1. ASSUME NothingLeft(e.to, memory, e) PROVE Emits(e.to, memory, e) = {}
  BY <1>1, EmitsOf DEF NothingLeft, MasterEmits
<1>2. CASE NothingLeft(e.to, memory, e)
  BY <1>1, <1>2 DEF IsSent
<1>3. CASE ~ NothingLeft(e.to, memory, e)
  <2>1. PICK f \in Emits(e.to, memory, e) : sent = {f}
    BY <1>3 DEF IsSent
  <2>2. PICK g \in Emits(e.to, memory, e) : again = {g}
    BY <1>3 DEF IsSent
  <2> QED
    BY <2>1, <2>2, OneMessage
<1> QED
  BY <1>2, <1>3

LEMMA CoastForwardResends ==
  ASSUME SequentialInv, CoastForward, NEW p \in Services, replayed'[p] = replayed[p] + 1
  PROVE  pending' = EventsOf(log[p][replayed'[p]].sent)
<1>1. /\ LogsOK /\ MarksOK /\ TypeOK /\ LogSends /\ WellRouted /\ RoutesInv
      /\ \A q \in Services : Memory(q) = MemoryAfter(q, replayed[q])
  BY SequentialInvParts DEF SequentialInv
<1>2. PICK q \in Services : \E i \in 1 .. Len(log[q]) :
        LET e == log[q][i].message.event IN
        /\ replayed' = [replayed EXCEPT ![q] = @ + 1] /\ i = replayed[q] + 1
        /\ e \in Event /\ e.to = q /\ HasSender(e) /\ Routed(e)
        /\ Dispatch(e) /\ DrawsAsSeeded(pending') /\ pending = {}
  BY CoastForwardFacts
<1>3. PICK i \in 1 .. Len(log[q]) :
        LET e == log[q][i].message.event IN
        /\ replayed' = [replayed EXCEPT ![q] = @ + 1] /\ i = replayed[q] + 1
        /\ e \in Event /\ e.to = q /\ HasSender(e) /\ Routed(e)
        /\ Dispatch(e) /\ DrawsAsSeeded(pending') /\ pending = {}
  BY <1>2
<1>4. PICK e : e = log[q][i].message.event
  OBVIOUS
<1>5. /\ e \in Event /\ e.to = q /\ HasSender(e) /\ Routed(e)
      /\ Dispatch(e) /\ DrawsAsSeeded(pending') /\ pending = {}
  BY <1>3, <1>4
<1>6. q = p /\ replayed'[p] = i /\ i - 1 = replayed[p]
  <2>1. replayed[p] \in Nat /\ replayed \in [Services -> Nat]
    BY <1>1 DEF MarksOK
  <2>2. q = p
    BY <1>3, <2>1
  <2> QED
    BY <1>3, <2>1, <2>2
<1>7. IsSent(p, Memory(p), e, pending')
  BY <1>1, <1>5, <1>6, HandlerLeaves DEF Leaves
<1>8. SentFrom(p, Memory(p), log[p][i])
  BY <1>1, <1>3, <1>6 DEF LogSends
<1>9. IsSent(p, Memory(p), e, EventsOf(log[p][i].sent)) /\ DrawsAsSeeded(EventsOf(log[p][i].sent))
  BY <1>4, <1>6, <1>8 DEF SentFrom
<1>10. Memory(p) \in MemoryType(p)
  BY <1>1, MemoryIsTyped
<1>11. pending' = EventsOf(log[p][i].sent)
  BY <1>1, <1>5, <1>6, <1>7, <1>9, <1>10, SameSent
<1> QED
  BY <1>6, <1>11

LEMMA ResendsStep ==
  SequentialInv /\ [OptimisticNext]_optimisticVars
    => [\A p \in Services :
          replayed'[p] = replayed[p] + 1 /\ log'[p] = log[p]
            => pending' = EventsOf(log[p][replayed'[p]].sent)]_optimisticVars
<1> SUFFICES ASSUME SequentialInv, [OptimisticNext]_optimisticVars,
                    NEW p \in Services, replayed'[p] = replayed[p] + 1, log'[p] = log[p]
             PROVE  pending' = EventsOf(log[p][replayed'[p]].sent)
  OBVIOUS
<1>1. /\ LogsOK /\ MarksOK /\ TimeWarpInv /\ replayed[p] \in Nat /\ Len(log[p]) \in Nat
      /\ SimulatorBuilderTypeOK
  BY SequentialInvParts, LogLength DEF MarksOK
<1>2. CASE CoastForward
  BY <1>2, CoastForwardResends
<1>3. ASSUME UNCHANGED replayed PROVE FALSE
  BY <1>1, <1>3
<1>4. ASSUME ConfigureSimulator \/ StartScheduler \/ Return \/ Commit \/ UNCHANGED optimisticVars
      PROVE  UNCHANGED replayed
  BY <1>4 DEF ConfigureSimulator, StartScheduler, Return, Commit, optimisticVars, kernelVars
<1>5. ASSUME NEW m, Execute(m) PROVE FALSE
  <2> DEFINE q == m.event.to
  <2>1. q \in Services
    BY <1>1, <1>5, ExecuteFacts
  <2>2. PICK c \in Nat :
          /\ NewEntry(m, c) \in Entry(q)
          /\ log' = [log EXCEPT ![q] = Append(@, NewEntry(m, c))]
    BY <1>1, <1>5, ExecuteFacts
  <2>3. replayed' = [replayed EXCEPT ![q] = @ + 1]
    BY <1>5 DEF Execute
  <2> HIDE DEF q
  <2>4. Len(log'[q]) = Len(log[q]) + 1
    BY <1>1, <2>1, <2>2, EntryIsAppended
  <2>5. p # q
    BY <1>1, <2>4
  <2>6. replayed'[p] = replayed[p]
    BY <1>1, <2>3, <2>5 DEF MarksOK
  <2> QED
    BY <1>1, <2>6
<1>6. ASSUME NEW m, Straggler(m) \/ AntiMessage(m) PROVE FALSE
  <2> DEFINE q == m.event.to
  <2>1. PICK k : RightPlace(q, k, m.event) /\ RolledBack(q, k)
    BY <1>1, <1>6, RollbackPlace
  <2>2. q \in Services /\ simulator # <<>>
    BY <1>1, <1>6, RollbackPlace
  <2>3. k \in Nat /\ k <= Len(log[q]) /\ replayed[q] = Len(log[q])
    <3>1. Settled
      BY <1>6 DEF Straggler, AntiMessage
    <3>2. Len(log[q]) \in Nat /\ committed[q] \in Nat
      BY <1>1, <2>2, LogLength DEF MarksOK
    <3> QED
      BY <2>1, <2>2, <3>1, <3>2 DEF RightPlace, Settled, UpToDate
  <2>4. LastCheckpoint(k) \in 0 .. k
    BY <1>1, <2>2, <2>3, CheckpointBefore
  <2>5. replayed'[q] = LastCheckpoint(k) /\ \A r \in Services \ {q} : replayed'[r] = replayed[r]
    BY <1>1, <2>1, <2>2 DEF RolledBack, MarksOK
  <2> HIDE DEF q
  <2>6. CASE p = q
    <3>1. replayed'[p] <= k /\ replayed'[p] \in Nat /\ k <= replayed[p]
      BY <2>3, <2>4, <2>5, <2>6
    <3> QED
      BY <1>1, <2>3, <3>1
  <2>7. CASE p # q
    BY <1>1, <2>5, <2>7
  <2> QED
    BY <2>6, <2>7
<1> QED
  BY <1>2, <1>3, <1>4, <1>5, <1>6, StepKinds DEF Speculates, Process

(* In a flat grid what a service sends when it executes an event again is what
   its receivers have kept, because the random numbers go back with it: without
   them nothing that a handler sends is a choice. *)
THEOREM ResentIsTheSame == WellRouted /\ OptimisticSpec => ResendsTheSame
<1>1. WellRouted /\ OptimisticInit => SequentialInv
  BY SequentialStart
<1>2. SequentialInv /\ [OptimisticNext]_optimisticVars
        => [\A p \in Services :
              replayed'[p] = replayed[p] + 1 /\ log'[p] = log[p]
                => pending' = EventsOf(log[p][replayed'[p]].sent)]_optimisticVars
  BY ResendsStep
<1> QED
  BY <1>1, <1>2, SequentialInvStep, PTL DEF OptimisticSpec, ResendsTheSame
=============================================================================
