------------------------- MODULE GridQueues_proofs --------------------------
(***************************************************************************)
(* Time and queues, in every grid.  No service schedules an event in the   *)
(* past; packets leave a link one at a time, in whichever direction; a     *)
(* machine works on no more tasks than it has cores, and no task waits in  *)
(* it while a core is idle, once the clock has passed what the array of    *)
(* the core times happened to hold.  A link and a core are represented     *)
(* only by the time at which they will be free; what the invariants add is *)
(* how this time bounds the work that they have promised.                  *)
(***************************************************************************)
EXTENDS GridTasks_proofs

-----------------------------------------------------------------------------
(* Time.  onInit sends at 0 whatever the time is, so the invariant needs that
   no time has passed while a master has not started. *)

StartsAtZero == inits # {} => now = 0

TimeInv == TypeInv /\ NothingInThePast /\ StartsAtZero

-----------------------------------------------------------------------------
(* A handler that sends nothing before the time of its event. *)
LEMMA ReplaceInTime ==
  ASSUME TimeInv, TypeInv', NEW e \in pending, Ready(e), NEW new, Replace(e, new),
         \A f \in new : f.time >= e.time
  PROVE  TimeInv'
BY DEF TimeInv, NothingInThePast, StartsAtZero, Ready, Replace

LEMMA StopInTime ==
  ASSUME TimeInv, TypeInv', NEW e \in pending, Ready(e), NEW why, Stop(e, why)
  PROVE  TimeInv'
BY DEF TimeInv, NothingInThePast, StartsAtZero, Ready, Stop

(* A packet of the queue, and the times of what a handler makes of it. *)
LEMMA PacketType ==
  ASSUME TimeInv, NEW e \in pending
  PROVE  /\ e \in Event /\ e.time \in Nat /\ e.procSize \in Nat /\ e.commSize \in Nat
         /\ e.time >= e.time
BY DEF TimeInv, TypeInv, TypeOK, EngineTypeOK, Event

LEMMA ForwardInTime ==
  ASSUME TimeInv, TypeInv', NEW e \in pending, Ready(e), NEW self, Forward(self, e)
  PROVE  TimeInv'
<1> DEFINE sent(next) == [e EXCEPT !.to = next, !.previous = self, !.offset = NextOffset(e)]
<1>1. ASSUME NEW next, Replace(e, {sent(next)})
      PROVE  TimeInv'
  <2>1. sent(next).time >= e.time
    BY PacketType DEF Event
  <2> HIDE DEF sent
  <2> QED
    BY <1>1, <2>1, ReplaceInTime
<1>2. CASE Stop(e, "no route")
  BY <1>2, StopInTime
<1> QED
  BY <1>1, <1>2 DEF Forward

-----------------------------------------------------------------------------
LEMMA LinkInTime == ASSUME TimeInv, TypeInv', LinkArrival PROVE TimeInv'
<1>1. PICK e \in pending : e.to \in Links /\ Ready(e) /\ LinkOnTaskArrival(e.to, e)
  BY DEF LinkArrival
<1> DEFINE l == e.to
           sent == [e EXCEPT !.to = OtherEnd(l, e), !.time = LinkDeparture(l, e),
                             !.previous = l]
<1>2. LinkDeparture(l, e) >= e.time
  <2>1. e.time \in Nat /\ LinkCommTime(l, e.commSize) \in Nat
    BY <1>1, PacketType, LinkAssumption DEF LinkCommTime
  <2>2. linkAvailable[l] \in Nat
    BY <1>1 DEF TimeInv, TypeInv, TypeOK, LinkTypeOK
  <2> QED
    BY <2>1, <2>2 DEF LinkDeparture
<1>3. sent.time >= e.time
  BY <1>2, PacketType DEF Event
<1> HIDE DEF sent
<1>4. CASE Replace(e, {sent})
  BY <1>1, <1>3, <1>4, ReplaceInTime
<1>5. CASE Stop(e, "not an end")
  BY <1>1, <1>5, StopInTime
<1> QED
  BY <1>1, <1>4, <1>5 DEF LinkOnTaskArrival, sent

LEMMA SwitchInTime == ASSUME TimeInv, TypeInv', SwitchArrival PROVE TimeInv'
BY ForwardInTime DEF SwitchArrival, SwitchOnTaskArrival

LEMMA MachineInTime == ASSUME TimeInv, TypeInv', MachineArrival PROVE TimeInv'
<1>1. PICK e \in pending : e.to \in Machines /\ Ready(e) /\ MachineOnTaskArrival(e.to, e)
  BY DEF MachineArrival
<1> DEFINE m == e.to
           sent(c) == [e EXCEPT !.to = e.previous, !.time = CoreDeparture(m, c, e),
                                !.processed = TRUE, !.previous = m,
                                !.offset = AnswerOffset(e.offset), !.forward = FALSE]
<1>2. CASE Forward(m, e)
  BY <1>1, <1>2, ForwardInTime
<1>3. ASSUME NEW c \in 0 .. Cores[m] - 1, Replace(e, {sent(c)})
      PROVE  TimeInv'
  <2>1. CoreDeparture(m, c, e) >= e.time
    <3>1. e.time \in Nat /\ TimeToProcess(m, e.procSize) \in Nat
      BY <1>1, PacketType, MachineAssumption DEF TimeToProcess
    <3>2. coreFreeTimes[m][c] \in Nat
      BY <1>1 DEF TimeInv, TypeInv, TypeOK, MachineTypeOK, CoreTimes
    <3> QED
      BY <3>1, <3>2 DEF CoreDeparture
  <2>2. sent(c).time >= e.time
    BY <2>1, PacketType DEF Event
  <2> HIDE DEF sent
  <2> QED
    BY <1>1, <1>3, <2>2, ReplaceInTime
<1> QED
  BY <1>1, <1>2, <1>3 DEF MachineOnTaskArrival, MachineForward, MachineProcess

-----------------------------------------------------------------------------
LEMMA SendInTime ==
  ASSUME TimeInv, TypeInv', NEW e \in pending, Ready(e), NEW m, NEW t \in Event,
         SendToNext(m, e, t)
  PROVE  TimeInv'
<1> DEFINE sent == ToSlave(m, Slave(m, 0), e.time, t)
<1>1. sent.time >= e.time
  BY PacketType DEF ToSlave, Event
<1> HIDE DEF sent
<1>2. CASE Replace(e, {sent})
  BY <1>1, <1>2, ReplaceInTime
<1>3. CASE Stop(e, "no slave") \/ Stop(e, "no route")
  BY <1>3, StopInTime
<1> QED
  BY <1>2, <1>3 DEF SendToNext, sent

LEMMA RelayInTime ==
  ASSUME TimeInv, TypeInv', NEW e \in pending, Ready(e), NEW m, Relay(m, e)
  PROVE  TimeInv'
<1> DEFINE sent(next) == [e EXCEPT !.to = next, !.source = e.origin, !.destination = m,
                                   !.previous = m, !.offset = NextOffset(e),
                                   !.forward = FALSE]
<1>1. ASSUME NEW next, Replace(e, {sent(next)}) PROVE TimeInv'
  <2>1. sent(next).time >= e.time
    BY PacketType DEF Event
  <2> HIDE DEF sent
  <2> QED
    BY <1>1, <2>1, ReplaceInTime
<1>2. CASE Stop(e, "no route")
  BY <1>2, StopInTime
<1> QED
  BY <1>1, <1>2 DEF Relay

LEMMA MasterInTime == ASSUME TimeInv, TypeInv', MasterArrival PROVE TimeInv'
<1>1. PICK e \in pending : e.to \in Masters /\ Ready(e) /\ MasterOnTaskArrival(e.to, e)
  BY DEF MasterArrival
<1> DEFINE m == e.to
<1>2. CASE SendToNext(m, e, e)
  BY <1>1, <1>2, PacketType, SendInTime
<1>3. CASE Relay(m, e)
  BY <1>1, <1>3, RelayInTime
<1>4. CASE OnCompletedTask(m, e)
  <2>1. CASE Stop(e, "bad workload")
    BY <1>1, <2>1, StopInTime
  <2>2. CASE Replace(e, {})
    BY <1>1, <2>2, ReplaceInTime
  <2>3. ASSUME NEW size \in TaskSizes,
               SendToNext(m, e, NewTask("scheduler", m, TaskNumber(m, 0), size))
        PROVE  TimeInv'
    <3>1. remaining[m] \in Nat
      BY <1>1 DEF TimeInv, TypeInv, TypeOK, MasterTypeOK
    <3>2. NewTask("scheduler", m, TaskNumber(m, 0), size) \in Event
      BY <1>1, <3>1, NewTaskType DEF TaskNumber
    <3> QED
      BY <1>1, <2>3, <3>2, SendInTime
  <2> QED
    BY <1>4, <2>1, <2>2, <2>3 DEF OnCompletedTask
<1> QED
  BY <1>1, <1>2, <1>3, <1>4 DEF MasterOnTaskArrival

LEMMA SchedulerInitInTime == ASSUME TimeInv, TypeInv', SchedulerInit PROVE TimeInv'
<1>1. PICK m \in Masters : MasterOnSchedulerInit(m)
  BY DEF SchedulerInit
<1>2. /\ m \in inits /\ now = 0 /\ now' = now /\ OnInit(m)
      /\ nextResource[m] \in Nat /\ remaining[m] \in Nat
  BY <1>1 DEF MasterOnSchedulerInit, TimeInv, StartsAtZero, TypeInv, TypeOK, MasterTypeOK
<1>3. \A f \in pending' \ pending : f.time >= 0
  <2>1. pending' \subseteq Event
    BY DEF TypeInv, TypeOK, EngineTypeOK
  <2> QED
    BY <2>1 DEF Event
<1>4. NothingInThePast' /\ StartsAtZero'
  BY <1>2, <1>3 DEF TimeInv, NothingInThePast, StartsAtZero, OnInit
<1> QED
  BY <1>4 DEF TimeInv

-----------------------------------------------------------------------------
LEMMA TimeInit == Init => TimeInv
<1> SUFFICES ASSUME Init PROVE TimeInv
  OBVIOUS
<1>1. TypeInv /\ now = 0
  BY InitType DEF Init
<1>2. NothingInThePast
  BY <1>1 DEF NothingInThePast, TypeInv, TypeOK, EngineTypeOK, Event
<1> QED
  BY <1>1, <1>2 DEF TimeInv, StartsAtZero

LEMMA TimeStep == TimeInv /\ [Next]_vars => TimeInv'
<1> SUFFICES ASSUME TimeInv, [Next]_vars PROVE TimeInv'
  OBVIOUS
<1> TypeInv'
  BY TypeStep DEF TimeInv
<1>1. CASE UNCHANGED vars
  BY <1>1 DEF vars, engineVars, TimeInv, NothingInThePast, StartsAtZero
<1> QED
  BY <1>1, SchedulerInitInTime, LinkInTime, SwitchInTime, MachineInTime, MasterInTime DEF Next

(* In any grid, whatever its queues, routes and uninitialised memory, an event
   is scheduled at or after the time of the handler that schedules it: the
   clock of the simulation never goes back. *)
THEOREM Causality == Spec => []NothingInThePast
BY TimeInit, TimeStep, PTL DEF Spec, TimeInv

-----------------------------------------------------------------------------
(* Links. *)

(* A link is available when the last packet it has sent has left. *)
LinksBooked ==
  \A e \in pending : e.previous \in Links => e.time <= linkAvailable[e.previous]

LinkInv == TypeInv /\ LinksBooked /\ LinksSerial

(* Times are naturals; used where an event of the queue is at hand. *)
LEMMA EventNumbers ==
  ASSUME TypeOK, NEW e \in pending
  PROVE  e \in Event /\ e.time \in Nat /\ e.procSize \in Nat /\ e.commSize \in Nat
BY DEF TypeOK, EngineTypeOK, Event

(* The handlers of the other services sign their events themselves. *)
LEMMA OthersKeepLinks ==
  ASSUME LinkInv, UNCHANGED linkVars,
         \A f \in pending' \ pending : f.previous \notin Links
  PROVE  LinksBooked' /\ LinksSerial'
BY DEF LinkInv, LinksBooked, LinksSerial, linkVars, LinkCommTime

LEMMA LinkKeepsQueue == ASSUME LinkInv, LinkArrival PROVE LinksBooked' /\ LinksSerial'
<1>1. PICK e \in pending : e.to \in Links /\ LinkOnTaskArrival(e.to, e)
  BY DEF LinkArrival
<1> DEFINE l == e.to
           cost == LinkCommTime(l, e.commSize)
           sent == [e EXCEPT !.to = OtherEnd(l, e), !.time = LinkDeparture(l, e),
                             !.previous = l]
<1>2. /\ e \in Event /\ e.time \in Nat /\ cost \in Nat /\ l \in Links
      /\ linkAvailable \in [Links -> Nat]
  <2>1. e \in Event /\ e.time \in Nat /\ e.commSize \in Nat
    BY EventNumbers DEF LinkInv, TypeInv
  <2> QED
    BY <1>1, <2>1, LinkAssumption DEF LinkCommTime, LinkInv, TypeInv, TypeOK, LinkTypeOK
<1>3. /\ LinkDeparture(l, e) \in Nat
      /\ LinkDeparture(l, e) >= linkAvailable[l] + cost
  BY <1>2 DEF LinkDeparture
<1>4. /\ sent.time = LinkDeparture(l, e) /\ sent.previous = l /\ sent.commSize = e.commSize
  BY <1>2 DEF Event
<1>5. /\ linkAvailable'[l] = LinkDeparture(l, e)
      /\ \A k \in Links : k # l => linkAvailable'[k] = linkAvailable[k]
  BY <1>1, <1>2 DEF LinkOnTaskArrival
<1>6. pending' \subseteq pending \cup {sent}
  BY <1>1 DEF LinkOnTaskArrival, Replace, Stop
<1> HIDE DEF sent, cost, l
<1>7. \A f \in pending : f.previous = l => f.time \in Nat /\ f.time <= linkAvailable[l]
  BY <1>2, EventNumbers DEF LinkInv, TypeInv, LinksBooked
<1>8. LinksBooked'
  <2> SUFFICES ASSUME NEW f \in pending', f.previous \in Links
               PROVE  f.time <= linkAvailable'[f.previous]
    BY DEF LinksBooked
  <2>1. CASE f = sent
    BY <2>1, <1>3, <1>4, <1>5
  <2>2. CASE f \in pending /\ f.previous = l
    BY <2>2, <1>2, <1>3, <1>5, <1>7
  <2>3. CASE f \in pending /\ f.previous # l
    BY <2>3, <1>5 DEF LinkInv, LinksBooked
  <2> QED
    BY <2>1, <2>2, <2>3, <1>6
<1>9. ASSUME NEW f \in pending, f.previous = l
      PROVE  sent.time >= f.time + LinkCommTime(l, sent.commSize)
  BY <1>2, <1>3, <1>4, <1>7, <1>9 DEF cost
<1>10. LinksSerial'
  <2> SUFFICES ASSUME NEW f \in pending', NEW g \in pending', f # g,
                      f.previous = g.previous, f.previous \in Links, f.time <= g.time
               PROVE  \/ g.time - f.time >= LinkCommTime(f.previous, g.commSize)
                      \/ f.time = g.time /\ LinkCommTime(f.previous, f.commSize) = 0
    BY DEF LinksSerial, LinkCommTime
  <2>1. CASE f \in pending /\ g \in pending
    BY <2>1 DEF LinkInv, LinksSerial
  <2>2. CASE f \in pending /\ g = sent
    <3>1. f.time \in Nat /\ sent.time >= f.time + LinkCommTime(l, sent.commSize)
      BY <2>2, <1>4, <1>7, <1>9
    <3>2. sent.time \in Nat /\ LinkCommTime(l, sent.commSize) \in Nat
      BY <1>2, <1>3, <1>4 DEF cost
    <3> QED
      BY <2>2, <3>1, <3>2, <1>4
  <2>3. CASE f = sent /\ g \in pending
    <3>1. g.time \in Nat /\ sent.time >= g.time + LinkCommTime(l, sent.commSize)
      BY <2>3, <1>4, <1>7, <1>9
    <3>2. sent.time \in Nat /\ LinkCommTime(l, sent.commSize) \in Nat
      BY <1>2, <1>3, <1>4 DEF cost
    <3> QED
      BY <2>3, <3>1, <3>2, <1>4
  <2> QED
    BY <2>1, <2>2, <2>3, <1>6
<1> QED
  BY <1>8, <1>10

(* What the handlers of switches, machines and masters send is signed by the
   service itself; a machine signs for its own destination only the answer to
   a task that it has taken. *)
LEMMA ForwardSigns ==
  ASSUME TypeInv, NEW self, NEW e \in pending, Forward(self, e),
         NEW f \in pending' \ pending
  PROVE  f.previous = self /\ f.destination = e.destination
BY EventNumbers DEF Forward, Replace, Stop, TypeInv, Event

LEMMA SwitchSigns ==
  ASSUME TypeInv, SwitchArrival, NEW f \in pending' \ pending
  PROVE  f.previous \in Switches
<1>1. PICK e \in pending : e.to \in Switches /\ Forward(e.to, e)
  BY DEF SwitchArrival, SwitchOnTaskArrival
<1> QED
  BY <1>1, ForwardSigns

LEMMA LinkSigns ==
  ASSUME TypeInv, LinkArrival, NEW f \in pending' \ pending
  PROVE  f.previous \in Links
<1>1. PICK e \in pending : e.to \in Links /\ LinkOnTaskArrival(e.to, e)
  BY DEF LinkArrival
<1> DEFINE sent == [e EXCEPT !.to = OtherEnd(e.to, e), !.time = LinkDeparture(e.to, e),
                             !.previous = e.to]
<1>2. sent.previous = e.to
  BY EventNumbers DEF TypeInv, Event
<1> HIDE DEF sent
<1>3. pending' \subseteq pending \cup {sent}
  BY <1>1 DEF LinkOnTaskArrival, Replace, Stop, sent
<1> QED
  BY <1>1, <1>2, <1>3

LEMMA ProcessSigns ==
  ASSUME TypeInv, NEW m, NEW e \in pending, MachineProcess(m, e),
         NEW f \in pending' \ pending
  PROVE  f.previous = m
BY EventNumbers DEF MachineProcess, Replace, TypeInv, Event

LEMMA SendSigns ==
  ASSUME NEW m, NEW e, NEW t \in Event, SendToNext(m, e, t),
         NEW f \in pending' \ pending
  PROVE  f.previous = m
<1> DEFINE sent == ToSlave(m, Slave(m, 0), e.time, t)
<1>1. sent.previous = m
  BY DEF ToSlave, Event
<1> HIDE DEF sent
<1>2. pending' \subseteq pending \cup {sent}
  BY DEF SendToNext, Replace, Stop, sent
<1> QED
  BY <1>1, <1>2

LEMMA RelaySigns ==
  ASSUME TypeInv, NEW m, NEW e \in pending, Relay(m, e), NEW f \in pending' \ pending
  PROVE  f.previous = m
BY EventNumbers DEF Relay, Replace, Stop, TypeInv, Event

LEMMA MasterSigns ==
  ASSUME TypeInv, MasterArrival, NEW f \in pending' \ pending
  PROVE  f.previous \in Masters
<1>1. PICK e \in pending : e.to \in Masters /\ MasterOnTaskArrival(e.to, e)
  BY DEF MasterArrival
<1> DEFINE m == e.to
<1>2. CASE SendToNext(m, e, e)
  BY <1>1, <1>2, EventNumbers, SendSigns DEF TypeInv
<1>3. CASE Relay(m, e)
  BY <1>1, <1>3, RelaySigns
<1>4. CASE OnCompletedTask(m, e)
  <2>1. CASE Stop(e, "bad workload") \/ Replace(e, {})
    BY <2>1 DEF Stop, Replace
  <2>2. ASSUME NEW size \in TaskSizes,
               SendToNext(m, e, NewTask("scheduler", m, TaskNumber(m, 0), size))
        PROVE  f.previous = m
    <3>1. remaining[m] \in Nat
      BY <1>1 DEF TypeInv, TypeOK, MasterTypeOK
    <3>2. NewTask("scheduler", m, TaskNumber(m, 0), size) \in Event
      BY <1>1, <3>1, NewTaskType DEF TaskNumber
    <3> QED
      BY <2>2, <3>2, SendSigns
  <2> QED
    BY <1>1, <1>4, <2>1, <2>2 DEF OnCompletedTask
<1> QED
  BY <1>1, <1>2, <1>3, <1>4 DEF MasterOnTaskArrival

LEMMA SchedulerSigns ==
  ASSUME TypeInv, SchedulerInit, NEW f \in pending' \ pending
  PROVE  f.previous \in Masters
<1>1. PICK m \in Masters : OnInit(m)
  BY DEF SchedulerInit, MasterOnSchedulerInit
<1> DEFINE sent(i, size) ==
             ToSlave(m, Slave(m, i), 0, NewTask("scheduler", m, TaskNumber(m, i), size[i]))
<1>2. \A i, size : sent(i, size).previous = m
  BY DEF ToSlave, NewTask
<1> HIDE DEF sent
<1>3. \E i, size : f = sent(i, size)
  <2>1. PICK size : pending' = pending \cup {sent(i, size) : i \in 0 .. InitialBatch(m) - 1}
    BY <1>1 DEF OnInit, sent
  <2> QED
    BY <2>1
<1> QED
  BY <1>2, <1>3

LEMMA LinkInvInit == Init => LinkInv
<1> SUFFICES ASSUME Init PROVE LinkInv
  OBVIOUS
<1>1. \A e \in pending : e.previous = Nobody
  BY DEF Init, BuilderInit, NewTask
<1>2. Nobody \notin Links
  BY EngineAssumption DEF Nobody, Services
<1> QED
  BY <1>1, <1>2, InitType DEF LinkInv, LinksBooked, LinksSerial

LEMMA LinkStep == LinkInv /\ [Next]_vars => LinkInv'
<1> SUFFICES ASSUME LinkInv, [Next]_vars PROVE LinkInv'
  OBVIOUS
<1>1. TypeInv /\ TypeInv'
  BY TypeStep DEF LinkInv
<1> SUFFICES LinksBooked' /\ LinksSerial'
  BY <1>1 DEF LinkInv
<1>2. \A s \in Masters \cup Switches \cup Machines : s \notin Links
  BY EngineAssumption
<1>3. CASE UNCHANGED vars
  BY <1>3, OthersKeepLinks DEF vars, engineVars
<1>4. CASE SchedulerInit
  BY <1>1, <1>2, <1>4, SchedulerSigns, OthersKeepLinks DEF SchedulerInit
<1>5. CASE LinkArrival
  BY <1>5, LinkKeepsQueue
<1>6. CASE SwitchArrival
  BY <1>1, <1>2, <1>6, SwitchSigns, OthersKeepLinks DEF SwitchArrival
<1>7. CASE MachineArrival
  <2>1. PICK e \in pending : /\ e.to \in Machines /\ UNCHANGED linkVars
                             /\ Forward(e.to, e) \/ MachineProcess(e.to, e)
    BY <1>7 DEF MachineArrival, MachineOnTaskArrival, MachineForward
  <2> QED
    BY <1>1, <1>2, <2>1, ForwardSigns, ProcessSigns, OthersKeepLinks
<1>8. CASE MasterArrival
  BY <1>1, <1>2, <1>8, MasterSigns, OthersKeepLinks DEF MasterArrival
<1> QED
  BY <1>3, <1>4, <1>5, <1>6, <1>7, <1>8 DEF Next

(* In every grid, two packets leave a link at least the time apart that the
   later of them takes to cross it, in whatever directions they go. *)
THEOREM LinksAreSerial == Spec => []LinksSerial
BY LinkInvInit, LinkStep, PTL DEF Spec, LinkInv

-----------------------------------------------------------------------------
(* Cores. *)

StartOf(m, f) == f.time - TimeToProcess(m, f.procSize)

Numbered(m) == 0 .. Cores[m] - 1

(* The tasks of a machine can be told their cores: each core works on one
   after the other, and is free when all of them are done. *)
IsBooking(m, tasks, freeTimes, core) ==
  /\ core \in [tasks -> Numbered(m)]
  /\ \A f \in tasks : f.time <= freeTimes[core[f]]
  /\ \A f, g \in tasks :
       f # g /\ core[f] = core[g] => f.time <= StartOf(m, g) \/ g.time <= StartOf(m, f)

Booked(m, tasks, freeTimes) == \E core : IsBooking(m, tasks, freeTimes, core)

CoresBooked == \A m \in Machines : Booked(m, BeingProcessed(m), coreFreeTimes[m])

CoreInv == TypeInv /\ CoresBooked

LEMMA TaskTimes ==
  ASSUME NEW m \in Machines, NEW f \in Event
  PROVE  f.time \in Nat /\ StartOf(m, f) \in Int /\ StartOf(m, f) <= f.time
<1>1. f.time \in Nat /\ f.procSize \in Nat /\ MachineUnitCost[m] \in Nat
  BY MachineAssumption DEF Event
<1>2. TimeToProcess(m, f.procSize) \in Nat
  BY <1>1 DEF TimeToProcess
<1> QED
  BY <1>1, <1>2 DEF StartOf

(* A machine has as many numbers for its cores as it has cores. *)
LEMMA NumberOfCores ==
  ASSUME NEW m \in Machines
  PROVE  IsFiniteSet(Numbered(m)) /\ Cardinality(Numbered(m)) = Cores[m]
<1>1. Cores[m] \in Nat \ {0}
  BY MachineAssumption
<1>2. 0 \in Int /\ Cores[m] - 1 \in Int
  BY <1>1
<1>3. /\ IsFiniteSet(0 .. Cores[m] - 1)
      /\ Cardinality(0 .. Cores[m] - 1) = IF 0 > Cores[m] - 1 THEN 0 ELSE Cores[m] - 1 - 0 + 1
  BY <1>2, FS_Interval
<1> QED
  BY <1>1, <1>3 DEF Numbered

(* A booking implies that no more tasks than cores are worked on at a time:
   those of one moment are on different cores. *)
LEMMA BookingIsEnough == CoreInv => CoresRespected
<1> SUFFICES ASSUME CoreInv, NEW m \in Machines, NEW e \in BeingProcessed(m)
             PROVE  Cardinality({f \in BeingProcessed(m) :
                                   StartOf(m, f) <= StartOf(m, e) /\ StartOf(m, e) < f.time})
                      <= Cores[m]
  BY DEF CoresRespected, StartOf
<1> DEFINE S == {f \in BeingProcessed(m) :
                   StartOf(m, f) <= StartOf(m, e) /\ StartOf(m, e) < f.time}
<1>1. PICK core : IsBooking(m, BeingProcessed(m), coreFreeTimes[m], core)
  BY DEF CoreInv, CoresBooked, Booked
<1>2. \A f \in BeingProcessed(m) : f.time \in Nat /\ StartOf(m, f) \in Int
  BY TaskTimes, EventNumbers DEF CoreInv, TypeInv, BeingProcessed
<1> DEFINE onCore == [f \in S |-> core[f]]
<1>3. onCore \in [S -> Numbered(m)]
  BY <1>1 DEF IsBooking
<1>4. \A f, g \in S : onCore[f] = onCore[g] => f = g
  <2> SUFFICES ASSUME NEW f \in S, NEW g \in S, core[f] = core[g], f # g PROVE FALSE
    OBVIOUS
  <2>1. f.time <= StartOf(m, g) \/ g.time <= StartOf(m, f)
    BY <1>1 DEF IsBooking
  <2>2. /\ f.time \in Nat /\ g.time \in Nat /\ StartOf(m, f) \in Int
        /\ StartOf(m, g) \in Int /\ StartOf(m, e) \in Int
    BY <1>2
  <2> QED
    BY <2>1, <2>2
<1>5. onCore \in Injection(S, Numbered(m))
  BY <1>3, <1>4 DEF Injection, IsInjective
<1>6. IsFiniteSet(Numbered(m)) /\ Cardinality(Numbered(m)) = Cores[m]
  BY NumberOfCores
<1> HIDE DEF S, onCore
<1>7. Cardinality(S) <= Cardinality(Numbered(m))
  BY <1>5, <1>6, FS_Injection
<1> QED
  BY <1>6, <1>7 DEF S

(* A machine that gets no new task keeps its booking. *)
LEMMA FewerTasks ==
  ASSUME NEW m \in Machines, NEW tasks \in SUBSET Event, NEW fewer \in SUBSET tasks,
         NEW free \in CoreTimes(m), NEW later \in CoreTimes(m),
         \A c \in Numbered(m) : later[c] >= free[c], Booked(m, tasks, free)
  PROVE  Booked(m, fewer, later)
<1>1. PICK core : IsBooking(m, tasks, free, core)
  BY DEF Booked
<1> DEFINE kept == [f \in fewer |-> core[f]]
<1>2. kept \in [fewer -> Numbered(m)]
  BY <1>1 DEF IsBooking
<1>3. ASSUME NEW f \in fewer PROVE f.time <= later[kept[f]]
  <2>1. f.time \in Nat
    BY TaskTimes
  <2>2. core[f] \in Numbered(m) /\ f.time <= free[core[f]]
    BY <1>1 DEF IsBooking
  <2>3. free[core[f]] \in Nat /\ later[core[f]] \in Nat /\ later[core[f]] >= free[core[f]]
    BY <2>2 DEF CoreTimes, Numbered
  <2> QED
    BY <2>1, <2>2, <2>3
<1>4. IsBooking(m, fewer, later, kept)
  BY <1>1, <1>2, <1>3 DEF IsBooking
<1> QED
  BY <1>4 DEF Booked

(* A task that is given a core when the core is free, and occupies it from
   then on, can be booked with those that are there. *)
LEMMA BookOneMore ==
  ASSUME NEW m \in Machines, NEW tasks \in SUBSET Event, NEW new \in Event,
         NEW free \in CoreTimes(m), NEW c \in Numbered(m), StartOf(m, new) >= free[c],
         NEW core, IsBooking(m, tasks, free, core),
         NEW more \in [tasks \cup {new} -> Numbered(m)], more[new] = c,
         \A f \in tasks : more[f] = core[f]
  PROVE  IsBooking(m, tasks \cup {new}, [free EXCEPT ![c] = new.time], more)
<1> DEFINE later == [free EXCEPT ![c] = new.time]
<1>1. /\ new.time \in Nat /\ StartOf(m, new) \in Int /\ StartOf(m, new) <= new.time
      /\ free \in [Numbered(m) -> Nat]
  BY TaskTimes DEF CoreTimes, Numbered
<1>2. /\ later \in CoreTimes(m) /\ later[c] = new.time
      /\ \A d \in Numbered(m) : later[d] >= free[d]
  BY <1>1 DEF CoreTimes, Numbered
<1> HIDE DEF later
<1>3. ASSUME NEW f \in tasks
      PROVE  /\ f.time \in Nat /\ core[f] \in Numbered(m) /\ f.time <= free[core[f]]
             /\ f.time <= later[core[f]]
  <2>1. f.time \in Nat
    BY TaskTimes
  <2>2. core[f] \in Numbered(m) /\ f.time <= free[core[f]]
    BY DEF IsBooking
  <2>3. later[core[f]] >= free[core[f]] /\ later[core[f]] \in Nat /\ free[core[f]] \in Nat
    BY <1>1, <1>2, <2>2 DEF CoreTimes, Numbered
  <2> QED
    BY <2>1, <2>2, <2>3
<1>4. \A f \in tasks \cup {new} : f.time <= later[more[f]]
  BY <1>1, <1>2, <1>3
<1>5. ASSUME NEW f \in tasks, core[f] = c PROVE f.time <= StartOf(m, new)
  <2>1. free[c] \in Nat
    BY <1>1
  <2> QED
    BY <1>1, <1>3, <1>5, <2>1
<1>6. ASSUME NEW f \in tasks \cup {new}, NEW g \in tasks \cup {new},
             f # g, more[f] = more[g]
      PROVE  f.time <= StartOf(m, g) \/ g.time <= StartOf(m, f)
  <2>1. CASE f \in tasks /\ g \in tasks
    BY <1>6, <2>1 DEF IsBooking
  <2>2. CASE f \in tasks /\ g = new
    BY <1>5, <1>6, <2>2
  <2>3. CASE f = new /\ g \in tasks
    BY <1>5, <1>6, <2>3
  <2> QED
    BY <1>6, <2>1, <2>2, <2>3
<1> QED
  BY <1>4, <1>6 DEF IsBooking, later

LEMMA OneMoreTask ==
  ASSUME NEW m \in Machines, NEW tasks \in SUBSET Event, NEW new \in Event,
         NEW free \in CoreTimes(m), NEW c \in Numbered(m), Booked(m, tasks, free),
         StartOf(m, new) >= free[c]
  PROVE  Booked(m, tasks \cup {new}, [free EXCEPT ![c] = new.time])
<1> DEFINE later == [free EXCEPT ![c] = new.time]
<1>1. /\ new.time \in Nat /\ StartOf(m, new) \in Int /\ StartOf(m, new) <= new.time
      /\ free \in [Numbered(m) -> Nat]
  BY TaskTimes DEF CoreTimes, Numbered
<1>2. /\ later \in CoreTimes(m) /\ later[c] = new.time
      /\ \A d \in Numbered(m) : later[d] >= free[d]
  BY <1>1 DEF CoreTimes, Numbered
<1> HIDE DEF later
<1>3. CASE new \in tasks
  <2>1. tasks \cup {new} = tasks
    BY <1>3
  <2>2. Booked(m, tasks, later)
    BY <1>2, FewerTasks
  <2> QED
    BY <2>1, <2>2 DEF later
<1>4. CASE new \notin tasks
  <2>1. PICK core : IsBooking(m, tasks, free, core)
    BY DEF Booked
  <2> DEFINE more == [f \in tasks \cup {new} |-> IF f = new THEN c ELSE core[f]]
  <2>2. more \in [tasks \cup {new} -> Numbered(m)]
    BY <2>1 DEF IsBooking
  <2>3. more[new] = c /\ \A f \in tasks : more[f] = core[f]
    BY <1>4
  <2> HIDE DEF more
  <2> QED
    BY <2>1, <2>2, <2>3, BookOneMore DEF Booked
<1> QED
  BY <1>3, <1>4

LEMMA SameTimes ==
  ASSUME NEW m, NEW free \in CoreTimes(m), NEW c \in Numbered(m)
  PROVE  free[c] >= free[c]
<1>1. free[c] \in Nat
  BY DEF CoreTimes, Numbered
<1> QED
  BY <1>1

LEMMA CoreTypes ==
  ASSUME TypeInv, NEW m \in Machines
  PROVE  /\ BeingProcessed(m) \in SUBSET Event /\ coreFreeTimes[m] \in CoreTimes(m)
         /\ \A c \in Numbered(m) : coreFreeTimes[m][c] >= coreFreeTimes[m][c]
<1>1. BeingProcessed(m) \in SUBSET Event /\ coreFreeTimes[m] \in CoreTimes(m)
  BY DEF TypeInv, TypeOK, EngineTypeOK, MachineTypeOK, BeingProcessed
<1> QED
  BY <1>1, SameTimes


(* A handler that sends no answer in the name of a machine leaves all bookings
   as they are, or with fewer tasks. *)
LEMMA OthersKeepCores ==
  ASSUME CoreInv, UNCHANGED coreFreeTimes, NEW m \in Machines,
         \A f \in pending' \ pending : ~ (f.previous = m /\ f.destination = m)
  PROVE  Booked(m, BeingProcessed(m)', coreFreeTimes'[m])
<1>1. BeingProcessed(m)' \in SUBSET BeingProcessed(m)
  BY DEF BeingProcessed
<1>2. Booked(m, BeingProcessed(m), coreFreeTimes[m])
  BY DEF CoreInv, CoresBooked
<1> QED
  BY <1>1, <1>2, CoreTypes, FewerTasks DEF CoreInv

LEMMA ProcessKeepsCores ==
  ASSUME CoreInv, NEW m \in Machines, NEW e \in pending, MachineProcess(m, e),
         TypeInv'
  PROVE  Booked(m, BeingProcessed(m)', coreFreeTimes'[m])
<1>1. PICK c \in Numbered(m) :
        /\ coreFreeTimes' = [coreFreeTimes EXCEPT ![m][c] = CoreDeparture(m, c, e)]
        /\ Replace(e, {[e EXCEPT !.to = e.previous, !.time = CoreDeparture(m, c, e),
                                 !.processed = TRUE, !.previous = m,
                                 !.offset = AnswerOffset(e.offset), !.forward = FALSE]})
  BY DEF MachineProcess, Numbered
<1> DEFINE sent == [e EXCEPT !.to = e.previous, !.time = CoreDeparture(m, c, e),
                             !.processed = TRUE, !.previous = m,
                             !.offset = AnswerOffset(e.offset), !.forward = FALSE]
           tasks == BeingProcessed(m)
           free == coreFreeTimes[m]
<1>2. /\ e \in Event /\ e.time \in Nat /\ e.procSize \in Nat
      /\ tasks \in SUBSET Event /\ free \in CoreTimes(m)
  BY EventNumbers, CoreTypes DEF CoreInv, TypeInv
<1>3. /\ sent.time = CoreDeparture(m, c, e) /\ sent.procSize = e.procSize
      /\ sent \in pending'
  BY <1>1, <1>2 DEF Event, Replace
<1>4. sent \in Event
  BY <1>3 DEF TypeInv, TypeOK, EngineTypeOK
<1>5. pending' \subseteq pending \cup {sent}
  BY <1>1 DEF Replace
<1> HIDE DEF sent
<1>6. StartOf(m, sent) >= free[c]
  <2>1. free[c] \in Nat /\ TimeToProcess(m, e.procSize) \in Nat
    BY <1>2, MachineAssumption DEF CoreTimes, Numbered, TimeToProcess
  <2> QED
    BY <1>2, <1>3, <2>1 DEF StartOf, CoreDeparture
<1>7. coreFreeTimes'[m] = [free EXCEPT ![c] = sent.time]
  BY <1>1, <1>2, <1>3 DEF CoreInv, TypeInv, TypeOK, MachineTypeOK
<1>8. Booked(m, tasks, free)
  BY DEF CoreInv, CoresBooked
<1>9. BeingProcessed(m)' \in SUBSET (tasks \cup {sent})
  BY <1>5 DEF BeingProcessed
<1>10. Booked(m, tasks \cup {sent}, coreFreeTimes'[m])
  <2> HIDE DEF tasks, free
  <2>1. Booked(m, tasks \cup {sent}, [free EXCEPT ![c] = sent.time])
    BY <1>2, <1>4, <1>6, <1>8, OneMoreTask
  <2> QED
    BY <1>7, <2>1
<1>11. /\ tasks \cup {sent} \in SUBSET Event /\ coreFreeTimes'[m] \in CoreTimes(m)
       /\ \A d \in Numbered(m) : coreFreeTimes'[m][d] >= coreFreeTimes'[m][d]
  <2>1. coreFreeTimes'[m] \in CoreTimes(m)
    BY DEF TypeInv, TypeOK, MachineTypeOK
  <2> QED
    BY <1>2, <1>4, <2>1, SameTimes
<1> QED
  BY <1>9, <1>10, <1>11, FewerTasks

LEMMA MachineKeepsCores ==
  ASSUME CoreInv, TypeInv', MachineArrival, NEW m \in Machines
  PROVE  Booked(m, BeingProcessed(m)', coreFreeTimes'[m])
<1>1. PICK e \in pending : e.to \in Machines /\ MachineOnTaskArrival(e.to, e)
  BY DEF MachineArrival
<1>2. CASE e.destination # e.to /\ MachineForward(e.to, e)
  <2>1. Forward(e.to, e) /\ UNCHANGED coreFreeTimes
    BY <1>2 DEF MachineForward
  <2>2. \A f \in pending' \ pending : f.previous = e.to /\ f.destination = e.destination
    BY <2>1, ForwardSigns DEF CoreInv
  <2> QED
    BY <1>2, <2>1, <2>2, OthersKeepCores
<1>3. CASE MachineProcess(e.to, e) /\ e.to = m
  BY <1>3, ProcessKeepsCores
<1>4. CASE MachineProcess(e.to, e) /\ e.to # m
  <2>1. \A f \in pending' \ pending : f.previous # m
    BY <1>1, <1>4, ProcessSigns DEF CoreInv
  <2>2. coreFreeTimes'[m] = coreFreeTimes[m]
    BY <1>1, <1>4 DEF MachineProcess, CoreInv, TypeInv, TypeOK, MachineTypeOK
  <2>3. BeingProcessed(m)' \in SUBSET BeingProcessed(m)
    BY <2>1 DEF BeingProcessed
  <2>4. Booked(m, BeingProcessed(m), coreFreeTimes[m])
    BY DEF CoreInv, CoresBooked
  <2> QED
    BY <2>2, <2>3, <2>4, CoreTypes, FewerTasks DEF CoreInv
<1> QED
  BY <1>1, <1>2, <1>3, <1>4 DEF MachineOnTaskArrival

LEMMA CoreInvInit == Init => CoreInv
<1> SUFFICES ASSUME Init PROVE CoreInv
  OBVIOUS
<1>1. TypeInv
  BY InitType
<1>2. \A e \in pending : ~ e.processed
  BY DEF Init, BuilderInit, NewTask
<1>3. ASSUME NEW m \in Machines PROVE Booked(m, BeingProcessed(m), coreFreeTimes[m])
  <2>1. BeingProcessed(m) = {}
    BY <1>2 DEF BeingProcessed
  <2>2. IsBooking(m, {}, coreFreeTimes[m], [f \in {} |-> 0])
    BY DEF IsBooking
  <2> QED
    BY <2>1, <2>2 DEF Booked
<1> QED
  BY <1>1, <1>3 DEF CoreInv, CoresBooked

LEMMA CoreStep == CoreInv /\ [Next]_vars => CoreInv'
<1> SUFFICES ASSUME CoreInv, [Next]_vars PROVE CoreInv'
  OBVIOUS
<1>1. TypeInv /\ TypeInv'
  BY TypeStep DEF CoreInv
<1>2. \A s \in Masters \cup Switches \cup Links : s \notin Machines
  BY EngineAssumption
<1>3. ASSUME NEW m \in Machines PROVE Booked(m, BeingProcessed(m)', coreFreeTimes'[m])
  <2>1. CASE UNCHANGED vars
    BY <2>1, OthersKeepCores DEF vars, engineVars, machineVars
  <2>2. CASE SchedulerInit
    BY <1>1, <1>2, <2>2, SchedulerSigns, OthersKeepCores DEF SchedulerInit, machineVars
  <2>3. CASE LinkArrival
    BY <1>1, <1>2, <2>3, LinkSigns, OthersKeepCores DEF LinkArrival, machineVars
  <2>4. CASE SwitchArrival
    BY <1>1, <1>2, <2>4, SwitchSigns, OthersKeepCores DEF SwitchArrival, machineVars
  <2>5. CASE MachineArrival
    BY <1>1, <2>5, MachineKeepsCores
  <2>6. CASE MasterArrival
    BY <1>1, <1>2, <2>6, MasterSigns, OthersKeepCores DEF MasterArrival, machineVars
  <2> QED
    BY <2>1, <2>2, <2>3, <2>4, <2>5, <2>6 DEF Next
<1>4. CoresBooked'
  BY <1>3 DEF CoresBooked
<1> QED
  BY <1>1, <1>4 DEF CoreInv

(* In every grid, and whatever the uninitialised core times hold, a machine
   never works on more tasks at a time than it has cores. *)
THEOREM CoresAreRespected == Spec => []CoresRespected
BY CoreInvInit, CoreStep, BookingIsEnough, PTL DEF Spec

-----------------------------------------------------------------------------
(* Idle cores.  From time t on, until it is free, a core is never without one
   of its tasks; and a task that starts after t starts no later than any core
   is free.  Before that, t is the clock, once it has passed the latest of the
   times that the uninitialised array may have held. *)

Covered(m, tasks, freeTimes, core, t) ==
  \A c \in Numbered(m) : \A x \in Nat :
    t <= x /\ x < freeTimes[c] =>
      \E f \in tasks : core[f] = c /\ StartOf(m, f) <= x /\ x < f.time

Waits(m, tasks, freeTimes, t) ==
  \A f \in tasks : StartOf(m, f) > t => \A c \in Numbered(m) : StartOf(m, f) <= freeTimes[c]

IsBusy(m, tasks, freeTimes, core, t) ==
  /\ IsBooking(m, tasks, freeTimes, core)
  /\ Covered(m, tasks, freeTimes, core, t)
  /\ Waits(m, tasks, freeTimes, t)

Busy(m, tasks, freeTimes, t) == \E core : IsBusy(m, tasks, freeTimes, core, t)

(* If a task waits, each core works on exactly one of the tasks. *)
LEMMA BusyIsEnough ==
  ASSUME NEW m \in Machines, NEW tasks \in SUBSET Event, NEW free \in CoreTimes(m),
         NEW t \in Nat, Busy(m, tasks, free, t), NEW e \in tasks, StartOf(m, e) > t
  PROVE  Cardinality({f \in tasks : StartOf(m, f) <= t /\ t < f.time}) = Cores[m]
<1> DEFINE S == {f \in tasks : StartOf(m, f) <= t /\ t < f.time}
<1>1. PICK core : IsBusy(m, tasks, free, core, t)
  BY DEF Busy
<1>2. \A f \in tasks : f.time \in Nat /\ StartOf(m, f) \in Int
  BY TaskTimes
<1> DEFINE onCore == [f \in S |-> core[f]]
<1>3. onCore \in [S -> Numbered(m)]
  BY <1>1 DEF IsBusy, IsBooking
<1>4. \A f, g \in S : onCore[f] = onCore[g] => f = g
  <2> SUFFICES ASSUME NEW f \in S, NEW g \in S, core[f] = core[g], f # g PROVE FALSE
    OBVIOUS
  <2>1. f.time <= StartOf(m, g) \/ g.time <= StartOf(m, f)
    BY <1>1 DEF IsBusy, IsBooking
  <2>2. f.time \in Nat /\ g.time \in Nat /\ StartOf(m, f) \in Int /\ StartOf(m, g) \in Int
    BY <1>2
  <2> QED
    BY <2>1, <2>2
<1>5. ASSUME NEW c \in Numbered(m) PROVE \E f \in S : onCore[f] = c
  <2>1. StartOf(m, e) <= free[c] /\ StartOf(m, e) \in Int /\ free[c] \in Nat
    BY <1>1, <1>2 DEF IsBusy, Waits, CoreTimes, Numbered
  <2>2. t <= t /\ t < free[c]
    BY <2>1
  <2>3. PICK f \in tasks : core[f] = c /\ StartOf(m, f) <= t /\ t < f.time
    BY <1>1, <2>2 DEF IsBusy, Covered
  <2> QED
    BY <2>3
<1>6. onCore \in Bijection(S, Numbered(m))
  BY <1>3, <1>4, <1>5 DEF Bijection, Injection, IsInjective, Surjection
<1>7. IsFiniteSet(Numbered(m)) /\ Cardinality(Numbered(m)) = Cores[m]
  BY NumberOfCores
<1> HIDE DEF S, onCore
<1>8. onCore \in Injection(S, Numbered(m)) /\ onCore \in Surjection(S, Numbered(m))
  BY <1>6 DEF Bijection
<1>9. Cardinality(S) = Cardinality(Numbered(m))
  BY <1>7, <1>8, FS_Injection
<1> QED
  BY <1>7, <1>9 DEF S

(* Tasks that are done by t2 may go. *)
LEMMA FewerBusy ==
  ASSUME NEW m \in Machines, NEW tasks \in SUBSET Event, NEW fewer \in SUBSET tasks,
         NEW free \in CoreTimes(m), NEW t \in Nat, NEW t2 \in Nat, t <= t2,
         \A f \in tasks \ fewer : f.time <= t2, Busy(m, tasks, free, t)
  PROVE  Busy(m, fewer, free, t2)
<1>1. PICK core : IsBusy(m, tasks, free, core, t)
  BY DEF Busy
<1>2. \A f \in tasks : f.time \in Nat /\ StartOf(m, f) \in Int
  BY TaskTimes
<1> DEFINE kept == [f \in fewer |-> core[f]]
<1>3. kept \in [fewer -> Numbered(m)] /\ \A f \in fewer : kept[f] = core[f]
  BY <1>1 DEF IsBusy, IsBooking
<1> HIDE DEF kept
<1>4. IsBooking(m, fewer, free, kept)
  BY <1>1, <1>3 DEF IsBusy, IsBooking
<1>5. Covered(m, fewer, free, kept, t2)
  <2> SUFFICES ASSUME NEW c \in Numbered(m), NEW x \in Nat, t2 <= x, x < free[c]
               PROVE  \E f \in fewer : kept[f] = c /\ StartOf(m, f) <= x /\ x < f.time
    BY DEF Covered
  <2>1. t <= x
    OBVIOUS
  <2>2. PICK f \in tasks : core[f] = c /\ StartOf(m, f) <= x /\ x < f.time
    BY <1>1, <2>1 DEF IsBusy, Covered
  <2>3. f \in fewer
    BY <1>2, <2>2
  <2> QED
    BY <1>3, <2>2, <2>3
<1>6. Waits(m, fewer, free, t2)
  <2> SUFFICES ASSUME NEW f \in fewer, StartOf(m, f) > t2, NEW c \in Numbered(m)
               PROVE  StartOf(m, f) <= free[c]
    BY DEF Waits
  <2>1. StartOf(m, f) > t
    BY <1>2
  <2> QED
    BY <1>1, <2>1 DEF IsBusy, Waits
<1> QED
  BY <1>4, <1>5, <1>6 DEF Busy, IsBusy

(* A task that arrives by t and is given the core that is free first, at once
   or when it is free, leaves no core idle before a task that waits. *)
LEMMA OneMoreBusy ==
  ASSUME NEW m \in Machines, NEW tasks \in SUBSET Event, NEW new \in Event, new \notin tasks,
         NEW free \in CoreTimes(m), NEW c \in Numbered(m), NEW t \in Nat,
         \A d \in Numbered(m) : free[c] <= free[d],
         StartOf(m, new) >= free[c], StartOf(m, new) <= t \/ StartOf(m, new) = free[c],
         Busy(m, tasks, free, t)
  PROVE  Busy(m, tasks \cup {new}, [free EXCEPT ![c] = new.time], t)
<1> DEFINE later == [free EXCEPT ![c] = new.time]
           all == tasks \cup {new}
<1>1. PICK core : IsBusy(m, tasks, free, core, t)
  BY DEF Busy
<1>2. \A f \in all : f.time \in Nat /\ StartOf(m, f) \in Int /\ StartOf(m, f) <= f.time
  BY TaskTimes
<1>3. free \in [Numbered(m) -> Nat]
  BY DEF CoreTimes, Numbered
<1>4. /\ later[c] = new.time /\ \A d \in Numbered(m) \ {c} : later[d] = free[d]
      /\ \A d \in Numbered(m) : later[d] \in Nat /\ later[d] >= free[d]
  BY <1>2, <1>3
<1> DEFINE more == [f \in all |-> IF f = new THEN c ELSE core[f]]
<1>5. /\ more \in [all -> Numbered(m)] /\ more[new] = c
      /\ \A f \in tasks : more[f] = core[f]
  BY <1>1 DEF IsBusy, IsBooking
<1>6. tasks \subseteq all /\ new \in all
  OBVIOUS
<1> HIDE DEF later, more
<1>7. IsBooking(m, all, later, more)
  BY <1>1, <1>4, <1>5, BookOneMore DEF IsBusy, later
<1>8. Covered(m, all, later, more, t)
  <2> SUFFICES ASSUME NEW d \in Numbered(m), NEW x \in Nat, t <= x, x < later[d]
               PROVE  \E f \in all : more[f] = d /\ StartOf(m, f) <= x /\ x < f.time
    BY DEF Covered
  <2>1. CASE x < free[d]
    <3>1. PICK f \in tasks : core[f] = d /\ StartOf(m, f) <= x /\ x < f.time
      BY <1>1, <2>1 DEF IsBusy, Covered
    <3> QED
      BY <1>5, <1>6, <3>1
  <2>2. CASE ~ x < free[d]
    <3>1. d = c /\ x < new.time
      BY <1>4, <2>2
    <3>2. StartOf(m, new) <= x
      <4>1. StartOf(m, new) \in Int /\ free[c] \in Nat
        BY <1>2, <1>3, <1>6
      <4> QED
        BY <2>2, <3>1, <4>1
    <3> QED
      BY <1>5, <1>6, <3>1, <3>2
  <2> QED
    BY <2>1, <2>2
<1>9. Waits(m, all, later, t)
  <2> SUFFICES ASSUME NEW f \in all, StartOf(m, f) > t, NEW d \in Numbered(m)
               PROVE  StartOf(m, f) <= later[d]
    BY DEF Waits
  <2>1. StartOf(m, f) \in Int /\ free[d] \in Nat /\ free[c] \in Nat
    BY <1>2, <1>3
  <2>2. StartOf(m, f) <= free[d]
    <3>1. CASE f \in tasks
      BY <1>1, <3>1 DEF IsBusy, Waits
    <3>2. CASE f = new
      BY <2>1, <3>2
    <3> QED
      BY <3>1, <3>2
  <2> QED
    BY <1>4, <2>1, <2>2
<1> QED
  BY <1>7, <1>8, <1>9 DEF Busy, IsBusy, later

-----------------------------------------------------------------------------
(* The invariant, from time G on. *)

Horizon(G) == IF now < G THEN G ELSE now

AllBusy(G) ==
  \A m \in Machines : Busy(m, BeingProcessed(m), coreFreeTimes[m], Horizon(G))

IdleInv(G) == NumberInv /\ TimeInv /\ AllBusy(G)

LEMMA HorizonType ==
  ASSUME TypeInv, NEW G \in Nat
  PROVE  Horizon(G) \in Nat /\ Horizon(G) >= now /\ Horizon(G) >= G
BY DEF TypeInv, TypeOK, EngineTypeOK, Horizon

(* The clock does not go back, and passes no packet that stays. *)
LEMMA ClockAdvances ==
  ASSUME TimeInv, [Next]_vars
  PROVE  now' >= now /\ \A f \in pending \ pending' : f.time <= now'
<1>1. TypeInv /\ NothingInThePast /\ now \in Nat
  BY DEF TimeInv, TypeInv, TypeOK, EngineTypeOK
<1>2. ASSUME NEW e \in pending, now' = e.time, pending \ pending' \subseteq {e}
      PROVE  now' >= now /\ \A f \in pending \ pending' : f.time <= now'
  BY <1>1, <1>2, PacketType DEF NothingInThePast
<1>3. ASSUME NEW e, NEW new, Replace(e, new)
      PROVE  now' = e.time /\ pending \ pending' \subseteq {e}
  BY <1>3 DEF Replace
<1>4. ASSUME NEW e, NEW why, Stop(e, why)
      PROVE  now' = e.time /\ pending \ pending' \subseteq {e}
  BY <1>4 DEF Stop
<1>5. ASSUME NEW self, NEW e, Forward(self, e)
      PROVE  now' = e.time /\ pending \ pending' \subseteq {e}
  BY <1>3, <1>4, <1>5 DEF Forward
<1>6. CASE UNCHANGED vars
  BY <1>1, <1>6 DEF vars, engineVars
<1>7. CASE SchedulerInit
  <2>1. PICK m \in Masters : now' = now /\ OnInit(m)
    BY <1>7 DEF SchedulerInit, MasterOnSchedulerInit
  <2>2. pending \subseteq pending'
    BY <2>1 DEF OnInit
  <2> QED
    BY <1>1, <2>1, <2>2
<1>8. CASE LinkArrival
  BY <1>2, <1>3, <1>4, <1>8 DEF LinkArrival, LinkOnTaskArrival
<1>9. CASE SwitchArrival
  BY <1>2, <1>5, <1>9 DEF SwitchArrival, SwitchOnTaskArrival
<1>10. CASE MachineArrival
  BY <1>2, <1>3, <1>5, <1>10
     DEF MachineArrival, MachineOnTaskArrival, MachineForward, MachineProcess
<1>11. CASE MasterArrival
  BY <1>2, <1>3, <1>4, <1>11
     DEF MasterArrival, MasterOnTaskArrival, OnCompletedTask, Relay, SendToNext
<1> QED
  BY <1>6, <1>7, <1>8, <1>9, <1>10, <1>11 DEF Next

LEMMA HorizonAdvances ==
  ASSUME TimeInv, TypeInv', [Next]_vars, NEW G \in Nat
  PROVE  /\ Horizon(G) \in Nat /\ Horizon(G)' \in Nat /\ Horizon(G) <= Horizon(G)'
         /\ \A f \in pending \ pending' : f.time <= Horizon(G)'
<1>1. /\ now \in Nat /\ now' \in Nat
      /\ Horizon(G) = (IF now < G THEN G ELSE now)
      /\ Horizon(G)' = (IF now' < G THEN G ELSE now')
  BY DEF TimeInv, TypeInv, TypeOK, EngineTypeOK, Horizon
<1>2. now' >= now /\ \A f \in pending \ pending' : f.time <= now'
  BY ClockAdvances
<1>3. \A f \in pending : f.time \in Nat
  BY PacketType
<1> QED
  BY <1>1, <1>2, <1>3

(* A machine that takes no task in this step. *)
LEMMA OthersStayBusy ==
  ASSUME NEW G \in Nat, IdleInv(G), TypeInv', [Next]_vars, NEW m \in Machines,
         coreFreeTimes'[m] = coreFreeTimes[m],
         \A f \in pending' \ pending : ~ (f.previous = m /\ f.destination = m)
  PROVE  Busy(m, BeingProcessed(m)', coreFreeTimes'[m], Horizon(G)')
<1> DEFINE tasks == BeingProcessed(m)
           fewer == BeingProcessed(m)'
           free == coreFreeTimes[m]
<1>1. fewer \in SUBSET tasks /\ \A f \in tasks \ fewer : f \in pending \ pending'
  BY DEF BeingProcessed
<1>2. /\ Horizon(G) \in Nat /\ Horizon(G)' \in Nat /\ Horizon(G) <= Horizon(G)'
      /\ \A f \in pending \ pending' : f.time <= Horizon(G)'
  BY HorizonAdvances DEF IdleInv
<1>3. tasks \in SUBSET Event /\ free \in CoreTimes(m)
  BY CoreTypes DEF IdleInv, NumberInv
<1>4. Busy(m, tasks, free, Horizon(G))
  BY DEF IdleInv, AllBusy
<1>5. \A f \in tasks \ fewer : f.time <= Horizon(G)'
  BY <1>1, <1>2
<1>6. Busy(m, fewer, free, Horizon(G)')
  <2> HIDE DEF tasks, fewer, free
  <2> QED
    BY <1>1, <1>2, <1>3, <1>4, <1>5, FewerBusy
<1> QED
  BY <1>6

(* The machine that takes the task of event e. *)
LEMMA ProcessStaysBusy ==
  ASSUME NEW G \in Nat, IdleInv(G), TypeInv', [Next]_vars, NEW m \in Machines,
         NEW e \in pending, e.destination = m, MachineProcess(m, e)
  PROVE  Busy(m, BeingProcessed(m)', coreFreeTimes'[m], Horizon(G)')
<1>1. PICK c \in Numbered(m) :
        /\ AttendingCore(m, c)
        /\ coreFreeTimes' = [coreFreeTimes EXCEPT ![m][c] = CoreDeparture(m, c, e)]
        /\ Replace(e, {[e EXCEPT !.to = e.previous, !.time = CoreDeparture(m, c, e),
                                 !.processed = TRUE, !.previous = m,
                                 !.offset = AnswerOffset(e.offset), !.forward = FALSE]})
  BY DEF MachineProcess, Numbered
<1> DEFINE sent == [e EXCEPT !.to = e.previous, !.time = CoreDeparture(m, c, e),
                             !.processed = TRUE, !.previous = m,
                             !.offset = AnswerOffset(e.offset), !.forward = FALSE]
           tasks == BeingProcessed(m)
           fewer == tasks \ {e}
           free == coreFreeTimes[m]
           t == Horizon(G)'
<1>2. /\ e \in Event /\ e.time \in Nat /\ e.procSize \in Nat
      /\ tasks \in SUBSET Event /\ free \in CoreTimes(m)
  BY EventNumbers, CoreTypes DEF IdleInv, NumberInv, TypeInv
<1>3. /\ sent.time = CoreDeparture(m, c, e) /\ sent.procSize = e.procSize
      /\ TaskOf(sent) = TaskOf(e)
      /\ sent \in pending'
  BY <1>1, <1>2 DEF Event, Replace, TaskOf
<1>4. sent \in Event
  BY <1>3 DEF TypeInv, TypeOK, EngineTypeOK
<1>5. pending' = (pending \ {e}) \cup {sent} /\ now' = e.time
  BY <1>1 DEF Replace
<1>6. coreFreeTimes'[m] = [free EXCEPT ![c] = sent.time]
  BY <1>1, <1>2, <1>3 DEF IdleInv, NumberInv, TypeInv, TypeOK, MachineTypeOK
<1>7. sent \notin fewer
  BY <1>3 DEF IdleInv, NumberInv, TasksDistinct, BeingProcessed
<1>8. sent \in BeingProcessed(m)' => BeingProcessed(m)' = fewer \cup {sent}
  BY <1>5 DEF BeingProcessed
<1>9. sent.processed /\ sent.previous = m /\ sent.destination = e.destination
  BY <1>2 DEF Event
<1> HIDE DEF sent
<1>10. /\ Horizon(G) \in Nat /\ t \in Nat /\ Horizon(G) <= t /\ e.time <= t
  <2>1. t = (IF now' < G THEN G ELSE now')
    BY DEF Horizon
  <2> QED
    BY <1>2, <1>5, <2>1, HorizonAdvances DEF IdleInv
<1>11. Busy(m, tasks, free, Horizon(G))
  BY DEF IdleInv, AllBusy
<1>12. fewer \in SUBSET tasks /\ fewer \in SUBSET Event /\ \A f \in tasks \ fewer : f.time <= t
  BY <1>2, <1>10
<1>13. /\ \A d \in Numbered(m) : free[c] <= free[d]
       /\ free[c] \in Nat /\ TimeToProcess(m, e.procSize) \in Nat
  BY <1>1, <1>2, MachineAssumption DEF AttendingCore, CoreTimes, Numbered, TimeToProcess
<1>14. StartOf(m, sent) >= free[c] /\ (StartOf(m, sent) <= t \/ StartOf(m, sent) = free[c])
  BY <1>2, <1>3, <1>10, <1>13 DEF StartOf, CoreDeparture
<1> HIDE DEF tasks, fewer, free, t
<1>15. Busy(m, fewer, free, t)
  BY <1>2, <1>10, <1>11, <1>12, FewerBusy
<1>16. Busy(m, fewer \cup {sent}, coreFreeTimes'[m], t)
  BY <1>2, <1>4, <1>6, <1>7, <1>10, <1>12, <1>13, <1>14, <1>15, OneMoreBusy
<1>17. BeingProcessed(m)' = fewer \cup {sent}
  BY <1>3, <1>8, <1>9 DEF BeingProcessed
<1> QED
  BY <1>16, <1>17 DEF t

LEMMA MachineStaysBusy ==
  ASSUME NEW G \in Nat, IdleInv(G), TypeInv', MachineArrival, NEW m \in Machines
  PROVE  Busy(m, BeingProcessed(m)', coreFreeTimes'[m], Horizon(G)')
<1> [Next]_vars
  BY DEF Next
<1> TypeInv
  BY DEF IdleInv, NumberInv
<1>1. PICK e \in pending : e.to \in Machines /\ MachineOnTaskArrival(e.to, e)
  BY DEF MachineArrival
<1>2. CASE e.destination # e.to /\ MachineForward(e.to, e)
  <2>1. Forward(e.to, e) /\ UNCHANGED coreFreeTimes
    BY <1>2 DEF MachineForward
  <2>2. \A f \in pending' \ pending : f.previous = e.to /\ f.destination = e.destination
    BY <2>1, ForwardSigns
  <2> QED
    BY <1>2, <2>1, <2>2, OthersStayBusy
<1>3. CASE e.destination = e.to /\ MachineProcess(e.to, e) /\ e.to = m
  BY <1>3, ProcessStaysBusy
<1>4. CASE MachineProcess(e.to, e) /\ e.to # m
  <2>1. \A f \in pending' \ pending : f.previous # m
    BY <1>1, <1>4, ProcessSigns
  <2>2. coreFreeTimes'[m] = coreFreeTimes[m]
    BY <1>1, <1>4 DEF MachineProcess, TypeInv, TypeOK, MachineTypeOK
  <2> QED
    BY <2>1, <2>2, OthersStayBusy
<1> QED
  BY <1>1, <1>2, <1>3, <1>4 DEF MachineOnTaskArrival

LEMMA IdleStep == ASSUME NEW G \in Nat, IdleInv(G), [Next]_vars PROVE IdleInv(G)'
<1>1. TypeInv /\ TypeInv'
  BY TypeStep DEF IdleInv, NumberInv
<1>2. NumberInv' /\ TimeInv'
  BY NumberStep, TimeStep DEF IdleInv
<1>3. \A s \in Masters \cup Switches \cup Links : s \notin Machines
  BY EngineAssumption
<1>4. ASSUME NEW m \in Machines
      PROVE  Busy(m, BeingProcessed(m)', coreFreeTimes'[m], Horizon(G)')
  <2>1. CASE UNCHANGED vars
    BY <1>1, <2>1, OthersStayBusy DEF vars, engineVars, machineVars
  <2>2. CASE SchedulerInit
    BY <1>1, <1>3, <2>2, SchedulerSigns, OthersStayBusy DEF SchedulerInit, machineVars
  <2>3. CASE LinkArrival
    BY <1>1, <1>3, <2>3, LinkSigns, OthersStayBusy DEF LinkArrival, machineVars
  <2>4. CASE SwitchArrival
    BY <1>1, <1>3, <2>4, SwitchSigns, OthersStayBusy DEF SwitchArrival, machineVars
  <2>5. CASE MachineArrival
    BY <1>1, <2>5, MachineStaysBusy
  <2>6. CASE MasterArrival
    BY <1>1, <1>3, <2>6, MasterSigns, OthersStayBusy DEF MasterArrival, machineVars
  <2> QED
    BY <2>1, <2>2, <2>3, <2>4, <2>5, <2>6 DEF Next
<1>5. AllBusy(G)'
  BY <1>4 DEF AllBusy
<1> QED
  BY <1>2, <1>5 DEF IdleInv

LEMMA InitialTimes ==
  ASSUME Init, NEW m \in Machines, NEW c \in Numbered(m)
  PROVE  coreFreeTimes[m][c] \in InitialCoreTimes
<1>1. coreFreeTimes[m] \in UNION {[0 .. Cores[k] - 1 -> InitialCoreTimes] : k \in Machines}
  BY DEF Init, MachineInit
<1>2. PICK k \in Machines : coreFreeTimes[m] \in [0 .. Cores[k] - 1 -> InitialCoreTimes]
  BY <1>1
<1>3. DOMAIN coreFreeTimes[m] = 0 .. Cores[m] - 1
  BY DEF Init, MachineInit
<1> QED
  BY <1>2, <1>3 DEF Numbered

LEMMA IdleInit ==
  ASSUME NEW G \in Nat, \A t \in InitialCoreTimes : t <= G, Init
  PROVE  IdleInv(G)
<1>1. TypeInv /\ NumberInv /\ TimeInv
  BY InitType, NumberInit, TimeInit
<1>2. \A e \in pending : ~ e.processed
  BY DEF Init, BuilderInit, NewTask
<1>3. Horizon(G) \in Nat /\ Horizon(G) >= G
  BY <1>1, HorizonType
<1>4. ASSUME NEW m \in Machines
      PROVE  Busy(m, BeingProcessed(m), coreFreeTimes[m], Horizon(G))
  <2>1. BeingProcessed(m) = {}
    BY <1>2 DEF BeingProcessed
  <2>2. \A c \in Numbered(m) : coreFreeTimes[m][c] \in InitialCoreTimes
    BY InitialTimes
  <2>3. \A c \in Numbered(m) : coreFreeTimes[m][c] \in Nat /\ coreFreeTimes[m][c] <= Horizon(G)
    <3>1. InitialCoreTimes \subseteq Nat
      BY MachineAssumption
    <3>2. \A t \in InitialCoreTimes : t \in Nat /\ t <= G
      BY <3>1
    <3> QED
      BY <1>3, <2>2, <3>2
  <2> DEFINE none == [f \in {} |-> 0]
  <2>4. IsBooking(m, {}, coreFreeTimes[m], none)
    BY DEF IsBooking
  <2> HIDE DEF none
  <2>5. Covered(m, {}, coreFreeTimes[m], none, Horizon(G))
    BY <1>3, <2>3 DEF Covered
  <2>6. Waits(m, {}, coreFreeTimes[m], Horizon(G))
    BY DEF Waits
  <2> QED
    BY <2>1, <2>4, <2>5, <2>6 DEF Busy, IsBusy
<1> QED
  BY <1>1, <1>4 DEF IdleInv, AllBusy

(* From G on, no task waits before an idle core. *)
LEMMA IdleIsEnough == ASSUME NEW G \in Nat, IdleInv(G), now >= G PROVE NoIdleCore
<1> SUFFICES ASSUME NEW m \in Machines, NEW e \in BeingProcessed(m), StartOf(m, e) > now
             PROVE  Cardinality({f \in BeingProcessed(m) : StartOf(m, f) <= now /\ now < f.time})
                      = Cores[m]
  BY DEF NoIdleCore, StartOf
<1>1. TypeInv
  BY DEF IdleInv, NumberInv
<1>2. now \in Nat /\ Horizon(G) = now
  BY <1>1 DEF Horizon, TypeInv, TypeOK, EngineTypeOK
<1>3. Busy(m, BeingProcessed(m), coreFreeTimes[m], now)
  BY <1>2 DEF IdleInv, AllBusy
<1> QED
  BY <1>1, <1>2, <1>3, CoreTypes, BusyIsEnough

(* In every grid, once the clock has reached the latest time that the
   uninitialised array of the core times holds, a task waits in a machine only
   while every one of its cores is at work. *)
THEOREM CoresWorkFrom ==
  ASSUME NEW G \in Nat, \A t \in InitialCoreTimes : t <= G
  PROVE  Spec => [](now >= G => NoIdleCore)
<1>1. Init => IdleInv(G)
  BY IdleInit
<1>2. IdleInv(G) /\ [Next]_vars => IdleInv(G)'
  BY IdleStep
<1>3. IdleInv(G) => (now >= G => NoIdleCore)
  BY IdleIsEnough
<1> QED
  BY <1>1, <1>2, <1>3, PTL DEF Spec

(* And where the memory held zeros, as if the array had been initialised, no
   task ever waits while a core is idle. *)
THEOREM NoCoreIsIdle == InitialCoreTimes = {0} /\ Spec => []NoIdleCore
<1>1. InitialCoreTimes = {0} => (Init => IdleInv(0))
  BY IdleInit
<1>2. IdleInv(0) /\ [Next]_vars => IdleInv(0)'
  BY IdleStep
<1>3. IdleInv(0) => NoIdleCore
  <2>1. TypeInv => now >= 0
    BY DEF TypeInv, TypeOK, EngineTypeOK
  <2> QED
    BY <2>1, IdleIsEnough DEF IdleInv, NumberInv
<1> QED
  BY <1>1, <1>2, <1>3, PTL DEF Spec


-----------------------------------------------------------------------------
(* Utilisation.  A server that starts a packet when it arrives or when the
   ones before it are done adds at least its service time to the time at which
   it is free; of a machine, to the sum of the times of its cores. *)

LinksUsed == \A l \in Links : linkMetrics[l].commTime <= linkAvailable[l]

SwitchesUsed ==
  \A s \in Switches : /\ switchMetrics[s].commTime <= switchAvailable[s]
                      /\ switchMetrics[s].lastActivityTime = switchAvailable[s]

MachinesUsed ==
  \A m \in Machines : machineMetrics[m].procTime <= SumFunction(coreFreeTimes[m])

UsageInv == TypeInv /\ UtilisationBounded

LEMMA UsageParts == UtilisationBounded <=> LinksUsed /\ SwitchesUsed /\ MachinesUsed
BY DEF UtilisationBounded, LinksUsed, SwitchesUsed, MachinesUsed

LEMMA LinkUse ==
  ASSUME TypeInv, LinksUsed, LinkArrival PROVE LinksUsed'
<1>1. PICK e \in pending : e.to \in Links /\ LinkOnTaskArrival(e.to, e)
  BY DEF LinkArrival
<1> DEFINE l == e.to
<1>2. e.time \in Nat /\ e.commSize \in Nat
  BY EventNumbers DEF TypeInv
<1>3. /\ linkAvailable \in [Links -> Nat] /\ linkMetrics \in [Links -> LinkMetrics]
      /\ LinkCommTime(l, e.commSize) \in Nat
  BY <1>1, <1>2, LinkAssumption DEF TypeInv, TypeOK, LinkTypeOK, LinkCommTime
<1>4. /\ linkAvailable' = [linkAvailable EXCEPT ![l] = LinkDeparture(l, e)]
      /\ linkMetrics' = [linkMetrics EXCEPT
           ![l].commMBits = @ + e.commSize,
           ![l].commTime  = @ + LinkCommTime(l, e.commSize),
           ![l].commTasks = @ + 1]
  BY <1>1 DEF LinkOnTaskArrival, LinkCount
<1> SUFFICES ASSUME NEW k \in Links PROVE linkMetrics'[k].commTime <= linkAvailable'[k]
  BY DEF LinksUsed
<1>5. CASE k # l
  BY <1>3, <1>4, <1>5 DEF LinksUsed
<1>6. CASE k = l
  <2>1. linkMetrics[l].commTime \in Nat /\ linkAvailable[l] \in Nat
    BY <1>1, <1>3 DEF LinkMetrics
  <2>2. linkMetrics[l].commTime <= linkAvailable[l]
    BY <1>1 DEF LinksUsed
  <2>3. linkMetrics'[l].commTime = linkMetrics[l].commTime + LinkCommTime(l, e.commSize)
    BY <1>1, <1>3, <1>4 DEF LinkMetrics
  <2>4. linkAvailable'[l] = LinkDeparture(l, e)
    BY <1>1, <1>3, <1>4
  <2>5. LinkDeparture(l, e) >= linkAvailable[l] + LinkCommTime(l, e.commSize)
    BY <1>2, <1>3, <2>1 DEF LinkDeparture
  <2>6. LinkDeparture(l, e) \in Nat
    BY <1>2, <1>3, <2>1 DEF LinkDeparture
  <2> QED
    BY <1>3, <1>6, <2>1, <2>2, <2>3, <2>4, <2>5, <2>6
<1> QED
  BY <1>5, <1>6

LEMMA SwitchUse ==
  ASSUME TypeInv, SwitchesUsed, SwitchArrival PROVE SwitchesUsed'
<1>1. PICK e \in pending : e.to \in Switches /\ SwitchOnTaskArrival(e.to, e)
  BY DEF SwitchArrival
<1> DEFINE s == e.to
<1>2. e.time \in Nat /\ e.commSize \in Nat
  BY EventNumbers DEF TypeInv
<1>3. /\ switchAvailable \in [Switches -> Nat] /\ switchMetrics \in [Switches -> SwitchMetrics]
      /\ SwitchCommTime(s, e.commSize) \in Nat
  BY <1>1, <1>2, SwitchAssumption DEF TypeInv, TypeOK, SwitchTypeOK, SwitchCommTime
<1>4. /\ switchAvailable' = [switchAvailable EXCEPT ![s] = SwitchDeparture(s, e)]
      /\ switchMetrics' = [switchMetrics EXCEPT
           ![s].lastActivityTime = SwitchDeparture(s, e),
           ![s].commMBits   = @ + e.commSize,
           ![s].commTime    = @ + SwitchCommTime(s, e.commSize),
           ![s].commPackets = @ + 1]
  BY <1>1 DEF SwitchOnTaskArrival, SwitchCount
<1> SUFFICES ASSUME NEW k \in Switches
             PROVE  /\ switchMetrics'[k].commTime <= switchAvailable'[k]
                    /\ switchMetrics'[k].lastActivityTime = switchAvailable'[k]
  BY DEF SwitchesUsed
<1>5. CASE k # s
  BY <1>3, <1>4, <1>5 DEF SwitchesUsed
<1>6. CASE k = s
  <2>1. switchMetrics[s].commTime \in Nat /\ switchAvailable[s] \in Nat
    BY <1>1, <1>3 DEF SwitchMetrics
  <2>2. switchMetrics[s].commTime <= switchAvailable[s]
    BY <1>1 DEF SwitchesUsed
  <2>3. /\ switchMetrics'[s].commTime = switchMetrics[s].commTime + SwitchCommTime(s, e.commSize)
        /\ switchMetrics'[s].lastActivityTime = SwitchDeparture(s, e)
    BY <1>1, <1>3, <1>4 DEF SwitchMetrics
  <2>4. switchAvailable'[s] = SwitchDeparture(s, e)
    BY <1>1, <1>3, <1>4
  <2>5. SwitchDeparture(s, e) >= switchAvailable[s] + SwitchCommTime(s, e.commSize)
    BY <1>2, <1>3, <2>1 DEF SwitchDeparture
  <2>6. SwitchDeparture(s, e) \in Nat
    BY <1>2, <1>3, <2>1 DEF SwitchDeparture
  <2> QED
    BY <1>3, <1>6, <2>1, <2>2, <2>3, <2>4, <2>5, <2>6
<1> QED
  BY <1>5, <1>6

(* The sum of the times of the cores of a machine. *)
LEMMA CoreSum ==
  ASSUME NEW m \in Machines, NEW free \in CoreTimes(m)
  PROVE  /\ SumFunction(free) = SumFunctionOnSet(free, Numbered(m))
         /\ SumFunction(free) \in Nat
<1>1. DOMAIN free = Numbered(m) /\ \A c \in Numbered(m) : free[c] \in Nat
  BY DEF CoreTimes, Numbered
<1>2. IsFiniteSet(Numbered(m))
  BY NumberOfCores
<1>3. SumFunctionOnSet(free, Numbered(m)) \in Nat
  BY <1>1, <1>2, SumNat
<1> QED
  BY <1>1, <1>3 DEF SumFunction

LEMMA CoreSumGrows ==
  ASSUME NEW m \in Machines, NEW free \in CoreTimes(m), NEW later \in CoreTimes(m),
         NEW c \in Numbered(m), \A d \in Numbered(m) \ {c} : later[d] = free[d]
  PROVE  SumFunction(later) = SumFunction(free) + later[c] - free[c]
<1>1. IsFiniteSet(Numbered(m))
  BY NumberOfCores
<1>2. \A d \in Numbered(m) : free[d] \in Int /\ later[d] \in Int
  BY DEF CoreTimes, Numbered
<1>3. \A d \in Numbered(m) \ {c} : free[d] = later[d]
  OBVIOUS
<1>4. SumFunctionOnSet(later, Numbered(m))
        = SumFunctionOnSet(free, Numbered(m)) + later[c] - free[c]
  BY <1>1, <1>2, <1>3, SumChanges
<1> QED
  BY <1>4, CoreSum

LEMMA MachineUse ==
  ASSUME TypeInv, TypeInv', MachinesUsed, MachineArrival PROVE MachinesUsed'
<1>1. PICK e \in pending : e.to \in Machines /\ MachineOnTaskArrival(e.to, e)
  BY DEF MachineArrival
<1> DEFINE m == e.to
<1>2. /\ e.time \in Nat /\ e.procSize \in Nat
      /\ machineMetrics \in [Machines -> MachineMetrics]
      /\ TimeToProcess(m, e.procSize) \in Nat
  <2>1. e.time \in Nat /\ e.procSize \in Nat
    BY EventNumbers DEF TypeInv
  <2> QED
    BY <1>1, <2>1, MachineAssumption DEF TypeInv, TypeOK, MachineTypeOK, TimeToProcess
<1>3. CASE MachineForward(m, e)
  <2>1. /\ UNCHANGED coreFreeTimes
        /\ machineMetrics' = [machineMetrics EXCEPT ![m].lastActivityTime = e.time,
                                                    ![m].forwardedPackets = @ + 1]
    BY <1>3 DEF MachineForward
  <2>2. \A k \in Machines : machineMetrics'[k].procTime = machineMetrics[k].procTime
    BY <1>1, <1>2, <2>1 DEF MachineMetrics
  <2> QED
    BY <2>1, <2>2 DEF MachinesUsed
<1>4. CASE MachineProcess(m, e)
  <2>1. PICK c \in Numbered(m) :
          /\ coreFreeTimes' = [coreFreeTimes EXCEPT ![m][c] = CoreDeparture(m, c, e)]
          /\ machineMetrics' = [machineMetrics EXCEPT
               ![m].lastActivityTime = e.time,
               ![m].procMFlops = @ + e.procSize,
               ![m].procTime   = @ + TimeToProcess(m, e.procSize),
               ![m].procTasks  = @ + 1]
    BY <1>4 DEF MachineProcess, Numbered
  <2>2. \A k \in Machines : coreFreeTimes[k] \in CoreTimes(k) /\ coreFreeTimes'[k] \in CoreTimes(k)
    BY DEF TypeInv, TypeOK, MachineTypeOK
  <2>3. DOMAIN coreFreeTimes = Machines
    BY DEF TypeInv, TypeOK, MachineTypeOK
  <2> SUFFICES ASSUME NEW k \in Machines
               PROVE  machineMetrics'[k].procTime <= SumFunction(coreFreeTimes'[k])
    BY DEF MachinesUsed
  <2>4. CASE k # m
    <3>1. coreFreeTimes'[k] = coreFreeTimes[k] /\ machineMetrics'[k] = machineMetrics[k]
      BY <1>2, <2>1, <2>3, <2>4
    <3> QED
      BY <3>1 DEF MachinesUsed
  <2>5. CASE k = m
    <3> DEFINE free == coreFreeTimes[m]
               later == coreFreeTimes'[m]
    <3>1. free \in CoreTimes(m) /\ later \in CoreTimes(m)
      BY <1>1, <2>2
    <3>2. /\ later[c] = CoreDeparture(m, c, e) /\ free[c] \in Nat
          /\ \A d \in Numbered(m) \ {c} : later[d] = free[d]
      BY <1>1, <2>1, <2>3, <3>1 DEF CoreTimes, Numbered
    <3>3. later[c] >= free[c] + TimeToProcess(m, e.procSize) /\ later[c] \in Nat
      BY <1>2, <3>2 DEF CoreDeparture
    <3>4. machineMetrics'[m].procTime = machineMetrics[m].procTime + TimeToProcess(m, e.procSize)
      BY <1>1, <1>2, <2>1 DEF MachineMetrics
    <3>5. machineMetrics[m].procTime \in Nat /\ machineMetrics[m].procTime <= SumFunction(free)
      BY <1>1, <1>2 DEF MachineMetrics, MachinesUsed
    <3> HIDE DEF free, later
    <3>6. SumFunction(later) = SumFunction(free) + later[c] - free[c]
      BY <1>1, <3>1, <3>2, CoreSumGrows
    <3>7. SumFunction(free) \in Nat
      BY <1>1, <3>1, CoreSum
    <3>8. machineMetrics'[m].procTime <= SumFunction(later)
      BY <1>2, <3>2, <3>3, <3>4, <3>5, <3>6, <3>7
    <3> QED
      BY <2>5, <3>8 DEF later
  <2> QED
    BY <2>4, <2>5
<1> QED
  BY <1>1, <1>3, <1>4 DEF MachineOnTaskArrival

LEMMA UsageInit == Init => UsageInv
<1> SUFFICES ASSUME Init PROVE UsageInv
  OBVIOUS
<1>1. TypeInv
  BY InitType
<1>2. LinksUsed
  BY DEF Init, LinkInit, LinksUsed
<1>3. SwitchesUsed
  BY DEF Init, SwitchInit, SwitchesUsed
<1>4. ASSUME NEW m \in Machines PROVE machineMetrics[m].procTime <= SumFunction(coreFreeTimes[m])
  <2>1. coreFreeTimes[m] \in CoreTimes(m)
    BY <1>1 DEF TypeInv, TypeOK, MachineTypeOK
  <2>2. SumFunction(coreFreeTimes[m]) \in Nat
    BY <2>1, CoreSum
  <2>3. machineMetrics[m].procTime = 0
    BY DEF Init, MachineInit
  <2> QED
    BY <2>2, <2>3
<1> QED
  BY <1>1, <1>2, <1>3, <1>4, UsageParts DEF UsageInv, MachinesUsed

LEMMA UsageStep == UsageInv /\ [Next]_vars => UsageInv'
<1> SUFFICES ASSUME UsageInv, [Next]_vars PROVE UsageInv'
  OBVIOUS
<1>1. TypeInv /\ TypeInv' /\ LinksUsed /\ SwitchesUsed /\ MachinesUsed
  BY TypeStep, UsageParts DEF UsageInv
<1>2. UNCHANGED linkVars => LinksUsed'
  BY <1>1 DEF linkVars, LinksUsed
<1>3. UNCHANGED switchVars => SwitchesUsed'
  BY <1>1 DEF switchVars, SwitchesUsed
<1>4. UNCHANGED machineVars => MachinesUsed'
  BY <1>1 DEF machineVars, MachinesUsed
<1>5. LinksUsed' /\ SwitchesUsed' /\ MachinesUsed'
  <2>1. CASE UNCHANGED vars
    BY <1>2, <1>3, <1>4, <2>1 DEF vars
  <2>2. CASE SchedulerInit
    BY <1>2, <1>3, <1>4, <2>2 DEF SchedulerInit
  <2>3. CASE LinkArrival
    <3>1. UNCHANGED <<switchVars, machineVars>>
      BY <2>3 DEF LinkArrival
    <3> QED
      BY <1>1, <1>3, <1>4, <2>3, <3>1, LinkUse
  <2>4. CASE SwitchArrival
    <3>1. UNCHANGED <<linkVars, machineVars>>
      BY <2>4 DEF SwitchArrival
    <3> QED
      BY <1>1, <1>2, <1>4, <2>4, <3>1, SwitchUse
  <2>5. CASE MachineArrival
    <3>1. UNCHANGED <<linkVars, switchVars>>
      BY <2>5 DEF MachineArrival
    <3> QED
      BY <1>1, <1>2, <1>3, <2>5, <3>1, MachineUse
  <2>6. CASE MasterArrival
    BY <1>2, <1>3, <1>4, <2>6 DEF MasterArrival
  <2> QED
    BY <2>1, <2>2, <2>3, <2>4, <2>5, <2>6 DEF Next
<1>6. UtilisationBounded'
  BY <1>5 DEF UtilisationBounded, LinksUsed, SwitchesUsed, MachinesUsed
<1> QED
  BY <1>1, <1>6 DEF UsageInv

(* In every grid, and whatever the uninitialised core times hold, no service
   reports more time at work than there was: the communication time of a link
   or switch fits before the time it is available, and the processing time of
   a machine in the time of its cores. *)
THEOREM NeverOverused == Spec => []UtilisationBounded
<1>1. UsageInv => UtilisationBounded
  BY DEF UsageInv
<1> QED
  BY <1>1, UsageInit, UsageStep, PTL DEF Spec
=============================================================================
