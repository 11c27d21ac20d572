---------------------------- MODULE Grid_proofs -----------------------------
(***************************************************************************)
(* Type correctness of the grid for every topology, workload and content   *)
(* of uninitialised memory, and the safety of routing for every flat grid. *)
(***************************************************************************)
EXTENDS GridRouting, TLAPS

(* A packet without previous service is one of the builder's, on a master: a
   machine that answers the previous service has one to answer. *)
SendersKnown == \A e \in pending : e.previous = Nobody => e.to \in Masters

TypeInv == TypeOK /\ SendersKnown

-----------------------------------------------------------------------------
(* Offsets stay in the range of size_t. *)
LEMMA OffsetType ==
  ASSUME NEW o \in 0 .. OffsetMod - 1
  PROVE  Increment(o) \in 0 .. OffsetMod - 1 /\ Decrement(o) \in 0 .. OffsetMod - 1
BY EngineAssumption DEF Increment, Decrement

(* What is read from a route, or beside it, is the identifier of a service. *)
LEMMA ElementType ==
  ASSUME NEW pair \in DOMAIN RoutePath, NEW o \in Nat
  PROVE  RouteElement(RoutePath[pair], o) \subseteq Services
<1>1. RoutePath[pair] \in Seq(Services) /\ HeapWords \subseteq Services
  BY EngineAssumption
<1> QED
  BY <1>1 DEF RouteElement

(* The code of a pair of naturals is a natural. *)
LEMMA SzudzikType == ASSUME NEW x \in Nat, NEW y \in Nat PROVE Szudzik(x, y) \in Nat
BY DEF Szudzik

LEMMA NewTaskType ==
  ASSUME NEW batch \in {"scheduler", "builder"}, NEW m \in Masters, NEW n \in Nat,
         NEW size \in TaskSizes
  PROVE  NewTask(batch, m, n, size) \in Event
<1>1. m \in Nat /\ m \in Services /\ 0 \in 0 .. OffsetMod - 1
  BY EngineAssumption DEF Services
<1>2. size[1] \in Nat /\ size[2] \in Nat
  BY MasterAssumption
<1>3. Szudzik(n, m) \in Nat
  BY <1>1, SzudzikType
<1> QED
  BY <1>1, <1>2, <1>3 DEF NewTask, Event

-----------------------------------------------------------------------------
(* The ways in which a handler ends keep the queue well typed. *)
LEMMA ReplaceType ==
  ASSUME TypeInv, NEW e \in pending, NEW new \in SUBSET Event, Replace(e, new),
         \A f \in new : f.previous \in Services \/ f.to \in Masters
  PROVE  EngineTypeOK' /\ SendersKnown'
<1>1. e \in Event /\ e.time \in Nat
  BY DEF TypeInv, TypeOK, EngineTypeOK, Event
<1>2. EngineTypeOK'
  BY <1>1 DEF TypeInv, TypeOK, EngineTypeOK, Replace
<1>3. Nobody \notin Services
  BY EngineAssumption DEF Nobody
<1>4. SendersKnown'
  BY <1>3 DEF TypeInv, SendersKnown, Replace
<1> QED
  BY <1>2, <1>4

LEMMA StopType ==
  ASSUME TypeInv, NEW e \in pending,
         NEW why \in {"no route", "not an end", "no slave", "bad workload"}, Stop(e, why)
  PROVE  EngineTypeOK' /\ SendersKnown'
<1>1. e \in Event /\ e.time \in Nat /\ e.to \in Services
  BY DEF TypeInv, TypeOK, EngineTypeOK, Event
<1>2. [why |-> why, at |-> e.to] \in Faults
  BY <1>1 DEF Faults
<1>3. EngineTypeOK'
  BY <1>1, <1>2 DEF TypeInv, TypeOK, EngineTypeOK, Stop
<1>4. SendersKnown'
  BY DEF TypeInv, SendersKnown, Stop
<1> QED
  BY <1>3, <1>4

LEMMA NextOffsetType ==
  ASSUME NEW e \in Event PROVE NextOffset(e) \in 0 .. OffsetMod - 1
<1>1. e.offset \in 0 .. OffsetMod - 1
  BY DEF Event
<1> QED
  BY <1>1, OffsetType DEF NextOffset

LEMMA ForwardType ==
  ASSUME TypeInv, NEW self \in Services, NEW e \in pending, Forward(self, e)
  PROVE  EngineTypeOK' /\ SendersKnown'
<1>1. e \in Event
  BY DEF TypeInv, TypeOK, EngineTypeOK
<1>2. CASE HasRoute(e.source, e.destination)
  <2> DEFINE path == RoutePath[<<e.source, e.destination>>]
             sent(next) == [e EXCEPT !.to = next, !.previous = self, !.offset = NextOffset(e)]
  <2>1. PICK next \in RouteElement(path, e.offset) : Replace(e, {sent(next)})
    BY <1>2 DEF Forward
  <2>2. next \in Services
    <3>1. e.offset \in Nat
      BY <1>1, EngineAssumption DEF Event
    <3> QED
      BY <1>2, <2>1, <3>1, ElementType DEF HasRoute
  <2>3. sent(next) \in Event /\ sent(next).previous = self
    BY <1>1, <2>2, NextOffsetType DEF Event
  <2> HIDE DEF sent
  <2> QED
    BY <2>1, <2>3, ReplaceType
<1>3. CASE ~ HasRoute(e.source, e.destination)
  BY <1>3, StopType DEF Forward
<1> QED
  BY <1>2, <1>3

-----------------------------------------------------------------------------
(* The initial states are well typed. *)
LEMMA InitType == Init => TypeInv
<1> SUFFICES ASSUME Init PROVE TypeInv
  OBVIOUS
<1>1. pending \subseteq Event /\ SendersKnown
  <2>1. PICK time \in [BuilderNumbers -> ArrivalTimes], size \in [Masters -> TaskSizes] :
          pending = {[NewTask("builder", x[1], x[2], size[x[1]]) EXCEPT !.time = time[x]] :
                       x \in BuilderNumbers}
    BY DEF Init, BuilderInit
  <2>2. ASSUME NEW x \in BuilderNumbers
        PROVE  LET t == NewTask("builder", x[1], x[2], size[x[1]])
               IN  [t EXCEPT !.time = time[x]] \in Event /\ [t EXCEPT !.time = time[x]].to \in Masters
    <3>1. x[1] \in Masters /\ x[2] \in Nat
      BY MasterAssumption DEF BuilderNumbers
    <3>2. time[x] \in Nat /\ size[x[1]] \in TaskSizes
      BY <3>1, MasterAssumption
    <3> DEFINE t == NewTask("builder", x[1], x[2], size[x[1]])
    <3>3. t \in Event
      BY <3>1, <3>2, NewTaskType
    <3>4. t.to = x[1]
      BY DEF NewTask
    <3> HIDE DEF t
    <3>5. [t EXCEPT !.time = time[x]] \in Event
      BY <3>2, <3>3 DEF Event
    <3>6. [t EXCEPT !.time = time[x]].to = t.to
      BY <3>3 DEF Event
    <3> QED
      BY <3>1, <3>4, <3>5, <3>6 DEF t
  <2> QED
    BY <2>1, <2>2 DEF SendersKnown
<1>2. EngineTypeOK
  BY <1>1 DEF Init, EngineTypeOK, Faults
<1>3. LinkTypeOK /\ SwitchTypeOK
  BY DEF Init, LinkInit, LinkTypeOK, LinkMetrics, SwitchInit, SwitchTypeOK, SwitchMetrics
<1>4. MachineTypeOK
  <2>1. machineMetrics \in [Machines -> MachineMetrics]
    BY DEF Init, MachineInit, MachineMetrics
  <2>2. ASSUME NEW m \in Machines PROVE coreFreeTimes[m] \in CoreTimes(m)
    <3>1. PICK n \in Machines : coreFreeTimes[m] \in [0 .. Cores[n] - 1 -> InitialCoreTimes]
      BY DEF Init, MachineInit
    <3>2. DOMAIN coreFreeTimes[m] = 0 .. Cores[m] - 1
      BY DEF Init, MachineInit
    <3> QED
      BY <3>1, <3>2, MachineAssumption DEF CoreTimes
  <2>3. DOMAIN coreFreeTimes = Machines
    BY DEF Init, MachineInit
  <2> QED
    BY <2>1, <2>2, <2>3 DEF MachineTypeOK
<1>5. MasterTypeOK
  BY MasterAssumption DEF Init, MasterInit, MasterTypeOK, MasterMetrics
<1> QED
  BY <1>1, <1>2, <1>3, <1>4, <1>5 DEF TypeInv, TypeOK

-----------------------------------------------------------------------------
(* One lemma for each kind of service that an event is delivered to. *)

LEMMA LinkDelivers ==
  ASSUME TypeInv, NEW e \in pending, e.to \in Links, LinkOnTaskArrival(e.to, e),
         UNCHANGED <<switchVars, machineVars, masterVars>>
  PROVE  TypeInv'
<1> DEFINE l == e.to
           sent == [e EXCEPT !.to = OtherEnd(l, e), !.time = LinkDeparture(l, e), !.previous = l]
<1>2. e \in Event /\ e.time \in Nat /\ e.commSize \in Nat /\ l \in Links /\ l \in Services
  BY DEF TypeInv, TypeOK, EngineTypeOK, Event, Services
<1>3. LinkCommTime(l, e.commSize) \in Nat
  BY <1>2, LinkAssumption DEF LinkCommTime
<1>4. LinkDeparture(l, e) \in Nat
  BY <1>2, <1>3 DEF TypeInv, TypeOK, LinkTypeOK, LinkDeparture
<1>5. OtherEnd(l, e) \in Services
  BY <1>2, LinkAssumption DEF OtherEnd
<1>6. LinkTypeOK'
  <2>1. linkAvailable' \in [Links -> Nat]
    BY <1>2, <1>4 DEF TypeInv, TypeOK, LinkTypeOK, LinkOnTaskArrival
  <2>2. linkMetrics[l] \in LinkMetrics
    BY <1>2 DEF TypeInv, TypeOK, LinkTypeOK
  <2>3. linkMetrics' \in [Links -> LinkMetrics]
    <3>1. LinkCount(l, e)
      BY DEF LinkOnTaskArrival
    <3> HIDE DEF l
    <3> QED
      BY <1>2, <1>3, <2>2, <3>1 DEF TypeInv, TypeOK, LinkTypeOK, LinkMetrics, LinkCount
  <2> QED
    BY <2>1, <2>3 DEF LinkTypeOK
<1>7. EngineTypeOK' /\ SendersKnown'
  <2>1. CASE Replace(e, {sent})
    <3>1. sent \in Event /\ sent.previous \in Services
      BY <1>2, <1>4, <1>5 DEF Event
    <3> HIDE DEF sent
    <3> QED
      BY <2>1, <3>1, ReplaceType
  <2>2. CASE Stop(e, "not an end")
    BY <2>2, StopType
  <2> QED
    BY <2>1, <2>2 DEF LinkOnTaskArrival
<1>8. SwitchTypeOK' /\ MachineTypeOK' /\ MasterTypeOK'
  BY DEF TypeInv, TypeOK, SwitchTypeOK, MachineTypeOK, MasterTypeOK,
              switchVars, machineVars, masterVars
<1> QED
  BY <1>6, <1>7, <1>8 DEF TypeInv, TypeOK

LEMMA SwitchDelivers ==
  ASSUME TypeInv, NEW e \in pending, e.to \in Switches, SwitchOnTaskArrival(e.to, e),
         UNCHANGED <<linkVars, machineVars, masterVars>>
  PROVE  TypeInv'
<1> DEFINE s == e.to
<1>2. e.time \in Nat /\ e.commSize \in Nat /\ s \in Switches /\ s \in Services
  BY DEF TypeInv, TypeOK, EngineTypeOK, Event, Services
<1>3. SwitchCommTime(s, e.commSize) \in Nat
  BY <1>2, SwitchAssumption DEF SwitchCommTime
<1>4. SwitchDeparture(s, e) \in Nat
  BY <1>2, <1>3 DEF TypeInv, TypeOK, SwitchTypeOK, SwitchDeparture
<1>5. SwitchTypeOK'
  BY <1>2, <1>3, <1>4
     DEF TypeInv, TypeOK, SwitchTypeOK, SwitchMetrics, SwitchOnTaskArrival, SwitchCount
<1>6. EngineTypeOK' /\ SendersKnown'
  BY <1>2, ForwardType DEF SwitchOnTaskArrival
<1>7. LinkTypeOK' /\ MachineTypeOK' /\ MasterTypeOK'
  BY DEF TypeInv, TypeOK, LinkTypeOK, MachineTypeOK, MasterTypeOK,
              linkVars, machineVars, masterVars
<1> QED
  BY <1>5, <1>6, <1>7 DEF TypeInv, TypeOK

LEMMA MachineDelivers ==
  ASSUME TypeInv, NEW e \in pending, e.to \in Machines, MachineOnTaskArrival(e.to, e),
         UNCHANGED <<linkVars, switchVars, masterVars>>
  PROVE  TypeInv'
<1> DEFINE m == e.to
<1>2. /\ e \in Event /\ e.time \in Nat /\ e.procSize \in Nat
      /\ e.offset \in 0 .. OffsetMod - 1
      /\ m \in Machines /\ m \in Services
  BY DEF TypeInv, TypeOK, EngineTypeOK, Event, Services
<1>3. LinkTypeOK' /\ SwitchTypeOK' /\ MasterTypeOK'
  BY DEF TypeInv, TypeOK, LinkTypeOK, SwitchTypeOK, MasterTypeOK,
              linkVars, switchVars, masterVars
<1>4. CASE MachineForward(m, e)
  <2>1. EngineTypeOK' /\ SendersKnown'
    BY <1>2, <1>4, ForwardType DEF MachineForward
  <2>2. MachineTypeOK'
    BY <1>2, <1>4 DEF TypeInv, TypeOK, MachineTypeOK, MachineMetrics, MachineForward
  <2> QED
    BY <1>3, <2>1, <2>2 DEF TypeInv, TypeOK
<1>5. CASE MachineProcess(m, e)
  <2> DEFINE sent(c) == [e EXCEPT !.to = e.previous, !.time = CoreDeparture(m, c, e),
                                  !.processed = TRUE, !.previous = m,
                                  !.offset = AnswerOffset(e.offset), !.forward = FALSE]
  <2>1. PICK c \in 0 .. Cores[m] - 1 :
          /\ coreFreeTimes' = [coreFreeTimes EXCEPT ![m][c] = CoreDeparture(m, c, e)]
          /\ machineMetrics' = [machineMetrics EXCEPT
               ![m].lastActivityTime = e.time,
               ![m].procMFlops = @ + e.procSize,
               ![m].procTime   = @ + TimeToProcess(m, e.procSize),
               ![m].procTasks  = @ + 1]
          /\ Replace(e, {sent(c)})
    BY <1>5 DEF MachineProcess
  <2>2. TimeToProcess(m, e.procSize) \in Nat
    BY <1>2, MachineAssumption DEF TimeToProcess
  <2>3. coreFreeTimes[m] \in [0 .. Cores[m] - 1 -> Nat]
    BY <1>2 DEF TypeInv, TypeOK, MachineTypeOK, CoreTimes
  <2>4. CoreDeparture(m, c, e) \in Nat
    <3>1. coreFreeTimes[m][c] \in Nat
      BY <2>3
    <3> HIDE DEF m
    <3> QED
      BY <1>2, <2>2, <3>1 DEF CoreDeparture
  <2>5. e.previous \in Services
    <3>1. m \notin Masters
      BY <1>2, EngineAssumption
    <3> QED
      BY <1>2, <3>1 DEF TypeInv, SendersKnown, Event
  <2>6. AnswerOffset(e.offset) \in 0 .. OffsetMod - 1
    BY <1>2, OffsetType DEF AnswerOffset
  <2>7. EngineTypeOK' /\ SendersKnown'
    <3>1. sent(c) \in Event /\ sent(c).previous \in Services
      BY <1>2, <2>4, <2>5, <2>6 DEF Event
    <3> HIDE DEF sent
    <3> QED
      BY <2>1, <3>1, ReplaceType
  <2>8. MachineTypeOK'
    <3>1. machineMetrics' \in [Machines -> MachineMetrics]
      BY <1>2, <2>1, <2>2 DEF TypeInv, TypeOK, MachineTypeOK, MachineMetrics
    <3>2. DOMAIN coreFreeTimes' = Machines
      BY <2>1 DEF TypeInv, TypeOK, MachineTypeOK
    <3>3. ASSUME NEW n \in Machines PROVE coreFreeTimes'[n] \in CoreTimes(n)
      <4>1. coreFreeTimes[n] \in CoreTimes(n)
        BY DEF TypeInv, TypeOK, MachineTypeOK
      <4>2. CASE n = m
        BY <2>1, <2>3, <2>4, <4>2 DEF CoreTimes, TypeInv, TypeOK, MachineTypeOK
      <4>3. CASE n # m
        BY <2>1, <4>1, <4>3 DEF TypeInv, TypeOK, MachineTypeOK
      <4> QED
        BY <4>2, <4>3
    <3> QED
      BY <3>1, <3>2, <3>3 DEF MachineTypeOK
  <2> QED
    BY <1>3, <2>7, <2>8 DEF TypeInv, TypeOK
<1> QED
  BY <1>4, <1>5 DEF MachineOnTaskArrival

(* RoundRobin::schedule returns one of the slaves, and its index stays one. *)
LEMMA SlaveType ==
  ASSUME NEW m \in Masters, Slaves[m] # <<>>, nextResource[m] \in Nat, NEW i \in Nat
  PROVE  /\ Slave(m, i) \in SlaveSet(m) /\ Slave(m, i) \in Services
         /\ Advanced(m, i) \in Nat
<1> DEFINE length == Len(Slaves[m])
           index  == (nextResource[m] + i) % length
<1>1. Slaves[m] \in Seq(Masters \cup Machines) /\ length \in Nat \ {0}
  BY MasterAssumption
<1>2. index \in 0 .. length - 1
  <2> HIDE DEF length
  <2>1. nextResource[m] + i \in Nat
    OBVIOUS
  <2> QED
    BY <1>1, <2>1
<1> HIDE DEF index
<1>3. Slaves[m][index + 1] \in SlaveSet(m) /\ Slaves[m][index + 1] \in Masters \cup Machines
  BY <1>1, <1>2 DEF SlaveSet
<1>4. Slave(m, i) \in SlaveSet(m) /\ Slave(m, i) \in Services
  BY <1>3 DEF Slave, Services, index
<1>5. Advanced(m, i) \in Nat
  <2>1. i # 0 => Advanced(m, i) = index
    BY DEF Advanced, index
  <2>2. i = 0 => Advanced(m, i) = nextResource[m]
    BY DEF Advanced
  <2> QED
    BY <1>2, <2>1, <2>2
<1> QED
  BY <1>4, <1>5

LEMMA ToSlaveType ==
  ASSUME NEW m \in Masters, NEW slave \in Services, HasRoute(m, slave),
         NEW time \in Nat, NEW t \in Event
  PROVE  /\ ToSlave(m, slave, time, t) \in Event
         /\ ToSlave(m, slave, time, t).previous \in Services
<1>1. m \in Services
  BY DEF Services
<1>2. RoutePath[<<m, slave>>][1] \in Services
  BY EngineAssumption DEF HasRoute
<1>3. 1 \in 0 .. OffsetMod - 1
  BY EngineAssumption DEF HasRoute
<1> QED
  BY <1>1, <1>2, <1>3 DEF ToSlave, Event

LEMMA SendToNextType ==
  ASSUME TypeInv, NEW m \in Masters, NEW e \in pending, NEW t \in Event,
         SendToNext(m, e, t)
  PROVE  EngineTypeOK' /\ SendersKnown' /\ nextResource' \in [Masters -> Nat]
<1>1. nextResource \in [Masters -> Nat] /\ nextResource[m] \in Nat
  BY DEF TypeInv, TypeOK, MasterTypeOK
<1>2. CASE Stop(e, "no slave") /\ UNCHANGED nextResource
  BY <1>1, <1>2, StopType
<1>3. CASE Stop(e, "no route") /\ UNCHANGED nextResource
  BY <1>1, <1>3, StopType
<1>4. CASE /\ Slaves[m] # <<>> /\ HasRoute(m, Slave(m, 0))
           /\ Replace(e, {ToSlave(m, Slave(m, 0), e.time, t)})
           /\ nextResource' = [nextResource EXCEPT ![m] = Advanced(m, 1)]
  <2>1. Slave(m, 0) \in Services /\ Advanced(m, 1) \in Nat
    BY <1>1, <1>4, SlaveType
  <2>2. e.time \in Nat
    BY DEF TypeInv, TypeOK, EngineTypeOK, Event
  <2> DEFINE sent == ToSlave(m, Slave(m, 0), e.time, t)
  <2>3. sent \in Event /\ sent.previous \in Services
    BY <1>4, <2>1, <2>2, ToSlaveType
  <2> HIDE DEF sent
  <2>4. EngineTypeOK' /\ SendersKnown'
    BY <1>4, <2>3, ReplaceType DEF sent
  <2> QED
    BY <1>1, <1>4, <2>1, <2>4
<1> QED
  BY <1>2, <1>3, <1>4 DEF SendToNext

LEMMA OnCompletedTaskType ==
  ASSUME TypeInv, NEW m \in Masters, NEW e \in pending, OnCompletedTask(m, e)
  PROVE  /\ EngineTypeOK' /\ SendersKnown'
         /\ nextResource' \in [Masters -> Nat] /\ remaining' \in [Masters -> Nat]
<1>1. /\ nextResource \in [Masters -> Nat] /\ remaining \in [Masters -> Nat]
      /\ remaining[m] \in Nat
  BY DEF TypeInv, TypeOK, MasterTypeOK
<1>2. CASE Stop(e, "bad workload") /\ UNCHANGED <<remaining, nextResource>>
  BY <1>1, <1>2, StopType
<1>3. CASE Replace(e, {}) /\ UNCHANGED <<remaining, nextResource>>
  BY <1>1, <1>3, ReplaceType
<1>4. CASE /\ HasRemainingWorkload(m)
           /\ \E size \in TaskSizes :
                SendToNext(m, e, NewTask("scheduler", m, TaskNumber(m, 0), size))
           /\ remaining' = [remaining EXCEPT ![m] = @ - 1]
  <2>1. PICK size \in TaskSizes :
          SendToNext(m, e, NewTask("scheduler", m, TaskNumber(m, 0), size))
    BY <1>4
  <2>2. TaskNumber(m, 0) \in Nat
    BY <1>1 DEF TaskNumber
  <2>3. NewTask("scheduler", m, TaskNumber(m, 0), size) \in Event
    BY <2>2, NewTaskType
  <2>4. EngineTypeOK' /\ SendersKnown' /\ nextResource' \in [Masters -> Nat]
    BY <2>1, <2>3, SendToNextType
  <2>5. remaining' \in [Masters -> Nat]
    BY <1>1, <1>4 DEF HasRemainingWorkload
  <2> QED
    BY <2>4, <2>5
<1> QED
  BY <1>2, <1>3, <1>4 DEF OnCompletedTask

LEMMA RelayType ==
  ASSUME TypeInv, NEW m \in Masters, NEW e \in pending, Relay(m, e)
  PROVE  /\ EngineTypeOK' /\ SendersKnown'
         /\ UNCHANGED <<remaining, nextResource>>
<1>1. e \in Event /\ e.origin \in Services /\ e.offset \in Nat /\ m \in Services
  BY EngineAssumption DEF TypeInv, TypeOK, EngineTypeOK, Event, Services
<1> DEFINE sent(next) == [e EXCEPT !.to = next, !.source = e.origin, !.destination = m,
                                   !.previous = m, !.offset = NextOffset(e),
                                   !.forward = FALSE]
<1>2. CASE HasRoute(e.origin, m)
  <2>1. PICK next \in RouteElement(RoutePath[<<e.origin, m>>], e.offset) :
          Replace(e, {sent(next)})
    BY <1>2 DEF Relay
  <2>2. next \in Services
    BY <1>1, <1>2, <2>1, ElementType DEF HasRoute
  <2>3. sent(next) \in Event /\ sent(next).previous = m
    BY <1>1, <2>2, NextOffsetType DEF Event
  <2> HIDE DEF sent
  <2>4. EngineTypeOK' /\ SendersKnown'
    BY <1>1, <2>1, <2>3, ReplaceType
  <2> QED
    BY <2>4 DEF Relay
<1>3. CASE ~ HasRoute(e.origin, m)
  BY <1>3, StopType DEF Relay
<1> QED
  BY <1>2, <1>3

LEMMA MasterDelivers ==
  ASSUME TypeInv, NEW e \in pending, e.to \in Masters, MasterOnTaskArrival(e.to, e),
         UNCHANGED <<linkVars, switchVars, machineVars>>
  PROVE  TypeInv'
<1> DEFINE m == e.to
<1>2. /\ e \in Event /\ e.time \in Nat /\ m \in Masters
      /\ nextResource \in [Masters -> Nat] /\ remaining \in [Masters -> Nat]
  BY DEF TypeInv, TypeOK, EngineTypeOK, MasterTypeOK, Event
<1>3. LinkTypeOK' /\ SwitchTypeOK' /\ MachineTypeOK'
  BY DEF TypeInv, TypeOK, LinkTypeOK, SwitchTypeOK, MachineTypeOK,
              linkVars, switchVars, machineVars
<1>4. /\ EngineTypeOK' /\ SendersKnown'
      /\ nextResource' \in [Masters -> Nat] /\ remaining' \in [Masters -> Nat]
  <2>1. CASE OnCompletedTask(m, e)
    BY <1>2, <2>1, OnCompletedTaskType
  <2>2. CASE Relay(m, e)
    BY <1>2, <2>2, RelayType
  <2>3. CASE SendToNext(m, e, e) /\ UNCHANGED remaining
    BY <1>2, <2>3, SendToNextType
  <2> QED
    BY <2>1, <2>2, <2>3 DEF MasterOnTaskArrival
<1>5. masterMetrics' \in [Masters -> MasterMetrics] /\ UNCHANGED workload
  BY <1>2 DEF MasterOnTaskArrival, MasterCount, TypeInv, TypeOK, MasterTypeOK, MasterMetrics
<1>6. MasterTypeOK'
  BY <1>4, <1>5 DEF MasterTypeOK, TypeInv, TypeOK
<1> QED
  BY <1>3, <1>4, <1>6 DEF TypeInv, TypeOK

(* The batch of onInit: no more tasks than are left, and than slaves. *)
LEMMA InitialBatchType ==
  ASSUME NEW m \in Masters, remaining[m] \in Nat
  PROVE  /\ InitialBatch(m) \in Nat /\ remaining[m] - InitialBatch(m) \in Nat
         /\ \A i \in 0 .. InitialBatch(m) - 1 :
               TaskNumber(m, i) \in Nat /\ i \in Nat /\ Slaves[m] # <<>>
<1>1. Slaves[m] \in Seq(Masters \cup Machines) /\ Len(Slaves[m]) \in Nat
  BY MasterAssumption
<1>2. /\ InitialBatch(m) \in Nat
      /\ InitialBatch(m) <= remaining[m] /\ InitialBatch(m) <= Len(Slaves[m])
  BY <1>1 DEF InitialBatch
<1>3. Slaves[m] = <<>> => Len(Slaves[m]) = 0
  OBVIOUS
<1> QED
  BY <1>1, <1>2, <1>3 DEF TaskNumber

LEMMA SchedulerInitType == ASSUME TypeInv, SchedulerInit PROVE TypeInv'
<1>1. PICK m \in Masters :
        MasterOnSchedulerInit(m) /\ UNCHANGED <<linkVars, switchVars, machineVars>>
  BY DEF SchedulerInit
<1>2. LinkTypeOK' /\ SwitchTypeOK' /\ MachineTypeOK'
  BY <1>1 DEF TypeInv, TypeOK, LinkTypeOK, SwitchTypeOK, MachineTypeOK,
              linkVars, switchVars, machineVars
<1>3. /\ inits' \in SUBSET Masters /\ now' \in Nat /\ UNCHANGED <<workload, masterMetrics>>
  BY <1>1 DEF MasterOnSchedulerInit, TypeInv, TypeOK, EngineTypeOK
<1>4. /\ pending \subseteq Event /\ fault \in Faults
      /\ nextResource \in [Masters -> Nat] /\ remaining \in [Masters -> Nat]
      /\ nextResource[m] \in Nat /\ remaining[m] \in Nat
  BY DEF TypeInv, TypeOK, EngineTypeOK, MasterTypeOK
<1>5. m \in Services
  BY DEF Services
<1>6. /\ pending' \subseteq Event /\ fault' \in Faults /\ SendersKnown'
      /\ nextResource' \in [Masters -> Nat] /\ remaining' \in [Masters -> Nat]
  <2>1. CASE UNCHANGED <<pending, fault, remaining, nextResource>>
    BY <1>4, <2>1 DEF TypeInv, SendersKnown
  <2>2. CASE /\ fault' = [why |-> "bad workload", at |-> m]
             /\ UNCHANGED <<pending, remaining, nextResource>>
    BY <1>4, <1>5, <2>2 DEF TypeInv, SendersKnown, Faults
  <2>3. CASE /\ fault' = [why |-> "no route", at |-> m]
             /\ UNCHANGED <<pending, remaining, nextResource>>
    BY <1>4, <1>5, <2>3 DEF TypeInv, SendersKnown, Faults
  <2>4. ASSUME /\ \A i \in 0 .. InitialBatch(m) - 1 : HasRoute(m, Slave(m, i))
               /\ remaining' = [remaining EXCEPT ![m] = @ - InitialBatch(m)]
               /\ nextResource' = [nextResource EXCEPT ![m] = Advanced(m, InitialBatch(m))]
               /\ UNCHANGED fault,
               NEW size \in [0 .. InitialBatch(m) - 1 -> TaskSizes],
               pending' = pending \cup
                 {ToSlave(m, Slave(m, i), 0,
                          NewTask("scheduler", m, TaskNumber(m, i), size[i])) :
                    i \in 0 .. InitialBatch(m) - 1}
        PROVE  /\ pending' \subseteq Event /\ fault' \in Faults /\ SendersKnown'
               /\ nextResource' \in [Masters -> Nat] /\ remaining' \in [Masters -> Nat]
    <3> DEFINE batch == InitialBatch(m)
               sent(i) == ToSlave(m, Slave(m, i), 0,
                                  NewTask("scheduler", m, TaskNumber(m, i), size[i]))
    <3>1. ASSUME NEW i \in 0 .. batch - 1
          PROVE  sent(i) \in Event /\ sent(i).previous \in Services
      <4>1. TaskNumber(m, i) \in Nat /\ i \in Nat /\ Slaves[m] # <<>>
        BY <1>4, InitialBatchType
      <4>2. NewTask("scheduler", m, TaskNumber(m, i), size[i]) \in Event
        BY <4>1, NewTaskType
      <4>3. Slave(m, i) \in Services
        BY <1>4, <4>1, SlaveType
      <4>4. HasRoute(m, Slave(m, i))
        BY <2>4
      <4> QED
        BY <4>2, <4>3, <4>4, ToSlaveType
    <3>2. Advanced(m, batch) \in Nat
      <4>1. batch \in Nat /\ (batch = 0 \/ Slaves[m] # <<>>)
        <5>1. batch > 0 => 0 \in 0 .. batch - 1
          BY <1>4, InitialBatchType
        <5> QED
          BY <1>4, <5>1, InitialBatchType
      <4>2. CASE batch = 0
        BY <1>4, <4>2 DEF Advanced
      <4>3. CASE Slaves[m] # <<>>
        BY <1>4, <4>1, <4>3, SlaveType
      <4> QED
        BY <4>1, <4>2, <4>3
    <3>3. remaining' \in [Masters -> Nat] /\ nextResource' \in [Masters -> Nat]
      BY <1>4, <2>4, <3>2, InitialBatchType
    <3>4. pending' = pending \cup {sent(i) : i \in 0 .. batch - 1}
      BY <2>4
    <3> HIDE DEF sent, batch
    <3>5. pending' \subseteq Event
      BY <1>4, <3>1, <3>4
    <3>6. SendersKnown'
      <4>1. Nobody \notin Services
        BY EngineAssumption DEF Nobody
      <4> QED
        BY <3>1, <3>4, <4>1 DEF TypeInv, SendersKnown
    <3> QED
      BY <1>4, <2>4, <3>3, <3>5, <3>6
  <2> QED
    BY <1>1, <2>1, <2>2, <2>3, <2>4 DEF MasterOnSchedulerInit, OnInit
<1>7. EngineTypeOK' /\ MasterTypeOK'
  BY <1>3, <1>6 DEF EngineTypeOK, MasterTypeOK, TypeInv, TypeOK
<1> QED
  BY <1>2, <1>6, <1>7 DEF TypeInv, TypeOK

-----------------------------------------------------------------------------
LEMMA TypeStep == TypeInv /\ [Next]_vars => TypeInv'
<1> SUFFICES ASSUME TypeInv, [Next]_vars PROVE TypeInv'
  OBVIOUS
<1>1. CASE SchedulerInit
  BY <1>1, SchedulerInitType
<1>2. CASE LinkArrival
  BY <1>2, LinkDelivers DEF LinkArrival
<1>3. CASE SwitchArrival
  BY <1>3, SwitchDelivers DEF SwitchArrival
<1>4. CASE MachineArrival
  BY <1>4, MachineDelivers DEF MachineArrival
<1>5. CASE MasterArrival
  BY <1>5, MasterDelivers DEF MasterArrival
<1>6. CASE UNCHANGED vars
  BY <1>6 DEF vars, engineVars, linkVars, switchVars, machineVars, masterVars,
              TypeInv, TypeOK, SendersKnown, EngineTypeOK, LinkTypeOK, SwitchTypeOK,
              MachineTypeOK, MasterTypeOK
<1> QED
  BY <1>1, <1>2, <1>3, <1>4, <1>5, <1>6 DEF Next

THEOREM TypeInvariant == Spec => []TypeInv
BY InitType, TypeStep, PTL DEF Spec

(* Whatever the grid and its configuration, right or wrong, and whatever the
   handlers read from uninitialised memory or beside the array of a route: as
   long as the process lives, times are natural numbers, offsets are values of
   a size_t, packets are addressed to services, the free times of the cores and
   the counters stay natural numbers, and no workload goes below zero. *)
THEOREM TypeCorrect == Spec => []TypeOK
BY TypeInvariant, PTL DEF TypeInv
-----------------------------------------------------------------------------
(* In every flat grid (WellRouted) the packets follow their routes and the
   simulation never dies.  PacketsOnRoute is what the handlers rely on of each
   other; to be inductive it needs the types, and that the origin of every
   packet has a workload and slaves. *)

(* No master has a wild workload pointer, and a packet belongs to a master
   that can schedule the next task when the packet is back. *)
Supplied ==
  /\ \A m \in Masters : /\ workload[m] # "wild"
                        /\ m \in DOMAIN WorkloadSize <=> workload[m] = "assigned"
  /\ \A e \in pending : e.origin \in DOMAIN WorkloadSize /\ Slaves[e.origin] # <<>>

(* Only a task that no master has scheduled yet has no slave to go to. *)
Directed == \A e \in pending : OnTheWay(e) \/ e.destination = Nobody

RoutingInv == WellRouted /\ TypeInv /\ PacketsOnRoute /\ Directed /\ NoFault /\ Supplied

-----------------------------------------------------------------------------
(* The route from x to y is a walk from a master to a machine. *)
WalkLeads(x, y) ==
  /\ x \in Masters /\ y \in Machines /\ HasRoute(x, y)
  /\ IsWalk(Walk[<<x, y>>], x, y)

LEMMA WalkChosen ==
  ASSUME NEW x \in Masters, NEW y \in Machines, HasRoute(x, y),
         \E walk \in Walks(<<x, y>>) : IsWalk(walk, x, y)
  PROVE  Walk[<<x, y>>] \in Walks(<<x, y>>) /\ WalkLeads(x, y)
<1>1. Walk[<<x, y>>] = CHOOSE walk \in Walks(<<x, y>>) : IsWalk(walk, x, y)
  BY DEF Walk, HasRoute
<1> QED
  BY <1>1 DEF WalkLeads

(* What a packet on its route is between. *)
LEMMA RouteOfSlave ==
  ASSUME WellRouted, NEW m \in Masters, NEW s \in SlaveSet(m)
  PROVE  /\ s \in Machines /\ HasRoute(m, s)
         /\ Walk[<<m, s>>] \in Walks(<<m, s>>)
         /\ IsWalk(Walk[<<m, s>>], m, s)
         /\ WalkLeads(m, s)
<1>1. s \in Machines /\ HasRoute(m, s) /\ \E walk \in Walks(<<m, s>>) : IsWalk(walk, m, s)
  BY DEF WellRouted
<1> QED
  BY <1>1, WalkChosen DEF WalkLeads

(* A link that connects x and y leads from each to the other. *)
LEMMA TwoEnds ==
  ASSUME NEW a, NEW b, NEW x, NEW y, {a, b} = {x, y}
  PROVE  /\ x \in {a, b} /\ y \in {a, b}
         /\ a = x => b = y
         /\ a # x => a = y
         /\ a = y => b = x
         /\ a # y => a = x
OBVIOUS

LEMMA LinkOfWalk ==
  ASSUME NEW m, NEW s, WalkLeads(m, s),
         NEW k \in 1 .. Len(RoutePath[<<m, s>>])
  PROVE  LET path == RoutePath[<<m, s>>]
             walk == Walk[<<m, s>>]
         IN  /\ Len(path) \in Nat /\ Len(path) + 2 < OffsetMod
             /\ walk[0] = m /\ walk[Len(path)] = s
             /\ path[k] \in Links
             /\ LET a == LinkFrom[path[k]]
                    b == LinkTo[path[k]]
                IN  /\ walk[k-1] \in {a, b} /\ walk[k] \in {a, b}
                    /\ IF a = walk[k-1] THEN b = walk[k] ELSE a = walk[k]
                    /\ IF a = walk[k] THEN b = walk[k-1] ELSE a = walk[k-1]
             /\ k < Len(path) => walk[k] \in Machines \cup Switches /\ walk[k] # s
             /\ k > 1 => walk[k-1] \in Machines \cup Switches /\ walk[k-1] # s
             /\ walk[k] \in Machines \cup Switches
<1> DEFINE path == RoutePath[<<m, s>>]
           walk == Walk[<<m, s>>]
<1>1. path \in Seq(Services) /\ Len(path) \in Nat /\ Len(path) + 2 < OffsetMod
  BY EngineAssumption DEF WalkLeads, HasRoute
<1>2. /\ walk[0] = m /\ walk[Len(path)] = s
      /\ \A j \in 1 .. Len(path) :
            path[j] \in Links /\ {LinkFrom[path[j]], LinkTo[path[j]]} = {walk[j-1], walk[j]}
      /\ \A j \in 1 .. Len(path) - 1 : walk[j] \in Machines \cup Switches /\ walk[j] # s
  BY DEF WalkLeads, IsWalk
<1>3. s \in Machines
  BY DEF WalkLeads
<1> HIDE DEF path, walk
<1>4. k < Len(path) => k \in 1 .. Len(path) - 1
  BY <1>1 DEF path
<1>5. k > 1 => k - 1 \in 1 .. Len(path) - 1
  BY <1>1 DEF path
<1>6. k = Len(path) \/ k < Len(path)
  BY <1>1 DEF path
<1>7. k \in 1 .. Len(path)
  BY DEF path
<1>8. walk[k] \in Machines \cup Switches
  BY <1>2, <1>3, <1>4, <1>6
<1>9. {LinkFrom[path[k]], LinkTo[path[k]]} = {walk[k-1], walk[k]}
  BY <1>2, <1>7
<1>10. LET a == LinkFrom[path[k]]
           b == LinkTo[path[k]]
       IN  /\ walk[k-1] \in {a, b} /\ walk[k] \in {a, b}
           /\ IF a = walk[k-1] THEN b = walk[k] ELSE a = walk[k]
           /\ IF a = walk[k] THEN b = walk[k-1] ELSE a = walk[k-1]
  BY <1>9, TwoEnds
<1> QED
  BY <1>1, <1>2, <1>4, <1>5, <1>7, <1>8, <1>10 DEF path, walk

LEMMA LinkOfRoute ==
  ASSUME WellRouted, NEW m \in Masters, NEW s \in SlaveSet(m),
         NEW k \in 1 .. Len(RoutePath[<<m, s>>])
  PROVE  LET path == RoutePath[<<m, s>>]
             walk == Walk[<<m, s>>]
         IN  /\ Len(path) \in Nat /\ Len(path) + 2 < OffsetMod
             /\ walk[0] = m /\ walk[Len(path)] = s
             /\ path[k] \in Links
             /\ LET a == LinkFrom[path[k]]
                    b == LinkTo[path[k]]
                IN  /\ walk[k-1] \in {a, b} /\ walk[k] \in {a, b}
                    /\ IF a = walk[k-1] THEN b = walk[k] ELSE a = walk[k]
                    /\ IF a = walk[k] THEN b = walk[k-1] ELSE a = walk[k-1]
             /\ k < Len(path) => walk[k] \in Machines \cup Switches /\ walk[k] # s
             /\ k > 1 => walk[k-1] \in Machines \cup Switches /\ walk[k-1] # s
             /\ walk[k] \in Machines \cup Switches
BY RouteOfSlave, LinkOfWalk

(* The services are of one kind each. *)
LEMMA OneKind ==
  /\ \A x \in Masters : x \notin Machines /\ x \notin Links /\ x \notin Switches
  /\ \A x \in Machines \cup Switches : x \notin Links
BY EngineAssumption

(* Offsets of size_t within a route. *)
LEMMA OffsetSteps ==
  ASSUME NEW k \in Nat, k + 1 < OffsetMod
  PROVE  /\ Increment(k) = k + 1
         /\ k > 0 => Decrement(k) = k - 1
BY EngineAssumption DEF Increment, Decrement

(* A packet on its way through a flat grid, spelled out. *)
LEMMA PlaceOnTheWay ==
  ASSUME WellRouted, NEW e \in Event, OnTheWay(e)
  PROVE  LET path == RoutePath[<<e.source, e.destination>>]
             walk == Walk[<<e.source, e.destination>>]
         IN  /\ e.source = e.origin /\ e.origin \in Masters
             /\ e.destination \in SlaveSet(e.origin)
             /\ WalkLeads(e.source, e.destination) /\ AlongRoute(e)
             /\ \E k \in 1 .. Len(path) :
                   \/ GoingAtLink(e, path, walk, k)
                   \/ GoingAtService(e, path, walk, k)
                   \/ BackAtLink(e, path, walk, k)
                   \/ BackAtService(e, path, walk, k)
<1>1. e.origin \in Masters
  BY DEF Event
<1>2. WalkLeads(e.source, e.destination)
  BY <1>1, RouteOfSlave DEF OnTheWay
<1> QED
  BY <1>1, <1>2 DEF OnTheWay, AlongRoute

LEMMA Place ==
  ASSUME RoutingInv, NEW e \in pending, ~ AtSource(e)
  PROVE  LET path == RoutePath[<<e.source, e.destination>>]
             walk == Walk[<<e.source, e.destination>>]
         IN  /\ e \in Event /\ e.source = e.origin /\ e.origin \in Masters
             /\ e.destination \in SlaveSet(e.origin)
             /\ WalkLeads(e.source, e.destination) /\ AlongRoute(e)
             /\ \E k \in 1 .. Len(path) :
                   \/ GoingAtLink(e, path, walk, k)
                   \/ GoingAtService(e, path, walk, k)
                   \/ BackAtLink(e, path, walk, k)
                   \/ BackAtService(e, path, walk, k)
<1>1. e \in Event /\ OnTheWay(e) /\ WellRouted
  BY DEF RoutingInv, TypeInv, TypeOK, EngineTypeOK, PacketsOnRoute
<1> QED
  BY <1>1, PlaceOnTheWay

(* The invariant is kept by a handler that sends packets which are on their
   way and belong to a supplied master. *)
LEMMA ReplaceKeeps ==
  ASSUME RoutingInv, TypeInv', UNCHANGED workload, NEW e \in pending, NEW new,
         Replace(e, new),
         \A f \in new : /\ OnTheWay(f) /\ f.origin \in DOMAIN WorkloadSize
                        /\ Slaves[f.origin] # <<>>
  PROVE  RoutingInv'
<1>1. WellRouted'
  BY DEF RoutingInv, WellRouted, HasRoute, Walks, IsWalk, SlaveSet
<1>2. PacketsOnRoute' /\ Directed'
  BY DEF RoutingInv, PacketsOnRoute, Directed, Replace
<1>3. NoFault' /\ Supplied'
  BY DEF RoutingInv, NoFault, Supplied, Replace, Running
<1> QED
  BY <1>1, <1>2, <1>3 DEF RoutingInv

-----------------------------------------------------------------------------
(* A link hands the packet to the service on its other side. *)
LEMMA LinkAlong ==
  ASSUME NEW e \in Event, WalkLeads(e.source, e.destination), AlongRoute(e), e.to \in Links,
         NEW time \in Nat
  PROVE  /\ e.previous \in {LinkFrom[e.to], LinkTo[e.to]}
         /\ AlongRoute([e EXCEPT !.to = OtherEnd(e.to, e), !.time = time, !.previous = e.to])
<1> DEFINE path == RoutePath[<<e.source, e.destination>>]
           walk == Walk[<<e.source, e.destination>>]
           l    == e.to
           sent == [e EXCEPT !.to = OtherEnd(l, e), !.time = time, !.previous = l]
<1>1. PICK k \in 1 .. Len(path) :
        \/ GoingAtLink(e, path, walk, k)
        \/ GoingAtService(e, path, walk, k)
        \/ BackAtLink(e, path, walk, k)
        \/ BackAtService(e, path, walk, k)
  BY DEF AlongRoute
<1>2. /\ walk[0] = e.source
      /\ walk[k-1] \in {LinkFrom[path[k]], LinkTo[path[k]]}
      /\ walk[k] \in {LinkFrom[path[k]], LinkTo[path[k]]}
      /\ IF LinkFrom[path[k]] = walk[k-1] THEN LinkTo[path[k]] = walk[k]
                                         ELSE LinkFrom[path[k]] = walk[k]
      /\ IF LinkFrom[path[k]] = walk[k] THEN LinkTo[path[k]] = walk[k-1]
                                       ELSE LinkFrom[path[k]] = walk[k-1]
      /\ k > 1 => walk[k-1] \in Machines \cup Switches
      /\ walk[k] \in Machines \cup Switches
  BY LinkOfWalk
<1>3. GoingAtLink(e, path, walk, k) \/ BackAtLink(e, path, walk, k)
  <2>1. walk[k] # l
    BY <1>2, OneKind
  <2>2. walk[k-1] # l
    <3>1. k = 1 \/ k > 1
      OBVIOUS
    <3>2. e.source \in Masters
      BY DEF WalkLeads
    <3> QED
      BY <1>2, <3>1, <3>2, OneKind
  <2> QED
    BY <1>1, <2>1, <2>2 DEF GoingAtService, BackAtService
<1>4. /\ sent.to = OtherEnd(l, e) /\ sent.previous = l
      /\ sent.processed = e.processed /\ sent.forward = e.forward /\ sent.offset = e.offset
      /\ sent.source = e.source /\ sent.destination = e.destination
  BY DEF Event
<1> HIDE DEF path, walk, sent
<1>5. l = path[k] /\ e.previous \in {LinkFrom[l], LinkTo[l]}
  BY <1>2, <1>3 DEF GoingAtLink, BackAtLink
<1>6. GoingAtService(sent, path, walk, k) \/ BackAtService(sent, path, walk, k)
  <2>1. CASE GoingAtLink(e, path, walk, k)
    <3>1. OtherEnd(l, e) = walk[k]
      BY <1>2, <1>5, <2>1 DEF OtherEnd, GoingAtLink
    <3> QED
      BY <1>4, <1>5, <2>1, <3>1 DEF GoingAtLink, GoingAtService
  <2>2. CASE BackAtLink(e, path, walk, k)
    <3>1. OtherEnd(l, e) = walk[k-1]
      BY <1>2, <1>5, <2>2 DEF OtherEnd, BackAtLink
    <3> QED
      BY <1>4, <1>5, <2>2, <3>1 DEF BackAtLink, BackAtService
  <2> QED
    BY <1>3, <2>1, <2>2
<1>7. AlongRoute(sent)
  BY <1>1, <1>4, <1>6 DEF AlongRoute, path, walk
<1> QED
  BY <1>5, <1>7 DEF sent

LEMMA LinkKeeps ==
  ASSUME RoutingInv, TypeInv', UNCHANGED workload, NEW e \in pending,
         e.to \in Links, LinkOnTaskArrival(e.to, e)
  PROVE  RoutingInv'
<1> DEFINE l    == e.to
           sent == [e EXCEPT !.to = OtherEnd(l, e), !.time = LinkDeparture(l, e),
                             !.previous = l]
<1>1. e \in Event /\ ~ AtSource(e)
  BY OneKind DEF RoutingInv, TypeInv, TypeOK, EngineTypeOK, Event, AtSource
<1>2. /\ WalkLeads(e.source, e.destination) /\ AlongRoute(e)
      /\ e.source = e.origin /\ e.destination \in SlaveSet(e.origin)
  BY <1>1, Place
<1>3. LinkDeparture(l, e) \in Nat
  BY <1>1, LinkAssumption
     DEF RoutingInv, TypeInv, TypeOK, LinkTypeOK, LinkDeparture, LinkCommTime, Event
<1>4. e.previous \in {LinkFrom[l], LinkTo[l]} /\ AlongRoute(sent)
  BY <1>1, <1>2, <1>3, LinkAlong
<1>5. /\ sent.source = e.source /\ sent.destination = e.destination /\ sent.origin = e.origin
  BY <1>1 DEF Event
<1>6. Replace(e, {sent})
  BY <1>4 DEF LinkOnTaskArrival
<1> HIDE DEF sent
<1>7. OnTheWay(sent)
  BY <1>2, <1>4, <1>5 DEF OnTheWay
<1>8. sent.origin \in DOMAIN WorkloadSize /\ Slaves[sent.origin] # <<>>
  BY <1>5 DEF RoutingInv, Supplied
<1> QED
  BY <1>6, <1>7, <1>8, ReplaceKeeps

(* A machine or a switch inside a route finds the next link on it, in either
   direction, at the offset of the descriptor. *)
LEMMA ForwardAlong ==
  ASSUME NEW e \in Event, WalkLeads(e.source, e.destination), AlongRoute(e),
         e.to \in Machines \cup Switches, e.to \in Machines => e.destination # e.to,
         NEW next \in RouteElement(RoutePath[<<e.source, e.destination>>], e.offset)
  PROVE  AlongRoute([e EXCEPT !.to = next, !.previous = e.to, !.offset = NextOffset(e)])
<1> DEFINE path == RoutePath[<<e.source, e.destination>>]
           walk == Walk[<<e.source, e.destination>>]
           sent == [e EXCEPT !.to = next, !.previous = e.to, !.offset = NextOffset(e)]
<1>2. PICK k \in 1 .. Len(path) :
        \/ GoingAtLink(e, path, walk, k)
        \/ GoingAtService(e, path, walk, k)
        \/ BackAtLink(e, path, walk, k)
        \/ BackAtService(e, path, walk, k)
  BY DEF AlongRoute
<1>3. e.source \in Masters /\ e.destination \in Machines
  BY DEF WalkLeads
<1>4. /\ Len(path) \in Nat /\ Len(path) + 2 < OffsetMod
      /\ walk[0] = e.source /\ walk[Len(path)] = e.destination
      /\ path[k] \in Links
  BY LinkOfWalk
<1>5. next \in RouteElement(path, e.offset)
  OBVIOUS
<1>6. /\ sent.to = next /\ sent.previous = e.to
      /\ sent.processed = e.processed /\ sent.forward = e.forward
      /\ sent.offset = NextOffset(e)
      /\ sent.source = e.source /\ sent.destination = e.destination
  BY DEF Event
<1> HIDE DEF path, walk, sent
<1>7. k \in Nat /\ k >= 1 /\ k <= Len(path)
  BY <1>2, <1>4
<1>8. \E j \in 1 .. Len(path) :
        GoingAtLink(sent, path, walk, j) \/ BackAtLink(sent, path, walk, j)
  <2>1. CASE GoingAtService(e, path, walk, k)
    <3>1. e.to = walk[k] /\ e.offset = k /\ e.forward /\ ~ e.processed
      BY <2>1 DEF GoingAtService
    <3>2. k # Len(path)
      BY <1>3, <1>4, <3>1, OneKind, EngineAssumption
    <3>3. k < Len(path) /\ k + 1 \in 1 .. Len(path) /\ (k + 1) - 1 = k
      BY <1>4, <1>7, <3>2
    <3>4. next = path[k + 1]
      BY <1>5, <3>1, <3>3 DEF RouteElement
    <3>5. NextOffset(e) = k + 1
      <4>1. Increment(k) = k + 1
        BY <1>4, <1>7, <3>3, OffsetSteps, EngineAssumption
      <4> QED
        BY <3>1, <4>1 DEF NextOffset
    <3>6. GoingAtLink(sent, path, walk, k + 1)
      BY <1>6, <3>1, <3>3, <3>4, <3>5 DEF GoingAtLink
    <3> QED
      BY <3>3, <3>6
  <2>2. CASE BackAtService(e, path, walk, k)
    <3>1. e.to = walk[k-1] /\ e.offset = Decrement(k - 1) /\ ~ e.forward /\ e.processed
      BY <2>2 DEF BackAtService
    <3>2. k # 1
      BY <1>3, <1>4, <3>1, OneKind
    <3>3. k - 1 \in 1 .. Len(path) /\ k - 1 \in Nat /\ k - 1 > 0 /\ k - 2 < Len(path)
          /\ (k - 1) + 1 < OffsetMod /\ (k - 1) - 1 = k - 2 /\ (k - 2) + 1 = k - 1
      BY <1>4, <1>7, <3>2, EngineAssumption
    <3>4. e.offset = k - 2
      <4>1. Decrement(k - 1) = (k - 1) - 1
        BY <3>3, OffsetSteps
      <4> QED
        BY <3>1, <3>3, <4>1
    <3>5. next = path[k - 1]
      BY <1>5, <3>3, <3>4 DEF RouteElement
    <3>6. NextOffset(e) = Decrement((k - 1) - 1)
      BY <3>1, <3>3, <3>4 DEF NextOffset
    <3>7. BackAtLink(sent, path, walk, k - 1)
      BY <1>6, <3>1, <3>5, <3>6 DEF BackAtLink
    <3> QED
      BY <3>3, <3>7
  <2>3. e.to # path[k]
    BY <1>4, OneKind
  <2> QED
    BY <1>2, <2>1, <2>2, <2>3 DEF GoingAtLink, BackAtLink
<1>9. AlongRoute(sent)
  BY <1>6, <1>8 DEF AlongRoute, path, walk
<1> QED
  BY <1>9 DEF sent

LEMMA ForwardKeeps ==
  ASSUME RoutingInv, TypeInv', UNCHANGED workload, NEW e \in pending,
         e.to \in Machines \cup Switches, e.to \in Machines => e.destination # e.to,
         Forward(e.to, e)
  PROVE  RoutingInv'
<1> DEFINE path == RoutePath[<<e.source, e.destination>>]
           sent(next) == [e EXCEPT !.to = next, !.previous = e.to, !.offset = NextOffset(e)]
<1>1. e \in Event /\ ~ AtSource(e)
  BY OneKind DEF RoutingInv, TypeInv, TypeOK, EngineTypeOK, Event, AtSource
<1>2. /\ WalkLeads(e.source, e.destination) /\ AlongRoute(e)
      /\ e.source = e.origin /\ e.destination \in SlaveSet(e.origin)
  BY <1>1, Place
<1>3. PICK next \in RouteElement(path, e.offset) : Replace(e, {sent(next)})
  BY <1>2 DEF Forward, WalkLeads
<1>4. AlongRoute(sent(next))
  BY <1>1, <1>2, <1>3, ForwardAlong
<1>5. /\ sent(next).source = e.source /\ sent(next).destination = e.destination
      /\ sent(next).origin = e.origin
  BY <1>1 DEF Event
<1> HIDE DEF sent, path
<1>6. OnTheWay(sent(next))
  BY <1>2, <1>4, <1>5 DEF OnTheWay
<1>7. sent(next).origin \in DOMAIN WorkloadSize /\ Slaves[sent(next).origin] # <<>>
  BY <1>5 DEF RoutingInv, Supplied
<1> QED
  BY <1>3, <1>6, <1>7, ReplaceKeeps

LEMMA SwitchKeeps ==
  ASSUME RoutingInv, TypeInv', UNCHANGED workload, NEW e \in pending,
         e.to \in Switches, SwitchOnTaskArrival(e.to, e)
  PROVE  RoutingInv'
<1>1. e.to \notin Machines /\ Forward(e.to, e)
  BY EngineAssumption DEF SwitchOnTaskArrival
<1> QED
  BY <1>1, ForwardKeeps

(* The slave that processes a task sends it back over the link it came from. *)
LEMMA ProcessAlong ==
  ASSUME NEW e \in Event, WalkLeads(e.source, e.destination), AlongRoute(e),
         e.to \in Machines, e.destination = e.to, NEW time \in Nat
  PROVE  AlongRoute([e EXCEPT !.to = e.previous, !.time = time, !.processed = TRUE,
                              !.previous = e.to, !.offset = AnswerOffset(e.offset),
                              !.forward = FALSE])
<1> DEFINE path == RoutePath[<<e.source, e.destination>>]
           walk == Walk[<<e.source, e.destination>>]
           m    == e.to
           sent == [e EXCEPT !.to = e.previous, !.time = time, !.processed = TRUE,
                             !.previous = m, !.offset = AnswerOffset(e.offset),
                             !.forward = FALSE]
<1>2. PICK k \in 1 .. Len(path) :
        \/ GoingAtLink(e, path, walk, k)
        \/ GoingAtService(e, path, walk, k)
        \/ BackAtLink(e, path, walk, k)
        \/ BackAtService(e, path, walk, k)
  BY DEF AlongRoute
<1>3. e.source \in Masters
  BY DEF WalkLeads
<1>4. /\ Len(path) \in Nat /\ Len(path) + 2 < OffsetMod
      /\ walk[0] = e.source /\ walk[Len(path)] = m
      /\ path[k] \in Links
      /\ k < Len(path) => walk[k] # m
      /\ k > 1 => walk[k-1] # m
  BY LinkOfWalk
<1>6. /\ sent.to = e.previous /\ sent.previous = m
      /\ sent.processed /\ ~ sent.forward
      /\ sent.offset = AnswerOffset(e.offset)
      /\ sent.source = e.source /\ sent.destination = e.destination
  BY DEF Event
<1> HIDE DEF path, walk, sent
<1>7. k \in Nat /\ k >= 1 /\ k <= Len(path)
  BY <1>2, <1>4
<1>8. GoingAtService(e, path, walk, k)
  <2>1. path[k] # m
    BY <1>4, OneKind
  <2>2. walk[k-1] # m
    <3>1. k = 1 \/ k > 1
      BY <1>7
    <3>2. walk[0] # m
      BY <1>3, <1>4, OneKind
    <3> QED
      BY <1>4, <3>1, <3>2
  <2> QED
    BY <1>2, <2>1, <2>2 DEF GoingAtLink, BackAtLink, BackAtService
<1>9. k = Len(path)
  BY <1>4, <1>7, <1>8 DEF GoingAtService
<1>10. AnswerOffset(e.offset) = Decrement(k - 1)
  <2>1. Decrement(k) = k - 1
    BY <1>4, <1>7, OffsetSteps, EngineAssumption
  <2>2. e.offset = k
    BY <1>8 DEF GoingAtService
  <2> QED
    BY <2>1, <2>2 DEF AnswerOffset
<1>11. BackAtLink(sent, path, walk, k)
  BY <1>4, <1>6, <1>8, <1>9, <1>10 DEF GoingAtService, BackAtLink
<1>12. AlongRoute(sent)
  BY <1>2, <1>6, <1>11 DEF AlongRoute, path, walk
<1> QED
  BY <1>12 DEF sent

LEMMA ProcessKeeps ==
  ASSUME RoutingInv, TypeInv', UNCHANGED workload, NEW e \in pending,
         e.to \in Machines, e.destination = e.to, MachineProcess(e.to, e)
  PROVE  RoutingInv'
<1> DEFINE m    == e.to
           sent(time) == [e EXCEPT !.to = e.previous, !.time = time, !.processed = TRUE,
                                   !.previous = m, !.offset = AnswerOffset(e.offset),
                                   !.forward = FALSE]
<1>1. e \in Event /\ ~ AtSource(e)
  BY OneKind DEF RoutingInv, TypeInv, TypeOK, EngineTypeOK, Event, AtSource
<1>2. /\ WalkLeads(e.source, e.destination) /\ AlongRoute(e)
      /\ e.source = e.origin /\ e.destination \in SlaveSet(e.origin)
  BY <1>1, Place
<1>3. PICK c \in 0 .. Cores[m] - 1 : Replace(e, {sent(CoreDeparture(m, c, e))})
  BY DEF MachineProcess
<1>4. PICK time : time = CoreDeparture(m, c, e)
  OBVIOUS
<1>5. time \in Nat
  <2>1. coreFreeTimes[m][c] \in Nat
    BY DEF RoutingInv, TypeInv, TypeOK, MachineTypeOK, CoreTimes
  <2>2. TimeToProcess(m, e.procSize) \in Nat
    BY <1>1, MachineAssumption DEF TimeToProcess, Event
  <2> QED
    BY <1>1, <1>4, <2>1, <2>2 DEF CoreDeparture, Event
<1>6. AlongRoute(sent(time))
  BY <1>1, <1>2, <1>5, ProcessAlong
<1>7. /\ sent(time).source = e.source /\ sent(time).destination = e.destination
      /\ sent(time).origin = e.origin
  BY <1>1 DEF Event
<1>8. Replace(e, {sent(time)})
  BY <1>3, <1>4
<1> HIDE DEF sent
<1>9. OnTheWay(sent(time))
  BY <1>2, <1>6, <1>7 DEF OnTheWay
<1>10. sent(time).origin \in DOMAIN WorkloadSize /\ Slaves[sent(time).origin] # <<>>
  BY <1>7 DEF RoutingInv, Supplied
<1> QED
  BY <1>8, <1>9, <1>10, ReplaceKeeps

LEMMA MachineKeeps ==
  ASSUME RoutingInv, TypeInv', UNCHANGED workload, NEW e \in pending,
         e.to \in Machines, MachineOnTaskArrival(e.to, e)
  PROVE  RoutingInv'
<1>1. CASE e.destination # e.to /\ Forward(e.to, e)
  BY <1>1, ForwardKeeps
<1>2. CASE e.destination = e.to /\ MachineProcess(e.to, e)
  BY <1>2, ProcessKeeps
<1> QED
  BY <1>1, <1>2 DEF MachineOnTaskArrival, MachineForward

-----------------------------------------------------------------------------
(* A task that a master sends to a slave is on the first link of the route. *)
LEMMA ToSlaveFields ==
  ASSUME NEW m, NEW s, NEW time, NEW t \in Event
  PROVE  LET sent == ToSlave(m, s, time, t)
         IN  /\ sent.to = RoutePath[<<m, s>>][1] /\ sent.source = m /\ sent.destination = s
             /\ sent.previous = m /\ sent.offset = 1 /\ sent.forward
             /\ sent.processed = t.processed /\ sent.origin = t.origin
BY DEF ToSlave, Event

LEMMA ToSlaveAlong ==
  ASSUME NEW m, NEW s, WalkLeads(m, s), NEW time, NEW t \in Event, ~ t.processed
  PROVE  AlongRoute(ToSlave(m, s, time, t))
<1> DEFINE path == RoutePath[<<m, s>>]
           walk == Walk[<<m, s>>]
           sent == ToSlave(m, s, time, t)
<1>1. sent.to = path[1] /\ sent.source = m /\ sent.destination = s /\ sent.previous = m
      /\ sent.offset = 1 /\ sent.forward /\ ~ sent.processed
  BY ToSlaveFields
<1>2. 1 \in 1 .. Len(path)
  BY EngineAssumption DEF HasRoute, WalkLeads
<1>3. walk[1-1] = m
  BY DEF IsWalk, WalkLeads
<1> HIDE DEF path, walk, sent
<1>4. GoingAtLink(sent, path, walk, 1)
  BY <1>1, <1>3 DEF GoingAtLink
<1>5. AlongRoute(sent)
  BY <1>1, <1>2, <1>4 DEF AlongRoute, path, walk
<1> QED
  BY <1>5 DEF sent

LEMMA ToSlaveOnTheWay ==
  ASSUME WellRouted, NEW m \in Masters, NEW s \in SlaveSet(m), NEW time \in Nat,
         NEW t \in Event, t.origin = m, ~ t.processed
  PROVE  OnTheWay(ToSlave(m, s, time, t)) /\ ToSlave(m, s, time, t).origin = m
<1> DEFINE sent == ToSlave(m, s, time, t)
<1>1. AlongRoute(sent)
  BY RouteOfSlave, ToSlaveAlong
<1>2. sent.source = m /\ sent.destination = s /\ sent.origin = m
  BY DEF ToSlave, Event
<1> HIDE DEF sent
<1>3. OnTheWay(sent) /\ sent.origin = m
  BY <1>1, <1>2 DEF OnTheWay
<1> QED
  BY <1>3 DEF sent

(* A master that has slaves has a route to the next of them. *)
LEMMA SendToNextKeeps ==
  ASSUME RoutingInv, TypeInv', UNCHANGED workload, NEW m \in Masters, NEW e \in pending,
         NEW t \in Event, t.origin = m, ~ t.processed,
         m \in DOMAIN WorkloadSize, Slaves[m] # <<>>, SendToNext(m, e, t)
  PROVE  RoutingInv'
<1>1. WellRouted /\ nextResource[m] \in Nat /\ e.time \in Nat
  BY DEF RoutingInv, TypeInv, TypeOK, MasterTypeOK, EngineTypeOK, Event
<1>2. Slave(m, 0) \in SlaveSet(m)
  BY <1>1, SlaveType
<1>3. HasRoute(m, Slave(m, 0))
  BY <1>1, <1>2 DEF WellRouted
<1> DEFINE sent == ToSlave(m, Slave(m, 0), e.time, t)
<1>4. OnTheWay(sent) /\ sent.origin = m
  BY <1>1, <1>2, ToSlaveOnTheWay
<1>5. Replace(e, {sent})
  BY <1>3 DEF SendToNext
<1> HIDE DEF sent
<1> QED
  BY <1>4, <1>5, ReplaceKeeps

LEMMA NewTaskOrigin ==
  ASSUME NEW batch, NEW m, NEW n, NEW size
  PROVE  NewTask(batch, m, n, size).origin = m /\ ~ NewTask(batch, m, n, size).processed
BY DEF NewTask

(* A packet at a master belongs to this master: it starts there, or it is back. *)
LEMMA AtItsMaster ==
  ASSUME WellRouted, NEW e \in Event, AtSource(e) \/ OnTheWay(e), e.to \in Masters
  PROVE  e.origin = e.to
<1> DEFINE m == e.to
           path == RoutePath[<<e.source, e.destination>>]
           walk == Walk[<<e.source, e.destination>>]
<1>1. CASE AtSource(e)
  BY <1>1 DEF AtSource
<1>2. CASE ~ AtSource(e)
  <2>1. PICK k \in 1 .. Len(path) :
          \/ GoingAtLink(e, path, walk, k)
          \/ GoingAtService(e, path, walk, k)
          \/ BackAtLink(e, path, walk, k)
          \/ BackAtService(e, path, walk, k)
    BY <1>2, PlaceOnTheWay
  <2>2. WellRouted /\ e.source \in Masters /\ e.destination \in SlaveSet(e.source)
        /\ e.source = e.origin
    BY <1>2, PlaceOnTheWay
  <2>3. /\ walk[0] = e.source /\ path[k] \in Links
        /\ k > 1 => walk[k-1] \in Machines \cup Switches
        /\ walk[k] \in Machines \cup Switches
    BY <2>2, LinkOfRoute
  <2> HIDE DEF path, walk
  <2>4. m # path[k] /\ m # walk[k]
    BY <2>3, OneKind
  <2>5. m = walk[k-1]
    BY <2>1, <2>4 DEF GoingAtLink, GoingAtService, BackAtLink, BackAtService
  <2>6. k = 1
    BY <2>3, <2>5, OneKind
  <2> QED
    BY <2>2, <2>3, <2>5, <2>6
<1> QED
  BY <1>1, <1>2

LEMMA AtOwnMaster ==
  ASSUME RoutingInv, NEW e \in pending, e.to \in Masters PROVE e.origin = e.to
<1>1. /\ e \in Event /\ WellRouted
      /\ AtSource(e) \/ OnTheWay(e)
  BY DEF RoutingInv, TypeInv, TypeOK, EngineTypeOK, PacketsOnRoute
<1> QED
  BY <1>1, AtItsMaster

(* One that is there and not processed has not been scheduled yet. *)
LEMMA NotYetSent ==
  ASSUME RoutingInv, NEW e \in pending, e.to \in Masters, ~ e.processed
  PROVE  e.destination = Nobody
<1> SUFFICES ASSUME OnTheWay(e) PROVE FALSE
  BY DEF RoutingInv, Directed
<1> DEFINE path == RoutePath[<<e.source, e.destination>>]
           walk == Walk[<<e.source, e.destination>>]
<1>1. PICK k \in 1 .. Len(path) :
        GoingAtLink(e, path, walk, k) \/ GoingAtService(e, path, walk, k)
  BY DEF OnTheWay, AlongRoute, BackAtLink, BackAtService
<1>2. WellRouted /\ e.source \in Masters /\ e.destination \in SlaveSet(e.source)
  BY DEF OnTheWay, AlongRoute, RoutingInv, TypeInv, TypeOK, EngineTypeOK, Event
<1>3. path[k] \in Links /\ walk[k] \in Machines \cup Switches
  BY <1>2, LinkOfRoute
<1> HIDE DEF path, walk
<1> QED
  BY <1>1, <1>3, OneKind DEF GoingAtLink, GoingAtService

LEMMA MasterKeeps ==
  ASSUME RoutingInv, TypeInv', NEW e \in pending, e.to \in Masters,
         MasterOnTaskArrival(e.to, e)
  PROVE  RoutingInv'
<1>1. e \in pending /\ e.to \in Masters /\ MasterOnTaskArrival(e.to, e)
  OBVIOUS
<1> DEFINE m == e.to
<1>2. UNCHANGED workload
  BY <1>1 DEF MasterOnTaskArrival
<1>3. e \in Event /\ remaining[m] \in Nat
  BY <1>1 DEF RoutingInv, TypeInv, TypeOK, EngineTypeOK, MasterTypeOK
<1>4. /\ e.origin \in DOMAIN WorkloadSize /\ Slaves[e.origin] # <<>>
  BY DEF RoutingInv, Supplied
<1>5. e.origin = m
  BY <1>1, AtOwnMaster
<1>6. CASE ~ e.processed /\ SendToNext(m, e, e)
  BY <1>1, <1>2, <1>3, <1>4, <1>5, <1>6, SendToNextKeeps
<1>7. CASE OnCompletedTask(m, e)
  <2>1. workload[m] = "assigned"
    BY <1>1, <1>4, <1>5 DEF RoutingInv, Supplied
  <2>2. CASE Replace(e, {})
    BY <1>2, <2>2, ReplaceKeeps
  <2>3. ASSUME NEW size \in TaskSizes,
               SendToNext(m, e, NewTask("scheduler", m, TaskNumber(m, 0), size))
        PROVE  RoutingInv'
    <3> DEFINE t == NewTask("scheduler", m, TaskNumber(m, 0), size)
    <3>1. t \in Event
      BY <1>1, <1>3, NewTaskType DEF TaskNumber
    <3>2. t.origin = m /\ ~ t.processed
      BY NewTaskOrigin
    <3> HIDE DEF t
    <3>3. SendToNext(m, e, t)
      BY <2>3 DEF t
    <3> QED
      BY <1>1, <1>2, <1>4, <1>5, <3>1, <3>2, <3>3, SendToNextKeeps
  <2> QED
    BY <1>7, <2>1, <2>2, <2>3 DEF OnCompletedTask
<1> QED
  BY <1>1, <1>5, <1>6, <1>7 DEF MasterOnTaskArrival

(* A delivered event keeps the packets on their routes, even when it is not
   the next one in time. *)
LEMMA DispatchKeeps ==
  ASSUME RoutingInv, TypeInv', NEW e \in pending, Dispatch(e) PROVE RoutingInv'
<1>1. e.to \notin Masters => UNCHANGED workload
  BY OneKind, EngineAssumption DEF Dispatch, masterVars
<1> QED
  BY <1>1, LinkKeeps, SwitchKeeps, MachineKeeps, MasterKeeps, OneKind, EngineAssumption
     DEF Dispatch

LEMMA SchedulerInitKeeps == ASSUME RoutingInv, TypeInv', SchedulerInit PROVE RoutingInv'
<1>1. PICK m \in Masters : MasterOnSchedulerInit(m)
  BY DEF SchedulerInit
<1>2. UNCHANGED workload /\ OnInit(m)
  BY <1>1 DEF MasterOnSchedulerInit
<1>3. /\ WellRouted /\ workload[m] # "wild"
      /\ workload[m] = "assigned" => m \in DOMAIN WorkloadSize
      /\ nextResource[m] \in Nat /\ remaining[m] \in Nat
  BY DEF RoutingInv, Supplied, TypeInv, TypeOK, MasterTypeOK
<1>4. WellRouted'
  BY <1>3 DEF WellRouted, HasRoute, Walks, IsWalk, SlaveSet
<1>5. CASE UNCHANGED <<pending, fault>>
  <2>1. PacketsOnRoute' /\ Directed' /\ NoFault' /\ Supplied'
    BY <1>2, <1>5 DEF RoutingInv, PacketsOnRoute, Directed, NoFault, Supplied
  <2> QED
    BY <1>4, <2>1 DEF RoutingInv
<1>6. ASSUME NEW i \in 0 .. InitialBatch(m) - 1
      PROVE  /\ i \in Nat /\ TaskNumber(m, i) \in Nat /\ Slaves[m] # <<>>
             /\ Slave(m, i) \in SlaveSet(m) /\ HasRoute(m, Slave(m, i))
  <2>1. i \in Nat /\ TaskNumber(m, i) \in Nat /\ Slaves[m] # <<>>
    BY <1>3, InitialBatchType
  <2>2. Slave(m, i) \in SlaveSet(m)
    BY <1>3, <2>1, SlaveType
  <2> QED
    BY <1>3, <2>1, <2>2 DEF WellRouted
<1>7. ASSUME workload[m] = "assigned", UNCHANGED fault,
             NEW size \in [0 .. InitialBatch(m) - 1 -> TaskSizes],
             pending' = pending \cup
               {ToSlave(m, Slave(m, i), 0,
                        NewTask("scheduler", m, TaskNumber(m, i), size[i])) :
                  i \in 0 .. InitialBatch(m) - 1}
      PROVE  RoutingInv'
  <2> DEFINE batch == InitialBatch(m)
             sent(i) == ToSlave(m, Slave(m, i), 0,
                                NewTask("scheduler", m, TaskNumber(m, i), size[i]))
  <2>1. ASSUME NEW i \in 0 .. batch - 1
        PROVE  OnTheWay(sent(i)) /\ sent(i).origin = m /\ Slaves[m] # <<>>
    <3> DEFINE t == NewTask("scheduler", m, TaskNumber(m, i), size[i])
    <3>1. t \in Event
      BY <1>6, NewTaskType
    <3>2. t.origin = m /\ ~ t.processed
      BY NewTaskOrigin
    <3> HIDE DEF t
    <3>3. /\ OnTheWay(ToSlave(m, Slave(m, i), 0, t))
          /\ ToSlave(m, Slave(m, i), 0, t).origin = m
      BY <1>3, <1>6, <3>1, <3>2, ToSlaveOnTheWay
    <3> QED
      BY <1>6, <3>3 DEF t
  <2>2. pending' = pending \cup {sent(i) : i \in 0 .. batch - 1}
    BY <1>7
  <2> HIDE DEF sent, batch
  <2>3. PacketsOnRoute' /\ Directed'
    BY <2>1, <2>2 DEF RoutingInv, PacketsOnRoute, Directed
  <2>4. NoFault' /\ Supplied'
    BY <1>2, <1>3, <1>7, <2>1, <2>2 DEF RoutingInv, NoFault, Supplied
  <2> QED
    BY <1>4, <2>3, <2>4 DEF RoutingInv
<1> QED
  BY <1>2, <1>3, <1>5, <1>6, <1>7 DEF OnInit

-----------------------------------------------------------------------------
LEMMA RoutingInit == WellRouted /\ Init => RoutingInv
<1> SUFFICES ASSUME WellRouted, Init PROVE RoutingInv
  OBVIOUS
<1>1. PICK time \in [BuilderNumbers -> ArrivalTimes], size \in [Masters -> TaskSizes] :
        pending = {[NewTask("builder", x[1], x[2], size[x[1]]) EXCEPT !.time = time[x]] :
                     x \in BuilderNumbers}
  BY DEF Init, BuilderInit
<1>2. ASSUME NEW x \in BuilderNumbers
      PROVE  LET e == [NewTask("builder", x[1], x[2], size[x[1]]) EXCEPT !.time = time[x]]
             IN  /\ AtSource(e) /\ e.origin \in DOMAIN WorkloadSize /\ e.destination = Nobody
                 /\ Slaves[e.origin] # <<>>
  <2>1. x[1] \in Masters /\ BuilderTasks[x[1]] > 0
    BY MasterAssumption DEF BuilderNumbers
  <2>2. x[1] \in DOMAIN WorkloadSize /\ Slaves[x[1]] # <<>>
    BY <2>1 DEF WellRouted
  <2> QED
    BY <2>2 DEF NewTask, AtSource
<1>3. PacketsOnRoute /\ Directed
  BY <1>1, <1>2 DEF PacketsOnRoute, Directed
<1>4. Supplied
  <2>1. ASSUME NEW m \in Masters
        PROVE  /\ workload[m] # "wild"
               /\ m \in DOMAIN WorkloadSize <=> workload[m] = "assigned"
    BY DEF Init, MasterInit, WellRouted
  <2> QED
    BY <1>1, <1>2, <2>1 DEF Supplied
<1> QED
  BY <1>3, <1>4, InitType DEF Init, RoutingInv, NoFault

LEMMA RoutingStep == RoutingInv /\ [Next]_vars => RoutingInv'
<1> SUFFICES ASSUME RoutingInv, [Next]_vars PROVE RoutingInv'
  OBVIOUS
<1> TypeInv'
  BY TypeStep DEF RoutingInv
<1>1. CASE SchedulerInit
  BY <1>1, SchedulerInitKeeps
<1>2. ASSUME NEW e \in pending, Dispatch(e) PROVE RoutingInv'
  BY <1>2, DispatchKeeps
<1>3. LinkArrival \/ SwitchArrival \/ MachineArrival \/ MasterArrival
        => \E e \in pending : Dispatch(e)
  BY DEF LinkArrival, SwitchArrival, MachineArrival, MasterArrival, Dispatch
<1>4. CASE UNCHANGED vars
  <2>1. WellRouted'
    BY DEF RoutingInv, WellRouted, HasRoute, Walks, IsWalk, SlaveSet
  <2>2. PacketsOnRoute' /\ Directed' /\ NoFault' /\ Supplied'
    BY <1>4 DEF vars, engineVars, masterVars, RoutingInv, PacketsOnRoute, Directed, NoFault,
                Supplied
  <2> QED
    BY <2>1, <2>2 DEF RoutingInv
<1> QED
  BY <1>1, <1>2, <1>3, <1>4 DEF Next

LEMMA RoutingInvariant == WellRouted /\ Spec => []RoutingInv
<1>1. WellRouted /\ Init => RoutingInv
  BY RoutingInit
<1>2. RoutingInv /\ [Next]_vars => RoutingInv'
  BY RoutingStep
<1> QED
  BY <1>1, <1>2, PTL DEF Spec

(* In a flat grid of any size every packet stays on the walk its route
   describes, out and back, and the offset it carries is always the one that
   the next handler indexes the route with, wrap-around included. *)
THEOREM PacketsFollowRoutes == WellRouted /\ Spec => []PacketsOnRoute
BY RoutingInvariant, PTL DEF RoutingInv

(* In a flat grid no delivery ever ends the process: every link gets its
   packets from one of its ends, every route that is looked up exists, and no
   master that must schedule lacks a slave or a workload. *)
THEOREM NeverDies == WellRouted /\ Spec => []NoFault
BY RoutingInvariant, PTL DEF RoutingInv

(* The offset of a packet on its walk is one past the link it has crossed, or
   two before it on the way back; only at the two ends of the walk is it no
   index, and there nobody uses it. *)
LEMMA OffsetIsIndex ==
  ASSUME RoutingInv, NEW e \in pending,
         e.to \in Machines \cup Switches \cup Masters, e.to # e.destination, e.to # e.origin
  PROVE  /\ e.to \in Machines \cup Switches
         /\ e.offset < Len(RoutePath[<<e.source, e.destination>>])
<1> DEFINE path == RoutePath[<<e.source, e.destination>>]
           walk == Walk[<<e.source, e.destination>>]
<1>1. /\ ~ AtSource(e)
      /\ e.to \notin Links
  BY OneKind DEF AtSource
<1>2. /\ WellRouted
      /\ e.source = e.origin /\ e.origin \in Masters /\ e.destination \in SlaveSet(e.origin)
  BY <1>1, Place DEF RoutingInv
<1>3. PICK k \in 1 .. Len(path) :
        \/ GoingAtLink(e, path, walk, k)
        \/ GoingAtService(e, path, walk, k)
        \/ BackAtLink(e, path, walk, k)
        \/ BackAtService(e, path, walk, k)
  BY <1>1, Place
<1>4. /\ Len(path) \in Nat /\ Len(path) + 2 < OffsetMod
      /\ walk[0] = e.source /\ walk[Len(path)] = e.destination
      /\ path[k] \in Links
      /\ k > 1 => walk[k-1] \in Machines \cup Switches
      /\ walk[k] \in Machines \cup Switches
  BY <1>2, <1>3, LinkOfRoute
<1> HIDE DEF path, walk
<1>5. CASE GoingAtLink(e, path, walk, k) \/ BackAtLink(e, path, walk, k)
  BY <1>1, <1>4, <1>5 DEF GoingAtLink, BackAtLink
<1>6. CASE GoingAtService(e, path, walk, k)
  <2>1. e.to = walk[k] /\ e.offset = k
    BY <1>6 DEF GoingAtService
  <2>2. k < Len(path)
    BY <1>4, <2>1
  <2> QED
    BY <1>4, <2>1, <2>2 DEF path
<1>7. CASE BackAtService(e, path, walk, k)
  <2>1. e.to = walk[k-1] /\ e.offset = Decrement(k - 1)
    BY <1>7 DEF BackAtService
  <2>2. k > 1
    BY <1>2, <1>4, <2>1
  <2>3. k - 1 \in Nat /\ (k - 1) + 1 < OffsetMod /\ k - 1 > 0
    BY <1>4, <2>2, EngineAssumption
  <2>4. e.offset = (k - 1) - 1
    BY <2>1, <2>3, OffsetSteps
  <2> QED
    <3>1. Len(path) \in Nat /\ k \in Nat /\ k <= Len(path)
      BY <1>4
    <3>2. e.offset < Len(path)
      BY <2>4, <3>1
    <3>3. e.to \in Machines \cup Switches
      BY <1>4, <2>1, <2>2
    <3> QED
      BY <3>2, <3>3 DEF path
<1> QED
  BY <1>3, <1>5, <1>6, <1>7

(* In a flat grid no handler ever reads beside the array of a route: machines
   and switches find the next link in both directions, although the offset of an
   answer wraps around below the first element by the time it is back. *)
THEOREM IndexesStayInRoute == WellRouted /\ Spec => []IndexesInRoute
<1>1. RoutingInv => IndexesInRoute
  <2> SUFFICES ASSUME RoutingInv, NEW e \in pending PROVE
        /\ e.to \in Machines \cup Switches /\ e.to # e.destination =>
             e.offset < Len(RoutePath[<<e.source, e.destination>>])
        /\ ~ (e.to \in Masters /\ e.processed /\ e.to # e.origin)
    BY DEF IndexesInRoute
  <2>1. e.origin \in Masters
    BY DEF RoutingInv, TypeInv, TypeOK, EngineTypeOK, Event
  <2>2. CASE e.to \in Machines \cup Switches
    BY <2>1, <2>2, OneKind, OffsetIsIndex
  <2>3. ASSUME e.to \in Masters, e.processed, e.to # e.origin PROVE FALSE
    <3>1. e.destination \in Machines
      BY <2>3, Place, RouteOfSlave DEF AtSource, RoutingInv
    <3> QED
      BY <2>3, <3>1, OneKind, OffsetIsIndex
  <2> QED
    BY <2>2, <2>3
<1> QED
  BY <1>1, RoutingInvariant, PTL

-----------------------------------------------------------------------------
(* Grids that are not well routed.  Why the process dies is found out by a
   service that has been sent a packet on behalf of another: a link, or a master
   that has to pass a packet on.  The invariant says of a packet how it has come
   there: over a link of the route it was sent along, and along the walk, if the
   route is one; and that a master which has sent the packet of another was on
   a route of another. *)

AtRouteLink(e) ==
  LET path == RoutePath[<<e.source, e.destination>>] IN
  \E k \in 1 .. Len(path) :
    IF e.to \in Links THEN e.to = path[k]
    ELSE e.previous = path[k] /\ e.to \in {LinkFrom[path[k]], LinkTo[path[k]]}

HasWalk(x, y) == \E walk \in Walks(<<x, y>>) : IsWalk(walk, x, y)

PassedThrough(m) ==
  \E pair \in DOMAIN RoutePath : \E k \in 1 .. Len(RoutePath[pair]) :
    pair[1] # m /\ m \in {LinkFrom[RoutePath[pair][k]], LinkTo[RoutePath[pair][k]]}

Scheduled(e) ==
  /\ e.source \in Masters /\ HasRoute(e.source, e.destination)
  /\ AtRouteLink(e)
  /\ e.source # e.origin => PassedThrough(e.source)
  /\ HasWalk(e.source, e.destination) => AlongRoute(e)

PacketsTraced == \A e \in pending : AtSource(e) \/ Scheduled(e)

Assigned == \A m \in Masters : m \in DOMAIN WorkloadSize => workload[m] = "assigned"

FaultInv == TypeInv /\ PacketsTraced /\ Assigned /\ FaultsExplained

LEMMA RouteLinks ==
  ASSUME RoutesToMachines, NEW x, NEW y, HasRoute(x, y)
  PROVE  LET path == RoutePath[<<x, y>>]
         IN  /\ y \in Machines /\ Len(path) \in Nat /\ 1 \in 1 .. Len(path)
             /\ DOMAIN path = 1 .. Len(path)
             /\ \A k \in 1 .. Len(path) :
                  /\ path[k] \in Links
                  /\ LinkFrom[path[k]] \notin Links /\ LinkTo[path[k]] \notin Links
BY EngineAssumption DEF RoutesToMachines, HasRoute

LEMMA TracedReplace ==
  ASSUME FaultInv, TypeInv', UNCHANGED workload, NEW e \in pending, NEW new, Replace(e, new),
         \A f \in new : Scheduled(f)
  PROVE  FaultInv'
<1>1. PacketsTraced' /\ Assigned' /\ FaultsExplained'
  BY DEF FaultInv, PacketsTraced, Assigned, FaultsExplained, Replace
<1> QED
  BY <1>1 DEF FaultInv

LEMMA TracedStop ==
  ASSUME FaultInv, TypeInv', UNCHANGED workload, NEW e \in pending, NEW why, Stop(e, why),
         Explained(why, e.to)
  PROVE  FaultInv'
<1>1. PacketsTraced' /\ Assigned'
  BY DEF FaultInv, PacketsTraced, Assigned, Stop
<1>2. fault'.why = why /\ fault'.at = e.to
  BY DEF Stop
<1>3. FaultsExplained'
  BY <1>2 DEF FaultsExplained
<1> QED
  BY <1>1, <1>3 DEF FaultInv

(* What is known of a packet that has been scheduled. *)
LEMMA ScheduledFacts ==
  ASSUME RoutesToMachines, NEW e \in Event, Scheduled(e)
  PROVE  /\ e.source \in Masters /\ e.destination \in Machines
         /\ HasRoute(e.source, e.destination)
         /\ HasWalk(e.source, e.destination) =>
              WalkLeads(e.source, e.destination) /\ AlongRoute(e)
<1>1. e.source \in Masters /\ HasRoute(e.source, e.destination) /\ e.destination \in Machines
  BY RouteLinks DEF Scheduled
<1>2. HasWalk(e.source, e.destination) => WalkLeads(e.source, e.destination)
  BY <1>1, WalkChosen DEF HasWalk
<1> QED
  BY <1>1, <1>2 DEF Scheduled

LEMMA ElsewhereScheduled ==
  ASSUME FaultInv, NEW e \in pending PROVE e \in Event /\ (e.to \notin Masters => Scheduled(e))
BY DEF FaultInv, TypeInv, TypeOK, EngineTypeOK, PacketsTraced, AtSource, Event

LEMMA LinkTraced ==
  ASSUME RoutesToMachines, FaultInv, TypeInv', UNCHANGED workload, NEW e \in pending,
         e.to \in Links, LinkOnTaskArrival(e.to, e)
  PROVE  FaultInv'
<1> DEFINE l    == e.to
           path == RoutePath[<<e.source, e.destination>>]
           sent == [e EXCEPT !.to = OtherEnd(l, e), !.time = LinkDeparture(l, e),
                             !.previous = l]
<1>1. e \in Event /\ Scheduled(e)
  BY OneKind, ElsewhereScheduled
<1>2. PICK k \in 1 .. Len(path) : l = path[k]
  BY <1>1 DEF Scheduled, AtRouteLink
<1>3. HasRoute(e.source, e.destination) /\ e.source \in Masters
  BY <1>1, ScheduledFacts
<1>4. DOMAIN path = 1 .. Len(path) /\ LinkFrom[l] \notin Links /\ LinkTo[l] \notin Links
  BY <1>2, <1>3, RouteLinks
<1>5. LinkDeparture(l, e) \in Nat
  <2>1. e.time \in Nat /\ e.commSize \in Nat
    BY <1>1 DEF Event
  <2>2. linkAvailable[l] \in Nat
    BY DEF FaultInv, TypeInv, TypeOK, LinkTypeOK
  <2>3. LinkLatency[l] \in Nat /\ LinkUnitCost[l] \in Nat
    BY LinkAssumption
  <2>4. LinkCommTime(l, e.commSize) \in Nat
    <3>1. \A x, y, z \in Nat : x + y * z \in Nat
      OBVIOUS
    <3> QED
      BY <2>1, <2>3, <3>1 DEF LinkCommTime
  <2> QED
    BY <2>1, <2>2, <2>4 DEF LinkDeparture
<1>6. HasWalk(e.source, e.destination) =>
        e.previous \in {LinkFrom[l], LinkTo[l]} /\ AlongRoute(sent)
  BY <1>1, <1>5, ScheduledFacts, LinkAlong
<1>7. CASE Replace(e, {sent})
  <2>1. /\ sent.to = OtherEnd(l, e) /\ sent.previous = l
        /\ sent.source = e.source /\ sent.destination = e.destination /\ sent.origin = e.origin
    BY <1>1 DEF Event
  <2>2. OtherEnd(l, e) \in {LinkFrom[l], LinkTo[l]}
    BY DEF OtherEnd
  <2> HIDE DEF sent, l
  <2>3. AtRouteLink(sent)
    BY <1>2, <1>4, <2>1, <2>2 DEF AtRouteLink
  <2>4. Scheduled(sent)
    BY <1>1, <1>6, <2>1, <2>3 DEF Scheduled
  <2> QED
    BY <1>7, <2>4, TracedReplace
<1>8. CASE e.previous \notin {LinkFrom[l], LinkTo[l]} /\ Stop(e, "not an end")
  <2>1. ~ \E walk \in Walks(<<e.source, e.destination>>) : IsWalk(walk, e.source, e.destination)
    BY <1>6, <1>8 DEF HasWalk
  <2>2. Explained("not an end", l)
    <3>1. PICK pair : pair = <<e.source, e.destination>>
      OBVIOUS
    <3>2. /\ pair \in DOMAIN RoutePath /\ pair[1] = e.source /\ pair[2] = e.destination
          /\ k \in DOMAIN RoutePath[pair] /\ RoutePath[pair][k] = l
          /\ ~ \E walk \in Walks(pair) : IsWalk(walk, pair[1], pair[2])
      BY <1>2, <1>3, <1>4, <2>1, <3>1 DEF HasRoute
    <3> HIDE DEF l
    <3> QED
      BY <3>2 DEF Explained
  <2> QED
    BY <1>8, <2>2, TracedStop
<1> QED
  BY <1>7, <1>8 DEF LinkOnTaskArrival

LEMMA ForwardTraced ==
  ASSUME RoutesToMachines, FaultInv, IndexesInRoute, TypeInv', UNCHANGED workload,
         NEW e \in pending, e.to \in Machines \cup Switches, e.destination # e.to,
         Forward(e.to, e)
  PROVE  FaultInv'
<1> DEFINE path == RoutePath[<<e.source, e.destination>>]
           sent(next) == [e EXCEPT !.to = next, !.previous = e.to, !.offset = NextOffset(e)]
<1>1. e \in Event /\ Scheduled(e) /\ e.offset \in Nat
  BY OneKind, ElsewhereScheduled, EngineAssumption DEF Event
<1>2. HasRoute(e.source, e.destination)
  BY <1>1, ScheduledFacts
<1>3. PICK next \in RouteElement(path, e.offset) : Replace(e, {sent(next)})
  BY <1>2 DEF Forward
<1>4. e.offset + 1 \in 1 .. Len(path) /\ next = path[e.offset + 1] /\ next \in Links
  <2>1. e.offset < Len(path)
    BY DEF IndexesInRoute
  <2>2. Len(path) \in Nat
    BY <1>2, RouteLinks
  <2>3. e.offset + 1 \in 1 .. Len(path) /\ next = path[e.offset + 1]
    BY <1>1, <1>3, <2>1, <2>2 DEF RouteElement
  <2> QED
    BY <1>2, <2>3, RouteLinks
<1>5. HasWalk(e.source, e.destination) => AlongRoute(sent(next))
  BY <1>1, <1>3, ScheduledFacts, ForwardAlong
<1>6. /\ sent(next).to = next /\ sent(next).source = e.source
      /\ sent(next).destination = e.destination /\ sent(next).origin = e.origin
  BY <1>1 DEF Event
<1> HIDE DEF sent
<1>7. AtRouteLink(sent(next))
  BY <1>4, <1>6 DEF AtRouteLink
<1>8. Scheduled(sent(next))
  BY <1>1, <1>5, <1>6, <1>7 DEF Scheduled
<1> QED
  BY <1>3, <1>8, TracedReplace

LEMMA ProcessTraced ==
  ASSUME RoutesToMachines, FaultInv, TypeInv', UNCHANGED workload, NEW e \in pending,
         e.to \in Machines, e.destination = e.to, MachineProcess(e.to, e)
  PROVE  FaultInv'
<1> DEFINE m    == e.to
           path == RoutePath[<<e.source, e.destination>>]
           sent(time) == [e EXCEPT !.to = e.previous, !.time = time, !.processed = TRUE,
                                   !.previous = m, !.offset = AnswerOffset(e.offset),
                                   !.forward = FALSE]
<1>1. e \in Event /\ Scheduled(e)
  BY OneKind, ElsewhereScheduled
<1>2. PICK c \in 0 .. Cores[m] - 1 : Replace(e, {sent(CoreDeparture(m, c, e))})
  BY DEF MachineProcess
<1>3. PICK time : time = CoreDeparture(m, c, e)
  OBVIOUS
<1>4. time \in Nat
  <2>1. coreFreeTimes[m][c] \in Nat
    BY DEF FaultInv, TypeInv, TypeOK, MachineTypeOK, CoreTimes
  <2>2. TimeToProcess(m, e.procSize) \in Nat
    BY <1>1, MachineAssumption DEF TimeToProcess, Event
  <2> QED
    BY <1>1, <1>3, <2>1, <2>2 DEF CoreDeparture, Event
<1>5. HasWalk(e.source, e.destination) => AlongRoute(sent(time))
  BY <1>1, <1>4, ScheduledFacts, ProcessAlong
<1>6. PICK k \in 1 .. Len(path) : e.previous = path[k]
  BY <1>1, OneKind DEF Scheduled, AtRouteLink
<1>7. e.previous \in Links
  BY <1>1, <1>6, ScheduledFacts, RouteLinks
<1>8. /\ sent(time).to = e.previous /\ sent(time).source = e.source
      /\ sent(time).destination = e.destination /\ sent(time).origin = e.origin
  BY <1>1 DEF Event
<1>9. Replace(e, {sent(time)})
  BY <1>2, <1>3
<1> HIDE DEF sent
<1>10. AtRouteLink(sent(time))
  BY <1>6, <1>7, <1>8 DEF AtRouteLink
<1>11. Scheduled(sent(time))
  BY <1>1, <1>5, <1>8, <1>10 DEF Scheduled
<1> QED
  BY <1>9, <1>11, TracedReplace

(* What a master sends is on the first link of a route. *)
LEMMA ToSlaveScheduled ==
  ASSUME RoutesToMachines, NEW m \in Masters, NEW s, HasRoute(m, s), NEW time,
         NEW t \in Event, ~ t.processed, t.origin # m => PassedThrough(m)
  PROVE  Scheduled(ToSlave(m, s, time, t))
<1> DEFINE path == RoutePath[<<m, s>>]
           sent == ToSlave(m, s, time, t)
<1>1. sent.to = path[1] /\ sent.source = m /\ sent.destination = s /\ sent.origin = t.origin
  BY ToSlaveFields
<1>2. s \in Machines /\ 1 \in 1 .. Len(path) /\ path[1] \in Links
  BY RouteLinks
<1>3. HasWalk(m, s) => AlongRoute(sent)
  BY <1>2, WalkChosen, ToSlaveAlong DEF HasWalk
<1> HIDE DEF sent
<1>4. AtRouteLink(sent)
  BY <1>1, <1>2 DEF AtRouteLink
<1>5. Scheduled(sent)
  BY <1>1, <1>3, <1>4 DEF Scheduled
<1> QED
  BY <1>5 DEF sent

LEMMA SendToNextTraced ==
  ASSUME RoutesToMachines, FaultInv, TypeInv', UNCHANGED workload, NEW e \in pending,
         e.to \in Masters, NEW t \in Event, ~ t.processed,
         t.origin # e.to => PassedThrough(e.to), SendToNext(e.to, e, t)
  PROVE  FaultInv'
<1> DEFINE m == e.to
<1>1. nextResource[m] \in Nat
  BY DEF FaultInv, TypeInv, TypeOK, MasterTypeOK
<1>2. CASE Slaves[m] = <<>> /\ Stop(e, "no slave")
  <2>1. DOMAIN Slaves[m] = {}
    <3>1. Slaves[m] \in Seq(Masters \cup Machines) /\ Len(Slaves[m]) = 0
      BY <1>2, MasterAssumption
    <3> QED
      BY <3>1
  <2>2. SlaveSet(m) = {}
    BY <2>1, Zenon DEF SlaveSet
  <2>3. Explained("no slave", m)
    BY <2>2 DEF Explained
  <2> QED
    BY <1>2, <2>3, TracedStop
<1>3. CASE Slaves[m] # <<>> /\ ~ HasRoute(m, Slave(m, 0)) /\ Stop(e, "no route")
  <2>1. Slave(m, 0) \in SlaveSet(m)
    BY <1>1, <1>3, SlaveType
  <2>2. Explained("no route", m)
    BY <1>3, <2>1 DEF Explained, HasRoute
  <2> QED
    BY <1>3, <2>2, TracedStop
<1>4. CASE HasRoute(m, Slave(m, 0)) /\ Replace(e, {ToSlave(m, Slave(m, 0), e.time, t)})
  BY <1>4, ToSlaveScheduled, TracedReplace
<1> QED
  BY <1>2, <1>3, <1>4 DEF SendToNext

(* A packet of another master has come over a link of a route of another. *)
LEMMA StrangerPassed ==
  ASSUME RoutesToMachines, NEW e \in Event, Scheduled(e), e.to \in Masters, e.origin # e.to
  PROVE  PassedThrough(e.to)
<1>1. CASE e.source = e.to
  BY <1>1 DEF Scheduled
<1>2. CASE e.source # e.to
  <2> DEFINE path == RoutePath[<<e.source, e.destination>>]
  <2>1. PICK k \in 1 .. Len(path) : e.to \in {LinkFrom[path[k]], LinkTo[path[k]]}
    BY OneKind DEF Scheduled, AtRouteLink
  <2>2. PICK pair : pair = <<e.source, e.destination>>
    OBVIOUS
  <2>3. pair \in DOMAIN RoutePath /\ pair[1] = e.source
    BY <2>2 DEF Scheduled, HasRoute
  <2> QED
    BY <1>2, <2>1, <2>2, <2>3 DEF PassedThrough
<1> QED
  BY <1>1, <1>2

LEMMA NowhereToRelay ==
  ASSUME RoutesToMachines, NEW m \in Masters, PassedThrough(m) PROVE Explained("no route", m)
<1>1. PICK pair \in DOMAIN RoutePath : \E k \in 1 .. Len(RoutePath[pair]) :
        pair[1] # m /\ m \in {LinkFrom[RoutePath[pair][k]], LinkTo[RoutePath[pair][k]]}
  BY DEF PassedThrough
<1>2. PICK k \in 1 .. Len(RoutePath[pair]) :
        pair[1] # m /\ m \in {LinkFrom[RoutePath[pair][k]], LinkTo[RoutePath[pair][k]]}
  BY <1>1
<1>3. k \in DOMAIN RoutePath[pair]
  BY <1>2, EngineAssumption
<1>4. <<pair[1], m>> \notin DOMAIN RoutePath
  <2>1. ~ HasRoute(pair[1], m)
    BY RouteLinks, OneKind
  <2> QED
    BY <2>1 DEF HasRoute
<1> QED
  BY <1>2, <1>3, <1>4 DEF Explained

LEMMA MasterTraced ==
  ASSUME RoutesToMachines, FaultInv, TypeInv', NEW e \in pending, e.to \in Masters,
         MasterOnTaskArrival(e.to, e)
  PROVE  FaultInv'
<1> DEFINE m == e.to
<1>1. UNCHANGED workload
  BY DEF MasterOnTaskArrival
<1>2. e \in Event /\ remaining[m] \in Nat
  BY DEF FaultInv, TypeInv, TypeOK, EngineTypeOK, MasterTypeOK
<1>3. e.origin # m => Scheduled(e) /\ PassedThrough(m)
  <2>1. e.origin # m => Scheduled(e)
    BY DEF FaultInv, PacketsTraced, AtSource
  <2> QED
    BY <1>2, <2>1, StrangerPassed
<1>4. CASE ~ e.processed /\ SendToNext(m, e, e)
  BY <1>1, <1>2, <1>3, <1>4, SendToNextTraced
<1>5. CASE OnCompletedTask(m, e)
  <2>1. CASE workload[m] # "assigned" /\ Stop(e, "bad workload")
    <3>1. m \notin DOMAIN WorkloadSize
      BY <2>1 DEF FaultInv, Assigned
    <3>2. Explained("bad workload", m)
      BY <3>1 DEF Explained
    <3> QED
      BY <1>1, <2>1, <3>2, TracedStop
  <2>2. CASE Replace(e, {})
    BY <1>1, <2>2, TracedReplace
  <2>3. ASSUME NEW size \in TaskSizes,
               SendToNext(m, e, NewTask("scheduler", m, TaskNumber(m, 0), size))
        PROVE  FaultInv'
    <3> DEFINE t == NewTask("scheduler", m, TaskNumber(m, 0), size)
    <3>1. t \in Event
      BY <1>2, NewTaskType DEF TaskNumber
    <3>2. t.origin = m /\ ~ t.processed
      BY NewTaskOrigin
    <3> HIDE DEF t
    <3>3. SendToNext(m, e, t)
      BY <2>3 DEF t
    <3> QED
      BY <1>1, <3>1, <3>2, <3>3, SendToNextTraced
  <2> QED
    BY <1>5, <2>1, <2>2, <2>3 DEF OnCompletedTask
<1>6. CASE e.origin # m /\ Relay(m, e)
  <2>1. ~ HasRoute(e.origin, m)
    BY RouteLinks, OneKind
  <2>2. Explained("no route", m)
    BY <1>3, <1>6, NowhereToRelay
  <2>3. Stop(e, "no route")
    BY <1>6, <2>1 DEF Relay
  <2> QED
    BY <1>1, <2>2, <2>3, TracedStop
<1> QED
  BY <1>4, <1>5, <1>6 DEF MasterOnTaskArrival

LEMMA DispatchTraced ==
  ASSUME RoutesToMachines, FaultInv, IndexesInRoute, TypeInv', NEW e \in pending, Dispatch(e)
  PROVE  FaultInv'
<1>1. e.to \notin Masters => UNCHANGED workload
  BY OneKind, EngineAssumption DEF Dispatch, masterVars
<1>2. CASE e.to \in Links /\ LinkOnTaskArrival(e.to, e)
  BY <1>1, <1>2, OneKind, LinkTraced
<1>3. CASE e.to \in Switches /\ SwitchOnTaskArrival(e.to, e)
  <2>1. e.to \notin Masters /\ Scheduled(e) /\ e \in Event
    BY <1>3, OneKind, ElsewhereScheduled
  <2>2. e.destination # e.to
    BY <1>3, <2>1, ScheduledFacts, EngineAssumption
  <2> QED
    BY <1>1, <1>3, <2>1, <2>2, ForwardTraced DEF SwitchOnTaskArrival
<1>4. CASE e.to \in Machines /\ MachineOnTaskArrival(e.to, e)
  BY <1>1, <1>4, OneKind, ForwardTraced, ProcessTraced DEF MachineOnTaskArrival, MachineForward
<1>5. CASE e.to \in Masters /\ MasterOnTaskArrival(e.to, e)
  BY <1>5, MasterTraced
<1> QED
  BY <1>2, <1>3, <1>4, <1>5 DEF Dispatch

LEMMA SchedulerInitTraced ==
  ASSUME RoutesToMachines, FaultInv, TypeInv', SchedulerInit PROVE FaultInv'
<1>1. PICK m \in Masters : MasterOnSchedulerInit(m)
  BY DEF SchedulerInit
<1>2. UNCHANGED workload /\ OnInit(m)
  BY <1>1 DEF MasterOnSchedulerInit
<1>3. nextResource[m] \in Nat /\ remaining[m] \in Nat
  BY DEF FaultInv, TypeInv, TypeOK, MasterTypeOK
<1>4. Assigned'
  BY <1>2 DEF FaultInv, Assigned
<1>5. CASE UNCHANGED <<pending, fault>>
  BY <1>4, <1>5 DEF FaultInv, PacketsTraced, FaultsExplained
<1>6. ASSUME NEW why, fault' = [why |-> why, at |-> m], UNCHANGED pending, Explained(why, m)
      PROVE  FaultInv'
  BY <1>4, <1>6 DEF FaultInv, PacketsTraced, FaultsExplained
<1>7. CASE workload[m] = "wild" /\ fault' = [why |-> "bad workload", at |-> m]
           /\ UNCHANGED pending
  <2>1. m \notin DOMAIN WorkloadSize
    BY <1>7 DEF FaultInv, Assigned
  <2>2. Explained("bad workload", m)
    BY <2>1 DEF Explained
  <2> QED
    BY <1>6, <1>7, <2>2
<1>8. ASSUME NEW i \in 0 .. InitialBatch(m) - 1
      PROVE  TaskNumber(m, i) \in Nat /\ Slave(m, i) \in SlaveSet(m)
  BY <1>3, InitialBatchType, SlaveType
<1>9. CASE /\ \E i \in 0 .. InitialBatch(m) - 1 : ~ HasRoute(m, Slave(m, i))
           /\ fault' = [why |-> "no route", at |-> m] /\ UNCHANGED pending
  <2>1. PICK i \in 0 .. InitialBatch(m) - 1 : ~ HasRoute(m, Slave(m, i))
    BY <1>9
  <2>2. Explained("no route", m)
    BY <1>8, <2>1 DEF Explained, HasRoute
  <2> QED
    BY <1>6, <1>9, <2>2
<1>10. ASSUME \A i \in 0 .. InitialBatch(m) - 1 : HasRoute(m, Slave(m, i)), UNCHANGED fault,
              NEW size \in [0 .. InitialBatch(m) - 1 -> TaskSizes],
              pending' = pending \cup
                {ToSlave(m, Slave(m, i), 0,
                         NewTask("scheduler", m, TaskNumber(m, i), size[i])) :
                   i \in 0 .. InitialBatch(m) - 1}
       PROVE  FaultInv'
  <2> DEFINE batch == InitialBatch(m)
             sent(i) == ToSlave(m, Slave(m, i), 0,
                                NewTask("scheduler", m, TaskNumber(m, i), size[i]))
  <2>1. ASSUME NEW i \in 0 .. batch - 1 PROVE Scheduled(sent(i))
    <3> DEFINE t == NewTask("scheduler", m, TaskNumber(m, i), size[i])
    <3>1. t \in Event
      BY <1>8, NewTaskType
    <3>2. t.origin = m /\ ~ t.processed
      BY NewTaskOrigin
    <3> HIDE DEF t
    <3>3. Scheduled(ToSlave(m, Slave(m, i), 0, t))
      BY <1>10, <3>1, <3>2, ToSlaveScheduled
    <3> QED
      BY <3>3 DEF t
  <2>2. pending' = pending \cup {sent(i) : i \in 0 .. batch - 1}
    BY <1>10
  <2> HIDE DEF sent, batch
  <2>3. PacketsTraced'
    BY <2>1, <2>2 DEF FaultInv, PacketsTraced
  <2>4. FaultsExplained'
    BY <1>10 DEF FaultInv, FaultsExplained
  <2> QED
    BY <1>4, <2>3, <2>4 DEF FaultInv
<1> QED
  BY <1>2, <1>5, <1>7, <1>9, <1>10 DEF OnInit

LEMMA FaultInit == Init => FaultInv
<1> SUFFICES ASSUME Init PROVE FaultInv
  OBVIOUS
<1>1. PICK time \in [BuilderNumbers -> ArrivalTimes], size \in [Masters -> TaskSizes] :
        pending = {[NewTask("builder", x[1], x[2], size[x[1]]) EXCEPT !.time = time[x]] :
                     x \in BuilderNumbers}
  BY DEF Init, BuilderInit
<1>2. ASSUME NEW x \in BuilderNumbers
      PROVE  AtSource([NewTask("builder", x[1], x[2], size[x[1]]) EXCEPT !.time = time[x]])
  BY DEF NewTask, AtSource
<1>3. PacketsTraced
  BY <1>1, <1>2 DEF PacketsTraced
<1>4. Assigned
  BY DEF Init, MasterInit, Assigned
<1>5. FaultsExplained
  BY DEF Init, Running, FaultsExplained, Explained
<1> QED
  BY <1>3, <1>4, <1>5, InitType DEF FaultInv

LEMMA FaultStep ==
  ASSUME RoutesToMachines, FaultInv, IndexesInRoute, [Next]_vars PROVE FaultInv'
<1>0. TypeInv'
  BY TypeStep DEF FaultInv
<1>1. CASE SchedulerInit
  BY <1>0, <1>1, SchedulerInitTraced
<1>2. ASSUME NEW e \in pending, Dispatch(e) PROVE FaultInv'
  BY <1>0, <1>2, DispatchTraced
<1>3. LinkArrival \/ SwitchArrival \/ MachineArrival \/ MasterArrival
        => \E e \in pending : Dispatch(e)
  BY DEF LinkArrival, SwitchArrival, MachineArrival, MasterArrival, Dispatch
<1>4. CASE UNCHANGED vars
  BY <1>0, <1>4 DEF vars, engineVars, masterVars, FaultInv, PacketsTraced, Assigned,
                    FaultsExplained
<1> QED
  BY <1>1, <1>2, <1>3, <1>4 DEF Next

(* In every grid whose routes lead to machines, right or wrong otherwise, and as
   long as no handler reads beside the array of a route: the process dies only
   in a service whose own configuration explains it.  A link dies of a packet
   that is on a route which is not a walk; a master, of a packet of another master
   that passes through it, of a route to one of its slaves that is missing, or
   of slaves or a workload that it does not have. *)
THEOREM FaultsAreExplained ==
  RoutesToMachines /\ Spec /\ []IndexesInRoute => []FaultsExplained
<1> SUFFICES ASSUME RoutesToMachines PROVE Spec /\ []IndexesInRoute => []FaultsExplained
  OBVIOUS
<1>1. FaultInv /\ IndexesInRoute /\ [Next]_vars => FaultInv'
  BY FaultStep
<1>2. FaultInv => FaultsExplained
  BY DEF FaultInv
<1> QED
  BY <1>1, <1>2, FaultInit, PTL DEF Spec
=============================================================================
