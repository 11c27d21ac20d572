------------------------- MODULE Optimistic_proofs --------------------------
(***************************************************************************)
(* The optimistic mode, for every grid, number of threads and checkpoint   *)
(* interval: it is well typed, a rollback restores exactly the memory that *)
(* the remaining events have made, and nothing that is final is undone.    *)
(* In a flat grid no handler ends the process, whatever is executed too    *)
(* early.                                                                  *)
(***************************************************************************)
EXTENDS Optimistic, Grid_proofs, FiniteSetTheorems, SequenceTheorems

-----------------------------------------------------------------------------
(* What a handler does, apart from the queue it sends to: the same when the
   event is executed and when it is executed again, silently. *)

(* The memory that a service has after event e, if it had this one before and
   the process does not die.  Nothing in it is a choice: not the core, and not
   the size of a task that is drawn. *)
LinkOutcome(l, memory, e) ==
  LET commTime == LinkLatency[l] + e.commSize * LinkUnitCost[l]
      waiting  == IF memory.available > e.time THEN memory.available - e.time ELSE 0
  IN  [available |-> e.time + waiting + commTime,
       metrics   |-> [memory.metrics EXCEPT !.commMBits = @ + e.commSize,
                                            !.commTime  = @ + commTime,
                                            !.commTasks = @ + 1]]

SwitchOutcome(s, memory, e) ==
  LET commTime  == SwitchLatency[s] + e.commSize * SwitchUnitCost[s]
      waiting   == IF memory.available > e.time THEN memory.available - e.time ELSE 0
      departure == e.time + waiting + commTime
  IN  [available |-> departure,
       metrics   |-> [memory.metrics EXCEPT !.lastActivityTime = departure,
                                            !.commMBits   = @ + e.commSize,
                                            !.commTime    = @ + commTime,
                                            !.commPackets = @ + 1]]

IsFirstFree(m, free, c) ==
  /\ \A d \in 0 .. Cores[m] - 1 : free[c] <= free[d]
  /\ \A d \in 0 .. c - 1 : free[c] < free[d]

ProcessOutcome(m, memory, e) ==
  LET free    == memory.coreFreeTimes
      c       == CHOOSE c \in 0 .. Cores[m] - 1 : IsFirstFree(m, free, c)
      time    == e.procSize * MachineUnitCost[m]
      waiting == IF free[c] > e.time THEN free[c] - e.time ELSE 0
  IN  [coreFreeTimes |-> [free EXCEPT ![c] = e.time + waiting + time],
       metrics       |-> [memory.metrics EXCEPT !.lastActivityTime = e.time,
                                                !.procMFlops = @ + e.procSize,
                                                !.procTime   = @ + time,
                                                !.procTasks  = @ + 1]]

PassOutcome(memory, e) ==
  [coreFreeTimes |-> memory.coreFreeTimes,
   metrics       |-> [memory.metrics EXCEPT !.lastActivityTime = e.time,
                                            !.forwardedPackets = @ + 1]]

MasterOutcome(m, memory, e) ==
  LET draws == e.processed /\ e.origin = m /\ memory.remaining > 0
      sends == draws \/ ~ e.processed
  IN  [remaining    |-> IF draws THEN memory.remaining - 1 ELSE memory.remaining,
       nextResource |-> IF sends THEN (memory.nextResource + 1) % Len(Slaves[m])
                                 ELSE memory.nextResource,
       metrics      |-> [memory.metrics EXCEPT
                           !.lastActivityTime = e.time,
                           !.completedTasks = IF e.processed THEN @ + 1 ELSE @]]

Outcome(p, memory, e) ==
  CASE p \in Links    -> LinkOutcome(p, memory, e)
    [] p \in Switches -> SwitchOutcome(p, memory, e)
    [] p \in Machines -> IF e.destination = p THEN ProcessOutcome(p, memory, e)
                                              ELSE PassOutcome(memory, e)
    [] p \in Masters  -> MasterOutcome(p, memory, e)

MemoryType(p) ==
  CASE p \in Links    -> [available : Nat, metrics : LinkMetrics]
    [] p \in Switches -> [available : Nat, metrics : SwitchMetrics]
    [] p \in Machines -> [coreFreeTimes : CoreTimes(p), metrics : MachineMetrics]
    [] p \in Masters  -> [remaining : Nat, nextResource : Nat, metrics : MasterMetrics]

(* What the services have in memory, all but that of p. *)
OthersUnchanged(p) == \A q \in Services \ {p} : Memory(q)' = Memory(q)

-----------------------------------------------------------------------------
(* An identifier is that of one kind of service. *)
LEMMA Kinds ==
  /\ \A p \in Links    : p \in Services /\ p \notin Switches /\ p \notin Machines /\ p \notin Masters
  /\ \A p \in Switches : p \in Services /\ p \notin Links /\ p \notin Machines /\ p \notin Masters
  /\ \A p \in Machines : p \in Services /\ p \notin Links /\ p \notin Switches /\ p \notin Masters
  /\ \A p \in Masters  : p \in Services /\ p \notin Links /\ p \notin Switches /\ p \notin Machines
  /\ Services = Links \cup Switches \cup Machines \cup Masters
BY EngineAssumption DEF Services

LEMMA MemoryOf ==
  /\ \A p \in Links : Memory(p) = [available |-> linkAvailable[p], metrics |-> linkMetrics[p]]
  /\ \A p \in Switches :
       Memory(p) = [available |-> switchAvailable[p], metrics |-> switchMetrics[p]]
  /\ \A p \in Machines :
       Memory(p) = [coreFreeTimes |-> coreFreeTimes[p], metrics |-> machineMetrics[p]]
  /\ \A p \in Masters :
       Memory(p) = [remaining |-> remaining[p], nextResource |-> nextResource[p],
                    metrics |-> masterMetrics[p]]
BY Kinds DEF Memory

LEMMA NextMemoryOf ==
  /\ \A p \in Links :
       Memory(p)' = [available |-> linkAvailable'[p], metrics |-> linkMetrics'[p]]
  /\ \A p \in Switches :
       Memory(p)' = [available |-> switchAvailable'[p], metrics |-> switchMetrics'[p]]
  /\ \A p \in Machines :
       Memory(p)' = [coreFreeTimes |-> coreFreeTimes'[p], metrics |-> machineMetrics'[p]]
  /\ \A p \in Masters :
       Memory(p)' = [remaining |-> remaining'[p], nextResource |-> nextResource'[p],
                     metrics |-> masterMetrics'[p]]
BY Kinds DEF Memory

LEMMA MemoryTypeOf ==
  /\ \A p \in Links : MemoryType(p) = [available : Nat, metrics : LinkMetrics]
  /\ \A p \in Switches : MemoryType(p) = [available : Nat, metrics : SwitchMetrics]
  /\ \A p \in Machines : MemoryType(p) = [coreFreeTimes : CoreTimes(p), metrics : MachineMetrics]
  /\ \A p \in Masters :
       MemoryType(p) = [remaining : Nat, nextResource : Nat, metrics : MasterMetrics]
BY Kinds DEF MemoryType

(* The memories of a well typed grid are well typed. *)
LEMMA MemoryIsTyped == TypeOK => \A p \in Services : Memory(p) \in MemoryType(p)
<1> SUFFICES ASSUME TypeOK, NEW p \in Services PROVE Memory(p) \in MemoryType(p)
  OBVIOUS
<1>1. CASE p \in Links
  BY <1>1, MemoryOf, MemoryTypeOf DEF TypeOK, LinkTypeOK
<1>2. CASE p \in Switches
  BY <1>2, MemoryOf, MemoryTypeOf DEF TypeOK, SwitchTypeOK
<1>3. CASE p \in Machines
  BY <1>3, MemoryOf, MemoryTypeOf DEF TypeOK, MachineTypeOK
<1>4. CASE p \in Masters
  BY <1>4, MemoryOf, MemoryTypeOf DEF TypeOK, MasterTypeOK
<1> QED
  BY <1>1, <1>2, <1>3, <1>4, Kinds

-----------------------------------------------------------------------------
(* What both executions of an event do to the variables of the grid. *)

LEMMA LinkHandles ==
  ASSUME NEW e, e.to \in Links, Dispatch(e)
  PROVE  /\ linkAvailable' = [linkAvailable EXCEPT ![e.to] = LinkDeparture(e.to, e)]
         /\ LinkCount(e.to, e)
         /\ UNCHANGED <<switchVars, machineVars, masterVars>>
BY Kinds
   DEF Dispatch, LinkOnTaskArrival, LinkDeparture, LinkCommTime, LinkCount,
       switchVars, machineVars, masterVars

LEMMA SwitchHandles ==
  ASSUME NEW e, e.to \in Switches, Dispatch(e)
  PROVE  /\ switchAvailable' = [switchAvailable EXCEPT ![e.to] = SwitchDeparture(e.to, e)]
         /\ SwitchCount(e.to, e)
         /\ UNCHANGED <<linkVars, machineVars, masterVars>>
BY Kinds
   DEF Dispatch, SwitchOnTaskArrival, SwitchDeparture, SwitchCommTime, SwitchCount,
       linkVars, machineVars, masterVars

(* MachineForward and MachineProcess, but for the queue. *)
Passes(m, e) ==
  /\ machineMetrics' = [machineMetrics EXCEPT ![m].lastActivityTime = e.time,
                                              ![m].forwardedPackets = @ + 1]
  /\ UNCHANGED coreFreeTimes

Processes(m, e, c) ==
  /\ AttendingCore(m, c)
  /\ coreFreeTimes' = [coreFreeTimes EXCEPT ![m][c] = CoreDeparture(m, c, e)]
  /\ machineMetrics' = [machineMetrics EXCEPT
       ![m].lastActivityTime = e.time,
       ![m].procMFlops = @ + e.procSize,
       ![m].procTime   = @ + TimeToProcess(m, e.procSize),
       ![m].procTasks  = @ + 1]

LEMMA MachineHandles ==
  ASSUME NEW e, e.to \in Machines, Dispatch(e)
  PROVE  /\ \/ e.destination # e.to /\ Passes(e.to, e)
            \/ e.destination = e.to /\ \E c \in 0 .. Cores[e.to] - 1 : Processes(e.to, e, c)
         /\ UNCHANGED <<linkVars, switchVars, masterVars>>
<1>1. /\ MachineOnTaskArrival(e.to, e)
      /\ UNCHANGED <<linkVars, switchVars, masterVars>>
  BY Kinds DEF Dispatch, linkVars, switchVars, masterVars
<1>2. ASSUME MachineForward(e.to, e)
      PROVE  Passes(e.to, e)
  BY <1>2 DEF MachineForward, Passes
<1>3. ASSUME MachineProcess(e.to, e)
      PROVE  \E c \in 0 .. Cores[e.to] - 1 : Processes(e.to, e, c)
  BY <1>3 DEF MachineProcess, Processes,
              AttendingCore, CoreDeparture, TimeToProcess
<1> QED
  BY <1>1, <1>2, <1>3 DEF MachineOnTaskArrival

LEMMA StopKills ==
  ASSUME NEW e, NEW why, why # "none", Stop(e, why)
  PROVE  fault' # Running
<1>1. fault' = [why |-> why, at |-> e.to]
  BY DEF Stop
<1>2. fault'.why = why /\ Running.why = "none"
  BY <1>1 DEF Running
<1> QED
  BY <1>2

TakesSlave(m) ==
  Slaves[m] # <<>> /\ nextResource' = [nextResource EXCEPT ![m] = Advanced(m, 1)]

(* MasterOnTaskArrival, but for the queue. *)
LEMMA MasterHandles ==
  ASSUME NEW e, e.to \in Masters, Dispatch(e), fault = Running
  PROVE  LET m == e.to
             draws == e.processed /\ e.origin = m /\ remaining[m] > 0
             drawn == remaining' = [remaining EXCEPT ![m] = @ - 1]
         IN  /\ \/ /\ fault' # Running /\ UNCHANGED nextResource
                   /\ UNCHANGED remaining \/ (remaining[m] > 0 /\ drawn)
                \/ /\ draws /\ drawn
                   /\ TakesSlave(m)
                \/ /\ ~ e.processed /\ UNCHANGED remaining
                   /\ TakesSlave(m)
                \/ e.processed /\ ~ draws /\ UNCHANGED <<remaining, nextResource>>
             /\ MasterCount(m, e)
             /\ UNCHANGED <<workload, linkVars, switchVars, machineVars>>
<1> DEFINE m == e.to
<1>1. /\ MasterOnTaskArrival(m, e)
      /\ UNCHANGED <<linkVars, switchVars, machineVars>>
  BY Kinds DEF Dispatch, linkVars, switchVars, machineVars
<1> HIDE DEF m
<1>2. MasterCount(m, e) /\ UNCHANGED workload
  BY <1>1 DEF MasterOnTaskArrival, MasterCount
<1>3. ASSUME NEW t, SendToNext(m, e, t)
      PROVE  \/ fault' # Running /\ UNCHANGED nextResource
             \/ TakesSlave(m)
  <2>1. ASSUME NEW why \in {"no slave", "no route"}, Stop(e, why)
        PROVE  fault' # Running
    BY <2>1, StopKills
  <2> QED
    BY <1>3, <2>1 DEF SendToNext, Advanced, TakesSlave
<1>4. ASSUME OnCompletedTask(m, e)
      PROVE  \/ fault' # Running /\ UNCHANGED <<remaining, nextResource>>
             \/ /\ fault' # Running /\ UNCHANGED nextResource
                /\ remaining[m] > 0
                /\ remaining' = [remaining EXCEPT ![m] = @ - 1]
             \/ /\ remaining[m] > 0
                /\ remaining' = [remaining EXCEPT ![m] = @ - 1]
                /\ TakesSlave(m)
             \/ ~ remaining[m] > 0 /\ UNCHANGED <<remaining, nextResource>>
  <2>1. ASSUME Stop(e, "bad workload")
        PROVE  fault' # Running
    BY <2>1, StopKills
  <2> QED
    BY <1>3, <1>4, <2>1 DEF OnCompletedTask,
                            HasRemainingWorkload
<1>5. ASSUME Relay(m, e)
      PROVE  UNCHANGED <<remaining, nextResource>>
  BY <1>5 DEF Relay
<1> QED
  BY <1>1, <1>2, <1>3, <1>4, <1>5 DEF MasterOnTaskArrival, m

-----------------------------------------------------------------------------
(* A handler makes of the memory of its service what Outcome says, and leaves
   that of the others alone. *)

LEMMA LinkReplays ==
  ASSUME TypeOK, NEW e \in Event, e.to \in Links, Dispatch(e)
  PROVE  /\ Memory(e.to)' = Outcome(e.to, Memory(e.to), e)
         /\ OthersUnchanged(e.to) /\ UNCHANGED workload
<1> DEFINE l == e.to
<1>1. /\ linkAvailable' = [linkAvailable EXCEPT ![l] = LinkDeparture(l, e)]
      /\ LinkCount(l, e)
      /\ UNCHANGED <<switchVars, machineVars, masterVars>>
  BY LinkHandles
<1>2. /\ linkAvailable \in [Links -> Nat] /\ linkMetrics \in [Links -> LinkMetrics]
      /\ l \in Links
  BY DEF TypeOK, LinkTypeOK
<1> HIDE DEF l
<1>3. linkMetrics'[l] = [linkMetrics[l] EXCEPT !.commMBits = @ + e.commSize,
                                               !.commTime  = @ + LinkCommTime(l, e.commSize),
                                               !.commTasks = @ + 1]
  BY <1>1, <1>2 DEF LinkCount, LinkMetrics
<1>4. linkAvailable'[l] = LinkDeparture(l, e)
  BY <1>1, <1>2
<1>5. Outcome(l, Memory(l), e) = LinkOutcome(l, Memory(l), e)
  BY <1>2, Kinds DEF Outcome
<1>6. Memory(l).available = linkAvailable[l] /\ Memory(l).metrics = linkMetrics[l]
  BY <1>2, MemoryOf
<1>7. Memory(l)' = LinkOutcome(l, Memory(l), e)
  BY <1>2, <1>3, <1>4, <1>6, NextMemoryOf DEF LinkOutcome, LinkDeparture, LinkCommTime
<1>8. \A k \in Links \ {l} : linkAvailable'[k] = linkAvailable[k] /\ linkMetrics'[k] = linkMetrics[k]
  BY <1>1, <1>2 DEF LinkCount
<1>9. \A q \in Services \ {l} : Memory(q)' = Memory(q)
  BY <1>1, <1>8, Kinds, MemoryOf, NextMemoryOf DEF switchVars, machineVars, masterVars
<1> QED
  BY <1>1, <1>5, <1>7, <1>9 DEF OthersUnchanged, masterVars, l

LEMMA SwitchReplays ==
  ASSUME TypeOK, NEW e \in Event, e.to \in Switches, Dispatch(e)
  PROVE  /\ Memory(e.to)' = Outcome(e.to, Memory(e.to), e)
         /\ OthersUnchanged(e.to) /\ UNCHANGED workload
<1> DEFINE s == e.to
<1>1. /\ switchAvailable' = [switchAvailable EXCEPT ![s] = SwitchDeparture(s, e)]
      /\ SwitchCount(s, e)
      /\ UNCHANGED <<linkVars, machineVars, masterVars>>
  BY SwitchHandles
<1>2. /\ switchAvailable \in [Switches -> Nat] /\ switchMetrics \in [Switches -> SwitchMetrics]
      /\ s \in Switches
  BY DEF TypeOK, SwitchTypeOK
<1> HIDE DEF s
<1>3. switchMetrics'[s] =
        [switchMetrics[s] EXCEPT !.lastActivityTime = SwitchDeparture(s, e),
                                 !.commMBits   = @ + e.commSize,
                                 !.commTime    = @ + SwitchCommTime(s, e.commSize),
                                 !.commPackets = @ + 1]
  BY <1>1, <1>2 DEF SwitchCount, SwitchMetrics
<1>4. switchAvailable'[s] = SwitchDeparture(s, e)
  BY <1>1, <1>2
<1>5. Outcome(s, Memory(s), e) = SwitchOutcome(s, Memory(s), e)
  BY <1>2, Kinds DEF Outcome
<1>6. Memory(s).available = switchAvailable[s] /\ Memory(s).metrics = switchMetrics[s]
  BY <1>2, MemoryOf
<1>7. Memory(s)' = SwitchOutcome(s, Memory(s), e)
  BY <1>2, <1>3, <1>4, <1>6, NextMemoryOf DEF SwitchOutcome, SwitchDeparture, SwitchCommTime
<1>8. \A k \in Switches \ {s} :
         switchAvailable'[k] = switchAvailable[k] /\ switchMetrics'[k] = switchMetrics[k]
  BY <1>1, <1>2 DEF SwitchCount
<1>9. \A q \in Services \ {s} : Memory(q)' = Memory(q)
  BY <1>1, <1>8, Kinds, MemoryOf, NextMemoryOf DEF linkVars, machineVars, masterVars
<1> QED
  BY <1>1, <1>5, <1>7, <1>9 DEF OthersUnchanged, masterVars, s

(* Only one core is the first of those that are free first. *)
LEMMA OneFirstCore ==
  ASSUME NEW m \in Machines, NEW free \in CoreTimes(m), NEW c \in 0 .. Cores[m] - 1,
         IsFirstFree(m, free, c)
  PROVE  c = CHOOSE d \in 0 .. Cores[m] - 1 : IsFirstFree(m, free, d)
<1> SUFFICES ASSUME NEW d \in 0 .. Cores[m] - 1, IsFirstFree(m, free, d) PROVE c = d
  OBVIOUS
<1>1. free[c] \in Nat /\ free[d] \in Nat /\ free[c] <= free[d] /\ free[d] <= free[c]
  BY DEF CoreTimes, IsFirstFree
<1>2. ~ (d < c) /\ ~ (c < d)
  <2>1. Cores[m] \in Nat
    BY MachineAssumption
  <2>2. c \in Nat /\ d \in Nat
    BY <2>1
  <2>3. d < c => free[c] < free[d]
    BY <2>2 DEF IsFirstFree
  <2>4. c < d => free[d] < free[c]
    BY <2>2 DEF IsFirstFree
  <2> QED
    BY <1>1, <2>3, <2>4
<1> QED
  BY <1>2, MachineAssumption

LEMMA MachineReplays ==
  ASSUME TypeOK, NEW e \in Event, e.to \in Machines, Dispatch(e)
  PROVE  /\ Memory(e.to)' = Outcome(e.to, Memory(e.to), e)
         /\ OthersUnchanged(e.to) /\ UNCHANGED workload
<1> DEFINE m == e.to
<1>1. /\ \/ e.destination # m /\ Passes(m, e)
         \/ e.destination = m /\ \E c \in 0 .. Cores[m] - 1 : Processes(m, e, c)
      /\ UNCHANGED <<linkVars, switchVars, masterVars>>
  BY MachineHandles
<1>2. /\ machineMetrics \in [Machines -> MachineMetrics] /\ m \in Machines
      /\ DOMAIN coreFreeTimes = Machines /\ coreFreeTimes[m] \in CoreTimes(m)
  BY DEF TypeOK, MachineTypeOK
<1> HIDE DEF m
<1>3. /\ Memory(m).coreFreeTimes = coreFreeTimes[m] /\ Memory(m).metrics = machineMetrics[m]
      /\ Memory(m)' = [coreFreeTimes |-> coreFreeTimes'[m], metrics |-> machineMetrics'[m]]
  BY <1>2, MemoryOf, NextMemoryOf
<1>4. /\ e.destination = m => Outcome(m, Memory(m), e) = ProcessOutcome(m, Memory(m), e)
      /\ e.destination # m => Outcome(m, Memory(m), e) = PassOutcome(Memory(m), e)
  BY <1>2, Kinds DEF Outcome
<1>5. CASE e.destination # m /\ Passes(m, e)
  <2>1. machineMetrics'[m] = [machineMetrics[m] EXCEPT !.lastActivityTime = e.time,
                                                       !.forwardedPackets = @ + 1]
    BY <1>2, <1>5 DEF Passes, MachineMetrics
  <2>2. Memory(m)' = PassOutcome(Memory(m), e)
    BY <1>3, <1>5, <2>1 DEF Passes, PassOutcome
  <2>3. \A k \in Machines \ {m} : /\ coreFreeTimes'[k] = coreFreeTimes[k]
                                  /\ machineMetrics'[k] = machineMetrics[k]
    BY <1>2, <1>5 DEF Passes
  <2>4. \A q \in Services \ {m} : Memory(q)' = Memory(q)
    BY <1>1, <2>3, Kinds, MemoryOf, NextMemoryOf DEF linkVars, switchVars, masterVars
  <2> QED
    BY <1>1, <1>4, <1>5, <2>2, <2>4 DEF OthersUnchanged, masterVars, m
<1>6. ASSUME e.destination = m, NEW c \in 0 .. Cores[m] - 1, Processes(m, e, c)
      PROVE  /\ Memory(m)' = Outcome(m, Memory(m), e)
             /\ OthersUnchanged(m)
  <2> DEFINE free == coreFreeTimes[m]
  <2>1. c = CHOOSE d \in 0 .. Cores[m] - 1 : IsFirstFree(m, free, d)
    <3>1. IsFirstFree(m, free, c)
      BY <1>6 DEF Processes, AttendingCore, IsFirstFree
    <3> QED
      BY <1>2, <3>1, OneFirstCore
  <2>2. machineMetrics'[m] =
          [machineMetrics[m] EXCEPT !.lastActivityTime = e.time,
                                    !.procMFlops = @ + e.procSize,
                                    !.procTime   = @ + TimeToProcess(m, e.procSize),
                                    !.procTasks  = @ + 1]
    BY <1>2, <1>6 DEF Processes, MachineMetrics
  <2>3. coreFreeTimes'[m] = [free EXCEPT ![c] = CoreDeparture(m, c, e)]
    BY <1>2, <1>6 DEF Processes
  <2>4. Memory(m)' = ProcessOutcome(m, Memory(m), e)
    BY <1>3, <2>1, <2>2, <2>3 DEF ProcessOutcome, CoreDeparture, TimeToProcess
  <2>5. \A k \in Machines \ {m} : /\ coreFreeTimes'[k] = coreFreeTimes[k]
                                  /\ machineMetrics'[k] = machineMetrics[k]
    BY <1>2, <1>6 DEF Processes
  <2>6. \A q \in Services \ {m} : Memory(q)' = Memory(q)
    BY <1>1, <2>5, Kinds, MemoryOf, NextMemoryOf DEF linkVars, switchVars, masterVars
  <2> QED
    BY <1>4, <1>6, <2>4, <2>6 DEF OthersUnchanged
<1> QED
  BY <1>1, <1>5, <1>6 DEF masterVars, m

LEMMA MasterReplays ==
  ASSUME TypeOK, NEW e \in Event, e.to \in Masters, Dispatch(e),
         fault = Running
  PROVE  /\ fault' = Running => Memory(e.to)' = Outcome(e.to, Memory(e.to), e)
         /\ OthersUnchanged(e.to) /\ UNCHANGED workload
<1> DEFINE m == e.to
           draws == e.processed /\ e.origin = m /\ remaining[m] > 0
           drawn == remaining' = [remaining EXCEPT ![m] = @ - 1]
<1>1. /\ \/ /\ fault' # Running /\ UNCHANGED nextResource
            /\ UNCHANGED remaining \/ (remaining[m] > 0 /\ drawn)
         \/ /\ draws /\ drawn
            /\ TakesSlave(m)
         \/ /\ ~ e.processed /\ UNCHANGED remaining
            /\ TakesSlave(m)
         \/ e.processed /\ ~ draws /\ UNCHANGED <<remaining, nextResource>>
      /\ MasterCount(m, e)
      /\ UNCHANGED <<workload, linkVars, switchVars, machineVars>>
  BY MasterHandles
<1>2. /\ remaining \in [Masters -> Nat] /\ nextResource \in [Masters -> Nat]
      /\ masterMetrics \in [Masters -> MasterMetrics] /\ m \in Masters
      /\ e.processed \in BOOLEAN
  BY DEF TypeOK, MasterTypeOK, Event
<1> HIDE DEF m
<1>3. /\ Memory(m).remaining = remaining[m] /\ Memory(m).nextResource = nextResource[m]
      /\ Memory(m).metrics = masterMetrics[m]
      /\ Memory(m)' = [remaining |-> remaining'[m], nextResource |-> nextResource'[m],
                       metrics |-> masterMetrics'[m]]
  BY <1>2, MemoryOf, NextMemoryOf
<1>4. Outcome(m, Memory(m), e) = MasterOutcome(m, Memory(m), e)
  BY <1>2, Kinds DEF Outcome
<1>5. masterMetrics'[m] =
        [masterMetrics[m] EXCEPT !.lastActivityTime = e.time,
                                 !.completedTasks = IF e.processed THEN @ + 1 ELSE @]
  BY <1>1, <1>2 DEF MasterCount, MasterMetrics
<1>6. Advanced(m, 1) = (nextResource[m] + 1) % Len(Slaves[m])
  BY DEF Advanced
<1>7. ASSUME fault' = Running
      PROVE  /\ remaining'[m] = (IF draws THEN remaining[m] - 1 ELSE remaining[m])
             /\ nextResource'[m] = (IF draws \/ ~ e.processed
                                      THEN (nextResource[m] + 1) % Len(Slaves[m])
                                      ELSE nextResource[m])
  <2>1. CASE draws /\ drawn /\ TakesSlave(m)
    BY <1>2, <1>6, <2>1 DEF TakesSlave
  <2>2. CASE /\ ~ e.processed /\ UNCHANGED remaining
             /\ TakesSlave(m)
    BY <1>2, <1>6, <2>2 DEF TakesSlave
  <2>3. CASE e.processed /\ ~ draws /\ UNCHANGED <<remaining, nextResource>>
    BY <1>2, <2>3
  <2> QED
    BY <1>1, <1>7, <2>1, <2>2, <2>3
<1>8. fault' = Running => Memory(m)' = MasterOutcome(m, Memory(m), e)
  BY <1>3, <1>5, <1>7 DEF MasterOutcome
<1>9. \A k \in Masters \ {m} : /\ remaining'[k] = remaining[k]
                               /\ nextResource'[k] = nextResource[k]
                               /\ masterMetrics'[k] = masterMetrics[k]
  BY <1>1, <1>2 DEF MasterCount, TakesSlave
<1>10. \A q \in Services \ {m} : Memory(q)' = Memory(q)
  BY <1>1, <1>9, Kinds, MemoryOf, NextMemoryOf DEF linkVars, switchVars, machineVars
<1> QED
  BY <1>1, <1>4, <1>8, <1>10 DEF OthersUnchanged, m

LEMMA Replays ==
  ASSUME TypeOK, NEW e \in Event, Dispatch(e), fault = Running
  PROVE  /\ fault' = Running => Memory(e.to)' = Outcome(e.to, Memory(e.to), e)
         /\ OthersUnchanged(e.to) /\ UNCHANGED workload
<1>1. e.to \in Links \cup Switches \cup Machines \cup Masters
  BY Kinds DEF Event
<1> QED
  BY <1>1, LinkReplays, SwitchReplays, MachineReplays, MasterReplays

-----------------------------------------------------------------------------
(* What a handler sends: at most one event. *)

LinkSends(l, e, f) ==
  f = [e EXCEPT !.to = OtherEnd(l, e), !.time = LinkDeparture(l, e), !.previous = l]

ForwardSends(self, e, f) ==
  /\ HasRoute(e.source, e.destination)
  /\ \E next \in RouteElement(RoutePath[<<e.source, e.destination>>], e.offset) :
       f = [e EXCEPT !.to = next, !.previous = self, !.offset = NextOffset(e)]

ProcessSends(m, e, f) ==
  \E c \in 0 .. Cores[m] - 1 :
    f = [e EXCEPT !.to = e.previous, !.time = CoreDeparture(m, c, e), !.processed = TRUE,
                  !.previous = m, !.offset = AnswerOffset(e.offset), !.forward = FALSE]

TaskSends(m, e, t, f) ==
  Slaves[m] # <<>> /\ HasRoute(m, Slave(m, 0)) /\ f = ToSlave(m, Slave(m, 0), e.time, t)

DrawSends(m, e, f) ==
  /\ remaining[m] > 0
  /\ \E size \in TaskSizes :
       TaskSends(m, e, NewTask("scheduler", m, TaskNumber(m, 0), size), f)

RelaySends(m, e, f) ==
  /\ HasRoute(e.origin, m)
  /\ \E next \in RouteElement(RoutePath[<<e.origin, m>>], e.offset) :
       f = [e EXCEPT !.to = next, !.source = e.origin, !.destination = m, !.previous = m,
                     !.offset = NextOffset(e), !.forward = FALSE]

Forwards(e) ==
  e.to \in Switches \/ (e.to \in Machines /\ e.destination # e.to)

Sends(e, f) ==
  \/ e.to \in Links /\ LinkSends(e.to, e, f)
  \/ Forwards(e) /\ ForwardSends(e.to, e, f)
  \/ e.to \in Machines /\ e.destination = e.to /\ ProcessSends(e.to, e, f)
  \/ e.to \in Masters /\ ~ e.processed /\ TaskSends(e.to, e, e, f)
  \/ e.to \in Masters /\ e.processed /\ e.origin = e.to /\ DrawSends(e.to, e, f)
  \/ e.to \in Masters /\ e.processed /\ e.origin # e.to /\ RelaySends(e.to, e, f)

(* The scratch of events before and after the handler of e, which ended in one
   of two ways. *)
Turns(e) ==
  /\ now' = e.time /\ UNCHANGED inits
  /\ \/ /\ UNCHANGED fault
        /\ pending' = pending \ {e} \/ \E f : Sends(e, f) /\ pending' = (pending \ {e}) \cup {f}
     \/ /\ \E why \in {"no route", "not an end", "no slave", "bad workload"} :
             fault' = [why |-> why, at |-> e.to]
        /\ pending' = pending \ {e}

LEMMA ReplaceTurns ==
  ASSUME NEW e, NEW f, Sends(e, f), Replace(e, {f})
  PROVE  Turns(e)
BY DEF Replace, Turns

LEMMA EmptyTurns == ASSUME NEW e, Replace(e, {}) PROVE Turns(e)
BY DEF Replace, Turns

LEMMA StopTurns ==
  ASSUME NEW e, NEW why \in {"no route", "not an end", "no slave", "bad workload"},
         Stop(e, why)
  PROVE  Turns(e)
BY DEF Stop, Turns

LEMMA LinkTurns ==
  ASSUME NEW e, e.to \in Links, LinkOnTaskArrival(e.to, e)
  PROVE  Turns(e)
<1> DEFINE l == e.to
           f == [e EXCEPT !.to = OtherEnd(l, e), !.time = LinkDeparture(l, e), !.previous = l]
<1>1. Sends(e, f)
  BY DEF Sends, LinkSends
<1>2. Replace(e, {f}) \/ Stop(e, "not an end")
  BY DEF LinkOnTaskArrival
<1> HIDE DEF f
<1> QED
  BY <1>1, <1>2, ReplaceTurns, StopTurns

LEMMA ForwardTurns ==
  ASSUME NEW e, Forwards(e), Forward(e.to, e)
  PROVE  Turns(e)
<1>1. Stop(e, "no route") \/ \E f : ForwardSends(e.to, e, f) /\ Replace(e, {f})
  BY DEF Forward, ForwardSends
<1>2. \A f : ForwardSends(e.to, e, f) => Sends(e, f)
  BY DEF Sends
<1> QED
  BY <1>1, <1>2, ReplaceTurns, StopTurns

LEMMA ProcessTurns ==
  ASSUME NEW e, e.to \in Machines, e.destination = e.to, MachineProcess(e.to, e)
  PROVE  Turns(e)
<1>1. \E f : ProcessSends(e.to, e, f) /\ Replace(e, {f})
  BY DEF MachineProcess, ProcessSends
<1>2. \A f : ProcessSends(e.to, e, f) => Sends(e, f)
  BY DEF Sends
<1> QED
  BY <1>1, <1>2, ReplaceTurns

LEMMA SendTurns ==
  ASSUME NEW e, NEW t, \A f : TaskSends(e.to, e, t, f) => Sends(e, f),
         SendToNext(e.to, e, t)
  PROVE  Turns(e)
<1> DEFINE m == e.to
           f == ToSlave(m, Slave(m, 0), e.time, t)
<1>1. \/ Stop(e, "no slave") \/ Stop(e, "no route")
      \/ TaskSends(m, e, t, f) /\ Replace(e, {f})
  BY DEF SendToNext, TaskSends
<1> HIDE DEF f
<1> QED
  BY <1>1, ReplaceTurns, StopTurns

LEMMA MasterTurns ==
  ASSUME NEW e, e.to \in Masters, MasterOnTaskArrival(e.to, e)
  PROVE  Turns(e)
<1> DEFINE m == e.to
           drawn(size) == NewTask("scheduler", m, TaskNumber(m, 0), size)
<1>1. ASSUME ~ e.processed, SendToNext(m, e, e) PROVE Turns(e)
  <2>1. \A f : TaskSends(m, e, e, f) => Sends(e, f)
    BY <1>1 DEF Sends
  <2> QED
    BY <1>1, <2>1, SendTurns
<1>2. ASSUME e.processed, e.origin = m, OnCompletedTask(m, e) PROVE Turns(e)
  <2>1. \/ Stop(e, "bad workload") \/ Replace(e, {})
        \/ remaining[m] > 0 /\ \E size \in TaskSizes : SendToNext(m, e, drawn(size))
    BY <1>2 DEF OnCompletedTask, HasRemainingWorkload
  <2>2. ASSUME NEW size \in TaskSizes, remaining[m] > 0, SendToNext(m, e, drawn(size))
        PROVE  Turns(e)
    <3>1. \A f : TaskSends(m, e, drawn(size), f) => Sends(e, f)
      BY <1>2, <2>2 DEF Sends, DrawSends
    <3> HIDE DEF drawn
    <3> QED
      BY <2>2, <3>1, SendTurns
  <2> HIDE DEF drawn
  <2> QED
    BY <2>1, <2>2, StopTurns, EmptyTurns
<1>3. ASSUME e.processed, e.origin # m, Relay(m, e) PROVE Turns(e)
  <2>1. Stop(e, "no route") \/ \E f : RelaySends(m, e, f) /\ Replace(e, {f})
    BY <1>3 DEF Relay, RelaySends
  <2>2. \A f : RelaySends(m, e, f) => Sends(e, f)
    BY <1>3 DEF Sends
  <2> QED
    BY <2>1, <2>2, StopTurns, ReplaceTurns
<1> QED
  BY <1>1, <1>2, <1>3 DEF MasterOnTaskArrival

LEMMA EveryHandlerTurns == ASSUME NEW e, Dispatch(e) PROVE Turns(e)
<1>1. CASE e.to \in Machines /\ MachineOnTaskArrival(e.to, e)
  BY <1>1, ForwardTurns, ProcessTurns DEF MachineOnTaskArrival, MachineForward, Forwards
<1>2. CASE e.to \in Switches /\ SwitchOnTaskArrival(e.to, e)
  BY <1>2, ForwardTurns DEF SwitchOnTaskArrival, Forwards
<1> QED
  BY <1>1, <1>2, LinkTurns, MasterTurns DEF Dispatch

-----------------------------------------------------------------------------
(* An event that is sent is well typed, says who sends it, and is not in the
   past. *)

HasSender(e) == e \in Event /\ (e.previous = Nobody => e.to \in Masters)

Follows(e, f) == f \in Event /\ f.previous \in Services /\ f.time >= e.time

LEMMA LinkFollows ==
  ASSUME TypeOK, NEW e \in Event, e.to \in Links, NEW f, LinkSends(e.to, e, f)
  PROVE  Follows(e, f)
<1> DEFINE l == e.to
<1>1. e.time \in Nat /\ LinkCommTime(l, e.commSize) \in Nat /\ linkAvailable[l] \in Nat
  BY LinkAssumption DEF Event, LinkCommTime, TypeOK, LinkTypeOK
<1>2. LinkDeparture(l, e) \in Nat /\ LinkDeparture(l, e) >= e.time
  BY <1>1 DEF LinkDeparture
<1>3. OtherEnd(l, e) \in Services /\ l \in Services
  BY LinkAssumption, Kinds DEF OtherEnd
<1> QED
  BY <1>2, <1>3 DEF LinkSends, Follows, Event

LEMMA ForwardFollows ==
  ASSUME NEW e \in Event, NEW self \in Services, NEW f, ForwardSends(self, e, f)
  PROVE  Follows(e, f)
<1>1. e.offset \in Nat /\ e.time \in Nat
  BY EngineAssumption DEF Event
<1>2. PICK next \in RouteElement(RoutePath[<<e.source, e.destination>>], e.offset) :
        f = [e EXCEPT !.to = next, !.previous = self, !.offset = NextOffset(e)]
  BY DEF ForwardSends
<1>3. next \in Services
  BY <1>1, <1>2, ElementType DEF ForwardSends, HasRoute
<1>4. NextOffset(e) \in 0 .. OffsetMod - 1
  BY NextOffsetType
<1>5. f \in Event /\ f.time = e.time /\ f.previous \in Services
  BY <1>1, <1>2, <1>3, <1>4 DEF Event
<1> QED
  BY <1>1, <1>5 DEF Follows

LEMMA ProcessFollows ==
  ASSUME TypeOK, NEW e, HasSender(e), e.to \in Machines, NEW f, ProcessSends(e.to, e, f)
  PROVE  Follows(e, f)
<1> DEFINE m == e.to
<1>1. PICK c \in 0 .. Cores[m] - 1 :
        f = [e EXCEPT !.to = e.previous, !.time = CoreDeparture(m, c, e), !.processed = TRUE,
                      !.previous = m, !.offset = AnswerOffset(e.offset), !.forward = FALSE]
  BY DEF ProcessSends
<1>2. /\ e \in Event /\ m \in Services /\ e.previous \in Services /\ e.time \in Nat
      /\ e.offset \in 0 .. OffsetMod - 1
  BY Kinds DEF HasSender, Event
<1>3. coreFreeTimes[m][c] \in Nat /\ TimeToProcess(m, e.procSize) \in Nat
  BY <1>2, MachineAssumption DEF TypeOK, MachineTypeOK, CoreTimes, TimeToProcess, Event
<1>4. CoreDeparture(m, c, e) \in Nat /\ CoreDeparture(m, c, e) >= e.time
  BY <1>2, <1>3 DEF CoreDeparture
<1>5. AnswerOffset(e.offset) \in 0 .. OffsetMod - 1
  BY <1>2, OffsetType DEF AnswerOffset
<1> QED
  BY <1>1, <1>2, <1>4, <1>5 DEF Follows, Event

LEMMA TaskFollows ==
  ASSUME TypeOK, NEW e \in Event, e.to \in Masters, NEW t \in Event, NEW f,
         TaskSends(e.to, e, t, f)
  PROVE  Follows(e, f)
<1> DEFINE m == e.to
<1>1. e.time \in Nat /\ nextResource[m] \in Nat
  BY DEF Event, TypeOK, MasterTypeOK
<1>2. Slave(m, 0) \in Services
  BY <1>1, SlaveType DEF TaskSends
<1>3. f \in Event /\ f.previous \in Services
  BY <1>1, <1>2, ToSlaveType DEF TaskSends
<1>4. f.time = e.time
  BY DEF TaskSends, ToSlave, Event
<1> QED
  BY <1>1, <1>3, <1>4 DEF Follows

LEMMA DrawFollows ==
  ASSUME TypeOK, NEW e \in Event, e.to \in Masters, NEW f, DrawSends(e.to, e, f)
  PROVE  Follows(e, f)
<1> DEFINE m == e.to
<1>1. PICK size \in TaskSizes :
        TaskSends(m, e, NewTask("scheduler", m, TaskNumber(m, 0), size), f)
  BY DEF DrawSends
<1>2. TaskNumber(m, 0) \in Nat
  BY DEF TaskNumber, TypeOK, MasterTypeOK
<1>3. NewTask("scheduler", m, TaskNumber(m, 0), size) \in Event
  BY <1>2, NewTaskType
<1> QED
  BY <1>1, <1>3, TaskFollows

LEMMA RelayFollows ==
  ASSUME NEW e \in Event, e.to \in Masters, NEW f, RelaySends(e.to, e, f)
  PROVE  Follows(e, f)
<1> DEFINE m == e.to
<1>1. /\ e.offset \in Nat /\ e.time \in Nat /\ m \in Services
      /\ e.origin \in Services
  BY EngineAssumption, Kinds DEF Event
<1>2. PICK next \in RouteElement(RoutePath[<<e.origin, m>>], e.offset) :
        f = [e EXCEPT !.to = next, !.source = e.origin, !.destination = m, !.previous = m,
                      !.offset = NextOffset(e), !.forward = FALSE]
  BY DEF RelaySends
<1>3. next \in Services
  BY <1>1, <1>2, ElementType DEF RelaySends, HasRoute
<1>4. NextOffset(e) \in 0 .. OffsetMod - 1
  BY NextOffsetType
<1>5. f \in Event /\ f.time = e.time /\ f.previous \in Services
  BY <1>1, <1>2, <1>3, <1>4 DEF Event
<1> QED
  BY <1>1, <1>5 DEF Follows

LEMMA SentFollows ==
  ASSUME TypeOK, NEW e, HasSender(e), NEW f, Sends(e, f)
  PROVE  Follows(e, f)
<1>1. e \in Event /\ e.to \in Services
  BY DEF HasSender, Event
<1> QED
  BY <1>1, LinkFollows, ForwardFollows, ProcessFollows, TaskFollows, DrawFollows, RelayFollows
     DEF Sends

-----------------------------------------------------------------------------
(* A handler and a restored checkpoint leave the variables of the
   grid well typed. *)

ServicesTypeOK == LinkTypeOK /\ SwitchTypeOK /\ MachineTypeOK /\ MasterTypeOK

LEMMA LinkHandlerType ==
  ASSUME TypeOK, NEW e \in Event, e.to \in Links, Dispatch(e)
  PROVE  ServicesTypeOK'
<1> DEFINE l == e.to
<1>1. /\ linkAvailable' = [linkAvailable EXCEPT ![l] = LinkDeparture(l, e)]
      /\ LinkCount(l, e)
      /\ UNCHANGED <<switchVars, machineVars, masterVars>>
  BY LinkHandles
<1>2. e.time \in Nat /\ e.commSize \in Nat /\ LinkCommTime(l, e.commSize) \in Nat
  BY LinkAssumption DEF Event, LinkCommTime
<1>3. LinkDeparture(l, e) \in Nat
  BY <1>2 DEF TypeOK, LinkTypeOK, LinkDeparture
<1>4. l \in Links /\ linkMetrics \in [Links -> LinkMetrics] /\ linkMetrics[l] \in LinkMetrics
  BY DEF TypeOK, LinkTypeOK
<1> HIDE DEF l
<1>5. linkMetrics' \in [Links -> LinkMetrics]
  BY <1>1, <1>2, <1>4 DEF LinkMetrics, LinkCount
<1>6. linkAvailable' \in [Links -> Nat]
  BY <1>1, <1>3 DEF TypeOK, LinkTypeOK
<1> QED
  BY <1>1, <1>5, <1>6 DEF ServicesTypeOK, TypeOK, LinkTypeOK, SwitchTypeOK, MachineTypeOK,
                          MasterTypeOK, switchVars, machineVars, masterVars

LEMMA SwitchHandlerType ==
  ASSUME TypeOK, NEW e \in Event, e.to \in Switches, Dispatch(e)
  PROVE  ServicesTypeOK'
<1> DEFINE s == e.to
<1>1. /\ switchAvailable' = [switchAvailable EXCEPT ![s] = SwitchDeparture(s, e)]
      /\ SwitchCount(s, e)
      /\ UNCHANGED <<linkVars, machineVars, masterVars>>
  BY SwitchHandles
<1>2. e.time \in Nat /\ e.commSize \in Nat /\ SwitchCommTime(s, e.commSize) \in Nat
  BY SwitchAssumption DEF Event, SwitchCommTime
<1>3. SwitchDeparture(s, e) \in Nat
  BY <1>2 DEF TypeOK, SwitchTypeOK, SwitchDeparture
<1>4. /\ s \in Switches /\ switchMetrics \in [Switches -> SwitchMetrics]
      /\ switchMetrics[s] \in SwitchMetrics
  BY DEF TypeOK, SwitchTypeOK
<1> HIDE DEF s
<1>5. switchMetrics' \in [Switches -> SwitchMetrics]
  BY <1>1, <1>2, <1>3, <1>4 DEF SwitchMetrics, SwitchCount
<1>6. switchAvailable' \in [Switches -> Nat]
  BY <1>1, <1>3 DEF TypeOK, SwitchTypeOK
<1> QED
  BY <1>1, <1>5, <1>6 DEF ServicesTypeOK, TypeOK, LinkTypeOK, SwitchTypeOK, MachineTypeOK,
                          MasterTypeOK, linkVars, machineVars, masterVars

LEMMA MachineHandlerType ==
  ASSUME TypeOK, NEW e \in Event, e.to \in Machines, Dispatch(e)
  PROVE  ServicesTypeOK'
<1> DEFINE m == e.to
<1>1. /\ \/ Passes(m, e)
         \/ \E c \in 0 .. Cores[m] - 1 : Processes(m, e, c)
      /\ UNCHANGED <<linkVars, switchVars, masterVars>>
  BY MachineHandles
<1>2. e.time \in Nat /\ e.procSize \in Nat /\ TimeToProcess(m, e.procSize) \in Nat
  BY MachineAssumption DEF Event, TimeToProcess
<1>3. /\ machineMetrics \in [Machines -> MachineMetrics] /\ m \in Machines
      /\ DOMAIN coreFreeTimes = Machines
      /\ \A n \in Machines : coreFreeTimes[n] \in CoreTimes(n)
  BY DEF TypeOK, MachineTypeOK
<1> HIDE DEF m
<1>4. CASE Passes(m, e)
  BY <1>2, <1>3, <1>4 DEF Passes, MachineTypeOK, MachineMetrics
<1>5. ASSUME NEW c \in 0 .. Cores[m] - 1, Processes(m, e, c)
      PROVE  MachineTypeOK'
  <2>1. machineMetrics' \in [Machines -> MachineMetrics]
    BY <1>2, <1>3, <1>5 DEF Processes, MachineMetrics
  <2>2. coreFreeTimes' = [coreFreeTimes EXCEPT ![m][c] = CoreDeparture(m, c, e)]
    BY <1>5 DEF Processes
  <2>3. CoreDeparture(m, c, e) \in Nat
    <3>1. coreFreeTimes[m][c] \in Nat
      BY <1>3 DEF CoreTimes
    <3> QED
      BY <1>2, <3>1 DEF CoreDeparture
  <2>4. ASSUME NEW n \in Machines PROVE coreFreeTimes'[n] \in CoreTimes(n)
    BY <1>3, <2>2, <2>3 DEF CoreTimes
  <2> QED
    BY <1>3, <2>1, <2>2, <2>4 DEF MachineTypeOK
<1> QED
  BY <1>1, <1>4, <1>5 DEF ServicesTypeOK, TypeOK, LinkTypeOK, SwitchTypeOK,
                          MasterTypeOK, linkVars, switchVars, masterVars

LEMMA MasterHandlerType ==
  ASSUME TypeOK, NEW e \in Event, e.to \in Masters, Dispatch(e), fault = Running
  PROVE  ServicesTypeOK'
<1> DEFINE m == e.to
<1>1. /\ \/ UNCHANGED remaining
         \/ remaining[m] > 0 /\ remaining' = [remaining EXCEPT ![m] = @ - 1]
      /\ \/ UNCHANGED nextResource
         \/ TakesSlave(m)
      /\ MasterCount(m, e)
      /\ UNCHANGED <<workload, linkVars, switchVars, machineVars>>
  BY MasterHandles
<1>2. /\ remaining \in [Masters -> Nat] /\ nextResource \in [Masters -> Nat]
      /\ masterMetrics \in [Masters -> MasterMetrics] /\ m \in Masters /\ e.time \in Nat
  BY DEF TypeOK, MasterTypeOK, Event
<1> HIDE DEF m
<1>3. remaining' \in [Masters -> Nat] /\ masterMetrics' \in [Masters -> MasterMetrics]
  <2>1. masterMetrics[m] \in MasterMetrics /\ remaining[m] \in Nat
    BY <1>2
  <2>2. remaining' \in [Masters -> Nat]
    BY <1>1, <1>2, <2>1
  <2>3. masterMetrics' \in [Masters -> MasterMetrics]
    <3> DEFINE after == [masterMetrics[m] EXCEPT
                           !.lastActivityTime = e.time,
                           !.completedTasks = IF e.processed THEN @ + 1 ELSE @]
    <3>1. after \in MasterMetrics
      <4>1. /\ masterMetrics[m].completedTasks \in Nat
            /\ masterMetrics[m].completedTasks + 1 \in Nat
        BY <2>1 DEF MasterMetrics
      <4>2. CASE e.processed
        <5>1. after = [masterMetrics[m] EXCEPT
                         !.lastActivityTime = e.time,
                         !.completedTasks = masterMetrics[m].completedTasks + 1]
          BY <2>1, <4>2 DEF MasterMetrics
        <5> QED
          BY <1>2, <2>1, <4>1, <5>1 DEF MasterMetrics
      <4>3. CASE ~ e.processed
        BY <1>2, <2>1, <4>3 DEF MasterMetrics
      <4> QED
        BY <4>2, <4>3
    <3>2. masterMetrics' = [masterMetrics EXCEPT ![m] = after]
      BY <1>1, <1>2, <2>1 DEF MasterCount, MasterMetrics
    <3> HIDE DEF after
    <3> QED
      BY <1>2, <3>1, <3>2
  <2> QED
    BY <2>2, <2>3
<1>4. nextResource' \in [Masters -> Nat]
  <2>1. Slaves[m] # <<>> => Advanced(m, 1) \in Nat
    BY <1>2, SlaveType
  <2> QED
    BY <1>1, <1>2, <2>1 DEF TakesSlave
<1> QED
  BY <1>1, <1>3, <1>4 DEF ServicesTypeOK, TypeOK, LinkTypeOK, SwitchTypeOK, MachineTypeOK,
                          MasterTypeOK, linkVars, switchVars, machineVars

LEMMA HandlerType ==
  ASSUME TypeInv, NEW e, HasSender(e), Dispatch(e), fault = Running, pending = {}
  PROVE  /\ TypeInv' /\ UNCHANGED inits
         /\ \A f \in pending' : HasSender(f) /\ f.time >= e.time
<1>1. /\ e \in Event /\ e.to \in Services /\ e.time \in Nat
      /\ TypeOK
  BY DEF HasSender, Event, TypeInv
<1>2. ServicesTypeOK'
  BY <1>1, Kinds, LinkHandlerType, SwitchHandlerType, MachineHandlerType, MasterHandlerType
<1>3. Turns(e)
  BY EveryHandlerTurns
<1>4. \A f \in pending' : Follows(e, f)
  BY <1>1, <1>3, SentFollows DEF Turns
<1>5. fault' \in Faults
  <2>1. CASE UNCHANGED fault
    BY <1>1, <2>1 DEF TypeOK, EngineTypeOK
  <2>2. ASSUME NEW why \in {"no route", "not an end", "no slave", "bad workload"},
               fault' = [why |-> why, at |-> e.to]
        PROVE  fault' \in Faults
    BY <1>1, <2>2 DEF Faults
  <2> QED
    BY <1>3, <2>1, <2>2 DEF Turns
<1>6. \A f \in pending' : HasSender(f) /\ f.time >= e.time
  <2>1. Nobody \notin Services
    BY EngineAssumption DEF Nobody
  <2> QED
    BY <1>4, <2>1 DEF Follows, HasSender
<1>7. EngineTypeOK'
  BY <1>1, <1>3, <1>4, <1>5 DEF Turns, Follows, TypeOK, EngineTypeOK
<1> QED
  BY <1>2, <1>3, <1>6, <1>7 DEF Turns, TypeInv, TypeOK, ServicesTypeOK, SendersKnown, HasSender

LEMMA MemoryFields ==
  ASSUME NEW p \in Services, NEW memory \in MemoryType(p)
  PROVE  /\ p \in Links =>
              /\ memory = [available |-> memory.available, metrics |-> memory.metrics]
              /\ memory.available \in Nat /\ memory.metrics \in LinkMetrics
         /\ p \in Switches =>
              /\ memory = [available |-> memory.available, metrics |-> memory.metrics]
              /\ memory.available \in Nat /\ memory.metrics \in SwitchMetrics
         /\ p \in Machines =>
              /\ memory = [coreFreeTimes |-> memory.coreFreeTimes, metrics |-> memory.metrics]
              /\ memory.coreFreeTimes \in CoreTimes(p) /\ memory.metrics \in MachineMetrics
         /\ p \in Masters =>
              /\ memory = [remaining |-> memory.remaining, nextResource |-> memory.nextResource,
                           metrics |-> memory.metrics]
              /\ memory.remaining \in Nat /\ memory.nextResource \in Nat
              /\ memory.metrics \in MasterMetrics
<1>1. CASE p \in Links
  <2>1. memory \in [available : Nat, metrics : LinkMetrics]
    BY <1>1, MemoryTypeOf
  <2> QED
    BY <1>1, <2>1, Kinds
<1>2. CASE p \in Switches
  <2>1. memory \in [available : Nat, metrics : SwitchMetrics]
    BY <1>2, MemoryTypeOf
  <2> QED
    BY <1>2, <2>1, Kinds
<1>3. CASE p \in Machines
  <2>1. memory \in [coreFreeTimes : CoreTimes(p), metrics : MachineMetrics]
    BY <1>3, MemoryTypeOf
  <2> QED
    BY <1>3, <2>1, Kinds
<1>4. CASE p \in Masters
  <2>1. memory \in [remaining : Nat, nextResource : Nat, metrics : MasterMetrics]
    BY <1>4, MemoryTypeOf
  <2> QED
    BY <1>4, <2>1, Kinds
<1> QED
  BY <1>1, <1>2, <1>3, <1>4, Kinds

LEMMA RestoreKeepsTypes ==
  ASSUME TypeOK, NEW p \in Services, NEW memory \in MemoryType(p), Restore(p, memory)
  PROVE  ServicesTypeOK'
<1>1. CASE p \in Links
  BY <1>1, Kinds, MemoryFields
     DEF Restore, RestoreLink, ServicesTypeOK, TypeOK, LinkTypeOK, SwitchTypeOK, MachineTypeOK,
         MasterTypeOK, switchVars, machineVars, masterVars
<1>2. CASE p \in Switches
  BY <1>2, Kinds, MemoryFields
     DEF Restore, RestoreSwitch, ServicesTypeOK, TypeOK, LinkTypeOK, SwitchTypeOK,
         MachineTypeOK, MasterTypeOK, linkVars, machineVars, masterVars
<1>3. CASE p \in Machines
  BY <1>3, Kinds, MemoryFields
     DEF Restore, RestoreMachine, ServicesTypeOK, TypeOK, LinkTypeOK, SwitchTypeOK,
         MachineTypeOK, MasterTypeOK, linkVars, switchVars, masterVars
<1>4. CASE p \in Masters
  BY <1>4, Kinds, MemoryFields
     DEF Restore, RestoreMaster, ServicesTypeOK, TypeOK, LinkTypeOK, SwitchTypeOK,
         MachineTypeOK, MasterTypeOK, linkVars, switchVars, machineVars
<1> QED
  BY <1>1, <1>2, <1>3, <1>4, Kinds

(* A restored service has the memory of the checkpoint. *)
LEMMA RestoreBringsBack ==
  ASSUME TypeOK, NEW p \in Services, NEW memory \in MemoryType(p), Restore(p, memory)
  PROVE  Memory(p)' = memory /\ OthersUnchanged(p) /\ UNCHANGED workload
<1>1. CASE p \in Links
  <2>1. RestoreLink(p, memory)
    BY <1>1, Kinds DEF Restore
  <2>2. Memory(p)' = memory
    BY <1>1, <2>1, MemoryFields, NextMemoryOf DEF RestoreLink, TypeOK, LinkTypeOK
  <2>3. \A q \in Services \ {p} : Memory(q)' = Memory(q)
    BY <1>1, <2>1, Kinds, MemoryOf, NextMemoryOf
       DEF RestoreLink, TypeOK, LinkTypeOK, switchVars, machineVars, masterVars
  <2> QED
    BY <2>1, <2>2, <2>3 DEF OthersUnchanged, RestoreLink, masterVars
<1>2. CASE p \in Switches
  <2>1. RestoreSwitch(p, memory)
    BY <1>2, Kinds DEF Restore
  <2>2. Memory(p)' = memory
    BY <1>2, <2>1, MemoryFields, NextMemoryOf DEF RestoreSwitch, TypeOK, SwitchTypeOK
  <2>3. \A q \in Services \ {p} : Memory(q)' = Memory(q)
    BY <1>2, <2>1, Kinds, MemoryOf, NextMemoryOf
       DEF RestoreSwitch, TypeOK, SwitchTypeOK, linkVars, machineVars, masterVars
  <2> QED
    BY <2>1, <2>2, <2>3 DEF OthersUnchanged, RestoreSwitch, masterVars
<1>3. CASE p \in Machines
  <2>1. RestoreMachine(p, memory)
    BY <1>3, Kinds DEF Restore
  <2>2. Memory(p)' = memory
    BY <1>3, <2>1, MemoryFields, NextMemoryOf DEF RestoreMachine, TypeOK, MachineTypeOK
  <2>3. \A q \in Services \ {p} : Memory(q)' = Memory(q)
    BY <1>3, <2>1, Kinds, MemoryOf, NextMemoryOf
       DEF RestoreMachine, TypeOK, MachineTypeOK, linkVars, switchVars, masterVars
  <2> QED
    BY <2>1, <2>2, <2>3 DEF OthersUnchanged, RestoreMachine, masterVars
<1>4. CASE p \in Masters
  <2>1. RestoreMaster(p, memory)
    BY <1>4, Kinds DEF Restore
  <2>2. Memory(p)' = memory
    BY <1>4, <2>1, MemoryFields, NextMemoryOf DEF RestoreMaster, TypeOK, MasterTypeOK
  <2>3. \A q \in Services \ {p} : Memory(q)' = Memory(q)
    BY <1>4, <2>1, Kinds, MemoryOf, NextMemoryOf
       DEF RestoreMaster, TypeOK, MasterTypeOK, linkVars, switchVars, machineVars
  <2> QED
    BY <2>1, <2>2, <2>3 DEF OthersUnchanged, RestoreMaster
<1> QED
  BY <1>1, <1>2, <1>3, <1>4, Kinds


-----------------------------------------------------------------------------
(* The invariant of the kernel. *)

Entry(p) ==
  [message : {m \in Message : HasSender(m.event) /\ m.event.to = p},
   sent : SUBSET Message, memory : MemoryType(p)]

LogsOK ==
  /\ DOMAIN log = Services /\ DOMAIN loaded = Services
  /\ \A p \in Services : log[p] \in Seq(Entry(p)) /\ loaded[p] \in MemoryType(p)

MarksOK ==
  /\ replayed \in [Services -> Nat] /\ committed \in [Services -> Nat]
  /\ \A p \in Services : replayed[p] <= Len(log[p]) /\ committed[p] <= Len(log[p])

QueuesOK ==
  /\ queue \in SUBSET Message /\ \A m \in queue : HasSender(m.event)
  /\ anti \in SUBSET Message /\ outstanding \in SUBSET Event

KernelType == TypeInv /\ SimulatorBuilderTypeOK /\ LogsOK /\ MarksOK /\ QueuesOK

(* Nothing is executed before there is a simulator. *)
NotStarted == simulator = <<>> => anti = {} /\ \A p \in Services : log[p] = <<>>

(* The serial runtime withdraws nothing. *)
SerialKeeps == simulator # <<>> /\ simulator[1].serial => anti = {}

(* The optimistic one keeps the log of a service in the order of time. *)
InOrder ==
  simulator # <<>> /\ ~ simulator[1].serial =>
    \A p \in Services : \A i, j \in 1 .. Len(log[p]) :
      i <= j => log[p][i].message.event.time <= log[p][j].message.event.time

SentLater ==
  \A p \in Services : \A i \in 1 .. Len(log[p]) : \A f \in log[p][i].sent :
    f.event.time >= log[p][i].message.event.time

(* Whatever is left to be done, or to be withdrawn, comes after all that is
   final. *)
FinalIsPast ==
  \A p \in Services : \A i \in 1 .. committed[p] : \A f \in queue \cup anti :
    log[p][i].message.event.time < f.event.time

NoneFinalYet == inits # {} => \A p \in Services : committed[p] = 0

TimeWarpInv ==
  /\ KernelType
  /\ NotStarted /\ SerialKeeps /\ InOrder /\ SentLater /\ FinalIsPast /\ NoneFinalYet

(* Each memory of a log is what the event makes of the memory before it. *)
LogIsExecution ==
  \A p \in Services : \A i \in 1 .. Len(log[p]) :
    log[p][i].memory = Outcome(p, MemoryAfter(p, i - 1), log[p][i].message.event)

SchedulersWait == \A m \in inits : log[m] = <<>>

ReplayInv ==
  /\ TimeWarpInv
  /\ SchedulersWait
  /\ fault = Running => LogIsExecution
  /\ MemoryIsReplayed

LEMMA EntryFields ==
  ASSUME LogsOK, NEW p \in Services, NEW i \in 1 .. Len(log[p])
  PROVE  /\ log[p][i] \in Entry(p)
         /\ log[p][i].message \in Message
         /\ HasSender(log[p][i].message.event) /\ log[p][i].message.event.to = p
         /\ log[p][i].message.event \in Event /\ log[p][i].message.event.time \in Nat
         /\ log[p][i].sent \in SUBSET Message /\ log[p][i].memory \in MemoryType(p)
<1>1. log[p] \in Seq(Entry(p))
  BY DEF LogsOK
<1> HIDE DEF Entry
<1>2. log[p][i] \in Entry(p)
  BY <1>1, ElementOfSeq
<1>3. /\ log[p][i].message \in Message
      /\ HasSender(log[p][i].message.event) /\ log[p][i].message.event.to = p
      /\ log[p][i].sent \in SUBSET Message /\ log[p][i].memory \in MemoryType(p)
  BY <1>2 DEF Entry
<1>4. log[p][i].message.event \in Event
  BY <1>3 DEF HasSender
<1> QED
  BY <1>2, <1>3, <1>4 DEF Event

LEMMA LogLength ==
  ASSUME LogsOK, NEW p \in Services PROVE Len(log[p]) \in Nat
BY DEF LogsOK

LEMMA MemoryAfterType ==
  ASSUME LogsOK, NEW p \in Services, NEW k \in 0 .. Len(log[p])
  PROVE  MemoryAfter(p, k) \in MemoryType(p)
<1>1. CASE k = 0
  BY <1>1 DEF MemoryAfter, LogsOK
<1>2. CASE k # 0
  <2>1. k \in 1 .. Len(log[p])
    BY <1>2, LogLength
  <2> QED
    BY <1>2, <2>1, EntryFields DEF MemoryAfter
<1> QED
  BY <1>1, <1>2

LEMMA CopiesAreMessages ==
  ASSUME NEW events, NEW c \in Nat, events \subseteq Event
  PROVE  /\ Copies(events, c) \subseteq Message
         /\ \A m \in Copies(events, c) : m.event \in events
         /\ EventsOf(Copies(events, c)) = events
<1>1. Copies(events, c) \subseteq Message /\ \A m \in Copies(events, c) : m.event \in events
  BY DEF Copies, Message
<1>2. \A e \in events : [event |-> e, copy |-> c] \in Copies(events, c)
  BY DEF Copies
<1>3. EventsOf(Copies(events, c)) \subseteq events
  BY <1>1 DEF EventsOf
<1>4. ASSUME NEW e \in events PROVE e \in EventsOf(Copies(events, c))
  <2>1. [event |-> e, copy |-> c].event = e
    OBVIOUS
  <2> QED
    BY <1>2, <2>1 DEF EventsOf
<1> QED
  BY <1>1, <1>3, <1>4

(* The type correctness that a run checks follows. *)
LEMMA KernelTypeIsEnough == KernelType => OptimisticTypeOK
<1> SUFFICES ASSUME KernelType PROVE OptimisticTypeOK
  OBVIOUS
<1>1. ASSUME NEW p \in Services
      PROVE  /\ \A i \in DOMAIN log[p] : /\ log[p][i].message \in Message
                                         /\ log[p][i].message.event.to = p
                                         /\ log[p][i].sent \in SUBSET Message
             /\ committed[p] \in 0 .. Len(log[p]) /\ replayed[p] \in 0 .. Len(log[p])
  <2>1. LogsOK /\ DOMAIN log[p] = 1 .. Len(log[p]) /\ Len(log[p]) \in Nat
    BY DEF KernelType, LogsOK
  <2>2. \A i \in DOMAIN log[p] : /\ log[p][i].message \in Message
                                 /\ log[p][i].message.event.to = p
                                 /\ log[p][i].sent \in SUBSET Message
    BY <2>1, EntryFields
  <2> QED
    BY <2>1, <2>2 DEF KernelType, MarksOK
<1> QED
  BY <1>1 DEF OptimisticTypeOK, KernelType, TypeInv, QueuesOK

LEMMA KernelStarts == OptimisticInit => ReplayInv
<1> SUFFICES ASSUME OptimisticInit PROVE ReplayInv
  OBVIOUS
<1>1. TypeInv /\ TypeOK
  BY InitType DEF OptimisticInit, TypeInv
<1>2. /\ log = [p \in Services |-> <<>>] /\ loaded = [p \in Services |-> Memory(p)]
      /\ replayed = [p \in Services |-> 0] /\ committed = [p \in Services |-> 0]
      /\ anti = {} /\ outstanding = pending /\ simulator = <<>>
      /\ queue = Copies(pending, 0)
  BY DEF OptimisticInit, SimulatorBuilderInit
<1>3. SimulatorBuilderTypeOK
  <2>1. PICK mode \in SimulationMode :
          builder = [mode |-> mode, cores |-> 0, checkpointInterval |-> 0,
                     coreBinding |-> FALSE, gvtPeriod |-> 1000]
    BY DEF OptimisticInit, SimulatorBuilderInit
  <2>2. builder \in [mode : SimulationMode, cores : Nat, checkpointInterval : Nat,
                     coreBinding : BOOLEAN, gvtPeriod : Nat]
    BY <2>1
  <2>3. aborted \in BOOLEAN
    BY Zenon DEF OptimisticInit, SimulatorBuilderInit
  <2> QED
    BY <1>2, <2>2, <2>3 DEF SimulatorBuilderTypeOK
<1>4. LogsOK
  BY <1>1, <1>2, MemoryIsTyped DEF LogsOK
<1>5. MarksOK /\ QueuesOK
  <2>1. pending \subseteq Event /\ \A e \in pending : HasSender(e)
    BY <1>1 DEF TypeInv, TypeOK, EngineTypeOK, SendersKnown, HasSender
  <2>2. queue \in SUBSET Message /\ \A m \in queue : HasSender(m.event)
    BY <1>2, <2>1, CopiesAreMessages
  <2> QED
    BY <1>2, <2>1, <2>2 DEF MarksOK, QueuesOK
<1>6. NotStarted /\ SerialKeeps /\ InOrder /\ SentLater /\ FinalIsPast /\ NoneFinalYet
  BY <1>2 DEF NotStarted, SerialKeeps, InOrder, SentLater, FinalIsPast, NoneFinalYet
<1>7. SchedulersWait /\ LogIsExecution
  BY <1>1, <1>2 DEF SchedulersWait, LogIsExecution, TypeOK, EngineTypeOK, Services
<1>8. MemoryIsReplayed
  BY <1>2 DEF MemoryIsReplayed, MemoryAfter
<1> QED
  BY <1>1, <1>3, <1>4, <1>5, <1>6, <1>7, <1>8 DEF ReplayInv, TimeWarpInv, KernelType

-----------------------------------------------------------------------------
(* A program configures its simulator. *)

LEMMA ConfigurationType ==
  ASSUME SimulatorBuilderTypeOK, Configure PROVE SimulatorBuilderTypeOK'
<1> DEFINE Type == [mode : SimulationMode, cores : Nat, checkpointInterval : Nat,
                    coreBinding : BOOLEAN, gvtPeriod : Nat]
<1>1. CASE \/ \E threads \in ThreadCounts : SetThreads(threads)
           \/ \E interval \in CheckpointIntervals : SetCheckpointInterval(interval)
           \/ \E coreBinding \in CoreBindings : SetCoreBinding(coreBinding)
           \/ \E period \in GvtPeriods : SetGvtPeriod(period)
  <2>1. UNCHANGED <<simulator, aborted>>
    BY <1>1 DEF SetThreads, SetCheckpointInterval, SetCoreBinding, SetGvtPeriod
  <2>2. builder \in Type
    BY DEF SimulatorBuilderTypeOK
  <2>3. ASSUME NEW threads \in ThreadCounts, SetThreads(threads) PROVE builder' \in Type
    <3>1. (IF builder.mode = "SEQUENTIAL" THEN 1 ELSE threads) \in Nat
      BY SimulatorBuilderAssumption
    <3> QED
      BY <2>2, <2>3, <3>1 DEF SetThreads
  <2>4. ASSUME NEW interval \in CheckpointIntervals, SetCheckpointInterval(interval)
        PROVE  builder' \in Type
    BY <2>2, <2>4, SimulatorBuilderAssumption DEF SetCheckpointInterval
  <2>5. ASSUME NEW coreBinding \in CoreBindings, SetCoreBinding(coreBinding)
        PROVE  builder' \in Type
    <3>1. coreBinding \in BOOLEAN
      BY SimulatorBuilderAssumption, Zenon
    <3> QED
      BY <2>2, <2>5, <3>1 DEF SetCoreBinding
  <2>6. ASSUME NEW period \in GvtPeriods, SetGvtPeriod(period) PROVE builder' \in Type
    BY <2>2, <2>6, SimulatorBuilderAssumption DEF SetGvtPeriod
  <2>7. builder' \in Type
    BY <1>1, <2>3, <2>4, <2>5, <2>6
  <2> QED
    BY <2>1, <2>7 DEF SimulatorBuilderTypeOK
<1>2. CASE CreateSimulator
  <2>1. UNCHANGED builder /\ builder \in Type /\ aborted \in BOOLEAN
    BY <1>2 DEF CreateSimulator, SimulatorBuilderTypeOK
  <2>2. CASE builder.mode = "CONSERVATIVE"
    <3>1. aborted' = TRUE /\ UNCHANGED simulator
      BY <1>2, <2>2 DEF CreateSimulator
    <3> QED
      BY <2>1, <3>1 DEF SimulatorBuilderTypeOK
  <2>3. CASE builder.mode # "CONSERVATIVE"
    <3> DEFINE serial == builder.mode = "SEQUENTIAL"
    <3>1. /\ UNCHANGED aborted
          /\ simulator' = <<[n_threads     |-> builder.cores,
                            ckpt_interval |-> builder.checkpointInterval,
                            core_binding  |-> builder.coreBinding,
                            gvt_period    |-> builder.gvtPeriod,
                            serial        |-> serial]>>
      BY <1>2, <2>3 DEF CreateSimulator
    <3>2. serial \in BOOLEAN
      BY Zenon
    <3>3. /\ builder.cores \in Nat /\ builder.checkpointInterval \in Nat
          /\ builder.coreBinding \in BOOLEAN /\ builder.gvtPeriod \in Nat
      BY <2>1
    <3> HIDE DEF serial
    <3>4. simulator'[1] \in Configuration /\ Len(simulator') = 1
      BY <3>1, <3>2, <3>3 DEF Configuration
    <3>5. aborted' \in BOOLEAN
      BY <2>1, <3>1
    <3> QED
      BY <2>1, <3>4, <3>5 DEF SimulatorBuilderTypeOK
  <2> QED
    BY <2>2, <2>3
<1> QED
  BY <1>1, <1>2 DEF Configure

LEMMA ConfigureKeeps == ASSUME ReplayInv, ConfigureSimulator PROVE ReplayInv'
<1>1. /\ simulator = <<>> /\ Configure
      /\ UNCHANGED <<vars, queue, log, loaded, replayed, anti, committed, outstanding>>
  BY DEF ConfigureSimulator, Configure, kernelVars
<1>2. SimulatorBuilderTypeOK'
  BY <1>1, ConfigurationType DEF ReplayInv, TimeWarpInv, KernelType
<1>3. UNCHANGED <<pending, inits, now, fault, linkAvailable, linkMetrics, switchAvailable,
                  switchMetrics, coreFreeTimes, machineMetrics, workload, remaining,
                  nextResource, masterMetrics>>
  BY <1>1 DEF vars, engineVars, linkVars, switchVars, machineVars, masterVars
<1>4. TypeInv'
  BY <1>3 DEF ReplayInv, TimeWarpInv, KernelType, TypeInv, TypeOK, EngineTypeOK, LinkTypeOK,
              SwitchTypeOK, MachineTypeOK, MasterTypeOK, SendersKnown
<1>5. LogsOK' /\ MarksOK' /\ QueuesOK'
  BY <1>1 DEF ReplayInv, TimeWarpInv, KernelType, LogsOK, MarksOK, QueuesOK
<1>6. anti = {} /\ \A p \in Services : log[p] = <<>>
  BY <1>1 DEF ReplayInv, TimeWarpInv, NotStarted
<1>7. NotStarted' /\ SerialKeeps' /\ InOrder' /\ SentLater'
  BY <1>1, <1>6 DEF NotStarted, SerialKeeps, InOrder, SentLater
<1>8. FinalIsPast' /\ NoneFinalYet' /\ SchedulersWait'
  BY <1>1, <1>3 DEF ReplayInv, TimeWarpInv, FinalIsPast, NoneFinalYet, SchedulersWait
<1>9. LogIsExecution'
  BY <1>1, <1>6 DEF LogIsExecution
<1>10. MemoryIsReplayed'
  <2>1. \A p \in Services : Memory(p)' = Memory(p)
    BY <1>3, Kinds, MemoryOf, NextMemoryOf
  <2>2. \A p \in Services : MemoryAfter(p, replayed[p])' = MemoryAfter(p, replayed[p])
    BY <1>1 DEF MemoryAfter
  <2> QED
    BY <1>3, <2>1, <2>2 DEF ReplayInv, MemoryIsReplayed
<1> QED
  BY <1>2, <1>4, <1>5, <1>7, <1>8, <1>9, <1>10 DEF ReplayInv, TimeWarpInv, KernelType

LEMMA NextMemoryIsTyped == TypeOK' => \A p \in Services : Memory(p)' \in MemoryType(p)
<1>1. TypeOK' => (\A p \in Services : Memory(p) \in MemoryType(p))'
  BY MemoryIsTyped, PTL
<1>2. (\A p \in Services : Memory(p) \in MemoryType(p))'
        => \A p \in Services : Memory(p)' \in MemoryType(p)
  OBVIOUS
<1> QED
  BY <1>1, <1>2

-----------------------------------------------------------------------------
(* A master starts. *)

LEMMA SchedulerInitReplays ==
  ASSUME TypeOK, SchedulerInit
  PROVE  \E m \in inits : inits' = inits \ {m} /\ m \in Masters /\ OthersUnchanged(m)
<1>1. PICK m \in Masters :
        MasterOnSchedulerInit(m) /\ UNCHANGED <<linkVars, switchVars, machineVars>>
  BY DEF SchedulerInit
<1>2. /\ m \in inits /\ inits' = inits \ {m} /\ OnInit(m)
      /\ UNCHANGED <<linkAvailable, linkMetrics, switchAvailable, switchMetrics, coreFreeTimes,
                     machineMetrics, masterMetrics>>
  BY <1>1 DEF MasterOnSchedulerInit, linkVars, switchVars, machineVars
<1>3. remaining \in [Masters -> Nat] /\ nextResource \in [Masters -> Nat]
  BY DEF TypeOK, MasterTypeOK
<1>4. \A q \in Masters \ {m} :
        remaining'[q] = remaining[q] /\ nextResource'[q] = nextResource[q]
  BY <1>2, <1>3 DEF OnInit
<1>5. \A q \in Services \ {m} : Memory(q)' = Memory(q)
  BY <1>2, <1>4, Kinds, MemoryOf, NextMemoryOf
<1> QED
  BY <1>2, <1>5 DEF OthersUnchanged

LEMMA StartKeeps == ASSUME ReplayInv, StartScheduler PROVE ReplayInv'
<1>1. /\ Settled /\ SchedulerInit
      /\ loaded' = [p \in Services |-> IF p \in inits \ inits' THEN Memory(p)' ELSE loaded[p]]
      /\ outstanding' = outstanding \cup pending'
      /\ UNCHANGED <<builderVars, log, replayed, anti, committed>>
  BY DEF StartScheduler
<1>0. PICK c \in Nat : queue' = queue \cup Copies(pending', c)
  BY DEF StartScheduler, Enqueue
<1>2. /\ KernelType /\ TypeInv /\ TypeOK /\ LogsOK /\ MarksOK /\ QueuesOK
      /\ SimulatorBuilderTypeOK
  BY DEF ReplayInv, TimeWarpInv, KernelType, TypeInv
<1>3. PICK m \in inits : inits' = inits \ {m} /\ m \in Masters /\ OthersUnchanged(m)
  BY <1>1, <1>2, SchedulerInitReplays
<1>4. TypeInv' /\ TypeOK'
  <2>1. TypeInv'
    BY <1>1, <1>2, SchedulerInitType
  <2> QED
    BY <2>1 DEF TypeInv
<1>5. /\ loaded'[m] = Memory(m)'
      /\ \A p \in Services \ {m} : loaded'[p] = loaded[p] /\ Memory(p)' = Memory(p)
      /\ m \in Services
  BY <1>1, <1>3, Kinds DEF OthersUnchanged
<1>6. UNCHANGED <<builder, simulator, aborted>>
  BY <1>1 DEF builderVars
<1>7. SimulatorBuilderTypeOK'
  BY <1>2, <1>6 DEF SimulatorBuilderTypeOK
<1>8. LogsOK'
  <2>1. \A p \in Services : loaded'[p] \in MemoryType(p)
    <3>1. Memory(m)' \in MemoryType(m)
      BY <1>4, <1>5, NextMemoryIsTyped
    <3> QED
      BY <1>2, <1>5, <3>1 DEF LogsOK
  <2> QED
    BY <1>1, <1>2, <2>1 DEF LogsOK
<1>9. MarksOK'
  BY <1>1, <1>2 DEF MarksOK
<1>10. QueuesOK'
  <2>1. pending' \subseteq Event /\ \A e \in pending' : HasSender(e)
    BY <1>4 DEF TypeInv, TypeOK, EngineTypeOK, SendersKnown, HasSender
  <2>2. queue' \in SUBSET Message /\ \A f \in queue' : HasSender(f.event)
    <3>1. /\ Copies(pending', c) \subseteq Message
          /\ \A f \in Copies(pending', c) : f.event \in pending'
      BY <2>1, CopiesAreMessages
    <3> QED
      BY <1>0, <1>2, <2>1, <3>1 DEF QueuesOK
  <2> QED
    BY <1>1, <1>2, <2>1, <2>2 DEF QueuesOK
<1>11. NotStarted' /\ SerialKeeps' /\ InOrder' /\ SentLater'
  BY <1>1, <1>6 DEF ReplayInv, TimeWarpInv, NotStarted, SerialKeeps, InOrder, SentLater
<1>12. \A p \in Services : committed'[p] = 0
  BY <1>1, <1>3 DEF ReplayInv, TimeWarpInv, NoneFinalYet
<1>13. FinalIsPast' /\ NoneFinalYet'
  BY <1>12 DEF FinalIsPast, NoneFinalYet
<1>14. log[m] = <<>> /\ SchedulersWait'
  BY <1>1, <1>3 DEF ReplayInv, SchedulersWait
<1>15. \A p \in Services \ {m}, k \in Nat : MemoryAfter(p, k)' = MemoryAfter(p, k)
  BY <1>1, <1>5 DEF MemoryAfter
<1>16. replayed[m] = 0
  BY <1>2, <1>5, <1>14 DEF MarksOK
<1>17. MemoryAfter(m, replayed[m])' = Memory(m)'
  BY <1>1, <1>5, <1>16 DEF MemoryAfter
<1>18. fault = Running
  BY <1>1 DEF Settled, Executing
<1>19. LogIsExecution'
  <2> SUFFICES ASSUME NEW p \in Services, NEW i \in 1 .. Len(log[p])
               PROVE  log[p][i].memory = Outcome(p, MemoryAfter(p, i - 1)', log[p][i].message.event)
    BY <1>1 DEF LogIsExecution
  <2>1. p # m /\ i - 1 \in Nat
    BY <1>2, <1>14, LogLength
  <2> QED
    BY <1>15, <1>18, <2>1 DEF ReplayInv, LogIsExecution
<1>20. MemoryIsReplayed'
  <2>1. ASSUME NEW p \in Services \ {m} PROVE Memory(p)' = MemoryAfter(p, replayed[p])'
    <3>1. Memory(p)' = Memory(p) /\ Memory(p) = MemoryAfter(p, replayed[p])
      BY <1>5, <1>18 DEF ReplayInv, MemoryIsReplayed
    <3>2. MemoryAfter(p, replayed[p])' = MemoryAfter(p, replayed[p])
      BY <1>1, <1>5 DEF MemoryAfter
    <3> QED
      BY <3>1, <3>2
  <2> QED
    BY <1>17, <2>1 DEF MemoryIsReplayed
<1> QED
  BY <1>4, <1>7, <1>8, <1>9, <1>10, <1>11, <1>13, <1>14, <1>19, <1>20
     DEF ReplayInv, TimeWarpInv, KernelType

-----------------------------------------------------------------------------
(* An event is executed. *)

NewEntry(m, c) ==
  [message |-> m, sent |-> Copies(pending', c), memory |-> Memory(m.event.to)']

LEMMA NotItsScheduler == ASSUME NEW e, Taken(e) PROVE e.to \notin inits
BY DEF Taken

(* The log of the service gets one entry. *)
LEMMA EntryIsAppended ==
  ASSUME LogsOK, NEW p \in Services, NEW entry \in Entry(p),
         log' = [log EXCEPT ![p] = Append(@, entry)]
  PROVE  /\ DOMAIN log' = Services
         /\ log'[p] \in Seq(Entry(p)) /\ Len(log'[p]) = Len(log[p]) + 1
         /\ \A i \in 1 .. Len(log[p]) : log'[p][i] = log[p][i]
         /\ log'[p][Len(log[p]) + 1] = entry
         /\ \A q \in Services \ {p} : log'[q] = log[q]
<1>1. DOMAIN log = Services /\ log[p] \in Seq(Entry(p))
  BY DEF LogsOK
<1>2. /\ log'[p] = Append(log[p], entry) /\ DOMAIN log' = Services
      /\ \A q \in Services \ {p} : log'[q] = log[q]
  BY <1>1
<1> HIDE DEF Entry
<1> QED
  BY <1>1, <1>2, AppendProperties

LEMMA ExecuteFacts ==
  ASSUME TimeWarpInv, NEW m, Execute(m)
  PROVE  LET e == m.event IN
         /\ m \in queue /\ m \in Message /\ HasSender(e)
         /\ e \in Event /\ e.to \in Services /\ e.time \in Nat
         /\ TypeInv' /\ TypeOK'
         /\ UNCHANGED inits
         /\ \E c \in Nat :
              /\ queue' = (queue \ {m}) \cup Copies(pending', c)
              /\ Copies(pending', c) \subseteq Message
              /\ \A f \in Copies(pending', c) : HasSender(f.event) /\ f.event.time >= e.time
              /\ EventsOf(Copies(pending', c)) = pending'
              /\ NewEntry(m, c) \in Entry(e.to)
              /\ log' = [log EXCEPT ![e.to] = Append(@, NewEntry(m, c))]
         /\ UNCHANGED <<builder, simulator, aborted, loaded, anti, committed, outstanding>>
<1> DEFINE e == m.event
<1>1. /\ m \in queue /\ Dispatch(e) /\ Settled
      /\ UNCHANGED <<builder, simulator, aborted, loaded, anti, committed, outstanding>>
  BY DEF Execute, builderVars
<1>2. PICK c \in Nat :
        /\ queue' = (queue \ {m}) \cup Copies(pending', c)
        /\ log' = [log EXCEPT ![e.to] = Append(@, NewEntry(m, c))]
  <2>1. PICK c \in 0 .. Cardinality(Known) :
          /\ Enqueue(queue \ {m}, pending', c)
          /\ log' = [log EXCEPT ![e.to] = Append(@, NewEntry(m, c))]
    BY Zenon DEF Execute, NewEntry
  <2>2. c \in Nat
    OBVIOUS
  <2> QED
    BY <2>1, <2>2 DEF Enqueue
<1>3. TypeInv /\ fault = Running /\ pending = {} /\ QueuesOK
  BY <1>1 DEF TimeWarpInv, KernelType, Settled, Executing
<1>4. m \in Message /\ HasSender(e) /\ e \in Event
  BY <1>1, <1>3 DEF QueuesOK, HasSender
<1>5. e.to \in Services /\ e.time \in Nat
  BY <1>4 DEF Event
<1> HIDE DEF e
<1>6. TypeInv' /\ UNCHANGED inits /\ \A f \in pending' : HasSender(f) /\ f.time >= e.time
  BY <1>1, <1>3, <1>4, HandlerType
<1>7. TypeOK' /\ pending' \subseteq Event
  BY <1>6 DEF TypeInv, TypeOK, EngineTypeOK
<1>8. /\ Copies(pending', c) \subseteq Message
      /\ \A f \in Copies(pending', c) : f.event \in pending'
      /\ EventsOf(Copies(pending', c)) = pending'
  BY <1>7, CopiesAreMessages
<1>9. Memory(e.to)' \in MemoryType(e.to)
  BY <1>5, <1>7, NextMemoryIsTyped
<1>10. NewEntry(m, c) \in Entry(e.to)
  BY <1>4, <1>8, <1>9 DEF NewEntry, Entry, e
<1> QED
  BY <1>1, <1>2, <1>4, <1>5, <1>6, <1>7, <1>8, <1>10 DEF e

LEMMA ExecuteKeepsOrder ==
  ASSUME TimeWarpInv, NEW m, Execute(m)
  PROVE  InOrder' /\ SentLater' /\ FinalIsPast'
<1> DEFINE e == m.event
           p == e.to
           n == Len(log[p])
<1>1. /\ m \in queue /\ p \in Services /\ e.time \in Nat /\ e \in Event
      /\ UNCHANGED <<simulator, anti, committed>>
  BY ExecuteFacts
<1>0. PICK c \in Nat :
        /\ queue' = (queue \ {m}) \cup Copies(pending', c)
        /\ Copies(pending', c) \subseteq Message
        /\ \A f \in Copies(pending', c) : HasSender(f.event) /\ f.event.time >= e.time
        /\ NewEntry(m, c) \in Entry(p)
        /\ log' = [log EXCEPT ![p] = Append(@, NewEntry(m, c))]
  BY ExecuteFacts
<1>2. KernelType /\ LogsOK /\ MarksOK /\ QueuesOK
  BY DEF TimeWarpInv, KernelType
<1>3. NewEntry(m, c).message.event = e /\ NewEntry(m, c).sent = Copies(pending', c)
  BY DEF NewEntry
<1>4. /\ n \in Nat /\ Len(log'[p]) = n + 1
      /\ \A i \in 1 .. n : log'[p][i] = log[p][i]
      /\ log'[p][n + 1] = NewEntry(m, c)
      /\ \A q \in Services \ {p} : log'[q] = log[q]
  BY <1>0, <1>1, <1>2, EntryIsAppended, LogLength
<1>5. \A i \in 1 .. n : log[p][i].message.event.time \in Nat
  BY <1>1, <1>2, EntryFields
<1>6. simulator # <<>> /\ ~ simulator[1].serial =>
        \A i \in 1 .. n : log[p][i].message.event.time <= e.time
  <2> SUFFICES ASSUME simulator # <<>>, ~ simulator[1].serial, NEW i \in 1 .. n
               PROVE  log[p][i].message.event.time <= e.time
    OBVIOUS
  <2>1. log[p] # <<>> /\ n \in 1 .. n /\ i <= n
    BY <1>1, <1>2, <1>4 DEF LogsOK
  <2>2. ~ Precedes(e, log[p][n].message.event)
    BY <2>1 DEF Execute, Late, Last
  <2>3. ~ e.time < log[p][n].message.event.time
    BY <2>2 DEF Precedes
  <2>4. log[p][n].message.event.time <= e.time
    BY <1>1, <1>5, <2>1, <2>3
  <2>5. log[p][i].message.event.time <= log[p][n].message.event.time
    BY <1>1, <2>1 DEF TimeWarpInv, InOrder
  <2> QED
    BY <1>1, <1>5, <2>1, <2>4, <2>5
<1> HIDE DEF e, p, n
<1>7. InOrder'
  <2> SUFFICES ASSUME simulator # <<>>, ~ simulator[1].serial,
                      NEW q \in Services, NEW i \in 1 .. Len(log'[q]), NEW j \in 1 .. Len(log'[q]),
                      i <= j
               PROVE  log'[q][i].message.event.time <= log'[q][j].message.event.time
    BY <1>1 DEF InOrder
  <2>1. CASE q # p
    BY <1>4, <2>1 DEF TimeWarpInv, InOrder
  <2>2. CASE q = p /\ j = n + 1
    <3>1. CASE i = n + 1
      BY <1>1, <1>3, <1>4, <2>2, <3>1
    <3>2. CASE i # n + 1
      <4>1. i \in 1 .. n
        BY <1>4, <2>2, <3>2
      <4> QED
        BY <1>3, <1>4, <1>6, <2>2, <4>1
    <3> QED
      BY <3>1, <3>2
  <2>3. CASE q = p /\ j # n + 1
    <3>1. i \in 1 .. n /\ j \in 1 .. n
      BY <1>4, <2>3
    <3> QED
      BY <1>4, <2>3, <3>1 DEF TimeWarpInv, InOrder, n
  <2> QED
    BY <2>1, <2>2, <2>3
<1>8. SentLater'
  <2> SUFFICES ASSUME NEW q \in Services, NEW i \in 1 .. Len(log'[q]), NEW f \in log'[q][i].sent
               PROVE  f.event.time >= log'[q][i].message.event.time
    BY DEF SentLater
  <2>1. CASE q # p
    BY <1>4, <2>1 DEF TimeWarpInv, SentLater
  <2>2. CASE q = p /\ i = n + 1
    BY <1>0, <1>1, <1>3, <1>4, <2>2
  <2>3. CASE q = p /\ i # n + 1
    <3>1. i \in 1 .. n
      BY <1>4, <2>3
    <3> QED
      BY <1>4, <2>3, <3>1 DEF TimeWarpInv, SentLater, n
  <2> QED
    BY <2>1, <2>2, <2>3
<1>9. FinalIsPast'
  <2> SUFFICES ASSUME NEW q \in Services, NEW i \in 1 .. committed[q], NEW f \in queue' \cup anti
               PROVE  log'[q][i].message.event.time < f.event.time
    BY <1>1 DEF FinalIsPast
  <2>1. i \in 1 .. Len(log[q]) /\ log'[q][i] = log[q][i]
    <3>1. i \in 1 .. Len(log[q])
      BY <1>2, LogLength DEF MarksOK
    <3> QED
      BY <1>4, <3>1 DEF n
  <2>2. log[q][i].message.event.time \in Nat
    BY <1>2, <2>1, EntryFields
  <2>3. CASE f \in queue \cup anti
    BY <2>1, <2>3 DEF TimeWarpInv, FinalIsPast
  <2>4. CASE f \notin queue \cup anti
    <3>1. f.event.time >= e.time /\ f.event.time \in Nat
      BY <1>0, <2>4 DEF Message, Event
    <3>2. log[q][i].message.event.time < e.time
      BY <1>1 DEF TimeWarpInv, FinalIsPast, e
    <3> QED
      BY <1>1, <2>1, <2>2, <3>1, <3>2
  <2> QED
    BY <2>3, <2>4
<1> QED
  BY <1>7, <1>8, <1>9

LEMMA ExecuteKeeps == ASSUME ReplayInv, NEW m, Execute(m) PROVE ReplayInv'
<1> DEFINE e == m.event
           p == e.to
           n == Len(log[p])
<1>1. TimeWarpInv /\ KernelType /\ LogsOK /\ MarksOK /\ QueuesOK /\ TypeOK /\ Settled
  BY DEF ReplayInv, TimeWarpInv, KernelType, TypeInv, Execute
<1>2. /\ p \in Services /\ e \in Event /\ TypeInv' /\ TypeOK' /\ UNCHANGED inits
      /\ UNCHANGED <<builder, simulator, aborted, loaded, anti, committed, outstanding>>
  BY <1>1, ExecuteFacts
<1>0. PICK c \in Nat :
        /\ queue' = (queue \ {m}) \cup Copies(pending', c)
        /\ Copies(pending', c) \subseteq Message
        /\ \A f \in Copies(pending', c) : HasSender(f.event)
        /\ NewEntry(m, c) \in Entry(p)
        /\ log' = [log EXCEPT ![p] = Append(@, NewEntry(m, c))]
  BY <1>1, ExecuteFacts
<1>3. /\ n \in Nat /\ Len(log'[p]) = n + 1 /\ DOMAIN log' = Services
      /\ log'[p] \in Seq(Entry(p))
      /\ \A i \in 1 .. n : log'[p][i] = log[p][i]
      /\ log'[p][n + 1] = NewEntry(m, c)
      /\ \A q \in Services \ {p} : log'[q] = log[q]
  BY <1>0, <1>1, <1>2, EntryIsAppended, LogLength
<1>4. /\ fault = Running /\ simulator # <<>> /\ \A q \in Services : replayed[q] = Len(log[q])
      /\ replayed' = [replayed EXCEPT ![p] = @ + 1]
      /\ p \notin inits /\ Dispatch(e)
  BY <1>1, NotItsScheduler DEF Settled, Executing, UpToDate, Execute
<1> HIDE DEF e, p, n, Entry
<1>5. LogsOK'
  BY <1>1, <1>2, <1>3 DEF LogsOK
<1>6. replayed' \in [Services -> Nat] /\ \A q \in Services : replayed'[q] = Len(log'[q])
  <2>1. replayed \in [Services -> Nat] /\ replayed[p] = n
    BY <1>1, <1>2, <1>4 DEF MarksOK, n
  <2>2. replayed'[p] = n + 1 /\ \A q \in Services \ {p} : replayed'[q] = replayed[q]
    BY <1>2, <1>4, <2>1
  <2> QED
    BY <1>2, <1>3, <1>4, <2>1, <2>2
<1>7. MarksOK'
  <2>1. \A q \in Services : Len(log[q]) \in Nat /\ committed[q] \in Nat /\ committed[q] <= Len(log[q])
    BY <1>1, LogLength DEF MarksOK
  <2>2. \A q \in Services : replayed'[q] <= Len(log'[q]) /\ committed[q] <= Len(log'[q])
    BY <1>3, <1>6, <2>1 DEF n
  <2> QED
    BY <1>1, <1>2, <1>6, <2>2 DEF MarksOK
<1>8. QueuesOK' /\ SimulatorBuilderTypeOK'
  BY <1>0, <1>1, <1>2 DEF QueuesOK, SimulatorBuilderTypeOK, KernelType
<1>9. NotStarted' /\ SerialKeeps' /\ NoneFinalYet'
  BY <1>1, <1>2, <1>4 DEF NotStarted, TimeWarpInv, SerialKeeps, NoneFinalYet
<1>10. InOrder' /\ SentLater' /\ FinalIsPast'
  BY <1>1, ExecuteKeepsOrder
<1>11. SchedulersWait'
  <2>1. inits \subseteq Services
    BY <1>1, Kinds DEF TypeOK, EngineTypeOK
  <2> QED
    BY <1>2, <1>3, <1>4, <2>1 DEF ReplayInv, SchedulersWait
<1>12. \A q \in Services : \A k \in 0 .. Len(log[q]) : MemoryAfter(q, k)' = MemoryAfter(q, k)
  <2> SUFFICES ASSUME NEW q \in Services, NEW k \in 0 .. Len(log[q])
               PROVE  MemoryAfter(q, k)' = MemoryAfter(q, k)
    OBVIOUS
  <2>1. CASE k = 0
    BY <1>2, <2>1 DEF MemoryAfter
  <2>2. CASE k # 0
    <3>1. k \in 1 .. Len(log[q])
      BY <1>1, <2>2, LogLength
    <3>2. log'[q][k] = log[q][k]
      BY <1>3, <3>1 DEF n
    <3> QED
      BY <2>2, <3>2 DEF MemoryAfter
  <2> QED
    BY <2>1, <2>2
<1>13. ASSUME fault' = Running
       PROVE  /\ Memory(p)' = Outcome(p, Memory(p), e)
              /\ \A q \in Services \ {p} : Memory(q)' = Memory(q)
  BY <1>1, <1>2, <1>4, <1>13, Replays DEF p, OthersUnchanged
<1>14. Memory(p) = MemoryAfter(p, n) /\ \A q \in Services : Memory(q) = MemoryAfter(q, Len(log[q]))
  BY <1>2, <1>4 DEF ReplayInv, MemoryIsReplayed, n
<1>15. NewEntry(m, c).message.event = e /\ NewEntry(m, c).memory = Memory(p)'
  BY DEF NewEntry, p, e
<1>16. ASSUME fault' = Running PROVE LogIsExecution'
  <2> SUFFICES ASSUME NEW q \in Services, NEW i \in 1 .. Len(log'[q])
               PROVE  log'[q][i].memory = Outcome(q, MemoryAfter(q, i - 1)', log'[q][i].message.event)
    BY DEF LogIsExecution
  <2>1. CASE q = p /\ i = n + 1
    <3>1. i - 1 \in 0 .. Len(log[p]) /\ i - 1 = n
      BY <1>3, <2>1 DEF n
    <3>2. MemoryAfter(p, i - 1)' = MemoryAfter(p, i - 1)
      BY <1>2, <1>12, <3>1
    <3>3. Memory(p) = MemoryAfter(p, i - 1)
      BY <1>14, <3>1
    <3> QED
      BY <1>3, <1>13, <1>15, <1>16, <2>1, <3>2, <3>3
  <2>2. CASE ~ (q = p /\ i = n + 1)
    <3>1. i \in 1 .. Len(log[q]) /\ log'[q][i] = log[q][i]
      BY <1>3, <2>2 DEF n
    <3>2. i - 1 \in 0 .. Len(log[q])
      BY <1>1, <3>1, LogLength
    <3>3. MemoryAfter(q, i - 1)' = MemoryAfter(q, i - 1)
      BY <1>12, <3>2
    <3> QED
      BY <1>4, <3>1, <3>3 DEF ReplayInv, LogIsExecution
  <2> QED
    BY <2>1, <2>2
<1>17. MemoryIsReplayed'
  <2> SUFFICES ASSUME fault' = Running, NEW q \in Services
               PROVE  Memory(q)' = MemoryAfter(q, replayed[q])'
    BY DEF MemoryIsReplayed
  <2>1. CASE q = p
    <3>1. MemoryAfter(p, replayed[p])' = log'[p][n + 1].memory
      BY <1>2, <1>3, <1>6 DEF MemoryAfter
    <3> QED
      BY <1>3, <1>15, <2>1, <3>1
  <2>2. CASE q # p
    <3>1. PICK k \in 0 .. Len(log[q]) : k = Len(log[q])
      BY <1>1, LogLength
    <3>2. Memory(q)' = Memory(q) /\ replayed'[q] = k
      BY <1>3, <1>6, <1>13, <2>2, <3>1
    <3>3. MemoryAfter(q, k)' = MemoryAfter(q, k)
      BY <1>12, <3>1
    <3>4. MemoryAfter(q, replayed[q])' = MemoryAfter(q, k)'
      BY <3>2 DEF MemoryAfter
    <3>5. Memory(q) = MemoryAfter(q, k)
      BY <1>14, <3>1
    <3> QED
      BY <3>2, <3>3, <3>4, <3>5
  <2> QED
    BY <2>1, <2>2
<1> QED
  BY <1>2, <1>5, <1>7, <1>8, <1>9, <1>10, <1>11, <1>16, <1>17
     DEF ReplayInv, TimeWarpInv, KernelType

-----------------------------------------------------------------------------
(* A service goes back. *)

LEMMA RemainderIsLess ==
  ASSUME NEW k \in Nat, NEW n \in Nat \ {0} PROVE k - (k % n) \in 0 .. k
<1>1. k % n \in 0 .. n - 1
  OBVIOUS
<1>2. k % n <= k
  <2>1. k = n * (k \div n) + (k % n) /\ k \div n \in Nat
    OBVIOUS
  <2>2. n * (k \div n) >= 0
    BY <2>1
  <2> QED
    BY <1>1, <2>1, <2>2
<1> QED
  BY <1>1, <1>2

LEMMA CheckpointBefore ==
  ASSUME SimulatorBuilderTypeOK, simulator # <<>>, NEW k \in Nat
  PROVE  LastCheckpoint(k) \in 0 .. k
<1>1. simulator[1].ckpt_interval \in Nat
  BY DEF SimulatorBuilderTypeOK, Configuration
<1> QED
  BY <1>1, RemainderIsLess, OptimisticAssumption DEF LastCheckpoint

(* The first k entries of its log stay. *)
LEMMA LogIsCut ==
  ASSUME LogsOK, NEW p \in Services, NEW k \in 0 .. Len(log[p]),
         log' = [log EXCEPT ![p] = SubSeq(@, 1, k)]
  PROVE  /\ DOMAIN log' = Services
         /\ log'[p] \in Seq(Entry(p)) /\ Len(log'[p]) = k
         /\ \A i \in 1 .. k : log'[p][i] = log[p][i]
         /\ \A q \in Services \ {p} : log'[q] = log[q]
<1>1. DOMAIN log = Services /\ Len(log[p]) \in Nat
  BY LogLength DEF LogsOK
<1>2. /\ log'[p] = SubSeq(log[p], 1, k) /\ DOMAIN log' = Services
      /\ \A q \in Services \ {p} : log'[q] = log[q]
  BY <1>1
<1>3. \A i \in 1 .. k : i \in 1 .. Len(log[p]) /\ log[p][i] \in Entry(p)
  BY <1>1, EntryFields
<1> HIDE DEF Entry
<1>4. /\ SubSeq(log[p], 1, k) \in Seq(Entry(p))
      /\ Len(SubSeq(log[p], 1, k)) = IF 1 <= k THEN k - 1 + 1 ELSE 0
      /\ \A i \in 1 .. k - 1 + 1 : SubSeq(log[p], 1, k)[i] = log[p][1 + i - 1]
  BY <1>3, SubSeqProperties
<1> QED
  BY <1>1, <1>2, <1>4

(* What is undone, where service p keeps the first k entries of its log. *)
Undone(p, k) == {log[p][i] : i \in k + 1 .. Len(log[p])}
UndoneMessages(p, k) == {entry.message : entry \in Undone(p, k)}
UndoneSent(p, k) == UNION {entry.sent : entry \in Undone(p, k)}

LEMMA WhatIsUndone ==
  ASSUME LogsOK, SentLater, NEW p \in Services, NEW k \in Nat, NEW time \in Nat,
         \A j \in k + 1 .. Len(log[p]) : log[p][j].message.event.time >= time
  PROVE  /\ \A f \in UndoneMessages(p, k) :
              f \in Message /\ HasSender(f.event) /\ f.event.time >= time
         /\ \A f \in UndoneSent(p, k) : f \in Message /\ f.event.time >= time
<1>1. \A j \in k + 1 .. Len(log[p]) : j \in 1 .. Len(log[p])
  BY LogLength
<1>2. ASSUME NEW f \in UndoneMessages(p, k)
      PROVE  f \in Message /\ HasSender(f.event) /\ f.event.time >= time
  <2>1. PICK j \in k + 1 .. Len(log[p]) : f = log[p][j].message
    BY DEF UndoneMessages, Undone
  <2> QED
    BY <1>1, <2>1, EntryFields
<1>3. ASSUME NEW f \in UndoneSent(p, k) PROVE f \in Message /\ f.event.time >= time
  <2>1. PICK j \in k + 1 .. Len(log[p]) : f \in log[p][j].sent
    BY DEF UndoneSent, Undone
  <2>2. f \in Message /\ log[p][j].message.event.time \in Nat
    BY <1>1, <2>1, EntryFields
  <2>3. f.event.time >= log[p][j].message.event.time
    BY <1>1, <2>1 DEF SentLater
  <2>4. f.event.time \in Nat /\ log[p][j].message.event.time >= time
    BY <2>1, <2>2 DEF Message, Event
  <2> QED
    BY <2>2, <2>3, <2>4
<1> QED
  BY <1>2, <1>3

RolledBack(p, k) ==
  /\ log' = [log EXCEPT ![p] = SubSeq(@, 1, k)]
  /\ replayed' = [replayed EXCEPT ![p] = LastCheckpoint(k)]
  /\ Restore(p, MemoryAfter(p, LastCheckpoint(k)))
  /\ queue' = (queue \ UndoneSent(p, k)) \cup (UndoneMessages(p, k) \ anti)
  /\ anti' = (anti \ UndoneMessages(p, k)) \cup (UndoneSent(p, k) \ queue)
  /\ UNCHANGED <<pending, inits, now, fault, builder, simulator, aborted, loaded, committed,
                 outstanding>>

LEMMA RollbackIs == ASSUME NEW p, NEW k, Rollback(p, k) PROVE RolledBack(p, k)
BY DEF Rollback, RolledBack, UndoneSent, UndoneMessages, Undone, builderVars, engineVars

LEMMA RollbackKeepsOrder ==
  ASSUME TimeWarpInv, NEW p \in Services, NEW k \in committed[p] .. Len(log[p]), k \in Nat,
         NEW m \in queue \cup anti,
         \A j \in k + 1 .. Len(log[p]) : log[p][j].message.event.time >= m.event.time,
         RolledBack(p, k)
  PROVE  /\ InOrder' /\ SentLater' /\ FinalIsPast'
         /\ QueuesOK'
<1>1. /\ KernelType /\ LogsOK /\ MarksOK /\ QueuesOK
      /\ queue \subseteq Message /\ anti \subseteq Message
  BY DEF TimeWarpInv, KernelType, QueuesOK
<1>2. m.event.time \in Nat
  BY <1>1 DEF Message, Event
<1>3. /\ \A f \in UndoneMessages(p, k) :
           f \in Message /\ HasSender(f.event) /\ f.event.time >= m.event.time
      /\ \A f \in UndoneSent(p, k) : f \in Message /\ f.event.time >= m.event.time
  BY <1>1, <1>2, WhatIsUndone DEF TimeWarpInv
<1>4. /\ Len(log[p]) \in Nat /\ k \in 0 .. Len(log[p])
  BY <1>1, LogLength DEF MarksOK
<1>5. /\ DOMAIN log' = Services /\ Len(log'[p]) = k
      /\ \A i \in 1 .. k : log'[p][i] = log[p][i]
      /\ \A q \in Services \ {p} : log'[q] = log[q]
  BY <1>1, <1>4, LogIsCut DEF RolledBack
<1>6. \A q \in Services : \A i \in 1 .. Len(log'[q]) :
        i \in 1 .. Len(log[q]) /\ log'[q][i] = log[q][i]
  BY <1>4, <1>5
<1>7. /\ queue' = (queue \ UndoneSent(p, k)) \cup (UndoneMessages(p, k) \ anti)
      /\ anti' = (anti \ UndoneMessages(p, k)) \cup (UndoneSent(p, k) \ queue)
      /\ UNCHANGED <<simulator, committed, outstanding>>
  BY DEF RolledBack
<1>8. InOrder'
  BY <1>6, <1>7 DEF TimeWarpInv, InOrder
<1>9. SentLater'
  BY <1>6 DEF TimeWarpInv, SentLater
<1>10. queue' \subseteq Message /\ anti' \subseteq Message
  BY <1>1, <1>3, <1>7
<1>11. QueuesOK'
  BY <1>1, <1>3, <1>7, <1>10 DEF QueuesOK
<1>12. FinalIsPast'
  <2> SUFFICES ASSUME NEW q \in Services, NEW i \in 1 .. committed[q], NEW f \in queue' \cup anti'
               PROVE  log'[q][i].message.event.time < f.event.time
    BY <1>7 DEF FinalIsPast
  <2>1. i \in 1 .. Len(log[q]) /\ log'[q][i] = log[q][i]
    <3>1. committed[q] \in Nat /\ committed[q] <= Len(log[q]) /\ Len(log[q]) \in Nat
      BY <1>1, LogLength DEF MarksOK
    <3>2. i \in 1 .. Len(log[q])
      BY <3>1
    <3>3. CASE q = p
      BY <1>4, <1>5, <3>1, <3>3
    <3> QED
      BY <1>5, <3>2, <3>3
  <2>2. log[q][i].message.event.time \in Nat /\ log[q][i].message.event.time < m.event.time
    BY <1>1, <2>1, EntryFields DEF TimeWarpInv, FinalIsPast
  <2>3. CASE f \in queue \cup anti
    BY <2>1, <2>3 DEF TimeWarpInv, FinalIsPast
  <2>4. CASE f \in UndoneMessages(p, k) \cup UndoneSent(p, k)
    <3>1. f \in Message /\ f.event.time >= m.event.time
      BY <1>3, <2>4
    <3>2. f.event.time \in Nat
      BY <3>1 DEF Message, Event
    <3> QED
      BY <1>2, <2>1, <2>2, <3>1, <3>2
  <2> QED
    BY <1>7, <2>3, <2>4
<1> QED
  BY <1>8, <1>9, <1>11, <1>12

LEMMA RollbackKeeps ==
  ASSUME ReplayInv, simulator # <<>>, ~ simulator[1].serial,
         NEW p \in Services, p \notin inits,
         NEW k \in committed[p] .. Len(log[p]), k \in Nat,
         NEW m \in queue \cup anti,
         \A j \in k + 1 .. Len(log[p]) : log[p][j].message.event.time >= m.event.time,
         RolledBack(p, k)
  PROVE  ReplayInv'
<1>1. TimeWarpInv /\ KernelType /\ LogsOK /\ MarksOK /\ QueuesOK /\ TypeOK
      /\ SimulatorBuilderTypeOK
  BY DEF ReplayInv, TimeWarpInv, KernelType, TypeInv
<1>2. /\ InOrder' /\ SentLater' /\ FinalIsPast'
      /\ QueuesOK'
  BY <1>1, RollbackKeepsOrder
<1>3. /\ Len(log[p]) \in Nat /\ k \in 0 .. Len(log[p]) /\ committed[p] <= k
  BY <1>1, LogLength DEF MarksOK
<1>4. /\ DOMAIN log' = Services /\ log'[p] \in Seq(Entry(p)) /\ Len(log'[p]) = k
      /\ \A i \in 1 .. k : log'[p][i] = log[p][i]
      /\ \A q \in Services \ {p} : log'[q] = log[q]
  BY <1>1, <1>3, LogIsCut DEF RolledBack
<1>5. PICK c \in 0 .. k : c = LastCheckpoint(k)
  BY <1>1, CheckpointBefore
<1>6. /\ replayed' = [replayed EXCEPT ![p] = c]
      /\ Restore(p, MemoryAfter(p, c))
      /\ UNCHANGED <<pending, inits, now, fault, builder, simulator, aborted, loaded, committed,
                     outstanding>>
  BY <1>5 DEF RolledBack
<1> HIDE DEF Entry
<1>7. MemoryAfter(p, c) \in MemoryType(p) /\ c \in 0 .. Len(log[p])
  BY <1>1, <1>3, <1>5, MemoryAfterType
<1>8. ServicesTypeOK'
  BY <1>1, <1>6, <1>7, RestoreKeepsTypes
<1>9. Memory(p)' = MemoryAfter(p, c) /\ \A q \in Services \ {p} : Memory(q)' = Memory(q)
  BY <1>1, <1>6, <1>7, RestoreBringsBack DEF OthersUnchanged
<1>10. TypeInv'
  BY <1>1, <1>2, <1>6, <1>8 DEF ReplayInv, TimeWarpInv, KernelType, TypeInv, TypeOK,
                                EngineTypeOK, ServicesTypeOK, SendersKnown
<1>11. LogsOK' /\ SimulatorBuilderTypeOK'
  BY <1>1, <1>4, <1>6 DEF LogsOK, SimulatorBuilderTypeOK
<1>12. /\ replayed' \in [Services -> Nat] /\ replayed'[p] = c
       /\ \A q \in Services \ {p} : replayed'[q] = replayed[q]
  BY <1>1, <1>5, <1>6 DEF MarksOK
<1>13. MarksOK'
  <2>1. ASSUME NEW q \in Services PROVE replayed'[q] <= Len(log'[q]) /\ committed[q] <= Len(log'[q])
    <3>1. CASE q = p
      <4>1. Len(log'[q]) = k /\ replayed'[q] = c /\ committed[q] <= k
        BY <1>3, <1>4, <1>12, <3>1
      <4> QED
        BY <1>5, <4>1
    <3>2. CASE q # p
      <4>1. log'[q] = log[q] /\ replayed'[q] = replayed[q]
        BY <1>4, <1>12, <3>2
      <4> QED
        BY <1>1, <4>1 DEF MarksOK
    <3> QED
      BY <3>1, <3>2
  <2> QED
    BY <1>1, <1>6, <1>12, <2>1 DEF MarksOK
<1>14. NotStarted' /\ SerialKeeps' /\ NoneFinalYet'
  BY <1>1, <1>6 DEF NotStarted, SerialKeeps, TimeWarpInv, NoneFinalYet
<1>15. SchedulersWait'
  <2>1. inits \subseteq Services
    BY <1>1, Kinds DEF TypeOK, EngineTypeOK
  <2> QED
    BY <1>4, <1>6, <2>1 DEF ReplayInv, SchedulersWait
<1>16. \A q \in Services : \A i \in 0 .. Len(log'[q]) : MemoryAfter(q, i)' = MemoryAfter(q, i)
  <2> SUFFICES ASSUME NEW q \in Services, NEW i \in 0 .. Len(log'[q])
               PROVE  MemoryAfter(q, i)' = MemoryAfter(q, i)
    OBVIOUS
  <2>1. CASE i = 0
    BY <1>6, <2>1 DEF MemoryAfter
  <2>2. CASE i # 0
    <3>1. log'[q][i] = log[q][i]
      BY <1>3, <1>4, <2>2
    <3> QED
      BY <2>2, <3>1 DEF MemoryAfter
  <2> QED
    BY <2>1, <2>2
<1>17. ASSUME fault' = Running PROVE LogIsExecution'
  <2> SUFFICES ASSUME NEW q \in Services, NEW i \in 1 .. Len(log'[q])
               PROVE  log'[q][i].memory = Outcome(q, MemoryAfter(q, i - 1)', log'[q][i].message.event)
    BY DEF LogIsExecution
  <2>1. i \in 1 .. Len(log[q]) /\ log'[q][i] = log[q][i] /\ i - 1 \in 0 .. Len(log'[q])
    <3>1. Len(log[q]) \in Nat
      BY <1>1, LogLength
    <3>2. CASE q = p
      BY <1>3, <1>4, <3>2
    <3>3. CASE q # p
      BY <1>4, <3>1, <3>3
    <3> QED
      BY <3>2, <3>3
  <2>2. MemoryAfter(q, i - 1)' = MemoryAfter(q, i - 1)
    BY <1>16, <2>1
  <2> QED
    BY <1>6, <1>17, <2>1, <2>2 DEF ReplayInv, LogIsExecution
<1>18. MemoryIsReplayed'
  <2> SUFFICES ASSUME fault' = Running, NEW q \in Services
               PROVE  Memory(q)' = MemoryAfter(q, replayed[q])'
    BY DEF MemoryIsReplayed
  <2>1. CASE q = p
    <3>1. MemoryAfter(p, replayed[p])' = MemoryAfter(p, c)'
      BY <1>12 DEF MemoryAfter
    <3>2. MemoryAfter(p, c)' = MemoryAfter(p, c)
      BY <1>4, <1>5, <1>16
    <3> QED
      BY <1>9, <2>1, <3>1, <3>2
  <2>2. CASE q # p
    <3>1. MemoryAfter(q, replayed[q])' = MemoryAfter(q, replayed[q])
      BY <1>4, <1>6, <1>12, <2>2 DEF MemoryAfter
    <3>2. Memory(q) = MemoryAfter(q, replayed[q])
      BY <1>6 DEF ReplayInv, MemoryIsReplayed
    <3> QED
      BY <1>9, <2>2, <3>1, <3>2
  <2> QED
    BY <2>1, <2>2
<1> QED
  BY <1>2, <1>10, <1>11, <1>13, <1>14, <1>15, <1>17, <1>18
     DEF ReplayInv, TimeWarpInv, KernelType

(* What a late event and a withdrawal undo is later than they are, and not
   final. *)
RightPlace(p, k, e) ==
  /\ k \in committed[p] .. Len(log[p]) /\ k \in Nat
  /\ \A j \in k + 1 .. Len(log[p]) : log[p][j].message.event.time >= e.time

NotAfter(e) == {i \in DOMAIN log[e.to] : ~ Precedes(e, log[e.to][i].message.event)}

LEMMA LatePlace ==
  ASSUME TimeWarpInv, simulator # <<>>, ~ simulator[1].serial, NEW m \in queue
  PROVE  RightPlace(m.event.to, Cardinality(NotAfter(m.event)), m.event)
<1> DEFINE e == m.event
           p == e.to
           n == Len(log[p])
           k == Cardinality(NotAfter(e))
<1>1. LogsOK /\ MarksOK /\ e \in Event
  BY DEF TimeWarpInv, KernelType, QueuesOK, Message
<1>2. p \in Services /\ e.time \in Nat
  BY <1>1 DEF Event
<1>3. n \in Nat /\ DOMAIN log[p] = 1 .. n
  BY <1>1, <1>2 DEF LogsOK
<1>4. IsFiniteSet(1 .. n) /\ Cardinality(1 .. n) = n
  BY <1>3, FS_Interval
<1>5. NotAfter(e) \subseteq 1 .. n
  BY <1>3 DEF NotAfter
<1>6. IsFiniteSet(NotAfter(e)) /\ k <= n
  BY <1>4, <1>5, FS_Subset
<1>7. k \in Nat
  BY <1>6, FS_CardinalityType
<1>8. ASSUME NEW j \in 0 .. n, \A i \in 1 .. j : log[p][i].message.event.time < e.time
      PROVE  j <= k
  <2>1. \A i \in 1 .. j : i \in 1 .. n /\ log[p][i].message.event.time \in Nat
    BY <1>1, <1>2, <1>3, EntryFields
  <2>2. \A i \in 1 .. j : ~ Precedes(e, log[p][i].message.event)
    BY <1>2, <1>8, <2>1 DEF Precedes
  <2>3. 1 .. j \subseteq NotAfter(e)
    BY <1>3, <2>1, <2>2 DEF NotAfter
  <2>4. Cardinality(1 .. j) <= k
    BY <1>6, <2>3, FS_Subset
  <2>5. Cardinality(1 .. j) = j
    BY FS_Interval
  <2> QED
    BY <2>4, <2>5
<1>20. \A i \in 1 .. committed[p] : log[p][i].message.event.time < e.time
  BY <1>2 DEF TimeWarpInv, FinalIsPast
<1> HIDE DEF e, p, n, k
<1>9. committed[p] <= k /\ committed[p] \in Nat
  <2>1. committed[p] \in 0 .. n
    BY <1>1, <1>2, <1>3 DEF MarksOK, n
  <2>2. \A i \in 1 .. committed[p] : log[p][i].message.event.time < e.time
    BY <1>20
  <2> QED
    BY <1>8, <2>1, <2>2
<1>10. ASSUME NEW j \in k + 1 .. n PROVE log[p][j].message.event.time >= e.time
  <2>1. j \in 1 .. n
    BY <1>3, <1>7
  <2>2. \A i \in 1 .. j : i \in 1 .. n /\ log[p][i].message.event.time \in Nat
    BY <1>1, <1>2, <2>1, EntryFields DEF n
  <2>3. \A i \in 1 .. j : log[p][i].message.event.time <= log[p][j].message.event.time
    BY <1>2, <2>1 DEF TimeWarpInv, InOrder, n
  <2>4. SUFFICES ASSUME log[p][j].message.event.time < e.time PROVE FALSE
    BY <1>2, <2>1, <2>2
  <2>5. \A i \in 1 .. j : log[p][i].message.event.time < e.time
    BY <1>2, <2>1, <2>2, <2>3, <2>4
  <2>6. j <= k
    BY <1>3, <1>8, <2>1, <2>5
  <2> QED
    BY <1>7, <2>6
<1> QED
  BY <1>3, <1>6, <1>7, <1>9, <1>10 DEF RightPlace, e, p, n, k

LEMMA WithdrawnPlace ==
  ASSUME TimeWarpInv, simulator # <<>>, ~ simulator[1].serial, NEW m \in anti,
         NEW i \in DOMAIN log[m.event.to], log[m.event.to][i].message = m
  PROVE  RightPlace(m.event.to, i - 1, m.event)
<1> DEFINE e == m.event
           p == e.to
           n == Len(log[p])
<1>1. LogsOK /\ MarksOK /\ e \in Event
  BY DEF TimeWarpInv, KernelType, QueuesOK, Message
<1>2. p \in Services /\ e.time \in Nat
  BY <1>1 DEF Event
<1>3. n \in Nat /\ i \in 1 .. n /\ committed[p] \in Nat
  BY <1>1, <1>2 DEF LogsOK, MarksOK
<1>4. i \notin 1 .. committed[p]
  BY <1>2 DEF TimeWarpInv, FinalIsPast
<1>5. ASSUME NEW j \in i .. n PROVE log[p][j].message.event.time >= e.time
  <2>1. i \in 1 .. n /\ j \in 1 .. n /\ i <= j
    BY <1>3
  <2>2. log[p][i].message.event.time <= log[p][j].message.event.time
    BY <1>2, <2>1 DEF TimeWarpInv, InOrder
  <2>3. log[p][j].message.event.time \in Nat
    BY <1>1, <1>2, <2>1, EntryFields
  <2> QED
    BY <1>2, <2>2, <2>3
<1> QED
  BY <1>3, <1>4, <1>5 DEF RightPlace

(* Both take an event of a service whose log is in order, and cut the log at
   the right place. *)
LEMMA RollbackPlace ==
  ASSUME TimeWarpInv, NEW m, Straggler(m) \/ AntiMessage(m)
  PROVE  LET e == m.event IN
         /\ m \in queue \cup anti /\ e.to \in Services /\ e.to \notin inits
         /\ simulator # <<>> /\ ~ simulator[1].serial
         /\ \E k : RightPlace(e.to, k, e) /\ RolledBack(e.to, k)
<1> DEFINE e == m.event
<1>1. /\ m \in queue \cup anti /\ Taken(e) /\ simulator # <<>>
      /\ m \in anti => anti # {}
  BY DEF Straggler, AntiMessage, Settled, Executing
<1>2. ~ simulator[1].serial
  BY <1>1 DEF Straggler, Late, AntiMessage, TimeWarpInv, SerialKeeps
<1>3. e.to \in Services /\ e.to \notin inits
  <2>1. e \in Event
    BY <1>1 DEF TimeWarpInv, KernelType, QueuesOK, Message
  <2> QED
    BY <1>1, <2>1, NotItsScheduler DEF Event
<1>4. CASE Straggler(m)
  <2>1. m \in queue /\ Rollback(e.to, Cardinality(NotAfter(e)))
    BY <1>4 DEF Straggler, NotAfter
  <2>2. PICK k : k = Cardinality(NotAfter(e))
    OBVIOUS
  <2>3. RightPlace(e.to, k, e)
    BY <1>1, <1>2, <2>1, <2>2, LatePlace
  <2>4. RolledBack(e.to, k)
    BY <2>1, <2>2, RollbackIs
  <2> QED
    BY <1>1, <1>2, <1>3, <2>3, <2>4
<1>5. CASE AntiMessage(m)
  <2>1. PICK i \in DOMAIN log[e.to] : log[e.to][i].message = m /\ Rollback(e.to, i - 1)
    BY <1>5 DEF AntiMessage
  <2>2. RightPlace(e.to, i - 1, e)
    BY <1>1, <1>2, <1>5, <2>1, WithdrawnPlace DEF AntiMessage
  <2>3. RolledBack(e.to, i - 1)
    BY <2>1, RollbackIs
  <2> QED
    BY <1>1, <1>2, <1>3, <2>2, <2>3
<1> QED
  BY <1>4, <1>5

LEMMA RollbacksKeep ==
  ASSUME ReplayInv, NEW m, Straggler(m) \/ AntiMessage(m) PROVE ReplayInv'
<1>1. /\ m \in queue \cup anti /\ m.event.to \in Services /\ m.event.to \notin inits
      /\ simulator # <<>> /\ ~ simulator[1].serial
      /\ \E k : RightPlace(m.event.to, k, m.event) /\ RolledBack(m.event.to, k)
  BY RollbackPlace DEF ReplayInv
<1>2. PICK k : RightPlace(m.event.to, k, m.event) /\ RolledBack(m.event.to, k)
  BY <1>1
<1> QED
  BY <1>1, <1>2, RollbackKeeps DEF RightPlace

-----------------------------------------------------------------------------
(* A service executes again what comes before the event that was late. *)

LEMMA CoastForwardKeeps == ASSUME ReplayInv, CoastForward PROVE ReplayInv'
<1>1. /\ KernelType /\ LogsOK /\ MarksOK /\ QueuesOK /\ TypeInv /\ TypeOK
      /\ SimulatorBuilderTypeOK
  BY DEF ReplayInv, TimeWarpInv, KernelType, TypeInv
<1>2. PICK p \in Services :
        /\ replayed[p] # Len(log[p])
        /\ Dispatch(log[p][replayed[p] + 1].message.event)
        /\ replayed' = [replayed EXCEPT ![p] = @ + 1]
  BY DEF CoastForward, UpToDate
<1>3. /\ fault = Running /\ pending = {}
      /\ UNCHANGED <<queue, builder, simulator, aborted, log, loaded, anti, committed,
                     outstanding>>
  BY DEF CoastForward, Executing, builderVars
<1>4. Len(log[p]) \in Nat /\ replayed[p] \in Nat /\ replayed[p] + 1 \in 1 .. Len(log[p])
  BY <1>1, <1>2, LogLength DEF MarksOK
<1>5. PICK i \in 1 .. Len(log[p]) : i = replayed[p] + 1
  BY <1>4
<1>6. PICK e : e = log[p][i].message.event
  OBVIOUS
<1>7. /\ HasSender(e) /\ e \in Event /\ e.to = p /\ Dispatch(e)
  BY <1>1, <1>2, <1>5, <1>6, EntryFields
<1>8. TypeInv' /\ UNCHANGED inits
  BY <1>1, <1>3, <1>7, HandlerType
<1>10. LogsOK' /\ SimulatorBuilderTypeOK' /\ QueuesOK'
  BY <1>1, <1>3 DEF LogsOK, SimulatorBuilderTypeOK, QueuesOK
<1>11. /\ replayed' \in [Services -> Nat] /\ replayed'[p] = i
       /\ \A q \in Services \ {p} : replayed'[q] = replayed[q]
  BY <1>1, <1>2, <1>5 DEF MarksOK
<1>12. MarksOK'
  <2>1. ASSUME NEW q \in Services PROVE replayed'[q] <= Len(log[q])
    BY <1>1, <1>4, <1>5, <1>11 DEF MarksOK
  <2> QED
    BY <1>1, <1>3, <1>11, <2>1 DEF MarksOK
<1>13. NotStarted' /\ SerialKeeps' /\ InOrder' /\ SentLater' /\ FinalIsPast' /\ NoneFinalYet'
  BY <1>3, <1>8 DEF ReplayInv, TimeWarpInv, NotStarted, SerialKeeps, InOrder, SentLater,
                    FinalIsPast, NoneFinalYet
<1>14. SchedulersWait'
  BY <1>3, <1>8 DEF ReplayInv, SchedulersWait
<1>15. \A q \in Services, k \in Nat : MemoryAfter(q, k)' = MemoryAfter(q, k)
  BY <1>3 DEF MemoryAfter
<1>16. LogIsExecution'
  <2> SUFFICES ASSUME NEW q \in Services, NEW k \in 1 .. Len(log[q])
               PROVE  log[q][k].memory = Outcome(q, MemoryAfter(q, k - 1)', log[q][k].message.event)
    BY <1>3 DEF LogIsExecution
  <2>1. k - 1 \in Nat
    BY <1>1, LogLength
  <2> QED
    BY <1>3, <1>15, <2>1 DEF ReplayInv, LogIsExecution
<1>17. ASSUME fault' = Running
       PROVE  /\ Memory(p)' = Outcome(p, Memory(p), e)
              /\ \A q \in Services \ {p} : Memory(q)' = Memory(q)
  BY <1>1, <1>3, <1>7, <1>17, Replays DEF OthersUnchanged
<1>18. \A q \in Services : Memory(q) = MemoryAfter(q, replayed[q])
  BY <1>3 DEF ReplayInv, MemoryIsReplayed
<1>19. MemoryIsReplayed'
  <2> SUFFICES ASSUME fault' = Running, NEW q \in Services
               PROVE  Memory(q)' = MemoryAfter(q, replayed[q])'
    BY DEF MemoryIsReplayed
  <2>1. CASE q = p
    <3>1. Memory(p) = MemoryAfter(p, i - 1)
      <4>1. i - 1 = replayed[p]
        BY <1>4, <1>5
      <4> QED
        BY <1>18, <4>1
    <3>2. log[p][i].memory = Outcome(p, MemoryAfter(p, i - 1), e)
      BY <1>3, <1>5, <1>6 DEF ReplayInv, LogIsExecution
    <3>3. MemoryAfter(p, replayed[p])' = log[p][i].memory
      <4>1. i # 0
        BY <1>5
      <4> QED
        BY <1>3, <1>11, <4>1 DEF MemoryAfter
    <3> QED
      BY <1>17, <2>1, <3>1, <3>2, <3>3
  <2>2. CASE q # p
    <3>1. MemoryAfter(q, replayed[q])' = MemoryAfter(q, replayed[q])
      BY <1>3, <1>11, <2>2 DEF MemoryAfter
    <3> QED
      BY <1>17, <1>18, <2>2, <3>1
  <2> QED
    BY <2>1, <2>2
<1> QED
  BY <1>8, <1>10, <1>12, <1>13, <1>14, <1>16, <1>19 DEF ReplayInv, TimeWarpInv, KernelType

-----------------------------------------------------------------------------
(* Steps that execute nothing. *)

(* All but the marks of what is final; what a handler has sent may have been
   taken. *)
SameExecution ==
  /\ pending' = {} \/ UNCHANGED pending
  /\ UNCHANGED <<inits, now, fault, linkAvailable, linkMetrics, switchAvailable,
                 switchMetrics, coreFreeTimes, machineMetrics, workload, remaining,
                 nextResource, masterMetrics>>
  /\ UNCHANGED <<builder, simulator, aborted, queue, log, loaded, replayed, anti>>

LEMMA QuietStepKeeps ==
  ASSUME ReplayInv, SameExecution, MarksOK', QueuesOK', FinalIsPast', NoneFinalYet'
  PROVE  ReplayInv'
<1>1. TypeInv' /\ SimulatorBuilderTypeOK' /\ LogsOK'
  <2>1. TypeInv'
    BY DEF SameExecution, ReplayInv, TimeWarpInv, KernelType, TypeInv, TypeOK, EngineTypeOK,
           LinkTypeOK, SwitchTypeOK, MachineTypeOK, MasterTypeOK, SendersKnown
  <2> QED
    BY <2>1 DEF SameExecution, ReplayInv, TimeWarpInv, KernelType, SimulatorBuilderTypeOK, LogsOK
<1>2. NotStarted' /\ SerialKeeps' /\ InOrder' /\ SentLater'
  BY DEF SameExecution, ReplayInv, TimeWarpInv, NotStarted, SerialKeeps, InOrder, SentLater
<1>3. SchedulersWait'
  BY DEF SameExecution, ReplayInv, SchedulersWait
<1>4. \A p \in Services : Memory(p)' = Memory(p)
  BY Kinds, MemoryOf, NextMemoryOf DEF SameExecution
<1>5. \A p \in Services, k \in Nat : MemoryAfter(p, k)' = MemoryAfter(p, k)
  BY DEF SameExecution, MemoryAfter
<1>6. ASSUME fault' = Running PROVE LogIsExecution'
  <2> SUFFICES ASSUME NEW q \in Services, NEW k \in 1 .. Len(log[q])
               PROVE  log[q][k].memory = Outcome(q, MemoryAfter(q, k - 1)', log[q][k].message.event)
    BY DEF SameExecution, LogIsExecution
  <2>1. k - 1 \in Nat
    BY LogLength DEF ReplayInv, TimeWarpInv, KernelType
  <2>2. fault = Running
    BY <1>6 DEF SameExecution
  <2> QED
    BY <1>5, <2>1, <2>2 DEF ReplayInv, LogIsExecution
<1>7. MemoryIsReplayed'
  <2>1. \A p \in Services : MemoryAfter(p, replayed[p])' = MemoryAfter(p, replayed[p])
    BY DEF SameExecution, MemoryAfter
  <2> QED
    BY <1>4, <2>1 DEF SameExecution, ReplayInv, MemoryIsReplayed
<1> QED
  BY <1>1, <1>2, <1>3, <1>6, <1>7 DEF ReplayInv, TimeWarpInv, KernelType

LEMMA ReturnKeeps == ASSUME ReplayInv, Return \/ UNCHANGED optimisticVars PROVE ReplayInv'
<1>1. SameExecution /\ UNCHANGED <<committed, outstanding>>
  BY DEF Return, optimisticVars, kernelVars, SameExecution, vars, engineVars, linkVars,
         switchVars, machineVars, masterVars, builderVars
<1>2. MarksOK' /\ QueuesOK' /\ FinalIsPast' /\ NoneFinalYet'
  BY <1>1 DEF SameExecution, ReplayInv, TimeWarpInv, KernelType, MarksOK, QueuesOK,
              FinalIsPast, NoneFinalYet
<1> QED
  BY <1>1, <1>2, QuietStepKeeps

LEMMA CommitKeeps == ASSUME ReplayInv, Commit PROVE ReplayInv'
<1>1. LogsOK /\ MarksOK /\ QueuesOK
  BY DEF ReplayInv, TimeWarpInv, KernelType
<1>2. PICK p \in Services :
        /\ CanCommit(p)
        /\ outstanding' = (outstanding \ {log[p][committed[p] + 1].message.event})
                            \cup EventsOf(log[p][committed[p] + 1].sent)
        /\ committed' = [committed EXCEPT ![p] = @ + 1]
  BY DEF Commit
<1>3. SameExecution
  BY DEF Commit, SameExecution, vars, engineVars, linkVars, switchVars, machineVars, masterVars,
         builderVars
<1>4. committed[p] \in Nat /\ committed[p] + 1 \in 1 .. Len(log[p]) /\ inits = {}
  BY <1>1, <1>2, LogLength DEF MarksOK, CanCommit
<1>5. /\ committed' \in [Services -> Nat] /\ committed'[p] = committed[p] + 1
      /\ \A q \in Services \ {p} : committed'[q] = committed[q]
  BY <1>1, <1>2 DEF MarksOK
<1>6. MarksOK'
  <2>1. ASSUME NEW q \in Services PROVE committed'[q] <= Len(log[q])
    BY <1>1, <1>4, <1>5 DEF MarksOK
  <2> QED
    BY <1>1, <1>3, <1>5, <2>1 DEF SameExecution, MarksOK
<1>7. QueuesOK'
  <2>1. log[p][committed[p] + 1].sent \subseteq Message
    BY <1>1, <1>4, EntryFields
  <2>2. EventsOf(log[p][committed[p] + 1].sent) \subseteq Event
    BY <2>1 DEF EventsOf, Message
  <2> QED
    BY <1>1, <1>2, <1>3, <2>2 DEF SameExecution, QueuesOK
<1>8. FinalIsPast'
  <2> SUFFICES ASSUME NEW q \in Services, NEW i \in 1 .. committed'[q], NEW f \in queue \cup anti
               PROVE  log[q][i].message.event.time < f.event.time
    BY <1>3 DEF SameExecution, FinalIsPast
  <2>1. CASE q = p /\ i = committed[p] + 1
    BY <1>2, <2>1 DEF CanCommit, EventsOf
  <2>2. CASE ~ (q = p /\ i = committed[p] + 1)
    <3>1. i \in 1 .. committed[q]
      BY <1>4, <1>5, <2>2
    <3> QED
      BY <3>1 DEF ReplayInv, TimeWarpInv, FinalIsPast
  <2> QED
    BY <2>1, <2>2
<1>9. NoneFinalYet'
  BY <1>3, <1>4 DEF SameExecution, NoneFinalYet
<1> QED
  BY <1>3, <1>6, <1>7, <1>8, <1>9, QuietStepKeeps

-----------------------------------------------------------------------------
LEMMA ReplayStep == ReplayInv /\ [OptimisticNext]_optimisticVars => ReplayInv'
<1> SUFFICES ASSUME ReplayInv, [OptimisticNext]_optimisticVars PROVE ReplayInv'
  OBVIOUS
<1>1. ASSUME NEW m, Process(m) PROVE ReplayInv'
  BY <1>1, ExecuteKeeps, RollbacksKeep DEF Process
<1>2. CASE Kernel
  BY <1>2, StartKeeps, CoastForwardKeeps, ReturnKeeps, CommitKeeps DEF Kernel
<1> QED
  BY <1>1, <1>2, ConfigureKeeps, ReturnKeeps DEF OptimisticNext

THEOREM ReplayInvariant == OptimisticSpec => []ReplayInv
BY KernelStarts, ReplayStep, PTL DEF OptimisticSpec

(* In every mode and configuration, and while services go back and forth: logs,
   marks and memories are well typed, and no mark is beyond the end of a log. *)
THEOREM OptimisticTypeCorrect == OptimisticSpec => []OptimisticTypeOK
<1>1. ReplayInv => OptimisticTypeOK
  BY KernelTypeIsEnough DEF ReplayInv, TimeWarpInv
<1> QED
  BY <1>1, ReplayInvariant, PTL

(* However often a service has gone back, its memory is that of the last event
   in its log: what the handlers write is all in the checkpoint, and what they
   do depends on it and on the event alone. *)
THEOREM RollbackIsExact == OptimisticSpec => []MemoryIsReplayed
<1>1. ReplayInv => MemoryIsReplayed
  BY DEF ReplayInv
<1> QED
  BY <1>1, ReplayInvariant, PTL

-----------------------------------------------------------------------------
(* What is final stays. *)

FinalKept ==
  \A p \in Services :
    /\ committed[p] <= Len(log'[p])
    /\ \A i \in 1 .. committed[p] : log'[p][i] = log[p][i]

LEMMA ExecuteKeepsFinal == ASSUME TimeWarpInv, NEW m, Execute(m) PROVE FinalKept
<1> DEFINE e == m.event
<1>1. LogsOK /\ MarksOK
  BY DEF TimeWarpInv, KernelType
<1>2. PICK entry \in Entry(e.to) :
        e.to \in Services /\ log' = [log EXCEPT ![e.to] = Append(@, entry)]
  <2> HIDE DEF Entry
  <2> QED
    BY ExecuteFacts
<1>3. \A q \in Services : committed[q] \in 0 .. Len(log[q]) /\ Len(log[q]) \in Nat
  BY <1>1, LogLength DEF MarksOK
<1>4. /\ Len(log'[e.to]) = Len(log[e.to]) + 1
      /\ \A i \in 1 .. Len(log[e.to]) : log'[e.to][i] = log[e.to][i]
      /\ \A q \in Services \ {e.to} : log'[q] = log[q]
  BY <1>1, <1>2, EntryIsAppended
<1> SUFFICES ASSUME NEW p \in Services
             PROVE  /\ committed[p] <= Len(log'[p])
                    /\ \A i \in 1 .. committed[p] : log'[p][i] = log[p][i]
  BY DEF FinalKept
<1>5. CASE p = e.to
  <2>1. \A i \in 1 .. committed[p] : i \in 1 .. Len(log[p])
    BY <1>3
  <2> QED
    BY <1>3, <1>4, <1>5, <2>1
<1>6. CASE p # e.to
  BY <1>3, <1>4, <1>6
<1> QED
  BY <1>5, <1>6

LEMMA RollbackKeepsFinal ==
  ASSUME TimeWarpInv, NEW m, Straggler(m) \/ AntiMessage(m) PROVE FinalKept
<1> DEFINE e == m.event
<1>1. LogsOK /\ MarksOK /\ e.to \in Services
  BY RollbackPlace DEF TimeWarpInv, KernelType
<1>2. PICK k : RightPlace(e.to, k, e) /\ RolledBack(e.to, k)
  BY RollbackPlace
<1>3. \A q \in Services : committed[q] \in 0 .. Len(log[q]) /\ Len(log[q]) \in Nat
  BY <1>1, LogLength DEF MarksOK
<1>4. k \in 0 .. Len(log[e.to]) /\ committed[e.to] <= k
  BY <1>1, <1>2, <1>3 DEF RightPlace
<1>5. /\ Len(log'[e.to]) = k
      /\ \A i \in 1 .. k : log'[e.to][i] = log[e.to][i]
      /\ \A q \in Services \ {e.to} : log'[q] = log[q]
  BY <1>1, <1>2, <1>4, LogIsCut DEF RolledBack
<1> SUFFICES ASSUME NEW p \in Services
             PROVE  /\ committed[p] <= Len(log'[p])
                    /\ \A i \in 1 .. committed[p] : log'[p][i] = log[p][i]
  BY DEF FinalKept
<1>6. CASE p = e.to
  <2>1. \A i \in 1 .. committed[p] : i \in 1 .. k
    BY <1>3, <1>4, <1>6
  <2> QED
    BY <1>4, <1>5, <1>6, <2>1
<1>7. CASE p # e.to
  BY <1>3, <1>5, <1>7
<1> QED
  BY <1>6, <1>7

LEMMA FinalStep == TimeWarpInv /\ [OptimisticNext]_optimisticVars => [FinalKept]_optimisticVars
<1> SUFFICES ASSUME TimeWarpInv, OptimisticNext PROVE FinalKept
  OBVIOUS
<1>1. \A q \in Services : committed[q] \in 0 .. Len(log[q]) /\ Len(log[q]) \in Nat
  BY LogLength DEF MarksOK, TimeWarpInv, KernelType
<1>2. ASSUME UNCHANGED log PROVE FinalKept
  BY <1>1, <1>2 DEF FinalKept
<1>3. ASSUME ConfigureSimulator \/ Kernel PROVE UNCHANGED log
  BY <1>3 DEF ConfigureSimulator, Kernel, StartScheduler, CoastForward, Return, Commit,
              kernelVars
<1> QED
  BY <1>2, <1>3, ExecuteKeepsFinal, RollbackKeepsFinal DEF OptimisticNext, Process

(* No step of any thread undoes an event that is final: the global virtual
   time is never overtaken by a late event or a withdrawal. *)
THEOREM NothingFinalIsUndone == OptimisticSpec => FinalStays
<1>1. ReplayInv => TimeWarpInv
  BY DEF ReplayInv
<1>2. [FinalKept]_optimisticVars =>
        [\A p \in Services :
           /\ committed[p] <= Len(log'[p])
           /\ \A i \in 1 .. committed[p] : log'[p][i] = log[p][i]]_optimisticVars
  BY DEF FinalKept
<1> QED
  BY <1>1, <1>2, ReplayInvariant, FinalStep, PTL DEF OptimisticSpec, FinalStays


-----------------------------------------------------------------------------
(* In a flat grid nothing that any thread executes ends the process, too early
   though it may be. *)

(* A packet of a master that can schedule the next task, on the route of the
   one that it carries. *)
Routed(e) ==
  /\ e \in Event
  /\ AtSource(e) \/ OnTheWay(e)
  /\ OnTheWay(e) \/ e.destination = Nobody
  /\ e.origin \in DOMAIN WorkloadSize /\ Slaves[e.origin] # <<>>

(* What a handler looks for when e arrives is there. *)
Routable(e) ==
  /\ e.origin \in DOMAIN WorkloadSize /\ Slaves[e.origin] # <<>>
  /\ e.to \in Links => e.previous \in {LinkFrom[e.to], LinkTo[e.to]}
  /\ e.to \in Switches \cup Machines => HasRoute(e.source, e.destination)
  /\ e.to \in Masters => /\ e.origin = e.to
                         /\ \A s \in SlaveSet(e.to) : HasRoute(e.to, s)

LEMMA OnTheWayIfElsewhere ==
  ASSUME NEW e, Routed(e), e.to \notin Masters
  PROVE  e \in Event /\ OnTheWay(e)
<1>1. e \in Event /\ e.origin \in Masters
  BY DEF Routed, Event
<1> QED
  BY <1>1 DEF Routed, AtSource

LEMMA RoutedIsRoutable == ASSUME WellRouted, NEW e, Routed(e) PROVE Routable(e)
<1>1. /\ e \in Event
      /\ AtSource(e) \/ OnTheWay(e)
      /\ e.origin \in DOMAIN WorkloadSize /\ Slaves[e.origin] # <<>>
  BY DEF Routed
<1>2. e.to \in Masters => /\ e.origin = e.to
                          /\ \A s \in SlaveSet(e.to) : HasRoute(e.to, s)
  BY <1>1, AtItsMaster DEF WellRouted
<1>3. ASSUME e.to \notin Masters
      PROVE  /\ e.to \in Links => e.previous \in {LinkFrom[e.to], LinkTo[e.to]}
             /\ HasRoute(e.source, e.destination)
  <2> DEFINE path == RoutePath[<<e.source, e.destination>>]
             walk == Walk[<<e.source, e.destination>>]
  <2>1. OnTheWay(e)
    BY <1>3, OnTheWayIfElsewhere
  <2>2. PICK k \in 1 .. Len(path) :
          \/ GoingAtLink(e, path, walk, k)
          \/ GoingAtService(e, path, walk, k)
          \/ BackAtLink(e, path, walk, k)
          \/ BackAtService(e, path, walk, k)
    BY <1>1, <2>1, PlaceOnTheWay
  <2>3. e.source \in Masters /\ e.destination \in SlaveSet(e.source) /\ e.source = e.origin
    BY <1>1, <2>1, PlaceOnTheWay
  <2>4. HasRoute(e.source, e.destination)
    BY <1>1, <2>3, RouteOfSlave
  <2>5. /\ path[k] \in Links /\ walk[0] = e.source
        /\ walk[k-1] \in {LinkFrom[path[k]], LinkTo[path[k]]}
        /\ walk[k] \in {LinkFrom[path[k]], LinkTo[path[k]]}
        /\ k > 1 => walk[k-1] \in Machines \cup Switches
        /\ walk[k] \in Machines \cup Switches
    BY <1>1, <2>3, LinkOfRoute
  <2>6. walk[k] \notin Links /\ walk[k-1] \notin Links
    <3>1. k = 1 \/ k > 1
      OBVIOUS
    <3>2. k = 1 => k - 1 = 0
      OBVIOUS
    <3> QED
      BY <2>3, <2>5, <3>1, <3>2, OneKind
  <2> HIDE DEF path, walk
  <2>7. ASSUME e.to \in Links PROVE e.previous \in {LinkFrom[e.to], LinkTo[e.to]}
    BY <2>2, <2>5, <2>6, <2>7 DEF GoingAtLink, GoingAtService, BackAtLink, BackAtService
  <2> QED
    BY <2>4, <2>7
<1>4. e.to \in Links \cup Switches \cup Machines => e.to \notin Masters
  BY Kinds
<1> QED
  BY <1>1, <1>2, <1>3, <1>4 DEF Routable

(* What the handler of such an event sends is on its way, too. *)
LEMMA SentIsRouted ==
  ASSUME WellRouted, TypeOK, NEW e, Routed(e), NEW f \in Event, Sends(e, f)
  PROVE  Routed(f)
<1>1. /\ e \in Event /\ e.time \in Nat
      /\ AtSource(e) \/ OnTheWay(e)
      /\ e.origin \in DOMAIN WorkloadSize /\ Slaves[e.origin] # <<>>
  BY DEF Routed, Event
<1>2. SUFFICES OnTheWay(f) /\ f.origin = e.origin
  BY <1>1 DEF Routed
<1>3. ASSUME e.to \notin Masters
      PROVE  /\ WalkLeads(e.source, e.destination) /\ AlongRoute(e)
             /\ e.source = e.origin /\ e.destination \in SlaveSet(e.origin)
  BY <1>3, OnTheWayIfElsewhere, PlaceOnTheWay
<1>4. ASSUME f.source = e.source, f.destination = e.destination, f.origin = e.origin,
             AlongRoute(f), e.to \notin Masters
      PROVE  OnTheWay(f) /\ f.origin = e.origin
  BY <1>3, <1>4 DEF OnTheWay
<1>5. CASE e.to \in Links /\ LinkSends(e.to, e, f)
  <2>1. e.to \notin Masters
    BY <1>5, Kinds
  <2>2. PICK time : time = LinkDeparture(e.to, e)
    OBVIOUS
  <2>3. time \in Nat
    <3>1. linkAvailable[e.to] \in Nat
      BY <1>5 DEF TypeOK, LinkTypeOK
    <3>2. LinkCommTime(e.to, e.commSize) \in Nat
      <4>1. LinkLatency[e.to] \in Nat /\ LinkUnitCost[e.to] \in Nat /\ e.commSize \in Nat
        BY <1>1, <1>5, LinkAssumption DEF Event
      <4>2. \A a, b, size \in Nat : a + size * b \in Nat
        OBVIOUS
      <4> QED
        BY <4>1, <4>2 DEF LinkCommTime
    <3> QED
      BY <1>1, <2>2, <3>1, <3>2 DEF LinkDeparture
  <2>4. f = [e EXCEPT !.to = OtherEnd(e.to, e), !.time = time, !.previous = e.to]
    BY <1>5, <2>2 DEF LinkSends
  <2>5. AlongRoute(f)
    BY <1>1, <1>3, <1>5, <2>1, <2>3, <2>4, LinkAlong
  <2>6. f.source = e.source /\ f.destination = e.destination /\ f.origin = e.origin
    BY <1>1, <2>4 DEF Event
  <2> QED
    BY <1>4, <2>1, <2>5, <2>6
<1>6. CASE Forwards(e) /\ ForwardSends(e.to, e, f)
  <2>1. e.to \notin Masters /\ e.to \in Machines \cup Switches
    BY <1>6, Kinds DEF Forwards
  <2>2. e.to \in Machines => e.destination # e.to
    BY <1>6, Kinds DEF Forwards
  <2>3. PICK next \in RouteElement(RoutePath[<<e.source, e.destination>>], e.offset) :
          f = [e EXCEPT !.to = next, !.previous = e.to, !.offset = NextOffset(e)]
    BY <1>6 DEF ForwardSends
  <2>4. AlongRoute(f)
    BY <1>1, <1>3, <2>1, <2>2, <2>3, ForwardAlong
  <2>5. f.source = e.source /\ f.destination = e.destination /\ f.origin = e.origin
    BY <1>1, <2>3 DEF Event
  <2> QED
    BY <1>4, <2>1, <2>4, <2>5
<1>7. CASE e.to \in Machines /\ e.destination = e.to /\ ProcessSends(e.to, e, f)
  <2>1. e.to \notin Masters
    BY <1>7, Kinds
  <2>2. PICK c \in 0 .. Cores[e.to] - 1 :
          f = [e EXCEPT !.to = e.previous, !.time = CoreDeparture(e.to, c, e),
                        !.processed = TRUE, !.previous = e.to,
                        !.offset = AnswerOffset(e.offset), !.forward = FALSE]
    BY <1>7 DEF ProcessSends
  <2>3. PICK time : time = CoreDeparture(e.to, c, e)
    OBVIOUS
  <2>4. time \in Nat
    <3>1. coreFreeTimes[e.to][c] \in Nat
      BY <1>7 DEF TypeOK, MachineTypeOK, CoreTimes
    <3>2. TimeToProcess(e.to, e.procSize) \in Nat
      BY <1>1, <1>7, MachineAssumption DEF TimeToProcess, Event
    <3> QED
      BY <1>1, <2>3, <3>1, <3>2 DEF CoreDeparture
  <2>5. f = [e EXCEPT !.to = e.previous, !.time = time, !.processed = TRUE,
                      !.previous = e.to, !.offset = AnswerOffset(e.offset),
                      !.forward = FALSE]
    BY <2>2, <2>3
  <2>6. AlongRoute(f)
    BY <1>1, <1>3, <1>7, <2>1, <2>4, <2>5, ProcessAlong
  <2>7. f.source = e.source /\ f.destination = e.destination /\ f.origin = e.origin
    BY <1>1, <2>5 DEF Event
  <2> QED
    BY <1>4, <2>1, <2>6, <2>7
<1>8. ASSUME e.to \in Masters
      PROVE  /\ e.origin = e.to /\ nextResource[e.to] \in Nat /\ remaining[e.to] \in Nat
             /\ Slave(e.to, 0) \in SlaveSet(e.to)
  <2>1. e.origin = e.to /\ nextResource[e.to] \in Nat /\ remaining[e.to] \in Nat
    BY <1>1, <1>8, AtItsMaster DEF TypeOK, MasterTypeOK
  <2> QED
    BY <1>1, <1>8, <2>1, SlaveType
<1>9. ASSUME e.to \in Masters, NEW t \in Event, t.origin = e.to, ~ t.processed,
             TaskSends(e.to, e, t, f)
      PROVE  OnTheWay(f) /\ f.origin = e.origin
  <2>1. f = ToSlave(e.to, Slave(e.to, 0), e.time, t)
    BY <1>9 DEF TaskSends
  <2> QED
    BY <1>1, <1>8, <1>9, <2>1, ToSlaveOnTheWay
<1>10. CASE e.to \in Masters /\ e.processed /\ e.origin = e.to /\ DrawSends(e.to, e, f)
  <2>1. PICK size \in TaskSizes :
          TaskSends(e.to, e, NewTask("scheduler", e.to, TaskNumber(e.to, 0), size), f)
    BY <1>10 DEF DrawSends
  <2> DEFINE t == NewTask("scheduler", e.to, TaskNumber(e.to, 0), size)
  <2>2. t \in Event
    BY <1>8, <1>10, NewTaskType DEF TaskNumber
  <2>3. t.origin = e.to /\ ~ t.processed
    BY NewTaskOrigin
  <2> HIDE DEF t
  <2>4. TaskSends(e.to, e, t, f)
    BY <2>1 DEF t
  <2> QED
    BY <1>9, <1>10, <2>2, <2>3, <2>4
<1> QED
  BY <1>1, <1>5, <1>6, <1>7, <1>8, <1>9, <1>10 DEF Sends

(* The handler of such an event returns. *)
LEMMA RoutableReturns ==
  ASSUME Supplied, TypeOK, NEW e \in Event, Routable(e), Dispatch(e)
  PROVE  UNCHANGED fault
<1>1. ASSUME NEW new, Replace(e, new) PROVE UNCHANGED fault
  BY <1>1 DEF Replace
<1>2. CASE e.to \in Links
  <2>1. LinkOnTaskArrival(e.to, e)
    BY <1>2, Kinds DEF Dispatch
  <2>2. e.previous \in {LinkFrom[e.to], LinkTo[e.to]}
    BY <1>2 DEF Routable
  <2> QED
    BY <1>1, <2>1, <2>2 DEF LinkOnTaskArrival
<1>3. ASSUME Forward(e.to, e), HasRoute(e.source, e.destination)
      PROVE  UNCHANGED fault
  BY <1>1, <1>3 DEF Forward
<1>4. CASE e.to \in Switches
  <2>1. SwitchOnTaskArrival(e.to, e)
    BY <1>4, Kinds DEF Dispatch
  <2> QED
    BY <1>3, <1>4, <2>1 DEF SwitchOnTaskArrival, Routable
<1>5. CASE e.to \in Machines
  <2>1. MachineOnTaskArrival(e.to, e)
    BY <1>5, Kinds DEF Dispatch
  <2>2. ASSUME MachineProcess(e.to, e) PROVE UNCHANGED fault
    BY <1>1, <2>2 DEF MachineProcess
  <2> QED
    BY <1>3, <1>5, <2>1, <2>2
       DEF MachineOnTaskArrival, MachineForward, Routable
<1>6. CASE e.to \in Masters
  <2> DEFINE m == e.to
  <2>1. MasterOnTaskArrival(m, e)
    BY <1>6, Kinds DEF Dispatch
  <2>2. /\ e.origin = m /\ Slaves[m] # <<>> /\ workload[m] = "assigned"
        /\ \A s \in SlaveSet(m) : HasRoute(m, s)
    BY <1>6 DEF Routable, Supplied
  <2>3. HasRoute(m, Slave(m, 0))
    <3>1. nextResource[m] \in Nat
      BY <1>6 DEF TypeOK, MasterTypeOK
    <3> QED
      BY <1>6, <2>2, <3>1, SlaveType
  <2> HIDE DEF m
  <2>4. ASSUME NEW t, SendToNext(m, e, t) PROVE UNCHANGED fault
    BY <1>1, <2>2, <2>3, <2>4
       DEF SendToNext, HasRoute, Slave
  <2>5. ASSUME OnCompletedTask(m, e) PROVE UNCHANGED fault
    BY <1>1, <2>2, <2>4, <2>5 DEF OnCompletedTask
  <2> QED
    BY <2>1, <2>2, <2>4, <2>5 DEF MasterOnTaskArrival
<1> QED
  BY <1>2, <1>4, <1>5, <1>6, Kinds DEF Event


(* The events in the logs. *)
Logged(e) == \E p \in Services : \E i \in 1 .. Len(log[p]) : e = log[p][i].message.event

LEMMA LoggedByExecute ==
  ASSUME TimeWarpInv, NEW m, Execute(m), NEW g, Logged(g)' PROVE g = m.event \/ Logged(g)
<1> DEFINE e == m.event
<1>0. e.to \in Services /\ LogsOK
  BY ExecuteFacts DEF TimeWarpInv, KernelType
<1>1. PICK c \in Nat :
        /\ NewEntry(m, c) \in Entry(e.to)
        /\ log' = [log EXCEPT ![e.to] = Append(@, NewEntry(m, c))]
  BY ExecuteFacts
<1>2. /\ Len(log'[e.to]) = Len(log[e.to]) + 1
      /\ \A i \in 1 .. Len(log[e.to]) : log'[e.to][i] = log[e.to][i]
      /\ log'[e.to][Len(log[e.to]) + 1] = NewEntry(m, c)
      /\ \A q \in Services \ {e.to} : log'[q] = log[q]
  BY <1>0, <1>1, EntryIsAppended
<1>3. PICK p \in Services : \E i \in 1 .. Len(log'[p]) : g = log'[p][i].message.event
  BY DEF Logged
<1>4. PICK i \in 1 .. Len(log'[p]) : g = log'[p][i].message.event
  BY <1>3
<1>5. Len(log[e.to]) \in Nat
  BY <1>0, LogLength
<1>6. CASE p = e.to /\ i = Len(log[e.to]) + 1
  <2>1. log'[p][i] = NewEntry(m, c)
    BY <1>2, <1>6
  <2>2. NewEntry(m, c).message = m
    BY DEF NewEntry
  <2> QED
    BY <1>4, <2>1, <2>2
<1>7. CASE p = e.to /\ i # Len(log[e.to]) + 1
  <2>1. i \in 1 .. Len(log[p])
    BY <1>2, <1>5, <1>7
  <2> QED
    BY <1>2, <1>4, <1>7, <2>1 DEF Logged
<1>8. CASE p # e.to
  BY <1>2, <1>4, <1>8 DEF Logged
<1> QED
  BY <1>6, <1>7, <1>8

LEMMA SeenByRollback ==
  ASSUME TimeWarpInv, NEW m, Straggler(m) \/ AntiMessage(m)
  PROVE  /\ \A g : Logged(g)' => Logged(g)
         /\ \A g \in queue' : g \in queue \/ Logged(g.event)
<1> DEFINE e == m.event
<1>1. LogsOK /\ MarksOK /\ e.to \in Services
  BY RollbackPlace DEF TimeWarpInv, KernelType
<1>2. PICK k : RightPlace(e.to, k, e) /\ RolledBack(e.to, k)
  BY RollbackPlace
<1>3. Len(log[e.to]) \in Nat /\ committed[e.to] \in Nat
  BY <1>1, LogLength DEF MarksOK
<1>4. k \in 0 .. Len(log[e.to])
  BY <1>2, <1>3 DEF RightPlace
<1>5. /\ Len(log'[e.to]) = k
      /\ \A i \in 1 .. k : log'[e.to][i] = log[e.to][i]
      /\ \A q \in Services \ {e.to} : log'[q] = log[q]
  BY <1>1, <1>2, <1>4, LogIsCut DEF RolledBack
<1>6. ASSUME NEW g, Logged(g)' PROVE Logged(g)
  <2>1. PICK p \in Services : \E i \in 1 .. Len(log'[p]) : g = log'[p][i].message.event
    BY <1>6 DEF Logged
  <2>2. PICK i \in 1 .. Len(log'[p]) : g = log'[p][i].message.event
    BY <2>1
  <2>3. CASE p = e.to
    <3>1. i \in 1 .. k /\ i \in 1 .. Len(log[p])
      BY <1>3, <1>4, <1>5, <2>3
    <3> QED
      BY <1>5, <2>2, <2>3, <3>1 DEF Logged
  <2>4. CASE p # e.to
    BY <1>5, <2>2, <2>4 DEF Logged
  <2> QED
    BY <2>3, <2>4
<1>7. ASSUME NEW g \in queue' PROVE g \in queue \/ Logged(g.event)
  <2>1. g \in queue \/ g \in UndoneMessages(e.to, k)
    BY <1>2, <1>7 DEF RolledBack
  <2>2. ASSUME g \in UndoneMessages(e.to, k) PROVE Logged(g.event)
    <3>1. PICK j \in k + 1 .. Len(log[e.to]) : g = log[e.to][j].message
      BY <2>2 DEF UndoneMessages, Undone
    <3>2. j \in 1 .. Len(log[e.to])
      BY <1>3, <1>4, <3>1
    <3> QED
      BY <1>1, <3>1, <3>2 DEF Logged
  <2> QED
    BY <2>1, <2>2
<1> QED
  BY <1>6, <1>7

LoggedRoutes == \A g : Logged(g) => Routed(g)

QueueRoutes == \A m \in queue : Routed(m.event)

RoutesInv == ReplayInv /\ RoutingInv /\ QueueRoutes /\ LoggedRoutes

LEMMA PendingIsRouted == ASSUME RoutingInv, NEW e \in pending PROVE Routed(e)
BY DEF RoutingInv, TypeInv, TypeOK, EngineTypeOK, PacketsOnRoute, Directed, Supplied, Routed

(* The routes are kept where only routed events are sent. *)
LEMMA RoutedKeep ==
  ASSUME RoutesInv, ReplayInv', UNCHANGED <<workload, fault>>,
         \A f \in pending' : Routed(f), \A m \in queue' : Routed(m.event),
         \A g : Logged(g)' => Routed(g)
  PROVE  RoutesInv'
<1>1. WellRouted'
  BY DEF RoutesInv, RoutingInv, WellRouted, HasRoute, Walks, IsWalk, SlaveSet
<1>2. PacketsOnRoute' /\ Directed'
  BY DEF Routed, PacketsOnRoute, Directed
<1>3. NoFault' /\ Supplied'
  BY DEF RoutesInv, RoutingInv, NoFault, Supplied, Routed, Running
<1>4. TypeInv'
  BY DEF ReplayInv, TimeWarpInv, KernelType
<1> QED
  BY <1>1, <1>2, <1>3, <1>4 DEF RoutesInv, RoutingInv, QueueRoutes, LoggedRoutes

(* A handler that is given a routed event returns, and so is what it sends. *)
LEMMA HandlerRoutes ==
  ASSUME RoutesInv, pending = {}, NEW e, HasSender(e), Routed(e), Dispatch(e)
  PROVE  UNCHANGED <<workload, fault>> /\ \A f \in pending' : Routed(f)
<1>1. /\ WellRouted /\ Supplied /\ TypeInv /\ TypeOK /\ fault = Running
      /\ e \in Event
  BY DEF RoutesInv, RoutingInv, TypeInv, NoFault, Routed
<1>2. UNCHANGED <<workload, fault>>
  <2>1. UNCHANGED fault
    BY <1>1, RoutedIsRoutable, RoutableReturns
  <2>2. UNCHANGED workload
    BY <1>1, Replays
  <2> QED
    BY <2>1, <2>2
<1>3. \A f \in pending' : f \in Event /\ Sends(e, f)
  <2>1. \A f \in pending' : f \in Event
    BY <1>1, HandlerType DEF HasSender
  <2> QED
    BY <2>1, EveryHandlerTurns DEF Turns
<1> QED
  BY <1>1, <1>2, <1>3, SentIsRouted

LEMMA ExecuteRoutes ==
  ASSUME RoutesInv, ReplayInv', NEW m, Execute(m) PROVE RoutesInv'
<1> DEFINE e == m.event
<1>1. m \in queue /\ HasSender(e) /\ Dispatch(e) /\ TimeWarpInv /\ pending = {}
  BY ExecuteFacts DEF Execute, Settled, RoutesInv, ReplayInv
<1>2. Routed(e)
  BY <1>1 DEF RoutesInv, QueueRoutes
<1>3. UNCHANGED <<workload, fault>> /\ \A f \in pending' : Routed(f)
  BY <1>1, <1>2, HandlerRoutes
<1>4. PICK c \in Nat : /\ queue' = (queue \ {m}) \cup Copies(pending', c)
                       /\ EventsOf(Copies(pending', c)) = pending'
  BY <1>1, ExecuteFacts
<1>5. \A f \in queue' : Routed(f.event)
  BY <1>3, <1>4 DEF EventsOf, RoutesInv, QueueRoutes
<1>6. \A g : Logged(g)' => Routed(g)
  BY <1>1, <1>2, LoggedByExecute DEF RoutesInv, LoggedRoutes
<1> QED
  BY <1>3, <1>5, <1>6, RoutedKeep

LEMMA RollbackRoutes ==
  ASSUME RoutesInv, ReplayInv', NEW m, Straggler(m) \/ AntiMessage(m) PROVE RoutesInv'
<1>1. TimeWarpInv
  BY DEF RoutesInv, ReplayInv
<1>2. PICK k : RolledBack(m.event.to, k)
  BY <1>1, RollbackPlace
<1>3. UNCHANGED <<workload, fault, pending>>
  BY <1>2 DEF RolledBack, Restore, RestoreLink, RestoreSwitch, RestoreMachine, RestoreMaster,
              masterVars
<1>4. /\ \A g : Logged(g)' => Routed(g)
      /\ \A g \in queue' : Routed(g.event)
  BY <1>1, SeenByRollback DEF RoutesInv, QueueRoutes, LoggedRoutes
<1>5. \A f \in pending' : Routed(f)
  BY <1>3, PendingIsRouted DEF RoutesInv
<1> QED
  BY <1>3, <1>4, <1>5, RoutedKeep

LEMMA StartRoutes == ASSUME RoutesInv, ReplayInv', StartScheduler PROVE RoutesInv'
<1>1. SchedulerInit /\ UNCHANGED log
  BY DEF StartScheduler
<1>2. PICK c \in Nat : queue' = queue \cup Copies(pending', c)
  BY DEF StartScheduler, Enqueue
<1>3. TypeInv'
  BY DEF ReplayInv, TimeWarpInv, KernelType
<1>4. RoutingInv'
  BY <1>1, <1>3, SchedulerInitKeeps DEF RoutesInv
<1>5. \A f \in pending' : Routed(f)
  BY <1>4 DEF RoutingInv, TypeInv, TypeOK, EngineTypeOK, PacketsOnRoute, Directed, Supplied, Routed
<1>6. QueueRoutes'
  <2>1. pending' \subseteq Event
    BY <1>3 DEF TypeInv, TypeOK, EngineTypeOK
  <2>2. \A f \in Copies(pending', c) : f.event \in pending'
    BY <2>1, CopiesAreMessages
  <2> QED
    BY <1>2, <1>5, <2>2 DEF RoutesInv, QueueRoutes
<1>7. LoggedRoutes'
  BY <1>1 DEF RoutesInv, LoggedRoutes, Logged
<1> QED
  BY <1>4, <1>6, <1>7 DEF RoutesInv

LEMMA CoastForwardRoutes == ASSUME RoutesInv, ReplayInv', CoastForward PROVE RoutesInv'
<1>1. LogsOK /\ MarksOK
  BY DEF RoutesInv, ReplayInv, TimeWarpInv, KernelType
<1>2. PICK p \in Services :
        ~ UpToDate(p) /\ Dispatch(log[p][replayed[p] + 1].message.event)
  BY DEF CoastForward
<1> DEFINE e == log[p][replayed[p] + 1].message.event
<1>3. replayed[p] + 1 \in 1 .. Len(log[p])
  BY <1>1, <1>2, LogLength DEF MarksOK, UpToDate
<1>4. HasSender(e) /\ Logged(e)
  BY <1>1, <1>3, EntryFields DEF Logged
<1>5. Routed(e) /\ Dispatch(e)
  BY <1>2, <1>4 DEF RoutesInv, LoggedRoutes
<1>6. pending = {} /\ UNCHANGED <<queue, log>>
  BY DEF CoastForward
<1> HIDE DEF e
<1>7. UNCHANGED <<workload, fault>> /\ \A f \in pending' : Routed(f)
  BY <1>4, <1>5, <1>6, HandlerRoutes
<1>8. /\ \A m \in queue' : Routed(m.event)
      /\ \A g : Logged(g)' => Routed(g)
  BY <1>6 DEF Logged, RoutesInv, QueueRoutes, LoggedRoutes
<1> QED
  BY <1>7, <1>8, RoutedKeep

LEMMA QuietRoutes ==
  ASSUME RoutesInv, ReplayInv', UNCHANGED <<workload, fault, queue, log>>,
         pending' = {} \/ UNCHANGED pending
  PROVE  RoutesInv'
<1>1. \A f \in pending' : Routed(f)
  BY PendingIsRouted DEF RoutesInv
<1>2. /\ \A m \in queue' : Routed(m.event)
      /\ \A g : Logged(g)' => Routed(g)
  BY DEF Logged, RoutesInv, QueueRoutes, LoggedRoutes
<1> QED
  BY <1>1, <1>2, RoutedKeep

LEMMA RoutesStart == WellRouted /\ OptimisticInit => RoutesInv
<1> SUFFICES ASSUME WellRouted, OptimisticInit PROVE RoutesInv
  OBVIOUS
<1>1. ReplayInv /\ RoutingInv
  BY KernelStarts, RoutingInit DEF OptimisticInit
<1>2. QueueRoutes
  <2>1. pending \subseteq Event /\ queue = Copies(pending, 0)
    BY <1>1 DEF RoutingInv, TypeInv, TypeOK, EngineTypeOK, OptimisticInit
  <2>2. \A m \in queue : m.event \in pending
    BY <2>1, CopiesAreMessages
  <2> QED
    BY <1>1, <2>2, PendingIsRouted DEF QueueRoutes
<1>3. \A p \in Services : Len(log[p]) = 0
  BY DEF OptimisticInit
<1>4. \A g : ~ Logged(g)
  BY <1>3 DEF Logged
<1> QED
  BY <1>1, <1>2, <1>4 DEF RoutesInv, LoggedRoutes

LEMMA RoutesStep == RoutesInv /\ [OptimisticNext]_optimisticVars => RoutesInv'
<1> SUFFICES ASSUME RoutesInv, [OptimisticNext]_optimisticVars PROVE RoutesInv'
  OBVIOUS
<1>1. ReplayInv'
  BY ReplayStep DEF RoutesInv
<1>2. ASSUME NEW m, Process(m) PROVE RoutesInv'
  BY <1>1, <1>2, ExecuteRoutes, RollbackRoutes DEF Process
<1>3. ASSUME ConfigureSimulator \/ Return \/ Commit \/ UNCHANGED optimisticVars
      PROVE  /\ UNCHANGED <<workload, fault, queue, log>>
             /\ pending' = {} \/ UNCHANGED pending
  BY <1>3 DEF ConfigureSimulator, Return, Commit, optimisticVars, kernelVars, vars, engineVars,
              masterVars
<1>4. CASE ConfigureSimulator \/ Return \/ Commit \/ UNCHANGED optimisticVars
  BY <1>1, <1>3, <1>4, QuietRoutes
<1> QED
  BY <1>1, <1>2, <1>4, StartRoutes, CoastForwardRoutes DEF OptimisticNext, Kernel

(* In a flat grid no event that a thread executes before its time ends the
   process, although it may be one that the sequential mode never sees: it has
   been sent by a handler, on a route, and that is all the next one needs. *)
THEOREM SpeculationNeverDies == WellRouted /\ OptimisticSpec => []NoFault
<1>1. RoutesInv => NoFault
  BY DEF RoutesInv, RoutingInv
<1> QED
  BY <1>1, RoutesStart, RoutesStep, PTL DEF OptimisticSpec
=============================================================================
