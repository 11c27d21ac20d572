-------------------------- MODULE GridTasks_proofs --------------------------
(***************************************************************************)
(* What becomes of the tasks.  No task is duplicated in any grid.  In a    *)
(* flat grid (WellRouted) the scheduler keeps its window full and serves   *)
(* its slaves in turn, each task is processed once and counted once when   *)
(* it returns, and the grid does to its workload what TaskFlow says.  With *)
(* one master the links count the hops of all packets.                     *)
(*                                                                         *)
(* Every step does one of a few things to the tasks; the proofs are about  *)
(* these, whichever service takes the step.  What a counter of a service   *)
(* says is compared with a number of tasks or a sum over the packets.      *)
(***************************************************************************)
EXTENDS Grid_proofs, GridProperties, Numbers_proofs, FiniteSetTheorems

SameCounts ==
  \A k \in Masters : masterMetrics'[k].completedTasks = masterMetrics[k].completedTasks

CountedBy(m) ==
  \A k \in Masters :
    masterMetrics'[k].completedTasks =
      IF k = m THEN masterMetrics[k].completedTasks + 1 ELSE masterMetrics[k].completedTasks

(* Nothing, or a master that starts without a workload. *)
Idles ==
  /\ UNCHANGED <<pending, remaining>> /\ SameCounts
  /\ \/ UNCHANGED inits
     \/ \E m \in inits : inits' = inits \ {m} /\ workload[m] # "assigned"

(* A packet goes on. *)
Moves ==
  \E e \in pending, f \in Event :
    /\ TaskOf(f) = TaskOf(e) /\ f.origin = e.origin /\ f.batch = e.batch
    /\ e.processed => f.processed
    /\ pending' = (pending \ {e}) \cup {f}
    /\ UNCHANGED <<remaining, inits>>
    /\ SameCounts \/ (e.to \in Masters /\ e.origin # e.to)

(* A task is back, and it was the last to be drawn. *)
Ends ==
  \E e \in pending :
    /\ e.origin \in Masters /\ remaining[e.origin] = 0 /\ e.processed
    /\ pending' = pending \ {e}
    /\ UNCHANGED <<remaining, inits>>
    /\ CountedBy(e.origin)

(* A task is back, and the next one is drawn. *)
Draws ==
  \E e \in pending, f \in Event :
    /\ e.origin \in Masters /\ remaining[e.origin] > 0 /\ e.processed
    /\ f.origin = e.origin /\ f.batch = "scheduler" /\ ~ f.processed
    /\ f.tid = Szudzik(remaining[e.origin], e.origin)
    /\ pending' = (pending \ {e}) \cup {f}
    /\ remaining' = [remaining EXCEPT ![e.origin] = @ - 1]
    /\ UNCHANGED inits
    /\ CountedBy(e.origin)

(* A master starts and sends its first tasks. *)
Starts ==
  \E m \in inits :
    /\ workload[m] = "assigned"
    /\ inits' = inits \ {m}
    /\ \E sent \in [0 .. InitialBatch(m) - 1 -> Event] :
         /\ pending' = pending \cup {sent[i] : i \in 0 .. InitialBatch(m) - 1}
         /\ \A i \in 0 .. InitialBatch(m) - 1 :
              /\ sent[i].origin = m /\ sent[i].batch = "scheduler" /\ ~ sent[i].processed
              /\ sent[i].tid = Szudzik(remaining[m] - i, m)
    /\ remaining' = [remaining EXCEPT ![m] = @ - InitialBatch(m)]
    /\ SameCounts

(* The process dies. *)
Dies ==
  /\ fault' # Running
  /\ pending' \subseteq pending
  /\ \A m \in Masters : remaining'[m] <= remaining[m]

-----------------------------------------------------------------------------
LEMMA PendingType ==
  ASSUME TypeInv, NEW e \in pending
  PROVE  e \in Event /\ e.origin \in Masters /\ e.tid \in Nat
BY DEF TypeInv, TypeOK, EngineTypeOK, Event

LEMMA RemainingType ==
  ASSUME TypeInv, NEW m \in Masters
  PROVE  remaining[m] \in Nat /\ remaining \in [Masters -> Nat]
BY DEF TypeInv, TypeOK, MasterTypeOK

LEMMA NotMore == ASSUME NEW a \in Nat, NEW b, b = a \/ b = a - 1 PROVE b <= a
OBVIOUS

LEMMA StopDies ==
  ASSUME TypeInv, NEW e \in pending, NEW why, why # "none", Stop(e, why), UNCHANGED remaining
  PROVE  Dies
<1>1. \A m \in Masters : remaining'[m] <= remaining[m]
  BY RemainingType
<1> QED
  BY <1>1 DEF Stop, Dies, Running

(* A handler that sends on the packet it has got. *)
LEMMA SendOnMoves ==
  ASSUME TypeInv, TypeInv', NEW e \in pending, NEW f, Replace(e, {f}), UNCHANGED remaining,
         f.batch = e.batch, f.tid = e.tid, f.origin = e.origin, e.processed => f.processed,
         SameCounts \/ (e.to \in Masters /\ e.origin # e.to)
  PROVE  Moves
<1>1. f \in pending' /\ pending' = (pending \ {e}) \cup {f} /\ UNCHANGED inits
  BY DEF Replace
<1>2. f \in Event
  BY <1>1 DEF TypeInv, TypeOK, EngineTypeOK
<1>3. TaskOf(f) = TaskOf(e)
  BY DEF TaskOf
<1> QED
  BY <1>1, <1>2, <1>3 DEF Moves

LEMMA SameMetrics == ASSUME UNCHANGED masterVars PROVE UNCHANGED remaining /\ SameCounts
BY DEF masterVars, SameCounts

LEMMA LinkDoes == ASSUME TypeInv, TypeInv', LinkArrival PROVE Moves \/ Dies
<1>1. PICK e \in pending : /\ LinkOnTaskArrival(e.to, e) /\ UNCHANGED masterVars
  BY DEF LinkArrival
<1> DEFINE sent == [e EXCEPT !.to = OtherEnd(e.to, e), !.time = LinkDeparture(e.to, e),
                             !.previous = e.to]
<1>2. /\ sent.batch = e.batch /\ sent.tid = e.tid /\ sent.origin = e.origin
      /\ sent.processed = e.processed
  BY PendingType DEF Event
<1>3. UNCHANGED remaining /\ SameCounts
  BY <1>1, SameMetrics
<1>4. CASE Stop(e, "not an end")
  BY <1>3, <1>4, StopDies
<1>5. CASE Replace(e, {sent})
  <2> HIDE DEF sent
  <2> QED
    BY <1>2, <1>3, <1>5, SendOnMoves
<1> QED
  BY <1>1, <1>4, <1>5 DEF LinkOnTaskArrival

LEMMA ForwardDoes ==
  ASSUME TypeInv, TypeInv', NEW self, NEW e \in pending, Forward(self, e),
         UNCHANGED masterVars
  PROVE  Moves \/ Dies
<1>1. UNCHANGED remaining /\ SameCounts
  BY SameMetrics
<1>2. CASE Stop(e, "no route")
  BY <1>1, <1>2, StopDies
<1>3. CASE HasRoute(e.source, e.destination)
  <2> DEFINE sent(next) == [e EXCEPT !.to = next, !.previous = self, !.offset = NextOffset(e)]
  <2>1. \A next : /\ sent(next).batch = e.batch /\ sent(next).tid = e.tid
                  /\ sent(next).origin = e.origin /\ sent(next).processed = e.processed
    BY PendingType DEF Event
  <2>2. PICK next : Replace(e, {sent(next)})
    BY <1>3 DEF Forward
  <2> HIDE DEF sent
  <2> QED
    BY <1>1, <2>1, <2>2, SendOnMoves
<1> QED
  BY <1>2, <1>3 DEF Forward

LEMMA MachineDoes == ASSUME TypeInv, TypeInv', MachineArrival PROVE Moves \/ Dies
<1>1. PICK e \in pending : MachineOnTaskArrival(e.to, e) /\ UNCHANGED masterVars
  BY DEF MachineArrival
<1>2. CASE Forward(e.to, e)
  BY <1>1, <1>2, ForwardDoes
<1>3. CASE MachineProcess(e.to, e)
  <2> DEFINE sent(c) == [e EXCEPT !.to = e.previous, !.time = CoreDeparture(e.to, c, e),
                                  !.processed = TRUE, !.previous = e.to,
                                  !.offset = AnswerOffset(e.offset), !.forward = FALSE]
  <2>1. \A c : /\ sent(c).batch = e.batch /\ sent(c).tid = e.tid
               /\ sent(c).origin = e.origin /\ sent(c).processed
    BY PendingType DEF Event
  <2>2. PICK c : Replace(e, {sent(c)})
    BY <1>3 DEF MachineProcess
  <2>3. UNCHANGED remaining /\ SameCounts
    BY <1>1, SameMetrics
  <2> HIDE DEF sent
  <2> QED
    BY <2>1, <2>2, <2>3, SendOnMoves
<1> QED
  BY <1>1, <1>2, <1>3 DEF MachineOnTaskArrival, MachineForward

(* A master gives a task to the next slave, or dies. *)
LEMMA SendToNextDoes ==
  ASSUME NEW m, NEW e, NEW t, SendToNext(m, e, t)
  PROVE  \/ Replace(e, {ToSlave(m, Slave(m, 0), e.time, t)})
         \/ \E why \in {"no slave", "no route"} : Stop(e, why)
BY DEF SendToNext

LEMMA ToSlaveKeepsTask ==
  ASSUME NEW t \in Event, NEW m, NEW s, NEW time
  PROVE  LET f == ToSlave(m, s, time, t)
         IN  /\ f.batch = t.batch /\ f.tid = t.tid /\ f.origin = t.origin
             /\ f.processed = t.processed
BY DEF ToSlave, Event

LEMMA MasterDoes ==
  ASSUME TypeInv, TypeInv', MasterArrival PROVE Moves \/ Ends \/ Draws \/ Dies
<1>1. PICK e \in pending : e.to \in Masters /\ MasterOnTaskArrival(e.to, e)
  BY DEF MasterArrival
<1> DEFINE m == e.to
<1>2. /\ e \in Event /\ e.origin \in Masters /\ remaining[m] \in Nat
      /\ remaining \in [Masters -> Nat]
  BY <1>1, PendingType, RemainingType
<1>3. /\ ~ e.processed => SameCounts
      /\ e.processed => CountedBy(m)
  BY <1>1 DEF MasterOnTaskArrival, MasterCount, TypeInv, TypeOK, MasterTypeOK, MasterMetrics,
              SameCounts, CountedBy
<1>4. CASE ~ e.processed /\ SendToNext(m, e, e) /\ UNCHANGED remaining
  <2> DEFINE sent == ToSlave(m, Slave(m, 0), e.time, e)
  <2>1. sent.batch = e.batch /\ sent.tid = e.tid /\ sent.origin = e.origin
    BY <1>2, ToSlaveKeepsTask
  <2>2. Replace(e, {sent}) \/ \E why \in {"no slave", "no route"} : Stop(e, why)
    BY <1>4, SendToNextDoes
  <2> HIDE DEF sent
  <2> QED
    BY <1>3, <1>4, <2>1, <2>2, StopDies, SendOnMoves
<1>5. CASE e.processed /\ e.origin # m /\ Relay(m, e)
  <2> DEFINE sent(next) == [e EXCEPT !.to = next, !.source = e.origin, !.destination = m,
                                     !.previous = m, !.offset = NextOffset(e),
                                     !.forward = FALSE]
  <2>1. \A next : /\ sent(next).batch = e.batch /\ sent(next).tid = e.tid
                  /\ sent(next).origin = e.origin /\ sent(next).processed = e.processed
    BY <1>2 DEF Event
  <2>2. UNCHANGED remaining
    BY <1>5 DEF Relay
  <2>3. Stop(e, "no route") \/ \E next : Replace(e, {sent(next)})
    BY <1>5 DEF Relay
  <2> HIDE DEF sent
  <2> QED
    BY <1>1, <1>5, <2>1, <2>2, <2>3, StopDies, SendOnMoves
<1>6. CASE e.processed /\ e.origin = m /\ OnCompletedTask(m, e)
  <2>1. CASE Stop(e, "bad workload") /\ UNCHANGED remaining
    BY <2>1, StopDies
  <2>2. CASE ~ HasRemainingWorkload(m) /\ Replace(e, {}) /\ UNCHANGED remaining
    <3>1. remaining[m] = 0
      BY <1>2, <2>2 DEF HasRemainingWorkload
    <3> QED
      BY <1>2, <1>3, <1>6, <2>2, <3>1 DEF Ends, Replace
  <2>3. ASSUME NEW size \in TaskSizes, HasRemainingWorkload(m),
               SendToNext(m, e, NewTask("scheduler", m, TaskNumber(m, 0), size)),
               remaining' = [remaining EXCEPT ![m] = @ - 1]
        PROVE  Draws \/ Dies
    <3> DEFINE task == NewTask("scheduler", m, TaskNumber(m, 0), size)
               sent == ToSlave(m, Slave(m, 0), e.time, task)
    <3>1. task \in Event
      BY <1>1, <1>2, NewTaskType DEF TaskNumber
    <3>2. /\ task.batch = "scheduler" /\ task.tid = Szudzik(remaining[m], m)
          /\ task.origin = m /\ ~ task.processed
      BY <1>2 DEF NewTask, TaskNumber
    <3>3. SendToNext(m, e, task)
      BY <2>3
    <3> HIDE DEF task
    <3>4. /\ sent.batch = "scheduler" /\ sent.tid = Szudzik(remaining[m], m)
          /\ sent.origin = m /\ ~ sent.processed
      BY <3>1, <3>2, ToSlaveKeepsTask
    <3>5. Replace(e, {sent}) \/ \E why \in {"no slave", "no route"} : Stop(e, why)
      BY <3>3, SendToNextDoes
    <3> HIDE DEF sent
    <3>6. ASSUME Replace(e, {sent}) PROVE Draws
      <4>1. sent \in Event
        BY <3>6 DEF Replace, TypeInv, TypeOK, EngineTypeOK
      <4>2. remaining[m] > 0
        BY <2>3 DEF HasRemainingWorkload
      <4>3. CountedBy(e.origin) /\ e.origin = m /\ m \in Masters /\ e.processed
        BY <1>1, <1>3, <1>6
      <4>4. pending' = (pending \ {e}) \cup {sent} /\ UNCHANGED inits
        BY <3>6 DEF Replace
      <4> QED
        BY <2>3, <3>4, <4>1, <4>2, <4>3, <4>4 DEF Draws
    <3>7. ASSUME NEW why \in {"no slave", "no route"}, Stop(e, why) PROVE Dies
      <4>1. \A k \in Masters : remaining[k] \in Nat
        BY <1>2
      <4>2. \A k \in Masters : remaining'[k] = IF k = m THEN remaining[k] - 1 ELSE remaining[k]
        BY <1>2, <2>3
      <4>3. ASSUME NEW k \in Masters PROVE remaining'[k] <= remaining[k]
        <5>1. remaining[k] \in Nat /\ (k = m \/ k # m)
          BY <4>1
        <5>2. k = m => remaining'[k] = remaining[k] - 1
          BY <4>2
        <5>3. k # m => remaining'[k] = remaining[k]
          BY <4>2
        <5> QED
          BY <5>1, <5>2, <5>3, NotMore
      <4> QED
        BY <3>7, <4>3 DEF Dies, Stop, Running
    <3> QED
      BY <3>5, <3>6, <3>7
  <2> QED
    BY <1>6, <2>1, <2>2, <2>3 DEF OnCompletedTask
<1> QED
  BY <1>1, <1>4, <1>5, <1>6 DEF MasterOnTaskArrival

LEMMA SchedulerDoes ==
  ASSUME TypeInv, TypeInv', SchedulerInit PROVE Idles \/ Starts \/ Dies
<1>1. PICK m \in Masters : /\ m \in inits /\ inits' = inits \ {m} /\ OnInit(m)
                           /\ UNCHANGED masterMetrics
  BY DEF SchedulerInit, MasterOnSchedulerInit
<1>2. SameCounts
  BY <1>1 DEF SameCounts
<1>3. CASE workload[m] = "null" /\ UNCHANGED <<pending, remaining>>
  BY <1>1, <1>2, <1>3 DEF Idles
<1>4. ASSUME fault' # Running, UNCHANGED <<pending, remaining>> PROVE Dies
  BY <1>4, RemainingType DEF Dies
<1>5. ASSUME workload[m] = "assigned",
             NEW size \in [0 .. InitialBatch(m) - 1 -> TaskSizes],
             pending' = pending \cup
               {ToSlave(m, Slave(m, i), 0,
                        NewTask("scheduler", m, TaskNumber(m, i), size[i])) :
                  i \in 0 .. InitialBatch(m) - 1},
             remaining' = [remaining EXCEPT ![m] = @ - InitialBatch(m)]
      PROVE  Starts
  <2> DEFINE batch == 0 .. InitialBatch(m) - 1
             task(i) == NewTask("scheduler", m, TaskNumber(m, i), size[i])
             sent == [i \in batch |-> ToSlave(m, Slave(m, i), 0, task(i))]
  <2>1. ASSUME NEW i \in batch
        PROVE  /\ sent[i].batch = "scheduler" /\ sent[i].origin = m /\ ~ sent[i].processed
               /\ sent[i].tid = Szudzik(remaining[m] - i, m)
    <3>1. TaskNumber(m, i) \in Nat
      BY RemainingType, InitialBatchType
    <3>2. task(i) \in Event
      BY <3>1, NewTaskType
    <3>3. /\ task(i).batch = "scheduler" /\ task(i).tid = Szudzik(remaining[m] - i, m)
          /\ task(i).origin = m /\ ~ task(i).processed
      BY DEF NewTask, TaskNumber
    <3>4. sent[i] = ToSlave(m, Slave(m, i), 0, task(i))
      OBVIOUS
    <3> HIDE DEF task, sent
    <3> QED
      BY <3>2, <3>3, <3>4, ToSlaveKeepsTask
  <2>2. pending' = pending \cup {sent[i] : i \in batch}
    BY <1>5
  <2>3. DOMAIN sent = batch /\ sent = [i \in batch |-> sent[i]]
    OBVIOUS
  <2> HIDE DEF sent
  <2>4. \A i \in batch : sent[i] \in Event
    BY <2>2 DEF TypeInv, TypeOK, EngineTypeOK
  <2>5. sent \in [batch -> Event]
    BY <2>3, <2>4
  <2> QED
    BY <1>1, <1>2, <1>5, <2>1, <2>2, <2>5 DEF Starts
<1>6. ASSUME NEW why \in {"bad workload", "no route"}, fault' = [why |-> why, at |-> m],
             UNCHANGED <<pending, remaining>>
      PROVE  Dies
  <2>1. fault' # Running
    BY <1>6 DEF Running
  <2> QED
    BY <1>4, <1>6, <2>1
<1> QED
  BY <1>1, <1>3, <1>5, <1>6 DEF OnInit

(* What a step does to the tasks. *)
LEMMA StepDoes ==
  ASSUME TypeInv, [Next]_vars
  PROVE  TypeInv' /\ (Idles \/ Moves \/ Ends \/ Draws \/ Starts \/ Dies)
<1>1. TypeInv'
  BY TypeStep
<1>2. CASE UNCHANGED vars
  <2>1. UNCHANGED <<pending, remaining, inits, masterMetrics>>
    BY <1>2 DEF vars, engineVars, masterVars
  <2>2. Idles
    BY <2>1 DEF Idles, SameCounts
  <2> QED
    BY <1>1, <2>2
<1>3. CASE SwitchArrival
  BY <1>1, <1>3, ForwardDoes DEF SwitchArrival, SwitchOnTaskArrival
<1> QED
  BY <1>1, <1>2, <1>3, LinkDoes, MachineDoes, MasterDoes, SchedulerDoes DEF Next

-----------------------------------------------------------------------------
(* Tasks have numbers, and those drawn from a workload have numbers above what
   is left of it. *)
HasNumber(e, left) ==
  \E n \in Nat : /\ e.tid = Szudzik(n, e.origin)
                 /\ e.batch = "scheduler" => n > left[e.origin]

TasksNumbered == \A e \in pending : HasNumber(e, remaining)

NumberInv == TypeInv /\ TasksNumbered /\ TasksDistinct

LEMMA MasterNat == ASSUME NEW m \in Masters PROVE m \in Nat
BY EngineAssumption DEF Services

(* A task that is still in the workload is in no packet. *)
LEMMA FreshTask ==
  ASSUME NumberInv, NEW m \in Masters, NEW n \in Nat, n <= remaining[m],
         NEW e \in pending, NEW f, f.batch = "scheduler", f.tid = Szudzik(n, m)
  PROVE  TaskOf(e) # TaskOf(f)
<1> SUFFICES ASSUME TaskOf(e) = TaskOf(f) PROVE FALSE
  OBVIOUS
<1>1. e.batch = "scheduler" /\ e.tid = Szudzik(n, m)
  BY DEF TaskOf
<1>2. PICK k \in Nat : e.tid = Szudzik(k, e.origin) /\ k > remaining[e.origin]
  BY <1>1 DEF NumberInv, TasksNumbered, HasNumber
<1>3. e.origin \in Masters /\ e.origin \in Nat /\ m \in Nat
  BY PendingType, MasterNat DEF NumberInv
<1>4. Szudzik(k, e.origin) = Szudzik(n, m)
  BY <1>1, <1>2
<1>5. k = n /\ e.origin = m
  BY <1>3, <1>4, SzudzikInjective
<1>6. remaining[m] \in Nat
  BY RemainingType DEF NumberInv
<1> QED
  BY <1>2, <1>5, <1>6

(* A packet that takes the place of another and carries no task of a third. *)
LEMMA OneForOne ==
  ASSUME TasksDistinct, NEW e \in pending, NEW f, pending' = (pending \ {e}) \cup {f},
         \A g \in pending \ {e} : TaskOf(g) # TaskOf(f)
  PROVE  TasksDistinct'
BY DEF TasksDistinct

(* The numbers of the tasks that stay are still above what is left. *)
LEMMA StillNumbered ==
  ASSUME NumberInv, NEW e \in pending, \A m \in Masters : remaining'[m] <= remaining[m],
         TypeInv'
  PROVE  HasNumber(e, remaining')
<1>1. PICK n \in Nat : /\ e.tid = Szudzik(n, e.origin)
                       /\ e.batch = "scheduler" => n > remaining[e.origin]
  BY DEF NumberInv, TasksNumbered, HasNumber
<1>2. e.origin \in Masters /\ remaining[e.origin] \in Nat
  BY PendingType, RemainingType DEF NumberInv
<1>3. remaining'[e.origin] \in Nat
  BY <1>2 DEF TypeInv, TypeOK, MasterTypeOK
<1>4. remaining'[e.origin] <= remaining[e.origin]
  BY <1>2
<1>5. e.batch = "scheduler" => n > remaining'[e.origin]
  BY <1>1, <1>2, <1>3, <1>4
<1> QED
  BY <1>1, <1>5 DEF HasNumber

LEMMA MovesNumbers ==
  ASSUME NumberInv, TypeInv', Moves PROVE TasksNumbered' /\ TasksDistinct'
<1>1. PICK e \in pending, f \in Event :
        /\ TaskOf(f) = TaskOf(e) /\ f.origin = e.origin
        /\ pending' = (pending \ {e}) \cup {f} /\ UNCHANGED remaining
  BY DEF Moves
<1>2. \A g \in pending \ {e} : TaskOf(g) # TaskOf(f)
  BY <1>1 DEF NumberInv, TasksDistinct
<1>3. TasksDistinct'
  BY <1>1, <1>2, OneForOne DEF NumberInv
<1>4. f.batch = e.batch /\ f.tid = e.tid
  BY <1>1 DEF TaskOf
<1>5. TasksNumbered'
  BY <1>1, <1>4 DEF NumberInv, TasksNumbered, HasNumber
<1> QED
  BY <1>3, <1>5

LEMMA DrawsNumbers ==
  ASSUME NumberInv, TypeInv', Draws PROVE TasksNumbered' /\ TasksDistinct'
<1>1. PICK e \in pending, f \in Event :
        /\ e.origin \in Masters /\ remaining[e.origin] > 0
        /\ f.origin = e.origin /\ f.batch = "scheduler"
        /\ f.tid = Szudzik(remaining[e.origin], e.origin)
        /\ pending' = (pending \ {e}) \cup {f}
        /\ remaining' = [remaining EXCEPT ![e.origin] = @ - 1]
  BY DEF Draws
<1> DEFINE m == e.origin
<1>2. remaining \in [Masters -> Nat] /\ remaining[m] \in Nat /\ remaining[m] <= remaining[m]
  BY <1>1, RemainingType DEF NumberInv
<1>3. TasksDistinct'
  <2>1. \A g \in pending \ {e} : TaskOf(g) # TaskOf(f)
    BY <1>1, <1>2, FreshTask
  <2> QED
    BY <1>1, <2>1, OneForOne DEF NumberInv
<1>4. /\ remaining'[m] = remaining[m] - 1
      /\ \A k \in Masters : k # m => remaining'[k] = remaining[k]
  BY <1>1, <1>2
<1>5. ASSUME NEW k \in Masters PROVE remaining'[k] <= remaining[k]
  <2>1. remaining[k] \in Nat
    BY <1>2
  <2>2. remaining'[k] = remaining[k] \/ remaining'[k] = remaining[k] - 1
    BY <1>4
  <2> QED
    BY <2>1, <2>2, NotMore
<1>6. ASSUME NEW g \in pending'
      PROVE  HasNumber(g, remaining')
  <2>1. CASE g \in pending
    BY <1>5, <2>1, StillNumbered
  <2>2. CASE g = f
    <3>1. remaining[m] > remaining'[m]
      BY <1>2, <1>4
    <3> QED
      BY <1>1, <1>2, <2>2, <3>1 DEF HasNumber
  <2> QED
    BY <1>1, <2>1, <2>2
<1>7. TasksNumbered'
  BY <1>6 DEF TasksNumbered
<1> QED
  BY <1>3, <1>7

LEMMA StartsNumbers ==
  ASSUME NumberInv, TypeInv', Starts PROVE TasksNumbered' /\ TasksDistinct'
<1>1. PICK m \in inits :
        /\ remaining' = [remaining EXCEPT ![m] = @ - InitialBatch(m)]
        /\ \E sent \in [0 .. InitialBatch(m) - 1 -> Event] :
             /\ pending' = pending \cup {sent[i] : i \in 0 .. InitialBatch(m) - 1}
             /\ \A i \in 0 .. InitialBatch(m) - 1 :
                  /\ sent[i].origin = m /\ sent[i].batch = "scheduler"
                  /\ sent[i].tid = Szudzik(remaining[m] - i, m)
  BY DEF Starts
<1> DEFINE batch == 0 .. InitialBatch(m) - 1
<1>2. PICK sent \in [batch -> Event] :
        /\ pending' = pending \cup {sent[i] : i \in batch}
        /\ \A i \in batch : /\ sent[i].origin = m /\ sent[i].batch = "scheduler"
                            /\ sent[i].tid = Szudzik(remaining[m] - i, m)
  BY <1>1
<1>3. /\ m \in Masters /\ m \in Nat
      /\ remaining \in [Masters -> Nat] /\ remaining[m] \in Nat
  <2>1. m \in Masters
    BY DEF NumberInv, TypeInv, TypeOK, EngineTypeOK
  <2> QED
    BY <2>1, RemainingType, MasterNat DEF NumberInv
<1>4. InitialBatch(m) \in Nat /\ remaining[m] - InitialBatch(m) \in Nat
  BY <1>3, InitialBatchType
<1>5. /\ remaining'[m] = remaining[m] - InitialBatch(m)
      /\ \A k \in Masters : k # m => remaining'[k] = remaining[k]
  BY <1>1, <1>3
<1>6. \A i \in batch : /\ remaining[m] - i \in Nat /\ remaining[m] - i <= remaining[m]
                      /\ remaining[m] - i > remaining'[m]
  BY <1>3, <1>4, <1>5
<1>7. ASSUME NEW k \in Masters PROVE remaining'[k] <= remaining[k]
  BY <1>3, <1>4, <1>5
<1>8. TasksNumbered'
  <2> SUFFICES ASSUME NEW g \in pending'
               PROVE  HasNumber(g, remaining')
    BY DEF TasksNumbered
  <2>1. CASE g \in pending
    BY <1>7, <2>1, StillNumbered
  <2>2. ASSUME NEW i \in batch, g = sent[i]
        PROVE  HasNumber(g, remaining')
    BY <1>2, <1>6, <2>2 DEF HasNumber
  <2> QED
    BY <1>2, <2>1, <2>2
<1>9. TasksDistinct'
  <2>1. ASSUME NEW g \in pending, NEW i \in batch PROVE TaskOf(g) # TaskOf(sent[i])
    BY <1>2, <1>3, <1>6, FreshTask
  <2>2. ASSUME NEW i \in batch, NEW j \in batch, TaskOf(sent[i]) = TaskOf(sent[j])
        PROVE  i = j
    <3>1. Szudzik(remaining[m] - i, m) = Szudzik(remaining[m] - j, m)
      BY <1>2, <2>2 DEF TaskOf
    <3>2. remaining[m] - i = remaining[m] - j
      BY <1>3, <1>6, <3>1, SzudzikInjective
    <3>3. i \in Int /\ j \in Int
      BY <1>4
    <3> QED
      BY <1>3, <3>2, <3>3
  <2>3. \A g, h \in pending : TaskOf(g) = TaskOf(h) => g = h
    BY DEF NumberInv, TasksDistinct
  <2> SUFFICES ASSUME NEW g \in pending', NEW h \in pending', TaskOf(g) = TaskOf(h)
               PROVE  g = h
    BY DEF TasksDistinct
  <2> HIDE DEF batch
  <2>4. g \in pending \/ \E i \in batch : g = sent[i]
    BY <1>2
  <2>5. h \in pending \/ \E i \in batch : h = sent[i]
    BY <1>2
  <2> QED
    BY <2>1, <2>2, <2>3, <2>4, <2>5
<1> QED
  BY <1>8, <1>9

LEMMA NumberStep == NumberInv /\ [Next]_vars => NumberInv'
<1> SUFFICES ASSUME NumberInv, [Next]_vars PROVE NumberInv'
  OBVIOUS
<1>1. TypeInv' /\ (Idles \/ Moves \/ Ends \/ Draws \/ Starts \/ Dies)
  BY StepDoes DEF NumberInv
<1>2. ASSUME pending' \subseteq pending, \A m \in Masters : remaining'[m] <= remaining[m]
      PROVE  TasksNumbered' /\ TasksDistinct'
  <2>1. TasksNumbered'
    BY <1>1, <1>2, StillNumbered DEF TasksNumbered
  <2>2. TasksDistinct'
    BY <1>2 DEF NumberInv, TasksDistinct
  <2> QED
    BY <2>1, <2>2
<1>3. UNCHANGED remaining => \A m \in Masters : remaining'[m] <= remaining[m]
  BY RemainingType DEF NumberInv
<1>4. CASE Idles
  BY <1>1, <1>2, <1>3, <1>4 DEF Idles, NumberInv
<1>5. CASE Ends
  BY <1>1, <1>2, <1>3, <1>5 DEF Ends, NumberInv
<1>6. CASE Dies
  BY <1>1, <1>2, <1>6 DEF Dies, NumberInv
<1> QED
  BY <1>1, <1>4, <1>5, <1>6, MovesNumbers, DrawsNumbers, StartsNumbers DEF NumberInv

(* The tasks of the builder, by master and number. *)
LEMMA BuilderTask ==
  ASSUME NEW x \in BuilderNumbers, NEW size, NEW time
  PROVE  LET e == [NewTask("builder", x[1], x[2], size) EXCEPT !.time = time]
         IN  /\ x = <<x[1], x[2]>> /\ x[1] \in Masters /\ x[1] \in Nat /\ x[2] \in Nat
             /\ x[2] \in 0 .. BuilderTasks[x[1]] - 1
             /\ e.batch = "builder" /\ e.tid = Szudzik(x[2], x[1]) /\ e.origin = x[1]
<1>1. PICK m \in Masters : x \in {m} \X (0 .. BuilderTasks[m] - 1)
  BY DEF BuilderNumbers
<1>2. BuilderTasks[m] \in Nat
  BY MasterAssumption
<1>3. /\ x = <<x[1], x[2]>> /\ x[1] = m /\ x[2] \in Nat
      /\ x[2] \in 0 .. BuilderTasks[m] - 1
  BY <1>1, <1>2
<1>4. m \in Nat
  BY MasterNat
<1> QED
  BY <1>3, <1>4 DEF NewTask

LEMMA NumberInit == Init => NumberInv
<1> SUFFICES ASSUME Init PROVE NumberInv
  OBVIOUS
<1>1. PICK time \in [BuilderNumbers -> ArrivalTimes], size \in [Masters -> TaskSizes] :
        pending = {[NewTask("builder", x[1], x[2], size[x[1]]) EXCEPT !.time = time[x]] :
                     x \in BuilderNumbers}
  BY DEF Init, BuilderInit
<1> DEFINE packet(x) == [NewTask("builder", x[1], x[2], size[x[1]]) EXCEPT !.time = time[x]]
<1>2. ASSUME NEW x \in BuilderNumbers
      PROVE  /\ x = <<x[1], x[2]>> /\ x[1] \in Nat /\ x[2] \in Nat
             /\ packet(x).batch = "builder" /\ packet(x).tid = Szudzik(x[2], x[1])
             /\ packet(x).origin = x[1]
  BY BuilderTask
<1>3. pending = {packet(x) : x \in BuilderNumbers}
  BY <1>1
<1> HIDE DEF packet
<1>4. TasksNumbered
  BY <1>2, <1>3 DEF TasksNumbered, HasNumber
<1>5. ASSUME NEW x \in BuilderNumbers, NEW y \in BuilderNumbers,
             TaskOf(packet(x)) = TaskOf(packet(y))
      PROVE  x = y
  <2>1. Szudzik(x[2], x[1]) = Szudzik(y[2], y[1])
    BY <1>2, <1>5 DEF TaskOf
  <2>2. x[2] = y[2] /\ x[1] = y[1]
    BY <1>2, <2>1, SzudzikInjective
  <2> QED
    BY <1>2, <2>2
<1>6. TasksDistinct
  BY <1>3, <1>5 DEF TasksDistinct
<1> QED
  BY <1>4, <1>6, InitType DEF NumberInv

LEMMA NumberInvariant == Spec => []NumberInv
BY NumberInit, NumberStep, PTL DEF Spec

(* In every grid, well configured or not, no task is ever in two packets: the
   handlers duplicate none, and the numbers that the scheduler and the builder
   give to their tasks never make two of them one. *)
THEOREM TasksStayDistinct == Spec => []TasksDistinct
BY NumberInvariant, PTL DEF NumberInv

-----------------------------------------------------------------------------
(* How many packets of each master there are. *)

Of(packets, m) == {e \in packets : e.origin = m}

LEMMA OfFinite ==
  ASSUME NEW packets, IsFiniteSet(packets), NEW m
  PROVE  IsFiniteSet(Of(packets, m)) /\ Cardinality(Of(packets, m)) \in Nat
<1>1. Of(packets, m) \in SUBSET packets
  BY DEF Of
<1>2. IsFiniteSet(Of(packets, m))
  BY <1>1, FS_Subset
<1> QED
  BY <1>2, FS_CardinalityType

LEMMA Removed ==
  ASSUME NEW packets, IsFiniteSet(packets), NEW e \in packets, NEW m
  PROVE  /\ IsFiniteSet(packets \ {e})
         /\ Cardinality(Of(packets \ {e}, m)) =
              IF m = e.origin THEN Cardinality(Of(packets, m)) - 1
                              ELSE Cardinality(Of(packets, m))
         /\ m = e.origin => Cardinality(Of(packets, m)) > 0
<1>1. IsFiniteSet(packets \ {e})
  BY FS_RemoveElement
<1>2. IsFiniteSet(Of(packets, m)) /\ Cardinality(Of(packets, m)) \in Nat
  BY OfFinite
<1>3. CASE m = e.origin
  <2>1. Of(packets \ {e}, m) = Of(packets, m) \ {e} /\ e \in Of(packets, m)
    BY <1>3 DEF Of
  <2>2. Cardinality(Of(packets, m) \ {e}) = Cardinality(Of(packets, m)) - 1
    BY <1>2, <2>1, FS_RemoveElement
  <2>3. Cardinality(Of(packets, m)) # 0
    BY <1>2, <2>1, FS_EmptySet
  <2> QED
    BY <1>1, <1>2, <1>3, <2>1, <2>2, <2>3
<1>4. CASE m # e.origin
  <2>1. Of(packets \ {e}, m) = Of(packets, m)
    BY <1>4 DEF Of
  <2> QED
    BY <1>1, <1>4, <2>1
<1> QED
  BY <1>3, <1>4

LEMMA Added ==
  ASSUME NEW packets, IsFiniteSet(packets), NEW f, f \notin packets, NEW m
  PROVE  /\ IsFiniteSet(packets \cup {f})
         /\ Cardinality(Of(packets \cup {f}, m)) =
              IF m = f.origin THEN Cardinality(Of(packets, m)) + 1
                              ELSE Cardinality(Of(packets, m))
<1>1. IsFiniteSet(packets \cup {f})
  BY FS_AddElement
<1>2. IsFiniteSet(Of(packets, m))
  BY OfFinite
<1>3. CASE m = f.origin
  <2>1. Of(packets \cup {f}, m) = Of(packets, m) \cup {f} /\ f \notin Of(packets, m)
    BY <1>3 DEF Of
  <2>2. Cardinality(Of(packets, m) \cup {f}) = Cardinality(Of(packets, m)) + 1
    BY <1>2, <2>1, FS_AddElement
  <2> QED
    BY <1>1, <1>3, <2>1, <2>2
<1>4. CASE m # f.origin
  <2>1. Of(packets \cup {f}, m) = Of(packets, m)
    BY <1>4 DEF Of
  <2> QED
    BY <1>1, <1>4, <2>1
<1> QED
  BY <1>3, <1>4

(* A packet takes the place of another of the same master. *)
Swapped(packets, e, f) == (packets \ {e}) \cup {f}

LEMMA Exchanged ==
  ASSUME NEW packets, IsFiniteSet(packets), NEW e \in packets,
         NEW f, f.origin = e.origin, f \notin packets \ {e}, NEW m
  PROVE  /\ IsFiniteSet(Swapped(packets, e, f))
         /\ Cardinality(Of(Swapped(packets, e, f), m)) = Cardinality(Of(packets, m))
<1> DEFINE rest == packets \ {e}
<1>1. /\ IsFiniteSet(rest) /\ Cardinality(Of(packets, m)) \in Nat
      /\ Cardinality(Of(rest, m)) = IF m = e.origin THEN Cardinality(Of(packets, m)) - 1
                                                    ELSE Cardinality(Of(packets, m))
  BY Removed, OfFinite
<1>2. f \notin rest
  OBVIOUS
<1> HIDE DEF rest
<1>3. /\ IsFiniteSet(rest \cup {f})
      /\ Cardinality(Of(rest \cup {f}, m)) = IF m = f.origin THEN Cardinality(Of(rest, m)) + 1
                                                            ELSE Cardinality(Of(rest, m))
  BY <1>1, <1>2, Added
<1>4. Cardinality(Of(rest \cup {f}, m)) = Cardinality(Of(packets, m))
  BY <1>1, <1>3
<1> QED
  BY <1>3, <1>4 DEF rest, Swapped

(* A batch of n different packets. *)
Batch(n, sent) == {sent[i] : i \in 0 .. n - 1}

AllDifferent(n, sent) == \A i, j \in 0 .. n - 1 : sent[i] = sent[j] => i = j

LEMMA OneForEach ==
  ASSUME NEW n \in Nat, NEW sent, AllDifferent(n, sent)
  PROVE  IsFiniteSet(Batch(n, sent)) /\ Cardinality(Batch(n, sent)) = n
<1> DEFINE numbers == 0 .. n - 1
           things == {sent[i] : i \in numbers}
           number == [i \in numbers |-> sent[i]]
<1>1. IsFiniteSet(numbers) /\ Cardinality(numbers) = n
  <2>1. 0 \in Int /\ n - 1 \in Int
    OBVIOUS
  <2>2. /\ IsFiniteSet(0 .. n - 1)
        /\ Cardinality(0 .. n - 1) = IF 0 > n - 1 THEN 0 ELSE n - 1 - 0 + 1
    BY <2>1, FS_Interval
  <2> QED
    BY <2>2
<1>2. number \in Bijection(numbers, things)
  BY DEF AllDifferent, Bijection, Injection, IsInjective, Surjection
<1>3. ExistsBijection(numbers, things)
  BY <1>2 DEF ExistsBijection
<1> HIDE DEF numbers, things, number
<1>4. IsFiniteSet(things) /\ Cardinality(things) = Cardinality(numbers)
  BY <1>1, <1>3, FS_Bijection
<1> QED
  BY <1>1, <1>4 DEF things, numbers, Batch

(* A batch of new packets of one master. *)
WithAll(packets, n, sent) == packets \cup Batch(n, sent)

AreNew(packets, n, sent, o) ==
  /\ \A i \in 0 .. n - 1 : sent[i] \notin packets /\ sent[i].origin = o
  /\ AllDifferent(n, sent)

LEMMA AllAdded ==
  ASSUME NEW packets, IsFiniteSet(packets), NEW n \in Nat, NEW o, NEW sent,
         AreNew(packets, n, sent, o), NEW m
  PROVE  /\ IsFiniteSet(WithAll(packets, n, sent))
         /\ Cardinality(Of(WithAll(packets, n, sent), m)) =
              IF m = o THEN Cardinality(Of(packets, m)) + n
                       ELSE Cardinality(Of(packets, m))
<1> DEFINE new == Batch(n, sent)
<1>1. IsFiniteSet(new) /\ Cardinality(new) = n
  BY OneForEach DEF AreNew
<1>2. \A f \in new : f \notin packets /\ f.origin = o
  BY DEF AreNew, Batch
<1> HIDE DEF new, WithAll
<1>3. IsFiniteSet(packets \cup new)
  BY <1>1, FS_Union
<1>4. IsFiniteSet(Of(packets, m)) /\ Cardinality(Of(packets, m)) \in Nat
  BY OfFinite
<1>5. CASE m = o
  <2>1. Of(packets \cup new, m) = Of(packets, m) \cup new /\ Of(packets, m) \cap new = {}
    BY <1>2, <1>5 DEF Of
  <2>2. Cardinality(Of(packets, m) \cup new)
          = Cardinality(Of(packets, m)) + Cardinality(new) - Cardinality(Of(packets, m) \cap new)
    BY <1>1, <1>4, FS_Union
  <2>3. Cardinality({}) = 0
    BY FS_EmptySet
  <2>4. Cardinality(Of(packets \cup new, m)) = Cardinality(Of(packets, m)) + n - 0
    BY <1>1, <2>1, <2>2, <2>3, Zenon
  <2>5. Cardinality(Of(packets \cup new, m)) = Cardinality(Of(packets, m)) + n
    BY <1>4, <2>4
  <2> QED
    BY <1>3, <1>5, <2>5 DEF new, WithAll
<1>6. CASE m # o
  <2>1. Of(packets \cup new, m) = Of(packets, m)
    BY <1>2, <1>6 DEF Of
  <2> QED
    BY <1>3, <1>6, <2>1 DEF new, WithAll
<1> QED
  BY <1>5, <1>6

-----------------------------------------------------------------------------
(* The counts of a flat grid. *)

Flying(m) == Cardinality(InFlight(m))

(* A master has no tasks in flight before it starts, but those of the builder. *)
NoneBeforeStart == \A m \in inits : BuilderTasks[m] = 0 => Flying(m) = 0

ReturnsCounted ==
  \A m \in Masters : masterMetrics[m].completedTasks = Generated(m) - Flying(m)

CountInv ==
  /\ RoutingInv /\ NumberInv /\ IsFiniteSet(pending)
  /\ NoneBeforeStart /\ WindowFull /\ ReturnsCounted

LEMMA CountTypes ==
  ASSUME CountInv, NEW m \in Masters
  PROVE  /\ Flying(m) \in Nat /\ remaining[m] \in Nat /\ remaining \in [Masters -> Nat]
         /\ masterMetrics[m].completedTasks \in Nat /\ BuilderTasks[m] \in Nat
         /\ Len(Slaves[m]) \in Nat
         /\ m \in DOMAIN WorkloadSize => WorkloadSize[m] \in Nat
<1>1. Flying(m) \in Nat
  BY OfFinite DEF CountInv, Flying, InFlight, Of
<1>2. remaining[m] \in Nat /\ remaining \in [Masters -> Nat]
  BY RemainingType DEF CountInv, RoutingInv
<1>3. masterMetrics[m].completedTasks \in Nat
  BY DEF CountInv, RoutingInv, TypeInv, TypeOK, MasterTypeOK, MasterMetrics
<1> QED
  BY <1>1, <1>2, <1>3, MasterAssumption

(* The count of one master after a step, and what it means for each of the
   three properties. *)
CountStep(m) ==
  /\ m \in inits' /\ BuilderTasks[m] = 0 => Flying(m)' = 0
  /\ m \in DOMAIN WorkloadSize \ inits' /\ BuilderTasks[m] = 0 =>
       /\ Flying(m)' <= Len(Slaves[m])
       /\ remaining'[m] > 0 => Flying(m)' = Len(Slaves[m])
  /\ masterMetrics'[m].completedTasks = Generated(m)' - Flying(m)'

LEMMA CountsKept ==
  ASSUME CountInv, RoutingInv', NumberInv', IsFiniteSet(pending'), inits' \subseteq inits,
         \A m \in Masters : CountStep(m)
  PROVE  CountInv'
<1>1. inits' \subseteq Masters
  BY DEF RoutingInv, TypeInv, TypeOK, EngineTypeOK
<1>2. NoneBeforeStart'
  BY <1>1 DEF CountInv, NoneBeforeStart, CountStep
<1>3. WindowFull'
  BY MasterAssumption DEF WindowFull, CountStep, Flying
<1>4. ReturnsCounted'
  BY DEF ReturnsCounted, CountStep
<1> QED
  BY <1>2, <1>3, <1>4 DEF CountInv

(* A master whose counts a step does not change. *)
LEMMA SameCount ==
  ASSUME CountInv, NEW m \in Masters, Flying(m)' = Flying(m), remaining'[m] = remaining[m],
         m \in inits' <=> m \in inits,
         masterMetrics'[m].completedTasks = masterMetrics[m].completedTasks
  PROVE  CountStep(m)
<1>1. Generated(m)' = Generated(m)
  BY DEF Generated
<1>2. masterMetrics[m].completedTasks = Generated(m) - Flying(m)
  BY DEF CountInv, ReturnsCounted
<1>3. m \in DOMAIN WorkloadSize \ inits /\ BuilderTasks[m] = 0 =>
        /\ Flying(m) <= Len(Slaves[m])
        /\ remaining[m] > 0 => Flying(m) = Len(Slaves[m])
  BY DEF CountInv, WindowFull, Flying
<1>4. m \in inits /\ BuilderTasks[m] = 0 => Flying(m) = 0
  BY DEF CountInv, NoneBeforeStart
<1> QED
  BY <1>1, <1>2, <1>3, <1>4 DEF CountStep

(* The count of the master of a completed task: one less in flight, one more
   drawn, or nothing left to draw. *)
LEMMA MovesCounts ==
  ASSUME CountInv, RoutingInv', NumberInv', Moves PROVE CountInv'
<1>1. PICK e \in pending, f \in Event :
        /\ TaskOf(f) = TaskOf(e) /\ f.origin = e.origin
        /\ pending' = (pending \ {e}) \cup {f}
        /\ UNCHANGED <<remaining, inits>>
        /\ SameCounts \/ (e.to \in Masters /\ e.origin # e.to)
  BY DEF Moves
<1>2. SameCounts
  BY <1>1, AtOwnMaster DEF CountInv
<1>3. f \notin pending \ {e} /\ IsFiniteSet(pending)
  BY <1>1 DEF CountInv, NumberInv, TasksDistinct
<1>4. IsFiniteSet(pending') /\ pending' = Swapped(pending, e, f)
  BY <1>1, <1>3, Exchanged DEF Swapped
<1>5. ASSUME NEW m \in Masters PROVE CountStep(m)
  <2>1. Flying(m)' = Flying(m)
    <3>1. f.origin = e.origin /\ f \notin pending \ {e} /\ IsFiniteSet(pending)
      BY <1>1, <1>3
    <3>2. Cardinality(Of(Swapped(pending, e, f), m)) = Cardinality(Of(pending, m))
      BY <3>1, Exchanged
    <3> QED
      BY <1>4, <3>2 DEF Flying, InFlight, Of
  <2> QED
    BY <1>1, <1>2, <2>1, SameCount DEF SameCounts
<1> QED
  BY <1>1, <1>4, <1>5, CountsKept

LEMMA EndsCounts ==
  ASSUME CountInv, RoutingInv', NumberInv', Ends PROVE CountInv'
<1>1. PICK e \in pending :
        /\ e.origin \in Masters /\ remaining[e.origin] = 0
        /\ pending' = pending \ {e}
        /\ UNCHANGED <<remaining, inits>>
        /\ CountedBy(e.origin)
  BY DEF Ends
<1>2. IsFiniteSet(pending)
  BY DEF CountInv
<1>3. IsFiniteSet(pending')
  BY <1>1, <1>2, Removed
<1>4. ASSUME NEW m \in Masters PROVE CountStep(m)
  <2>1. /\ Flying(m)' = IF m = e.origin THEN Flying(m) - 1 ELSE Flying(m)
        /\ m = e.origin => Flying(m) > 0
    <3>1. /\ Cardinality(Of(pending', m)) = IF m = e.origin THEN Cardinality(Of(pending, m)) - 1
                                                          ELSE Cardinality(Of(pending, m))
          /\ m = e.origin => Cardinality(Of(pending, m)) > 0
      BY <1>1, <1>2, Removed
    <3> QED
      BY <3>1 DEF Flying, InFlight, Of
  <2>2. masterMetrics'[m].completedTasks =
          IF m = e.origin THEN masterMetrics[m].completedTasks + 1
                          ELSE masterMetrics[m].completedTasks
    BY <1>1 DEF CountedBy
  <2>3. CASE m # e.origin
    BY <1>1, <2>1, <2>2, <2>3, SameCount
  <2>4. CASE m = e.origin
    <3>1. e.origin \in DOMAIN WorkloadSize
      BY DEF CountInv, RoutingInv, Supplied
    <3>2. /\ Flying(m) \in Nat /\ BuilderTasks[m] \in Nat /\ WorkloadSize[m] \in Nat
          /\ Len(Slaves[m]) \in Nat
      BY <2>4, <3>1, CountTypes
    <3>3. Generated(m)' = Generated(m) /\ Generated(m) \in Nat /\ remaining'[m] = 0
      BY <1>1, <2>4, <3>1, <3>2 DEF Generated
    <3>4. masterMetrics[m].completedTasks = Generated(m) - Flying(m)
      BY DEF CountInv, ReturnsCounted
    <3>5. masterMetrics'[m].completedTasks = Generated(m)' - Flying(m)'
      BY <2>1, <2>2, <2>4, <3>2, <3>3, <3>4
    <3>6. ~ (m \in DOMAIN WorkloadSize \ inits' /\ BuilderTasks[m] = 0)
          \/ Flying(m)' <= Len(Slaves[m])
      <4>1. m \in DOMAIN WorkloadSize \ inits /\ BuilderTasks[m] = 0
              => Flying(m) <= Len(Slaves[m])
        BY DEF CountInv, WindowFull, Flying
      <4> QED
        BY <1>1, <2>1, <2>4, <3>2, <4>1
    <3>7. ~ (m \in inits' /\ BuilderTasks[m] = 0)
      BY <1>1, <2>1, <2>4, <3>2 DEF CountInv, NoneBeforeStart
    <3> QED
      BY <3>3, <3>5, <3>6, <3>7 DEF CountStep
  <2> QED
    BY <2>3, <2>4
<1> QED
  BY <1>1, <1>3, <1>4, CountsKept

LEMMA DrawsCounts ==
  ASSUME CountInv, RoutingInv', NumberInv', Draws PROVE CountInv'
<1>1. PICK e \in pending, f \in Event :
        /\ e.origin \in Masters /\ remaining[e.origin] > 0
        /\ f.origin = e.origin /\ f.batch = "scheduler"
        /\ f.tid = Szudzik(remaining[e.origin], e.origin)
        /\ pending' = (pending \ {e}) \cup {f}
        /\ remaining' = [remaining EXCEPT ![e.origin] = @ - 1]
        /\ UNCHANGED inits
        /\ CountedBy(e.origin)
  BY DEF Draws
<1>2. e.origin \in DOMAIN WorkloadSize
  BY DEF CountInv, RoutingInv, Supplied
<1>3. f \notin pending /\ IsFiniteSet(pending)
  <2>1. /\ NumberInv /\ remaining[e.origin] \in Nat
        /\ remaining[e.origin] <= remaining[e.origin]
    BY <1>1, CountTypes DEF CountInv
  <2>2. \A g \in pending : TaskOf(g) # TaskOf(f)
    BY <1>1, <2>1, FreshTask
  <2> QED
    BY <2>2 DEF CountInv
<1>4. IsFiniteSet(pending') /\ pending' = Swapped(pending, e, f)
  BY <1>1, <1>3, Exchanged DEF Swapped
<1>5. ASSUME NEW m \in Masters PROVE CountStep(m)
  <2>1. Flying(m)' = Flying(m)
    <3>1. f.origin = e.origin /\ f \notin pending \ {e} /\ IsFiniteSet(pending)
      BY <1>1, <1>3
    <3>2. Cardinality(Of(Swapped(pending, e, f), m)) = Cardinality(Of(pending, m))
      BY <3>1, Exchanged
    <3> QED
      BY <1>4, <3>2 DEF Flying, InFlight, Of
  <2>2. remaining \in [Masters -> Nat]
    BY CountTypes
  <2>3. masterMetrics'[m].completedTasks =
          IF m = e.origin THEN masterMetrics[m].completedTasks + 1
                          ELSE masterMetrics[m].completedTasks
    BY <1>1 DEF CountedBy
  <2>4. CASE m # e.origin
    <3>1. remaining'[m] = remaining[m]
      BY <1>1, <2>2, <2>4
    <3> QED
      BY <1>1, <2>1, <2>3, <2>4, <3>1, SameCount
  <2>5. CASE m = e.origin
    <3>1. remaining'[m] = remaining[m] - 1
      BY <1>1, <2>2, <2>5
    <3>2. /\ Flying(m) \in Nat /\ BuilderTasks[m] \in Nat /\ WorkloadSize[m] \in Nat
          /\ remaining[m] \in Nat /\ masterMetrics[m].completedTasks \in Nat
          /\ Len(Slaves[m]) \in Nat
      BY <1>2, <2>5, CountTypes
    <3>3. /\ Generated(m) = BuilderTasks[m] + (WorkloadSize[m] - remaining[m])
          /\ Generated(m)' = BuilderTasks[m] + (WorkloadSize[m] - remaining'[m])
      BY <1>2, <2>5 DEF Generated
    <3>4. masterMetrics[m].completedTasks = Generated(m) - Flying(m)
      BY DEF CountInv, ReturnsCounted
    <3>5. masterMetrics'[m].completedTasks = Generated(m)' - Flying(m)'
      BY <2>1, <2>3, <2>5, <3>1, <3>2, <3>3, <3>4
    <3>6. m \in DOMAIN WorkloadSize \ inits /\ BuilderTasks[m] = 0
            => Flying(m) = Len(Slaves[m])
      BY <1>1, <2>5 DEF CountInv, WindowFull, Flying
    <3>7. m \in inits /\ BuilderTasks[m] = 0 => Flying(m) = 0
      BY DEF CountInv, NoneBeforeStart
    <3> QED
      BY <1>1, <2>1, <3>2, <3>5, <3>6, <3>7 DEF CountStep
  <2> QED
    BY <2>4, <2>5
<1> QED
  BY <1>1, <1>4, <1>5, CountsKept

(* The first tasks of a master are new. *)
LEMMA BatchIsNew ==
  ASSUME NumberInv, NEW m \in Masters, NEW sent,
         \A i \in 0 .. InitialBatch(m) - 1 :
            /\ sent[i].origin = m /\ sent[i].batch = "scheduler"
            /\ sent[i].tid = Szudzik(remaining[m] - i, m)
  PROVE  AreNew(pending, InitialBatch(m), sent, m)
<1> DEFINE n == InitialBatch(m)
           batch == 0 .. n - 1
<1>1. remaining[m] \in Nat /\ n \in Nat /\ n <= remaining[m]
  <2>1. remaining[m] \in Nat /\ Len(Slaves[m]) \in Nat
    BY RemainingType, MasterAssumption DEF NumberInv
  <2> QED
    BY <2>1 DEF InitialBatch
<1> HIDE DEF n
<1>2. \A i \in batch : remaining[m] - i \in Nat /\ remaining[m] - i <= remaining[m]
  BY <1>1
<1>3. \A i \in batch : /\ sent[i].origin = m /\ sent[i].batch = "scheduler"
                       /\ sent[i].tid = Szudzik(remaining[m] - i, m)
  BY DEF n
<1>4. \A i \in batch : sent[i] \notin pending
  <2>1. \A i \in batch : \A g \in pending : TaskOf(g) # TaskOf(sent[i])
    BY <1>2, <1>3, FreshTask
  <2> QED
    BY <2>1
<1>5. \A i, j \in batch : sent[i] = sent[j] => i = j
  <2> SUFFICES ASSUME NEW i \in batch, NEW j \in batch, sent[i] = sent[j] PROVE i = j
    OBVIOUS
  <2>1. Szudzik(remaining[m] - i, m) = Szudzik(remaining[m] - j, m)
    BY <1>3
  <2>2. remaining[m] - i = remaining[m] - j
    BY <1>2, <2>1, MasterNat, SzudzikInjective
  <2> QED
    BY <1>1, <2>2
<1>6. AreNew(pending, n, sent, m)
  BY <1>3, <1>4, <1>5 DEF AreNew, AllDifferent
<1> QED
  BY <1>6 DEF n

LEMMA StartsCounts ==
  ASSUME CountInv, RoutingInv', NumberInv', Starts PROVE CountInv'
<1>1. PICK m \in inits :
        /\ workload[m] = "assigned"
        /\ inits' = inits \ {m}
        /\ \E sent \in [0 .. InitialBatch(m) - 1 -> Event] :
             /\ pending' = pending \cup {sent[i] : i \in 0 .. InitialBatch(m) - 1}
             /\ \A i \in 0 .. InitialBatch(m) - 1 :
                  /\ sent[i].origin = m /\ sent[i].batch = "scheduler"
                  /\ sent[i].tid = Szudzik(remaining[m] - i, m)
        /\ remaining' = [remaining EXCEPT ![m] = @ - InitialBatch(m)]
        /\ SameCounts
  BY DEF Starts
<1> DEFINE n == InitialBatch(m)
           batch == 0 .. n - 1
<1>2. PICK sent \in [batch -> Event] :
        /\ pending' = pending \cup {sent[i] : i \in batch}
        /\ \A i \in batch : /\ sent[i].origin = m /\ sent[i].batch = "scheduler"
                            /\ sent[i].tid = Szudzik(remaining[m] - i, m)
  BY <1>1
<1>3. m \in Masters /\ m \in DOMAIN WorkloadSize
  <2>1. m \in Masters
    BY DEF CountInv, RoutingInv, TypeInv, TypeOK, EngineTypeOK
  <2> QED
    BY <1>1, <2>1 DEF CountInv, RoutingInv, Supplied
<1>4. /\ Flying(m) \in Nat /\ remaining[m] \in Nat /\ remaining \in [Masters -> Nat]
      /\ BuilderTasks[m] \in Nat /\ Len(Slaves[m]) \in Nat /\ WorkloadSize[m] \in Nat
  BY <1>3, CountTypes
<1>5. /\ n \in Nat /\ remaining[m] - n \in Nat /\ n <= Len(Slaves[m])
      /\ n < Len(Slaves[m]) => n = remaining[m]
  BY <1>4 DEF InitialBatch
<1>6. AreNew(pending, n, sent, m)
  BY <1>2, <1>3, BatchIsNew DEF CountInv
<1>7. IsFiniteSet(pending)
  BY DEF CountInv
<1>8. ASSUME NEW k
       PROVE  /\ IsFiniteSet(pending')
              /\ Flying(k)' = IF k = m THEN Flying(k) + n ELSE Flying(k)
  <2>1. AreNew(pending, n, sent, m) /\ pending' = WithAll(pending, n, sent)
    BY <1>2, <1>6 DEF WithAll, Batch
  <2>2. n \in Nat
    BY <1>5
  <2> HIDE DEF n
  <2>3. /\ IsFiniteSet(WithAll(pending, n, sent))
        /\ Cardinality(Of(WithAll(pending, n, sent), k)) =
             IF k = m THEN Cardinality(Of(pending, k)) + n
                      ELSE Cardinality(Of(pending, k))
    BY <1>7, <2>1, <2>2, AllAdded
  <2> QED
    BY <2>1, <2>3 DEF Flying, InFlight, Of
<1>9. ASSUME NEW k \in Masters PROVE CountStep(k)
  <2>1. masterMetrics'[k].completedTasks = masterMetrics[k].completedTasks
    BY <1>1 DEF SameCounts
  <2>2. CASE k # m
    <3>1. remaining'[k] = remaining[k]
      BY <1>1, <1>4, <2>2
    <3>2. Flying(k)' = Flying(k) /\ (k \in inits' <=> k \in inits)
      BY <1>1, <1>8, <2>2
    <3> QED
      BY <2>1, <3>1, <3>2, SameCount
  <2>3. CASE k = m
    <3>1. remaining'[m] = remaining[m] - n /\ Flying(m)' = Flying(m) + n /\ m \notin inits'
      BY <1>1, <1>3, <1>4, <1>8
    <3>2. /\ Generated(m) = BuilderTasks[m] + (WorkloadSize[m] - remaining[m])
          /\ Generated(m)' = BuilderTasks[m] + (WorkloadSize[m] - remaining'[m])
      BY <1>3 DEF Generated
    <3>3. masterMetrics[m].completedTasks = Generated(m) - Flying(m)
      BY <1>3 DEF CountInv, ReturnsCounted
    <3>4. masterMetrics'[m].completedTasks = Generated(m)' - Flying(m)'
      <4> HIDE DEF n
      <4> QED
        BY <1>4, <1>5, <2>1, <2>3, <3>1, <3>2, <3>3
    <3>5. BuilderTasks[m] = 0 => Flying(m) = 0
      BY DEF CountInv, NoneBeforeStart
    <3>6. BuilderTasks[m] = 0 =>
            /\ Flying(m)' <= Len(Slaves[m])
            /\ remaining'[m] > 0 => Flying(m)' = Len(Slaves[m])
      <4> HIDE DEF n
      <4> QED
        BY <1>4, <1>5, <3>1, <3>5
    <3> QED
      BY <2>3, <3>1, <3>4, <3>6 DEF CountStep
  <2> QED
    BY <2>2, <2>3
<1> QED
  BY <1>1, <1>8, <1>9, CountsKept

LEMMA IdlesCounts ==
  ASSUME CountInv, RoutingInv', NumberInv', Idles PROVE CountInv'
<1>1. /\ UNCHANGED <<pending, remaining>> /\ SameCounts
      /\ inits' \subseteq inits
      /\ \A m \in Masters : m \in inits \ inits' => workload[m] # "assigned"
  BY DEF Idles
<1>2. IsFiniteSet(pending')
  BY <1>1 DEF CountInv
<1>3. ASSUME NEW m \in Masters PROVE CountStep(m)
  <2>1. /\ Flying(m)' = Flying(m) /\ remaining'[m] = remaining[m]
        /\ masterMetrics'[m].completedTasks = masterMetrics[m].completedTasks
    BY <1>1 DEF Flying, InFlight, SameCounts
  <2>2. CASE m \in inits' <=> m \in inits
    BY <2>1, <2>2, SameCount
  <2>3. CASE m \in inits \ inits'
    <3>1. m \notin DOMAIN WorkloadSize
      BY <1>1, <2>3 DEF CountInv, RoutingInv, Supplied
    <3>2. Generated(m)' = Generated(m)
      BY <2>1 DEF Generated
    <3>3. masterMetrics[m].completedTasks = Generated(m) - Flying(m)
      BY DEF CountInv, ReturnsCounted
    <3> QED
      BY <2>1, <2>3, <3>1, <3>2, <3>3 DEF CountStep
  <2> QED
    BY <1>1, <2>2, <2>3
<1> QED
  BY <1>1, <1>2, <1>3, CountsKept

LEMMA CountInvStep == CountInv /\ [Next]_vars => CountInv'
<1> SUFFICES ASSUME CountInv, [Next]_vars PROVE CountInv'
  OBVIOUS
<1>1. RoutingInv' /\ NumberInv' /\ NoFault'
  BY RoutingStep, NumberStep DEF CountInv, RoutingInv
<1>2. Idles \/ Moves \/ Ends \/ Draws \/ Starts \/ Dies
  BY StepDoes DEF CountInv, RoutingInv
<1>3. ~ Dies
  BY <1>1 DEF Dies, NoFault, Running
<1> QED
  BY <1>1, <1>2, <1>3, IdlesCounts, MovesCounts, EndsCounts, DrawsCounts, StartsCounts

-----------------------------------------------------------------------------
(* The tasks of the builder are all there are at the start. *)
LEMMA InitialCounts ==
  ASSUME Init
  PROVE  /\ IsFiniteSet(pending)
         /\ \A m \in Masters : Flying(m) = BuilderTasks[m]
<1>1. PICK time \in [BuilderNumbers -> ArrivalTimes], size \in [Masters -> TaskSizes] :
        pending = {[NewTask("builder", x[1], x[2], size[x[1]]) EXCEPT !.time = time[x]] :
                     x \in BuilderNumbers}
  BY DEF Init, BuilderInit
<1> DEFINE packet(m, i) == [NewTask("builder", m, i, size[m]) EXCEPT !.time = time[<<m, i>>]]
<1>2. ASSUME NEW m \in Masters, NEW i \in 0 .. BuilderTasks[m] - 1
      PROVE  /\ <<m, i>> \in BuilderNumbers /\ packet(m, i) \in pending
             /\ packet(m, i).origin = m /\ packet(m, i).tid = Szudzik(i, m) /\ i \in Nat
  <2>1. <<m, i>> \in BuilderNumbers
    BY DEF BuilderNumbers
  <2>2. /\ packet(m, i).origin = m /\ packet(m, i).tid = Szudzik(i, m)
    BY DEF NewTask
  <2>3. packet(m, i) \in pending
    BY <1>1, <2>1
  <2>4. i \in Nat
    BY MasterAssumption
  <2> QED
    BY <2>1, <2>2, <2>3, <2>4
<1>3. \A e \in pending : \E m \in Masters : \E i \in 0 .. BuilderTasks[m] - 1 :
        e = packet(m, i)
  <2> SUFFICES ASSUME NEW e \in pending
               PROVE  \E m \in Masters : \E i \in 0 .. BuilderTasks[m] - 1 : e = packet(m, i)
    OBVIOUS
  <2>1. PICK x \in BuilderNumbers :
          e = [NewTask("builder", x[1], x[2], size[x[1]]) EXCEPT !.time = time[x]]
    BY <1>1
  <2>2. x = <<x[1], x[2]>> /\ x[1] \in Masters /\ x[2] \in 0 .. BuilderTasks[x[1]] - 1
    BY BuilderTask
  <2>3. e = packet(x[1], x[2])
    BY <2>1, <2>2
  <2> QED
    BY <2>2, <2>3
<1> HIDE DEF packet
<1>4. ASSUME NEW m \in Masters
      PROVE  IsFiniteSet(InFlight(m)) /\ Flying(m) = BuilderTasks[m]
  <2> DEFINE n == BuilderTasks[m]
             sent == [i \in 0 .. n - 1 |-> packet(m, i)]
  <2>1. n \in Nat
    BY MasterAssumption
  <2>2. \A i \in 0 .. n - 1 : sent[i] = packet(m, i)
    OBVIOUS
  <2> HIDE DEF sent
  <2>3. InFlight(m) = Batch(n, sent)
    <3>1. ASSUME NEW e \in InFlight(m) PROVE e \in Batch(n, sent)
      <4>1. e \in pending /\ e.origin = m
        BY DEF InFlight
      <4>2. PICK o \in Masters : \E i \in 0 .. BuilderTasks[o] - 1 : e = packet(o, i)
        BY <1>3, <4>1
      <4>3. o = m
        BY <1>2, <4>1, <4>2
      <4> QED
        BY <2>2, <4>2, <4>3 DEF Batch
    <3>2. ASSUME NEW e \in Batch(n, sent) PROVE e \in InFlight(m)
      <4>1. PICK i \in 0 .. BuilderTasks[m] - 1 : e = packet(m, i)
        BY <2>2 DEF Batch
      <4> QED
        BY <1>2, <4>1 DEF InFlight
    <3> QED
      BY <3>1, <3>2
  <2>4. ASSUME NEW i \in 0 .. n - 1, NEW j \in 0 .. n - 1, sent[i] = sent[j] PROVE i = j
    <3>1. packet(m, i).tid = Szudzik(i, m) /\ i \in Nat
      BY <1>2
    <3>2. packet(m, j).tid = Szudzik(j, m) /\ j \in Nat
      BY <1>2
    <3>3. packet(m, i) = packet(m, j) /\ m \in Nat
      BY <2>2, <2>4, MasterNat
    <3>4. Szudzik(i, m) = Szudzik(j, m)
      BY <3>1, <3>2, <3>3
    <3> QED
      BY <3>1, <3>2, <3>3, <3>4, SzudzikInjective
  <2>5. AllDifferent(n, sent)
    BY <2>4 DEF AllDifferent
  <2> HIDE DEF n
  <2>6. IsFiniteSet(Batch(n, sent)) /\ Cardinality(Batch(n, sent)) = n
    BY <2>1, <2>5, OneForEach
  <2> QED
    BY <2>3, <2>6 DEF Flying, n
<1>5. IsFiniteSet(pending)
  <2> DEFINE all == {InFlight(m) : m \in Masters}
             of == [m \in Masters |-> InFlight(m)]
  <2>1. IsFiniteSet(Masters)
    <3>1. IsFiniteSet(Services) /\ Masters \in SUBSET Services
      BY EngineAssumption DEF Services
    <3> QED
      BY <3>1, FS_Subset
  <2>2. of \in Surjection(Masters, all)
    BY DEF Surjection
  <2>3. pending = UNION all
    <3>1. ASSUME NEW e \in pending PROVE \E m \in Masters : e \in InFlight(m)
      <4>1. PICK m \in Masters : \E i \in 0 .. BuilderTasks[m] - 1 : e = packet(m, i)
        BY <1>3
      <4>2. e.origin = m
        BY <1>2, <4>1
      <4> QED
        BY <4>2 DEF InFlight
    <3> QED
      BY <3>1 DEF InFlight
  <2>4. \A packets \in all : IsFiniteSet(packets)
    BY <1>4
  <2> HIDE DEF all, of
  <2>5. IsFiniteSet(all)
    BY <2>1, <2>2, FS_Surjection
  <2>6. IsFiniteSet(UNION all)
    BY <2>4, <2>5, FS_UNION
  <2> QED
    BY <2>3, <2>6
<1> QED
  BY <1>4, <1>5

LEMMA CountInvInit == WellRouted /\ Init => CountInv
<1> SUFFICES ASSUME WellRouted, Init PROVE CountInv
  OBVIOUS
<1>1. RoutingInv /\ NumberInv
  BY RoutingInit, NumberInit
<1>2. IsFiniteSet(pending) /\ \A m \in Masters : Flying(m) = BuilderTasks[m]
  BY InitialCounts
<1>3. inits = Masters /\ DOMAIN WorkloadSize \subseteq Masters
  BY MasterAssumption DEF Init
<1>4. NoneBeforeStart
  BY <1>2, <1>3 DEF NoneBeforeStart
<1>5. WindowFull
  BY <1>3 DEF WindowFull
<1>6. ASSUME NEW m \in Masters
      PROVE  masterMetrics[m].completedTasks = Generated(m) - Flying(m)
  <2>1. BuilderTasks[m] \in Nat /\ m \in DOMAIN WorkloadSize => WorkloadSize[m] \in Nat
    BY MasterAssumption
  <2>2. /\ masterMetrics[m].completedTasks = 0
        /\ remaining[m] = IF m \in DOMAIN WorkloadSize THEN WorkloadSize[m] ELSE 0
    BY DEF Init, MasterInit
  <2>3. Generated(m) = BuilderTasks[m]
    BY <2>1, <2>2, MasterAssumption DEF Generated
  <2> QED
    BY <1>2, <2>2, <2>3, MasterAssumption
<1> QED
  BY <1>1, <1>2, <1>4, <1>5, <1>6 DEF CountInv, ReturnsCounted

LEMMA CountInvariant == WellRouted /\ Spec => []CountInv
<1>1. WellRouted /\ Init => CountInv
  BY CountInvInit
<1>2. CountInv /\ [Next]_vars => CountInv'
  BY CountInvStep
<1> QED
  BY <1>1, <1>2, PTL DEF Spec

(* In every flat grid, however the packets of the masters interleave and come
   back, a master has one task in flight per slave as long as its workload
   lasts, and never more. *)
THEOREM WindowStaysFull == WellRouted /\ Spec => []WindowFull
BY CountInvariant, PTL DEF CountInv

LEMMA CountsReturns == CountInv => TasksReturnOnce
BY DEF CountInv, ReturnsCounted, TasksReturnOnce, Flying, Roots

(* In every flat grid a master has counted exactly those of its tasks that are
   no longer in flight: none is lost on the way, and none is counted twice. *)
THEOREM EveryTaskReturns == WellRouted /\ Spec => []TasksReturnOnce
BY CountInvariant, CountsReturns, PTL

-----------------------------------------------------------------------------
(* The grid implements TaskFlow.  The refinement needs that every packet
   carries a task that its owner has: one of those of the builder, or one of
   those that were in the workload at the start. *)

Owned(e) == TaskOf(e) \in Flow!Tasks(e.origin)

TasksOwned ==
  /\ \A m \in DOMAIN WorkloadSize : remaining[m] <= WorkloadSize[m]
  /\ \A e \in pending : Owned(e)

FlowInv == RoutingInv /\ NumberInv /\ TasksOwned

(* The tasks of m in some packets. *)
OutIn(packets, m)  == {TaskOf(e) : e \in {f \in packets : f.origin = m /\ ~ f.processed}}
BackIn(packets, m) == {TaskOf(e) : e \in {f \in packets : f.origin = m /\ f.processed}}

Without(packets, e) == packets \ {e}
With(packets, f) == packets \cup {f}

LEMMA TaskTaken ==
  ASSUME NEW packets, \A f, g \in packets : TaskOf(f) = TaskOf(g) => f = g,
         NEW e \in packets, NEW m
  PROVE  /\ m = e.origin /\ ~ e.processed =>
              OutIn(Without(packets, e), m) = OutIn(packets, m) \ {TaskOf(e)}
         /\ ~ (m = e.origin /\ ~ e.processed) => OutIn(Without(packets, e), m) = OutIn(packets, m)
         /\ m = e.origin /\ e.processed =>
              BackIn(Without(packets, e), m) = BackIn(packets, m) \ {TaskOf(e)}
         /\ ~ (m = e.origin /\ e.processed) => BackIn(Without(packets, e), m) = BackIn(packets, m)
<1> DEFINE out(S) == {f \in S : f.origin = m /\ ~ f.processed}
           back(S) == {f \in S : f.origin = m /\ f.processed}
<1>1. \A S : OutIn(S, m) = {TaskOf(f) : f \in out(S)} /\ BackIn(S, m) = {TaskOf(f) : f \in back(S)}
  BY DEF OutIn, BackIn
<1>2. ASSUME NEW S \in SUBSET packets, e \in S
      PROVE  {TaskOf(f) : f \in S \ {e}} = {TaskOf(f) : f \in S} \ {TaskOf(e)}
  BY <1>2
<1>3. /\ m = e.origin /\ ~ e.processed => out(Without(packets, e)) = out(packets) \ {e}
      /\ ~ (m = e.origin /\ ~ e.processed) => out(Without(packets, e)) = out(packets)
      /\ m = e.origin /\ e.processed => back(Without(packets, e)) = back(packets) \ {e}
      /\ ~ (m = e.origin /\ e.processed) => back(Without(packets, e)) = back(packets)
  BY DEF Without
<1>4. /\ out(packets) \in SUBSET packets /\ back(packets) \in SUBSET packets
      /\ m = e.origin /\ ~ e.processed => e \in out(packets)
      /\ m = e.origin /\ e.processed => e \in back(packets)
  OBVIOUS
<1> HIDE DEF out, back
<1>5. m = e.origin /\ ~ e.processed =>
        {TaskOf(f) : f \in out(packets) \ {e}} = {TaskOf(f) : f \in out(packets)} \ {TaskOf(e)}
  BY <1>2, <1>4
<1>6. m = e.origin /\ e.processed =>
        {TaskOf(f) : f \in back(packets) \ {e}} = {TaskOf(f) : f \in back(packets)} \ {TaskOf(e)}
  BY <1>2, <1>4
<1> QED
  BY <1>1, <1>3, <1>5, <1>6

LEMMA TaskPut ==
  ASSUME NEW packets, NEW f, NEW m
  PROVE  /\ m = f.origin /\ ~ f.processed =>
              OutIn(With(packets, f), m) = OutIn(packets, m) \cup {TaskOf(f)}
         /\ ~ (m = f.origin /\ ~ f.processed) => OutIn(With(packets, f), m) = OutIn(packets, m)
         /\ m = f.origin /\ f.processed =>
              BackIn(With(packets, f), m) = BackIn(packets, m) \cup {TaskOf(f)}
         /\ ~ (m = f.origin /\ f.processed) => BackIn(With(packets, f), m) = BackIn(packets, m)
<1> DEFINE out(S) == {g \in S : g.origin = m /\ ~ g.processed}
           back(S) == {g \in S : g.origin = m /\ g.processed}
<1>1. \A S : OutIn(S, m) = {TaskOf(g) : g \in out(S)} /\ BackIn(S, m) = {TaskOf(g) : g \in back(S)}
  BY DEF OutIn, BackIn
<1>2. ASSUME NEW S PROVE {TaskOf(g) : g \in S \cup {f}} = {TaskOf(g) : g \in S} \cup {TaskOf(f)}
  OBVIOUS
<1>3. /\ m = f.origin /\ ~ f.processed => out(With(packets, f)) = out(packets) \cup {f}
      /\ ~ (m = f.origin /\ ~ f.processed) => out(With(packets, f)) = out(packets)
      /\ m = f.origin /\ f.processed => back(With(packets, f)) = back(packets) \cup {f}
      /\ ~ (m = f.origin /\ f.processed) => back(With(packets, f)) = back(packets)
  BY DEF With
<1> HIDE DEF out, back
<1> QED
  BY <1>1, <1>2, <1>3

(* The variables of TaskFlow. *)
LeftNow     == [m \in DOMAIN WorkloadSize |-> remaining[m]]
SentNow     == [m \in DOMAIN WorkloadSize |-> OutIn(pending, m)]
ExecutedNow == [m \in DOMAIN WorkloadSize |-> BackIn(pending, m)]

LEMMA FlowVariables ==
  /\ [m \in DOMAIN WorkloadSize |-> TasksOut(m)] = SentNow
  /\ [m \in DOMAIN WorkloadSize |-> TasksBack(m)] = ExecutedNow
  /\ [m \in DOMAIN WorkloadSize |-> TasksOut(m)]' = SentNow'
  /\ [m \in DOMAIN WorkloadSize |-> TasksBack(m)]' = ExecutedNow'
<1>1. \A m : TasksOut(m) = OutIn(pending, m) /\ TasksBack(m) = BackIn(pending, m)
  BY DEF TasksOut, TasksBack, OutIn, BackIn, InFlight
<1>2. \A m : TasksOut(m)' = OutIn(pending', m) /\ TasksBack(m)' = BackIn(pending', m)
  BY DEF TasksOut, TasksBack, OutIn, BackIn, InFlight
<1>3. SentNow' = [m \in DOMAIN WorkloadSize |-> OutIn(pending', m)]
  BY DEF SentNow, OutIn
<1>4. ExecutedNow' = [m \in DOMAIN WorkloadSize |-> BackIn(pending', m)]
  BY DEF ExecutedNow, BackIn
<1> QED
  BY <1>1, <1>2, <1>3, <1>4 DEF SentNow, ExecutedNow

LEMMA FlowTasks ==
  ASSUME NEW m \in DOMAIN WorkloadSize
  PROVE  Flow!Tasks(m) = {WorkloadTask(m, n) : n \in 1 .. WorkloadSize[m]}
                           \cup {<<"builder", Szudzik(n, m)>> : n \in 0 .. BuilderTasks[m] - 1}
BY DEF Flow!Tasks

LEMMA FlowBegins ==
  ASSUME NEW o \in DOMAIN WorkloadSize, o \in inits, inits' = inits \ {o},
         LeftNow' = [LeftNow EXCEPT ![o] = @ - InitialBatch(o)],
         SentNow' = [SentNow EXCEPT ![o] = @ \cup {WorkloadTask(o, remaining[o] - i) :
                                                      i \in 0 .. InitialBatch(o) - 1}],
         UNCHANGED ExecutedNow,
         \A i \in 0 .. InitialBatch(o) - 1 : remaining[o] - i \in 1 .. WorkloadSize[o]
  PROVE  Flow!Next
<1>1. DOMAIN WorkloadSize \ inits' = (DOMAIN WorkloadSize \ inits) \cup {o}
  OBVIOUS
<1>2. LeftNow[o] = remaining[o]
  BY DEF LeftNow
<1> DEFINE task == [m \in DOMAIN WorkloadSize |-> [n \in 1 .. WorkloadSize[m] |-> WorkloadTask(m, n)]]
<1>3. {task[o][LeftNow[o] - i] : i \in 0 .. InitialBatch(o) - 1}
        = {WorkloadTask(o, remaining[o] - i) : i \in 0 .. InitialBatch(o) - 1}
  BY <1>2
<1>4. Flow!Begin(o)
  BY <1>1, <1>2, <1>3, FlowVariables DEF Flow!Begin, InitialBatch, LeftNow
<1> QED
  BY <1>4 DEF Flow!Next

LEMMA FlowExecutes ==
  ASSUME NEW o \in DOMAIN WorkloadSize, NEW t \in Flow!Tasks(o), t \in SentNow[o],
         SentNow' = [SentNow EXCEPT ![o] = @ \ {t}],
         ExecutedNow' = [ExecutedNow EXCEPT ![o] = @ \cup {t}],
         UNCHANGED <<inits, LeftNow>>
  PROVE  Flow!Next
<1>1. Flow!Execute(o, t)
  BY FlowVariables DEF Flow!Execute, LeftNow
<1> QED
  BY <1>1 DEF Flow!Next

LEMMA FlowReturns ==
  ASSUME NEW o \in DOMAIN WorkloadSize, NEW t \in Flow!Tasks(o), t \in ExecutedNow[o],
         ExecutedNow' = [ExecutedNow EXCEPT ![o] = @ \ {t}],
         UNCHANGED inits,
         \/ remaining[o] = 0 /\ UNCHANGED <<SentNow, LeftNow>>
         \/ /\ remaining[o] > 0 /\ remaining[o] \in 1 .. WorkloadSize[o]
            /\ SentNow' = [SentNow EXCEPT ![o] = @ \cup {WorkloadTask(o, remaining[o])}]
            /\ LeftNow' = [LeftNow EXCEPT ![o] = @ - 1]
  PROVE  Flow!Next
<1> DEFINE task == [m \in DOMAIN WorkloadSize |-> [n \in 1 .. WorkloadSize[m] |-> WorkloadTask(m, n)]]
<1>1. LeftNow[o] = remaining[o]
  BY DEF LeftNow
<1>2. remaining[o] \in 1 .. WorkloadSize[o] => task[o][LeftNow[o]] = WorkloadTask(o, remaining[o])
  BY <1>1
<1>3. CASE remaining[o] = 0 /\ UNCHANGED <<SentNow, LeftNow>>
  <2>1. ~ (LeftNow[o] > 0)
    BY <1>1, <1>3
  <2>2. Flow!Return(o, t)
    BY <1>3, <2>1, FlowVariables DEF Flow!Return, LeftNow
  <2> QED
    BY <2>2 DEF Flow!Next
<1>4. CASE /\ remaining[o] > 0 /\ remaining[o] \in 1 .. WorkloadSize[o]
           /\ SentNow' = [SentNow EXCEPT ![o] = @ \cup {WorkloadTask(o, remaining[o])}]
           /\ LeftNow' = [LeftNow EXCEPT ![o] = @ - 1]
  <2>1. LeftNow[o] > 0 /\ task[o][LeftNow[o]] = WorkloadTask(o, remaining[o])
    BY <1>1, <1>2, <1>4
  <2>2. Flow!Return(o, t)
    BY <1>4, <2>1, FlowVariables DEF Flow!Return, LeftNow
  <2> QED
    BY <2>2 DEF Flow!Next
<1> QED
  BY <1>3, <1>4

LEMMA FlowStutters ==
  ASSUME UNCHANGED <<LeftNow, SentNow, ExecutedNow>>,
         DOMAIN WorkloadSize \ inits' = DOMAIN WorkloadSize \ inits
  PROVE  UNCHANGED Flow!vars
BY FlowVariables DEF Flow!vars, LeftNow

(* What the invariant says of the packet that a step takes. *)
LEMMA PacketOwned ==
  ASSUME FlowInv, NEW e \in pending
  PROVE  /\ e.origin \in DOMAIN WorkloadSize /\ e.origin \in Masters
         /\ e.processed \in BOOLEAN
         /\ Owned(e) /\ TaskOf(e) \in Flow!Tasks(e.origin)
         /\ remaining[e.origin] \in Nat /\ remaining[e.origin] <= WorkloadSize[e.origin]
         /\ remaining \in [Masters -> Nat]
         /\ WorkloadSize[e.origin] \in Nat
<1>1. TypeInv /\ e.origin \in Masters /\ remaining[e.origin] \in Nat
  BY PendingType, RemainingType DEF FlowInv, RoutingInv
<1>2. e.processed \in BOOLEAN
  BY <1>1 DEF TypeInv, TypeOK, EngineTypeOK, Event
<1>3. e.origin \in DOMAIN WorkloadSize
  BY DEF FlowInv, RoutingInv, Supplied
<1>4. Owned(e) /\ remaining[e.origin] <= WorkloadSize[e.origin]
  BY <1>3 DEF FlowInv, TasksOwned
<1>5. remaining \in [Masters -> Nat]
  BY <1>1, RemainingType
<1> QED
  BY <1>1, <1>2, <1>3, <1>4, <1>5, MasterAssumption DEF Owned

(* The tasks of m after f has taken the place of e. *)
Swaps(e, f, m) ==
  \E out, back :
    /\ m = e.origin /\ ~ e.processed => out = OutIn(pending, m) \ {TaskOf(e)}
    /\ ~ (m = e.origin /\ ~ e.processed) => out = OutIn(pending, m)
    /\ m = f.origin /\ ~ f.processed => OutIn(pending', m) = out \cup {TaskOf(f)}
    /\ ~ (m = f.origin /\ ~ f.processed) => OutIn(pending', m) = out
    /\ m = e.origin /\ e.processed => back = BackIn(pending, m) \ {TaskOf(e)}
    /\ ~ (m = e.origin /\ e.processed) => back = BackIn(pending, m)
    /\ m = f.origin /\ f.processed => BackIn(pending', m) = back \cup {TaskOf(f)}
    /\ ~ (m = f.origin /\ f.processed) => BackIn(pending', m) = back

LEMMA TasksAfterSwap ==
  ASSUME FlowInv, NEW e \in pending, NEW f, pending' = (pending \ {e}) \cup {f}, NEW m
  PROVE  Swaps(e, f, m)
<1>1. \A g, h \in pending : TaskOf(g) = TaskOf(h) => g = h
  BY DEF FlowInv, NumberInv, TasksDistinct
<1> DEFINE left == Without(pending, e)
<1>2. /\ m = e.origin /\ ~ e.processed => OutIn(left, m) = OutIn(pending, m) \ {TaskOf(e)}
      /\ ~ (m = e.origin /\ ~ e.processed) => OutIn(left, m) = OutIn(pending, m)
      /\ m = e.origin /\ e.processed => BackIn(left, m) = BackIn(pending, m) \ {TaskOf(e)}
      /\ ~ (m = e.origin /\ e.processed) => BackIn(left, m) = BackIn(pending, m)
  BY <1>1, TaskTaken
<1> HIDE DEF left
<1>3. /\ m = f.origin /\ ~ f.processed =>
           OutIn(With(left, f), m) = OutIn(left, m) \cup {TaskOf(f)}
      /\ ~ (m = f.origin /\ ~ f.processed) => OutIn(With(left, f), m) = OutIn(left, m)
      /\ m = f.origin /\ f.processed =>
           BackIn(With(left, f), m) = BackIn(left, m) \cup {TaskOf(f)}
      /\ ~ (m = f.origin /\ f.processed) => BackIn(With(left, f), m) = BackIn(left, m)
  BY TaskPut
<1>4. pending' = With(left, f)
  BY DEF left, With, Without
<1> QED
  BY <1>2, <1>3, <1>4 DEF Swaps

LEMMA TaskIsIn ==
  ASSUME NEW packets, NEW e \in packets
  PROVE  /\ ~ e.processed => TaskOf(e) \in OutIn(packets, e.origin)
         /\ e.processed => TaskOf(e) \in BackIn(packets, e.origin)
BY DEF OutIn, BackIn

LEMMA SentAt ==
  ASSUME NEW m \in DOMAIN WorkloadSize
  PROVE  /\ SentNow[m] = OutIn(pending, m) /\ SentNow'[m] = OutIn(pending', m)
         /\ ExecutedNow[m] = BackIn(pending, m) /\ ExecutedNow'[m] = BackIn(pending', m)
         /\ LeftNow[m] = remaining[m] /\ LeftNow'[m] = remaining'[m]
BY DEF SentNow, ExecutedNow, LeftNow, OutIn, BackIn

(* The variables of TaskFlow are functions on the masters that have a workload. *)
LEMMA FlowFunctions ==
  ASSUME NEW o \in DOMAIN WorkloadSize, NEW v
  PROVE  /\ (\A m \in DOMAIN WorkloadSize : SentNow'[m] = IF m = o THEN v ELSE SentNow[m])
              => SentNow' = [SentNow EXCEPT ![o] = v]
         /\ (\A m \in DOMAIN WorkloadSize : ExecutedNow'[m] = IF m = o THEN v ELSE ExecutedNow[m])
              => ExecutedNow' = [ExecutedNow EXCEPT ![o] = v]
         /\ (\A m \in DOMAIN WorkloadSize : LeftNow'[m] = IF m = o THEN v ELSE LeftNow[m])
              => LeftNow' = [LeftNow EXCEPT ![o] = v]
         /\ (\A m \in DOMAIN WorkloadSize : SentNow'[m] = SentNow[m]) => UNCHANGED SentNow
         /\ (\A m \in DOMAIN WorkloadSize : ExecutedNow'[m] = ExecutedNow[m])
              => UNCHANGED ExecutedNow
BY DEF SentNow, ExecutedNow, LeftNow

LEMMA SameTasks ==
  ASSUME UNCHANGED pending PROVE UNCHANGED <<SentNow, ExecutedNow>>
BY DEF SentNow, ExecutedNow

LEMMA SameLeft ==
  ASSUME UNCHANGED remaining PROVE UNCHANGED LeftNow
BY DEF LeftNow

(* A packet that goes on: nothing has happened to its task, or the task has been
   executed. *)
LEMMA MovesFlow == ASSUME FlowInv, TypeInv', Moves PROVE [Flow!Next]_(Flow!vars)
<1>1. PICK e \in pending, f \in Event :
        /\ TaskOf(f) = TaskOf(e) /\ f.origin = e.origin
        /\ e.processed => f.processed
        /\ pending' = (pending \ {e}) \cup {f}
        /\ UNCHANGED <<remaining, inits>>
  BY DEF Moves
<1> DEFINE o == e.origin
           t == TaskOf(e)
<1>2. o \in DOMAIN WorkloadSize /\ t \in Flow!Tasks(o)
  BY <1>1, PacketOwned
<1>3. UNCHANGED LeftNow
  BY <1>1, SameLeft
<1>4. /\ ~ e.processed => t \in OutIn(pending, o)
      /\ e.processed => t \in BackIn(pending, o)
  BY <1>1, TaskIsIn
<1>5. \A m : Swaps(e, f, m)
  BY <1>1, TasksAfterSwap
<1>6. CASE e.processed <=> f.processed
  <2>1. ASSUME NEW m
        PROVE  OutIn(pending', m) = OutIn(pending, m) /\ BackIn(pending', m) = BackIn(pending, m)
    BY <1>1, <1>4, <1>6, <1>5 DEF Swaps
  <2>2. \A m \in DOMAIN WorkloadSize : /\ SentNow'[m] = SentNow[m]
                                       /\ ExecutedNow'[m] = ExecutedNow[m]
    BY <2>1, SentAt
  <2>3. UNCHANGED <<SentNow, ExecutedNow>>
    BY <1>2, <2>2, FlowFunctions
  <2> QED
    BY <1>1, <1>3, <2>3, FlowStutters
<1>7. CASE ~ e.processed /\ f.processed
  <2>1. ASSUME NEW m \in DOMAIN WorkloadSize
        PROVE  /\ SentNow'[m] = IF m = o THEN SentNow[o] \ {t} ELSE SentNow[m]
               /\ ExecutedNow'[m] = IF m = o THEN ExecutedNow[o] \cup {t} ELSE ExecutedNow[m]
    <3>1. /\ OutIn(pending', m) = IF m = o THEN OutIn(pending, o) \ {t} ELSE OutIn(pending, m)
          /\ BackIn(pending', m) = IF m = o THEN BackIn(pending, o) \cup {t} ELSE BackIn(pending, m)
      BY <1>1, <1>7, <1>5 DEF Swaps
    <3> QED
      BY <1>2, <3>1, SentAt
  <2>2. /\ SentNow' = [SentNow EXCEPT ![o] = SentNow[o] \ {t}]
        /\ ExecutedNow' = [ExecutedNow EXCEPT ![o] = ExecutedNow[o] \cup {t}]
    BY <1>2, <2>1, FlowFunctions
  <2>3. t \in SentNow[o]
    BY <1>2, <1>4, <1>7, SentAt
  <2> HIDE DEF t, o
  <2>4. Flow!Next
    BY <1>1, <1>2, <1>3, <2>2, <2>3, FlowExecutes
  <2> QED
    BY <2>4
<1> QED
  BY <1>1, <1>6, <1>7

(* A task that is back leaves the grid. *)
LEMMA EndsFlow == ASSUME FlowInv, TypeInv', Ends PROVE Flow!Next
<1>1. PICK e \in pending :
        /\ remaining[e.origin] = 0 /\ e.processed
        /\ pending' = pending \ {e}
        /\ UNCHANGED <<remaining, inits>>
  BY DEF Ends
<1> DEFINE o == e.origin
           t == TaskOf(e)
<1>2. o \in DOMAIN WorkloadSize /\ t \in Flow!Tasks(o)
  BY <1>1, PacketOwned
<1>3. UNCHANGED LeftNow
  BY <1>1, SameLeft
<1>4. t \in ExecutedNow[o]
  BY <1>1, <1>2, TaskIsIn, SentAt
<1>5. ASSUME NEW m \in DOMAIN WorkloadSize
      PROVE  /\ SentNow'[m] = SentNow[m]
             /\ ExecutedNow'[m] = IF m = o THEN ExecutedNow[o] \ {t} ELSE ExecutedNow[m]
  <2>1. \A g, h \in pending : TaskOf(g) = TaskOf(h) => g = h
    BY DEF FlowInv, NumberInv, TasksDistinct
  <2>2. pending' = Without(pending, e)
    BY <1>1 DEF Without
  <2>3. /\ ~ (m = o /\ ~ e.processed) => OutIn(pending', m) = OutIn(pending, m)
        /\ m = o /\ e.processed => BackIn(pending', m) = BackIn(pending, m) \ {t}
        /\ ~ (m = o /\ e.processed) => BackIn(pending', m) = BackIn(pending, m)
    BY <2>1, <2>2, TaskTaken
  <2>4. OutIn(pending', m) = OutIn(pending, m)
    BY <1>1, <2>3
  <2>5. BackIn(pending', m) = IF m = o THEN BackIn(pending, o) \ {t} ELSE BackIn(pending, m)
    BY <1>1, <2>3
  <2> QED
    BY <1>2, <2>4, <2>5, SentAt
<1>6. UNCHANGED SentNow /\ ExecutedNow' = [ExecutedNow EXCEPT ![o] = ExecutedNow[o] \ {t}]
  BY <1>2, <1>5, FlowFunctions
<1> HIDE DEF t
<1> QED
  BY <1>1, <1>2, <1>3, <1>4, <1>6, FlowReturns

(* A task that is back leaves its place to the next of the workload. *)
LEMMA DrawsFlow == ASSUME FlowInv, TypeInv', Draws PROVE Flow!Next
<1>1. PICK e \in pending, f \in Event :
        /\ remaining[e.origin] > 0 /\ e.processed
        /\ f.origin = e.origin /\ f.batch = "scheduler" /\ ~ f.processed
        /\ f.tid = Szudzik(remaining[e.origin], e.origin)
        /\ pending' = (pending \ {e}) \cup {f}
        /\ remaining' = [remaining EXCEPT ![e.origin] = @ - 1]
        /\ UNCHANGED inits
  BY DEF Draws
<1> DEFINE o == e.origin
           t == TaskOf(e)
           next == WorkloadTask(o, remaining[o])
<1>2. /\ o \in DOMAIN WorkloadSize /\ t \in Flow!Tasks(o)
      /\ remaining \in [Masters -> Nat] /\ o \in Masters
      /\ remaining[o] \in 1 .. WorkloadSize[o]
  <2>1. remaining[o] \in Nat /\ WorkloadSize[o] \in Nat /\ remaining[o] <= WorkloadSize[o]
    BY <1>1, PacketOwned
  <2> QED
    BY <1>1, <2>1, PacketOwned
<1>3. TaskOf(f) = next
  BY <1>1 DEF TaskOf, WorkloadTask
<1>4. t \in ExecutedNow[o]
  BY <1>1, <1>2, TaskIsIn, SentAt
<1>5. ASSUME NEW m \in DOMAIN WorkloadSize
      PROVE  /\ SentNow'[m] = IF m = o THEN SentNow[o] \cup {next} ELSE SentNow[m]
             /\ ExecutedNow'[m] = IF m = o THEN ExecutedNow[o] \ {t} ELSE ExecutedNow[m]
             /\ LeftNow'[m] = IF m = o THEN LeftNow[o] - 1 ELSE LeftNow[m]
  <2>1. Swaps(e, f, m)
    BY <1>1, TasksAfterSwap
  <2>2. m \in Masters
    BY MasterAssumption
  <2>3. remaining'[m] = IF m = o THEN remaining[o] - 1 ELSE remaining[m]
    BY <1>1, <1>2, <2>2
  <2> HIDE DEF next
  <2>4. /\ OutIn(pending', m) = IF m = o THEN OutIn(pending, o) \cup {next} ELSE OutIn(pending, m)
        /\ BackIn(pending', m) = IF m = o THEN BackIn(pending, o) \ {t} ELSE BackIn(pending, m)
    BY <1>1, <1>3, <2>1 DEF Swaps
  <2> QED
    BY <1>2, <2>3, <2>4, SentAt
<1> HIDE DEF next
<1>6. /\ SentNow' = [SentNow EXCEPT ![o] = SentNow[o] \cup {next}]
      /\ ExecutedNow' = [ExecutedNow EXCEPT ![o] = ExecutedNow[o] \ {t}]
      /\ LeftNow' = [LeftNow EXCEPT ![o] = LeftNow[o] - 1]
  BY <1>2, <1>5, FlowFunctions
<1> HIDE DEF t
<1> QED
  BY <1>1, <1>2, <1>4, <1>6, FlowReturns DEF next

(* A master starts: its window is filled from the end of its workload. *)
LEMMA StartsFlow == ASSUME FlowInv, TypeInv', Starts PROVE Flow!Next
<1>1. PICK o \in inits :
        /\ workload[o] = "assigned"
        /\ inits' = inits \ {o}
        /\ \E sent \in [0 .. InitialBatch(o) - 1 -> Event] :
             /\ pending' = pending \cup {sent[i] : i \in 0 .. InitialBatch(o) - 1}
             /\ \A i \in 0 .. InitialBatch(o) - 1 :
                  /\ sent[i].origin = o /\ sent[i].batch = "scheduler" /\ ~ sent[i].processed
                  /\ sent[i].tid = Szudzik(remaining[o] - i, o)
        /\ remaining' = [remaining EXCEPT ![o] = @ - InitialBatch(o)]
  BY DEF Starts
<1> DEFINE batch == 0 .. InitialBatch(o) - 1
           new == {WorkloadTask(o, remaining[o] - i) : i \in batch}
<1>2. PICK sent \in [batch -> Event] :
        /\ pending' = pending \cup {sent[i] : i \in batch}
        /\ \A i \in batch : /\ sent[i].origin = o /\ ~ sent[i].processed
                            /\ TaskOf(sent[i]) = WorkloadTask(o, remaining[o] - i)
  BY <1>1 DEF TaskOf, WorkloadTask
<1>3. o \in Masters /\ o \in DOMAIN WorkloadSize
  <2>1. o \in Masters
    BY DEF FlowInv, RoutingInv, TypeInv, TypeOK, EngineTypeOK
  <2> QED
    BY <1>1, <2>1 DEF FlowInv, RoutingInv, Supplied
<1>4. /\ remaining \in [Masters -> Nat] /\ remaining[o] \in Nat /\ WorkloadSize[o] \in Nat
      /\ remaining[o] <= WorkloadSize[o]
      /\ InitialBatch(o) \in Nat /\ remaining[o] - InitialBatch(o) \in Nat
  <2>1. remaining \in [Masters -> Nat] /\ remaining[o] \in Nat
    BY <1>3, RemainingType DEF FlowInv, RoutingInv
  <2> QED
    BY <1>3, <2>1, InitialBatchType, MasterAssumption DEF FlowInv, TasksOwned
<1>5. \A i \in batch : remaining[o] - i \in 1 .. WorkloadSize[o]
  BY <1>4
<1>6. ASSUME NEW m \in DOMAIN WorkloadSize
      PROVE  /\ SentNow'[m] = IF m = o THEN SentNow[o] \cup new ELSE SentNow[m]
             /\ ExecutedNow'[m] = ExecutedNow[m]
             /\ LeftNow'[m] = IF m = o THEN LeftNow[o] - InitialBatch(o) ELSE LeftNow[m]
  <2>1. OutIn(pending', m) = IF m = o THEN OutIn(pending, o) \cup new ELSE OutIn(pending, m)
    <3>1. m # o => OutIn(pending', m) = OutIn(pending, m)
      BY <1>2 DEF OutIn
    <3>2. m = o => OutIn(pending', m) = OutIn(pending, o) \cup new
      <4>1. {f \in pending' : f.origin = o /\ ~ f.processed}
              = {f \in pending : f.origin = o /\ ~ f.processed} \cup {sent[i] : i \in batch}
        BY <1>2
      <4>2. {TaskOf(f) : f \in {sent[i] : i \in batch}} = new
        BY <1>2
      <4> HIDE DEF batch, new
      <4> QED
        BY <4>1, <4>2 DEF OutIn
    <3> QED
      BY <3>1, <3>2
  <2>2. BackIn(pending', m) = BackIn(pending, m)
    BY <1>2 DEF BackIn
  <2>3. remaining'[m] = IF m = o THEN remaining[o] - InitialBatch(o) ELSE remaining[m]
    BY <1>1, <1>3, <1>4, MasterAssumption
  <2> HIDE DEF new
  <2> QED
    BY <1>3, <2>1, <2>2, <2>3, SentAt
<1> HIDE DEF new
<1>7. /\ SentNow' = [SentNow EXCEPT ![o] = SentNow[o] \cup new]
      /\ LeftNow' = [LeftNow EXCEPT ![o] = LeftNow[o] - InitialBatch(o)]
      /\ UNCHANGED ExecutedNow
  BY <1>3, <1>6, FlowFunctions
<1> QED
  BY <1>1, <1>3, <1>5, <1>7, FlowBegins DEF new

LEMMA IdlesFlow == ASSUME FlowInv, Idles PROVE UNCHANGED Flow!vars
<1>1. UNCHANGED <<LeftNow, SentNow, ExecutedNow>>
  BY SameTasks, SameLeft DEF Idles
<1>2. DOMAIN WorkloadSize \ inits' = DOMAIN WorkloadSize \ inits
  BY MasterAssumption DEF Idles, FlowInv, RoutingInv, Supplied
<1> QED
  BY <1>1, <1>2, FlowStutters

-----------------------------------------------------------------------------
(* Every packet still carries a task that its owner has. *)
LEMMA OwnedKept ==
  ASSUME FlowInv, TypeInv', \A m \in Masters : remaining'[m] <= remaining[m],
         \A f \in pending' : f \in pending \/ TaskOf(f) \in Flow!Tasks(f.origin)
  PROVE  TasksOwned'
<1>1. ASSUME NEW m \in DOMAIN WorkloadSize PROVE remaining'[m] <= WorkloadSize[m]
  <2>1. /\ remaining[m] \in Nat /\ remaining'[m] \in Nat /\ WorkloadSize[m] \in Nat
        /\ remaining'[m] <= remaining[m]
    BY MasterAssumption DEF FlowInv, RoutingInv, TypeInv, TypeOK, MasterTypeOK
  <2>2. remaining[m] <= WorkloadSize[m]
    BY DEF FlowInv, TasksOwned
  <2> QED
    BY <2>1, <2>2
<1>2. \A f \in pending' : TaskOf(f) \in Flow!Tasks(f.origin)
  BY DEF FlowInv, TasksOwned, Owned
<1> QED
  BY <1>1, <1>2 DEF TasksOwned, Owned

LEMMA OwnedStep ==
  ASSUME FlowInv, TypeInv', Idles \/ Moves \/ Ends \/ Draws \/ Starts
  PROVE  TasksOwned'
<1>1. UNCHANGED remaining => \A m \in Masters : remaining'[m] <= remaining[m]
  BY RemainingType DEF FlowInv, RoutingInv
<1>2. \A e \in pending : TaskOf(e) \in Flow!Tasks(e.origin)
  BY PacketOwned
<1>3. CASE Idles
  BY <1>1, <1>3, OwnedKept DEF Idles
<1>4. CASE Moves
  <2>1. /\ UNCHANGED remaining
        /\ \A f \in pending' : f \in pending \/ TaskOf(f) \in Flow!Tasks(f.origin)
    BY <1>2, <1>4 DEF Moves
  <2> QED
    BY <1>1, <2>1, OwnedKept
<1>5. CASE Ends
  BY <1>1, <1>5, OwnedKept DEF Ends
<1>6. CASE Draws
  <2>1. PICK e \in pending, f \in Event :
          /\ remaining[e.origin] > 0
          /\ f.origin = e.origin /\ f.batch = "scheduler"
          /\ f.tid = Szudzik(remaining[e.origin], e.origin)
          /\ pending' = (pending \ {e}) \cup {f}
          /\ remaining' = [remaining EXCEPT ![e.origin] = @ - 1]
    BY <1>6 DEF Draws
  <2>2. /\ e.origin \in DOMAIN WorkloadSize /\ e.origin \in Masters
        /\ remaining \in [Masters -> Nat]
        /\ remaining[e.origin] \in 1 .. WorkloadSize[e.origin]
    <3>1. /\ remaining[e.origin] \in Nat /\ WorkloadSize[e.origin] \in Nat
          /\ remaining[e.origin] <= WorkloadSize[e.origin]
      BY PacketOwned
    <3> QED
      BY <2>1, <3>1, PacketOwned
  <2>3. TaskOf(f) = WorkloadTask(f.origin, remaining[e.origin])
    BY <2>1 DEF TaskOf, WorkloadTask
  <2>4. TaskOf(f) \in Flow!Tasks(f.origin)
    BY <2>1, <2>2, <2>3, FlowTasks
  <2>5. ASSUME NEW m \in Masters PROVE remaining'[m] <= remaining[m]
    <3>1. remaining[m] \in Nat /\ (remaining'[m] = remaining[m] \/ remaining'[m] = remaining[m] - 1)
      BY <2>1, <2>2
    <3> QED
      BY <3>1, NotMore
  <2> QED
    BY <2>1, <2>4, <2>5, OwnedKept
<1>7. CASE Starts
  <2>1. PICK o \in inits :
          /\ \E sent \in [0 .. InitialBatch(o) - 1 -> Event] :
               /\ pending' = pending \cup {sent[i] : i \in 0 .. InitialBatch(o) - 1}
               /\ \A i \in 0 .. InitialBatch(o) - 1 :
                    /\ sent[i].origin = o /\ sent[i].batch = "scheduler"
                    /\ sent[i].tid = Szudzik(remaining[o] - i, o)
          /\ remaining' = [remaining EXCEPT ![o] = @ - InitialBatch(o)]
          /\ workload[o] = "assigned"
    BY <1>7 DEF Starts
  <2>2. o \in Masters /\ o \in DOMAIN WorkloadSize
    <3>1. o \in Masters
      BY DEF FlowInv, RoutingInv, TypeInv, TypeOK, EngineTypeOK
    <3> QED
      BY <2>1, <3>1 DEF FlowInv, RoutingInv, Supplied
  <2>3. /\ remaining \in [Masters -> Nat] /\ remaining[o] \in Nat /\ WorkloadSize[o] \in Nat
        /\ remaining[o] <= WorkloadSize[o]
        /\ InitialBatch(o) \in Nat /\ remaining[o] - InitialBatch(o) \in Nat
    <3>1. remaining \in [Masters -> Nat] /\ remaining[o] \in Nat
      BY <2>2, RemainingType DEF FlowInv, RoutingInv
    <3> QED
      BY <2>2, <3>1, InitialBatchType, MasterAssumption DEF FlowInv, TasksOwned
  <2>4. ASSUME NEW m \in Masters PROVE remaining'[m] <= remaining[m]
    BY <2>1, <2>3
  <2>5. ASSUME NEW f \in pending', f \notin pending PROVE TaskOf(f) \in Flow!Tasks(f.origin)
    <3>1. PICK i \in 0 .. InitialBatch(o) - 1 :
            f.origin = o /\ f.batch = "scheduler" /\ f.tid = Szudzik(remaining[o] - i, o)
      BY <2>1, <2>5
    <3>2. remaining[o] - i \in 1 .. WorkloadSize[o]
      BY <2>3
    <3>3. TaskOf(f) = WorkloadTask(o, remaining[o] - i)
      BY <3>1 DEF TaskOf, WorkloadTask
    <3> QED
      BY <2>2, <3>1, <3>2, <3>3, FlowTasks
  <2> QED
    BY <2>4, <2>5, OwnedKept
<1> QED
  BY <1>3, <1>4, <1>5, <1>6, <1>7

LEMMA FlowInitially == WellRouted /\ Init => FlowInv /\ Flow!Init
<1> SUFFICES ASSUME WellRouted, Init PROVE FlowInv /\ Flow!Init
  OBVIOUS
<1>1. RoutingInv /\ NumberInv
  BY RoutingInit, NumberInit
<1>2. PICK time \in [BuilderNumbers -> ArrivalTimes], size \in [Masters -> TaskSizes] :
        pending = {[NewTask("builder", x[1], x[2], size[x[1]]) EXCEPT !.time = time[x]] :
                     x \in BuilderNumbers}
  BY DEF Init, BuilderInit
<1> DEFINE packet(x) == [NewTask("builder", x[1], x[2], size[x[1]]) EXCEPT !.time = time[x]]
           given(m) == {<<"builder", Szudzik(n, m)>> : n \in 0 .. BuilderTasks[m] - 1}
<1>3. ASSUME NEW x \in BuilderNumbers
      PROVE  /\ x[2] \in 0 .. BuilderTasks[x[1]] - 1 /\ packet(x).origin = x[1]
             /\ TaskOf(packet(x)) = <<"builder", Szudzik(x[2], x[1])>> /\ ~ packet(x).processed
  <2>1. /\ x[2] \in 0 .. BuilderTasks[x[1]] - 1 /\ packet(x).origin = x[1]
        /\ TaskOf(packet(x)) = <<"builder", Szudzik(x[2], x[1])>>
    BY BuilderTask DEF TaskOf
  <2>2. ~ packet(x).processed
    BY DEF NewTask
  <2> QED
    BY <2>1, <2>2
<1>4. \A m \in Masters : \A n \in 0 .. BuilderTasks[m] - 1 :
        <<m, n>> \in BuilderNumbers /\ <<m, n>>[1] = m /\ <<m, n>>[2] = n
  BY DEF BuilderNumbers
<1>5. pending = {packet(x) : x \in BuilderNumbers}
  BY <1>2
<1> HIDE DEF packet
<1>6. ASSUME NEW m \in Masters PROVE OutIn(pending, m) = given(m) /\ BackIn(pending, m) = {}
  <2>1. ASSUME NEW t \in OutIn(pending, m) PROVE t \in given(m)
    <3>1. PICK x \in BuilderNumbers : packet(x).origin = m /\ t = TaskOf(packet(x))
      BY <1>5 DEF OutIn
    <3> QED
      BY <1>3, <3>1
  <2>2. ASSUME NEW n \in 0 .. BuilderTasks[m] - 1
        PROVE  <<"builder", Szudzik(n, m)>> \in OutIn(pending, m)
    <3> DEFINE e == packet(<<m, n>>)
    <3>1. /\ e.origin = m /\ ~ e.processed /\ TaskOf(e) = <<"builder", Szudzik(n, m)>>
          /\ e \in pending
      BY <1>3, <1>4, <1>5
    <3> HIDE DEF e
    <3> QED
      BY <3>1 DEF OutIn
  <2>3. BackIn(pending, m) = {}
    BY <1>3, <1>5 DEF BackIn
  <2> QED
    BY <2>1, <2>2, <2>3
<1>7. TasksOwned
  <2>1. \A m \in DOMAIN WorkloadSize : remaining[m] = WorkloadSize[m] /\ WorkloadSize[m] \in Nat
    BY MasterAssumption DEF Init, MasterInit
  <2>2. ASSUME NEW e \in pending PROVE TaskOf(e) \in Flow!Tasks(e.origin)
    <3>1. e.origin \in DOMAIN WorkloadSize
      BY <1>1 DEF RoutingInv, Supplied
    <3>2. TaskOf(e) \in given(e.origin)
      BY <1>3, <1>5
    <3> QED
      BY <3>1, <3>2, FlowTasks
  <2> QED
    BY <2>1, <2>2 DEF TasksOwned, Owned
<1>8. Flow!Init
  <2>1. DOMAIN WorkloadSize \ inits = {}
    BY MasterAssumption DEF Init
  <2>2. LeftNow = WorkloadSize
    BY MasterAssumption DEF LeftNow, Init, MasterInit
  <2>3. \A m \in DOMAIN WorkloadSize : OutIn(pending, m) = given(m) /\ BackIn(pending, m) = {}
    BY <1>6, MasterAssumption
  <2>4. SentNow = [m \in DOMAIN WorkloadSize |-> given(m)]
    BY <2>3 DEF SentNow
  <2>5. ExecutedNow = [m \in DOMAIN WorkloadSize |-> {}]
    BY <2>3 DEF ExecutedNow
  <2> QED
    BY <2>1, <2>2, <2>4, <2>5, FlowVariables DEF Flow!Init, LeftNow
<1> QED
  BY <1>1, <1>7, <1>8 DEF FlowInv

LEMMA FlowStep == FlowInv /\ [Next]_vars => FlowInv' /\ [Flow!Next]_(Flow!vars)
<1> SUFFICES ASSUME FlowInv, [Next]_vars PROVE FlowInv' /\ [Flow!Next]_(Flow!vars)
  OBVIOUS
<1>1. RoutingInv' /\ NumberInv' /\ NoFault' /\ TypeInv'
  BY RoutingStep, NumberStep DEF FlowInv, RoutingInv
<1>2. Idles \/ Moves \/ Ends \/ Draws \/ Starts \/ Dies
  BY StepDoes DEF FlowInv, RoutingInv
<1>3. ~ Dies
  BY <1>1 DEF Dies, NoFault, Running
<1>4. TasksOwned'
  BY <1>1, <1>2, <1>3, OwnedStep
<1>5. [Flow!Next]_(Flow!vars)
  BY <1>1, <1>2, <1>3, IdlesFlow, MovesFlow, EndsFlow, DrawsFlow, StartsFlow
<1> QED
  BY <1>1, <1>4, <1>5 DEF FlowInv

(* Every flat grid implements TaskFlow, whatever its topology, its workloads and
   the order in which packets come back: each step of a link, switch, machine or
   master is, for the tasks of every master, a step of the abstract owner or no
   step at all. *)
THEOREM GridFollowsTaskFlow == WellRouted /\ Spec => FollowsTaskFlow
<1>1. WellRouted /\ Init => FlowInv /\ Flow!Init
  BY FlowInitially
<1>2. FlowInv /\ [Next]_vars => FlowInv' /\ [Flow!Next]_(Flow!vars)
  BY FlowStep
<1> QED
  BY <1>1, <1>2, PTL DEF Spec, FollowsTaskFlow, Flow!Safety


-----------------------------------------------------------------------------
(* How many links a packet has crossed, place by place. *)

(* A packet is k links from its source, or at the link numbered k. *)
At(e, k) ==
  LET n == Len(RoutePath[<<e.source, e.destination>>])
      atLink == IF e.to \in Links THEN 1 ELSE 0
  IN  /\ e.offset = IF e.forward THEN k ELSE Decrement(k - 1)
      /\ e.forward = ~ e.processed
      /\ e.to \in Links <=> e.previous \notin Links
      /\ Crossed(e) = IF e.forward THEN k - atLink ELSE 2 * n - k + 1 - atLink
      /\ e.to \in Machines /\ e.to = e.destination => k = n
      /\ e.to \in Masters => k = 1 /\ e.processed

LEMMA BackAndForth ==
  ASSUME NEW k \in Nat, k < OffsetMod PROVE Increment(Decrement(k)) = k
BY EngineAssumption DEF Increment, Decrement

LEMMA RouteLength ==
  ASSUME WellRouted, NEW m \in Masters, NEW s \in SlaveSet(m)
  PROVE  Len(RoutePath[<<m, s>>]) \in Nat /\ Len(RoutePath[<<m, s>>]) + 2 < OffsetMod
BY RouteOfSlave, EngineAssumption DEF HasRoute

LEMMA CrossedAt ==
  ASSUME WellRouted, NEW e \in Event, OnTheWay(e)
  PROVE  /\ e.origin \in Masters /\ e.source = e.origin /\ e.destination \in SlaveSet(e.origin)
         /\ \E k \in 1 .. Len(RoutePath[<<e.source, e.destination>>]) : At(e, k)
<1> DEFINE path == RoutePath[<<e.source, e.destination>>]
           walk == Walk[<<e.source, e.destination>>]
           n    == Len(path)
<1>1. /\ e.origin \in Masters /\ e.source = e.origin /\ e.destination \in SlaveSet(e.origin)
      /\ e.forward \in BOOLEAN /\ e.processed \in BOOLEAN
  BY DEF Event, OnTheWay, AlongRoute
<1>2. PICK k \in 1 .. n :
        \/ GoingAtLink(e, path, walk, k)
        \/ GoingAtService(e, path, walk, k)
        \/ BackAtLink(e, path, walk, k)
        \/ BackAtService(e, path, walk, k)
  BY DEF OnTheWay, AlongRoute
<1>3. /\ n \in Nat /\ n + 2 < OffsetMod
      /\ walk[0] = e.source /\ walk[n] = e.destination
      /\ path[k] \in Links
      /\ k < n => walk[k] # e.destination
      /\ k > 1 => walk[k-1] \in Machines \cup Switches /\ walk[k-1] # e.destination
      /\ walk[k] \in Machines \cup Switches
  BY <1>1, LinkOfRoute
<1>4. k \in Nat /\ k >= 1 /\ k <= n /\ k - 1 \in Nat /\ k - 1 < OffsetMod
  BY <1>3, EngineAssumption
<1>5. Increment(Decrement(k - 1)) = k - 1
  <2>1. PICK j \in Nat : j = k - 1 /\ j < OffsetMod
    BY <1>4
  <2> QED
    BY <2>1, BackAndForth
<1>6. walk[k-1] \notin Links /\ (k > 1 => walk[k-1] \notin Masters)
      /\ (k = 1 => walk[k-1] = e.source)
  <2>1. CASE k = 1
    <3>1. walk[k-1] = e.source
      BY <1>3, <2>1
    <3> QED
      BY <1>1, <2>1, <3>1, OneKind
  <2>2. CASE k > 1
    BY <1>3, <2>2, OneKind
  <2> QED
    BY <1>4, <2>1, <2>2
<1>7. walk[k] \notin Links /\ walk[k] \notin Masters /\ path[k] \notin Masters
      /\ path[k] \notin Machines
  BY <1>3, OneKind
<1>8. e.destination \in Machines /\ e.source \notin Machines
  BY <1>1, RouteOfSlave, OneKind
<1> HIDE DEF path, walk
<1>9. e.origin = e.source
  BY <1>1
<1>10. CASE GoingAtLink(e, path, walk, k)
  <2>1. /\ ~ e.processed /\ e.forward /\ e.to = path[k] /\ e.previous = walk[k-1] /\ e.offset = k
        /\ e.to \in Links /\ e.to \notin Masters /\ e.to \notin Machines /\ e.previous \notin Links
    BY <1>3, <1>6, <1>7, <1>10 DEF GoingAtLink
  <2>2. ~ AtSource(e)
    BY <1>1, <2>1 DEF AtSource
  <2>3. Crossed(e) = k - 1
    BY <2>1, <2>2 DEF Crossed
  <2> QED
    BY <1>1, <1>2, <2>1, <2>3 DEF At, path
<1>11. CASE GoingAtService(e, path, walk, k)
  <2>1. /\ ~ e.processed /\ e.forward /\ e.to = walk[k] /\ e.previous = path[k] /\ e.offset = k
        /\ e.to \notin Links /\ e.to \notin Masters /\ e.previous \in Links
    BY <1>3, <1>6, <1>7, <1>11 DEF GoingAtService
  <2>2. ~ AtSource(e)
    BY <1>1, <2>1 DEF AtSource
  <2>3. Crossed(e) = k - 0
    BY <2>1, <2>2 DEF Crossed
  <2>4. e.to = e.destination => k = n
    BY <1>3, <1>4, <2>1
  <2> QED
    BY <1>1, <1>2, <2>1, <2>3, <2>4 DEF At, path
<1>12. CASE BackAtLink(e, path, walk, k)
  <2>1. /\ e.processed /\ ~ e.forward /\ e.to = path[k] /\ e.previous = walk[k]
        /\ e.offset = Decrement(k - 1)
        /\ e.to \in Links /\ e.to \notin Masters /\ e.to \notin Machines /\ e.previous \notin Links
    BY <1>3, <1>6, <1>7, <1>12 DEF BackAtLink
  <2>2. ~ AtSource(e)
    BY <2>1 DEF AtSource
  <2>3. Crossed(e) = 2 * n - (Increment(e.offset) + 1) + 1 - 1
    BY <2>1, <2>2 DEF Crossed, path
  <2>4. Increment(e.offset) + 1 = k
    BY <1>4, <1>5, <2>1
  <2> QED
    BY <1>1, <1>2, <2>1, <2>3, <2>4 DEF At, path
<1>13. CASE BackAtService(e, path, walk, k)
  <2>1. /\ e.processed /\ ~ e.forward /\ e.to = walk[k-1] /\ e.previous = path[k]
        /\ e.offset = Decrement(k - 1)
        /\ e.to \notin Links /\ e.previous \in Links
    BY <1>3, <1>6, <1>7, <1>13 DEF BackAtService
  <2>2. ~ AtSource(e)
    BY <2>1 DEF AtSource
  <2>3. Crossed(e) = 2 * n - (Increment(e.offset) + 1) + 1 - 0
    BY <2>1, <2>2 DEF Crossed, path
  <2>4. Increment(e.offset) + 1 = k
    BY <1>4, <1>5, <2>1
  <2>5. e.to \in Masters => k = 1
    BY <1>4, <1>6, <2>1
  <2>6. e.to # e.destination \/ e.to \notin Machines
    <3>1. k = 1 \/ k > 1
      BY <1>4
    <3> QED
      BY <1>3, <1>6, <1>8, <2>1, <3>1
  <2> QED
    BY <1>1, <1>2, <2>1, <2>3, <2>4, <2>5, <2>6 DEF At, path
<1> QED
  BY <1>1, <1>2, <1>10, <1>11, <1>12, <1>13

(* The type of what is known of two packets on one route. *)
LEMMA AtTypes ==
  ASSUME NEW n \in Nat, n + 2 < OffsetMod, NEW k \in 1 .. n
  PROVE  /\ k \in Nat /\ k - 1 \in Nat
         /\ Decrement(k - 1) = IF k = 1 THEN OffsetMod - 1 ELSE k - 2
         /\ OffsetMod \in Nat
<1>1. k \in Nat /\ k - 1 \in Nat /\ (k - 1 = 0 <=> k = 1) /\ (k - 1) - 1 = k - 2
      /\ OffsetMod \in Nat
  BY EngineAssumption
<1> QED
  BY <1>1 DEF Decrement

(* One hop: over the link it was at, or none. *)
LEMMA LinkCrosses ==
  ASSUME WellRouted, NEW e \in Event, NEW f \in Event, OnTheWay(e), OnTheWay(f),
         e.to \in Links, f.previous = e.to,
         f.source = e.source, f.destination = e.destination,
         f.forward = e.forward, f.offset = e.offset
  PROVE  Crossed(f) = Crossed(e) + 1
<1> DEFINE n == Len(RoutePath[<<e.source, e.destination>>])
<1>1. PICK k \in 1 .. n : At(e, k)
  BY CrossedAt
<1>2. PICK j \in 1 .. n : At(f, j)
  BY CrossedAt
<1>3. n \in Nat /\ n + 2 < OffsetMod
  BY CrossedAt, RouteLength
<1>4. /\ Crossed(e) = IF e.forward THEN k - 1 ELSE 2 * n - k + 1 - 1
      /\ Crossed(f) = IF e.forward THEN j - 0 ELSE 2 * n - j + 1 - 0
      /\ e.offset = IF e.forward THEN k ELSE Decrement(k - 1)
      /\ e.offset = IF e.forward THEN j ELSE Decrement(j - 1)
  BY <1>1, <1>2 DEF At
<1> HIDE DEF n
<1>5. j = k
  BY <1>3, <1>4, AtTypes
<1> QED
  BY <1>3, <1>4, <1>5

LEMMA ForwardCrosses ==
  ASSUME WellRouted, NEW e \in Event, NEW f \in Event, OnTheWay(e), OnTheWay(f),
         e.to \notin Links, f.previous = e.to,
         f.source = e.source, f.destination = e.destination,
         f.forward = e.forward, f.offset = NextOffset(e)
  PROVE  Crossed(f) = Crossed(e)
<1> DEFINE n == Len(RoutePath[<<e.source, e.destination>>])
<1>1. PICK k \in 1 .. n : At(e, k)
  BY CrossedAt
<1>2. PICK j \in 1 .. n : At(f, j)
  BY CrossedAt
<1>3. n \in Nat /\ n + 2 < OffsetMod
  BY CrossedAt, RouteLength
<1>4. /\ Crossed(e) = IF e.forward THEN k - 0 ELSE 2 * n - k + 1 - 0
      /\ Crossed(f) = IF e.forward THEN j - 1 ELSE 2 * n - j + 1 - 1
      /\ e.offset = IF e.forward THEN k ELSE Decrement(k - 1)
      /\ f.offset = IF e.forward THEN j ELSE Decrement(j - 1)
      /\ f.offset = IF e.forward THEN Increment(e.offset) ELSE Decrement(e.offset)
  BY <1>1, <1>2 DEF At, NextOffset
<1> HIDE DEF n
<1>5. e.forward => j = k + 1
  <2>1. Increment(k) = k + 1
    BY <1>3, AtTypes DEF Increment
  <2> QED
    BY <1>4, <2>1
<1>6. ~ e.forward => j = k - 1
  <2> SUFFICES ASSUME ~ e.forward PROVE j = k - 1
    OBVIOUS
  <2>1. Decrement(Decrement(k - 1)) =
          IF k = 1 THEN OffsetMod - 2 ELSE IF k = 2 THEN OffsetMod - 1 ELSE k - 3
    BY <1>3, AtTypes DEF Decrement
  <2>2. Decrement(j - 1) = IF j = 1 THEN OffsetMod - 1 ELSE j - 2
    BY <1>3, AtTypes
  <2>3. Decrement(j - 1) = Decrement(Decrement(k - 1))
    BY <1>4
  <2> QED
    BY <1>3, <2>1, <2>2, <2>3, EngineAssumption
<1> QED
  BY <1>3, <1>4, <1>5, <1>6

LEMMA ProcessCrosses ==
  ASSUME WellRouted, NEW e \in Event, NEW f \in Event, OnTheWay(e), OnTheWay(f),
         e.to \in Machines, e.to = e.destination, ~ e.processed, f.previous = e.to,
         f.source = e.source, f.destination = e.destination,
         ~ f.forward, f.offset = AnswerOffset(e.offset)
  PROVE  Crossed(f) = Crossed(e)
<1> DEFINE n == Len(RoutePath[<<e.source, e.destination>>])
<1>1. PICK k \in 1 .. n : At(e, k)
  BY CrossedAt
<1>2. PICK j \in 1 .. n : At(f, j)
  BY CrossedAt
<1>3. n \in Nat /\ n + 2 < OffsetMod
  BY CrossedAt, RouteLength
<1>4. e.to \notin Links
  BY OneKind
<1>5. /\ Crossed(e) = k - 0 /\ k = n /\ e.offset = k
      /\ Crossed(f) = 2 * n - j + 1 - 1
      /\ f.offset = Decrement(j - 1) /\ f.offset = Decrement(Decrement(k))
  BY <1>1, <1>2, <1>4 DEF At, AnswerOffset
<1> HIDE DEF n
<1>6. j = k
  <2>1. Decrement(k) = k - 1
    BY <1>3, AtTypes DEF Decrement
  <2>2. Decrement(j - 1) = Decrement(k - 1)
    BY <1>5, <2>1
  <2> QED
    BY <1>3, <2>2, AtTypes
<1> QED
  BY <1>3, <1>5, <1>6

(* What a master sends has crossed no link, and what is back has crossed the
   route twice. *)
LEMMA FirstHop ==
  ASSUME WellRouted, NEW f \in Event, OnTheWay(f), f.previous \in Masters,
         f.forward, f.offset = 1
  PROVE  Crossed(f) = 0
<1> DEFINE n == Len(RoutePath[<<f.source, f.destination>>])
<1>1. PICK k \in 1 .. n : At(f, k)
  BY CrossedAt
<1>2. f.previous \notin Links
  BY OneKind
<1> QED
  BY <1>1, <1>2 DEF At

LEMMA BackHome ==
  ASSUME WellRouted, NEW e \in Event, OnTheWay(e), e.to \in Masters
  PROVE  Crossed(e) = 2 * Len(RoutePath[<<e.origin, e.destination>>])
<1> DEFINE n == Len(RoutePath[<<e.source, e.destination>>])
<1>1. PICK k \in 1 .. n : At(e, k)
  BY CrossedAt
<1>2. n \in Nat /\ e.source = e.origin
  BY CrossedAt, RouteLength
<1>3. e.to \notin Links
  BY OneKind
<1>4. Crossed(e) = 2 * n - 1 + 1 - 0
  BY <1>1, <1>3 DEF At
<1> QED
  BY <1>2, <1>4

LEMMA CrossedType ==
  ASSUME WellRouted, NEW e \in Event, OnTheWay(e) \/ AtSource(e) PROVE Crossed(e) \in Int
<1>1. CASE AtSource(e)
  BY <1>1 DEF Crossed
<1>2. CASE OnTheWay(e)
  <2> DEFINE n == Len(RoutePath[<<e.source, e.destination>>])
  <2>1. PICK k \in 1 .. n : At(e, k)
    BY <1>2, CrossedAt
  <2>2. n \in Nat
    BY <1>2, CrossedAt, RouteLength
  <2>3. Crossed(e) \in {k - 1, k - 0, 2 * n - k + 1 - 1, 2 * n - k + 1 - 0}
    BY <2>1 DEF At
  <2> HIDE DEF n
  <2> QED
    BY <2>2, <2>3
<1> QED
  BY <1>1, <1>2

-----------------------------------------------------------------------------
(* The work of a flat grid: what a step does to the tasks that wait to be
   processed, to those that have been, and to the turns of the schedulers. *)

SameWork ==
  \A s \in Machines : machineMetrics'[s].procTasks = machineMetrics[s].procTasks

WorkedBy(m) ==
  \A s \in Machines :
    machineMetrics'[s].procTasks =
      IF s = m THEN machineMetrics[s].procTasks + 1 ELSE machineMetrics[s].procTasks

SameHops ==
  \A l \in Links : linkMetrics'[l].commTasks = linkMetrics[l].commTasks

HoppedBy(k) ==
  \A l \in Links :
    linkMetrics'[l].commTasks =
      IF l = k THEN linkMetrics[l].commTasks + 1 ELSE linkMetrics[l].commTasks

SameTurns == UNCHANGED nextResource

(* A packet goes on. *)
GoesOn ==
  \E e \in pending, f \in Event :
    /\ pending' = Swapped(pending, e, f) /\ TaskOf(f) = TaskOf(e)
    /\ f.processed = e.processed /\ f.destination = e.destination
    /\ UNCHANGED remaining /\ SameTurns /\ SameWork
    /\ \/ SameHops /\ Crossed(f) = Crossed(e)
       \/ \E l \in Links : HoppedBy(l) /\ Crossed(f) = Crossed(e) + 1

(* The machine a task was sent to has processed it. *)
IsProcessed ==
  \E m \in Machines, e \in pending, f \in Event :
    /\ pending' = Swapped(pending, e, f) /\ TaskOf(f) = TaskOf(e)
    /\ ~ e.processed /\ e.destination = m /\ f.processed /\ f.destination = m
    /\ UNCHANGED remaining /\ SameTurns /\ WorkedBy(m)
    /\ SameHops /\ Crossed(f) = Crossed(e)

(* A packet that is back at its master has crossed the route twice. *)
IsHome(e, m) ==
  /\ e.processed /\ e.destination \in SlaveSet(m)
  /\ Crossed(e) = 2 * Len(RoutePath[<<m, e.destination>>])

(* A master sends its next slave a task: one of the builder, or one drawn from
   the workload when another is back. *)
IsGiven ==
  \E m \in Masters, e \in pending, f \in Event :
    /\ pending' = Swapped(pending, e, f)
    /\ ~ f.processed /\ f.destination = Slave(m, 0) /\ Slaves[m] # <<>>
    /\ nextResource' = [nextResource EXCEPT ![m] = Advanced(m, 1)] /\ SameWork
    /\ SameHops /\ Crossed(f) = 0
    /\ \/ /\ ~ e.processed /\ e.destination = Nobody /\ TaskOf(f) = TaskOf(e)
          /\ Crossed(e) = 0 /\ UNCHANGED remaining
       \/ /\ e.processed /\ IsHome(e, m) /\ m \in DOMAIN WorkloadSize /\ remaining[m] > 0
          /\ f.batch = "scheduler" /\ f.tid = Szudzik(remaining[m], m)
          /\ remaining' = [remaining EXCEPT ![m] = @ - 1]

(* A task is back, and no other is drawn. *)
IsDone ==
  \E m \in Masters, e \in pending :
    /\ e.processed /\ IsHome(e, m) /\ pending' = pending \ {e}
    /\ UNCHANGED remaining /\ SameTurns /\ SameWork /\ SameHops

(* A master gives its first tasks to its slaves. *)
AreGiven ==
  \E m \in Masters : \E sent \in [0 .. InitialBatch(m) - 1 -> Event] :
    /\ m \in DOMAIN WorkloadSize /\ AreNew(pending, InitialBatch(m), sent, m)
    /\ pending' = WithAll(pending, InitialBatch(m), sent)
    /\ \A i \in 0 .. InitialBatch(m) - 1 :
         ~ sent[i].processed /\ sent[i].destination = Slave(m, i) /\ Crossed(sent[i]) = 0
    /\ remaining' = [remaining EXCEPT ![m] = @ - InitialBatch(m)]
    /\ nextResource' = [nextResource EXCEPT ![m] = Advanced(m, InitialBatch(m))]
    /\ SameWork /\ SameHops

NothingGiven == UNCHANGED <<pending, remaining>> /\ SameTurns /\ SameWork /\ SameHops

LEMMA SameWorkOf ==
  ASSUME UNCHANGED machineVars PROVE SameWork
BY DEF machineVars, SameWork

LEMMA SameHopsOf ==
  ASSUME UNCHANGED linkVars PROVE SameHops
BY DEF linkVars, SameHops

LEMMA SameTurnsOf ==
  ASSUME UNCHANGED masterVars PROVE UNCHANGED remaining /\ SameTurns
BY DEF masterVars, SameTurns

(* No step of a flat grid ends in a fault. *)
LEMMA NoStop ==
  ASSUME RoutingInv', NEW e, NEW why, why # "none" PROVE ~ Stop(e, why)
BY DEF RoutingInv, NoFault, Running, Stop

LEMMA SendOnGoesOn ==
  ASSUME TypeInv', NEW e \in pending, NEW f, Replace(e, {f}),
         f.batch = e.batch, f.tid = e.tid, f.processed = e.processed,
         f.destination = e.destination, UNCHANGED remaining, SameTurns, SameWork,
         \/ SameHops /\ Crossed(f) = Crossed(e)
         \/ \E l \in Links : HoppedBy(l) /\ Crossed(f) = Crossed(e) + 1
  PROVE  GoesOn
<1>1. pending' = Swapped(pending, e, f) /\ f \in pending'
  BY DEF Replace, Swapped
<1>2. f \in Event
  BY <1>1 DEF TypeInv, TypeOK, EngineTypeOK
<1>3. TaskOf(f) = TaskOf(e)
  BY DEF TaskOf
<1> QED
  BY <1>1, <1>2, <1>3 DEF GoesOn

(* Only a packet that no master has sent yet is not on its way. *)
LEMMA IsOnTheWay ==
  ASSUME RoutingInv, NEW e \in pending, e.to \notin Masters \/ e.processed
  PROVE  OnTheWay(e)
<1>1. e.origin \in Masters
  BY PendingType DEF RoutingInv
<1>2. ~ AtSource(e)
  BY <1>1 DEF AtSource
<1> QED
  BY <1>2 DEF RoutingInv, PacketsOnRoute

(* And it is still on it after a hop. *)
LEMMA SentOnTheWay ==
  ASSUME RoutingInv', WellRouted, NEW f, f \in pending', f.destination # Nobody
  PROVE  f \in Event /\ OnTheWay(f)
<1>1. f \in Event
  BY DEF RoutingInv, TypeInv, TypeOK, EngineTypeOK
<1>2. OnTheWay(f) \/ f.destination = Nobody
  BY DEF RoutingInv, Directed
<1> QED
  BY <1>1, <1>2

LEMMA SlaveIsSomebody ==
  ASSUME WellRouted, NEW m \in Masters, NEW s \in SlaveSet(m) PROVE s # Nobody
<1>1. s \in Nat
  BY RouteOfSlave, EngineAssumption DEF Services
<1> QED
  BY <1>1 DEF Nobody

LEMMA LinkGoesOn == ASSUME RoutingInv, RoutingInv', LinkArrival PROVE GoesOn
<1>1. PICK e \in pending : e.to \in Links /\ LinkOnTaskArrival(e.to, e)
  BY DEF LinkArrival
<1> DEFINE f == [e EXCEPT !.to = OtherEnd(e.to, e), !.time = LinkDeparture(e.to, e),
                          !.previous = e.to]
<1>2. /\ f.batch = e.batch /\ f.tid = e.tid /\ f.processed = e.processed
      /\ f.destination = e.destination /\ f.source = e.source
      /\ f.previous = e.to /\ f.forward = e.forward /\ f.offset = e.offset
  BY PendingType DEF RoutingInv, Event
<1>3. Replace(e, {f})
  BY <1>1, NoStop DEF LinkOnTaskArrival
<1>4. UNCHANGED remaining /\ SameTurns /\ SameWork
  BY SameTurnsOf, SameWorkOf DEF LinkArrival
<1> HIDE DEF f
<1>5. Crossed(f) = Crossed(e) + 1
  <2>1. e \in Event /\ WellRouted /\ OnTheWay(e)
    BY <1>1, PendingType, IsOnTheWay, OneKind DEF RoutingInv
  <2>2. e.destination # Nobody
    BY <2>1, CrossedAt, SlaveIsSomebody
  <2>3. f \in pending'
    BY <1>3 DEF Replace
  <2>4. f \in Event /\ OnTheWay(f)
    BY <1>2, <2>1, <2>2, <2>3, SentOnTheWay
  <2> QED
    BY <1>1, <1>2, <2>1, <2>4, LinkCrosses
<1>6. HoppedBy(e.to)
  <2>1. linkMetrics \in [Links -> LinkMetrics]
    BY DEF RoutingInv, TypeInv, TypeOK, LinkTypeOK
  <2>2. linkMetrics' = [linkMetrics EXCEPT
          ![e.to].commMBits = @ + e.commSize,
          ![e.to].commTime  = @ + LinkCommTime(e.to, e.commSize),
          ![e.to].commTasks = @ + 1]
    BY <1>1 DEF LinkOnTaskArrival, LinkCount
  <2> QED
    BY <1>1, <2>1, <2>2 DEF LinkMetrics, HoppedBy
<1> QED
  BY <1>1, <1>2, <1>3, <1>4, <1>5, <1>6, SendOnGoesOn DEF RoutingInv

LEMMA ForwardGoesOn ==
  ASSUME RoutingInv, RoutingInv', NEW e \in pending, e.to \in Machines \cup Switches,
         Forward(e.to, e), UNCHANGED remaining, SameTurns, SameWork, SameHops
  PROVE  GoesOn
<1> DEFINE f(next) == [e EXCEPT !.to = next, !.previous = e.to, !.offset = NextOffset(e)]
<1>1. \A next : /\ f(next).batch = e.batch /\ f(next).tid = e.tid
                /\ f(next).processed = e.processed /\ f(next).destination = e.destination
                /\ f(next).source = e.source /\ f(next).previous = e.to
                /\ f(next).forward = e.forward /\ f(next).offset = NextOffset(e)
  BY PendingType DEF RoutingInv, Event
<1>2. PICK next : Replace(e, {f(next)})
  BY NoStop DEF Forward
<1> HIDE DEF f
<1>3. PICK g : g = f(next)
  OBVIOUS
<1>4. /\ g.batch = e.batch /\ g.tid = e.tid
      /\ g.processed = e.processed /\ g.destination = e.destination
      /\ g.source = e.source /\ g.previous = e.to
      /\ g.forward = e.forward /\ g.offset = NextOffset(e)
      /\ Replace(e, {g})
  BY <1>1, <1>2, <1>3
<1>5. Crossed(g) = Crossed(e)
  <2>1. e \in Event /\ WellRouted /\ OnTheWay(e)
    BY PendingType, IsOnTheWay, OneKind DEF RoutingInv
  <2>2. e.destination # Nobody
    BY <2>1, CrossedAt, SlaveIsSomebody
  <2>3. g \in pending'
    BY <1>4 DEF Replace
  <2>4. g \in Event /\ OnTheWay(g)
    BY <1>4, <2>1, <2>2, <2>3, SentOnTheWay
  <2>5. e.to \notin Links
    BY OneKind
  <2> QED
    BY <1>4, <2>1, <2>4, <2>5, ForwardCrosses
<1> QED
  BY <1>4, <1>5, SendOnGoesOn DEF RoutingInv

(* What arrives at the machine it was sent to has not been processed. *)
LEMMA AtItsSlave ==
  ASSUME RoutingInv, NEW e \in pending, e.to \in Machines, e.destination = e.to
  PROVE  ~ e.processed
<1> DEFINE path == RoutePath[<<e.source, e.destination>>]
           walk == Walk[<<e.source, e.destination>>]
<1>1. ~ AtSource(e)
  BY OneKind DEF RoutingInv, TypeInv, TypeOK, EngineTypeOK, Event, AtSource
<1>2. PICK k \in 1 .. Len(path) :
        \/ GoingAtLink(e, path, walk, k)
        \/ GoingAtService(e, path, walk, k)
        \/ BackAtLink(e, path, walk, k)
        \/ BackAtService(e, path, walk, k)
  BY <1>1, Place
<1>3. WellRouted /\ e.source \in Masters /\ e.destination \in SlaveSet(e.source)
  BY <1>1, Place DEF RoutingInv
<1>4. /\ Len(path) \in Nat /\ walk[0] = e.source /\ path[k] \in Links
      /\ k > 1 => walk[k-1] # e.to
  BY <1>3, LinkOfRoute
<1> HIDE DEF path, walk
<1>5. path[k] # e.to
  BY <1>4, OneKind
<1>6. walk[k-1] # e.to
  <2>1. k = 1 \/ k > 1
    BY <1>4
  <2>2. walk[0] # e.to
    BY <1>3, <1>4, OneKind
  <2> QED
    BY <1>4, <2>1, <2>2
<1> QED
  BY <1>2, <1>5, <1>6 DEF GoingAtLink, GoingAtService, BackAtLink, BackAtService

LEMMA MachineWorks ==
  ASSUME RoutingInv, RoutingInv', MachineArrival PROVE GoesOn \/ IsProcessed
<1>1. PICK e \in pending : e.to \in Machines /\ MachineOnTaskArrival(e.to, e)
  BY DEF MachineArrival
<1> DEFINE m == e.to
<1>2. UNCHANGED remaining /\ SameTurns /\ SameHops
  BY SameTurnsOf, SameHopsOf DEF MachineArrival
<1>3. machineMetrics \in [Machines -> MachineMetrics]
  BY DEF RoutingInv, TypeInv, TypeOK, MachineTypeOK
<1>4. CASE MachineForward(m, e)
  <2>1. machineMetrics' = [machineMetrics EXCEPT ![m].lastActivityTime = e.time,
                                                 ![m].forwardedPackets = @ + 1]
    BY <1>4 DEF MachineForward
  <2>2. SameWork
    BY <1>1, <1>3, <2>1 DEF MachineMetrics, SameWork
  <2>3. Forward(m, e)
    BY <1>4 DEF MachineForward
  <2> QED
    BY <1>1, <1>2, <2>2, <2>3, ForwardGoesOn
<1>5. CASE e.destination = m /\ MachineProcess(m, e)
  <2> DEFINE f(c) == [e EXCEPT !.to = e.previous, !.time = CoreDeparture(m, c, e),
                               !.processed = TRUE, !.previous = m,
                               !.offset = AnswerOffset(e.offset), !.forward = FALSE]
  <2>1. \A c : /\ f(c).batch = e.batch /\ f(c).tid = e.tid /\ f(c).processed
              /\ f(c).source = e.source /\ f(c).destination = e.destination
              /\ f(c).previous = m /\ ~ f(c).forward
              /\ f(c).offset = AnswerOffset(e.offset)
    BY PendingType DEF RoutingInv, Event
  <2>2. PICK c \in 0 .. Cores[m] - 1 :
          /\ Replace(e, {f(c)})
          /\ machineMetrics' = [machineMetrics EXCEPT
               ![m].lastActivityTime = e.time,
               ![m].procMFlops = @ + e.procSize,
               ![m].procTime   = @ + TimeToProcess(m, e.procSize),
               ![m].procTasks  = @ + 1]
    BY <1>5 DEF MachineProcess
  <2> HIDE DEF f
  <2>3. WorkedBy(m)
    BY <1>1, <1>3, <2>2 DEF MachineMetrics, WorkedBy
  <2>4. pending' = Swapped(pending, e, f(c)) /\ f(c) \in pending'
    BY <2>2 DEF Replace, Swapped
  <2>5. f(c) \in Event
    BY <2>4 DEF RoutingInv, TypeInv, TypeOK, EngineTypeOK
  <2>6. /\ TaskOf(f(c)) = TaskOf(e) /\ f(c).processed /\ ~ e.processed
        /\ f(c).destination = m
    BY <1>1, <1>5, <2>1, AtItsSlave DEF TaskOf
  <2>7. Crossed(f(c)) = Crossed(e)
    <3>1. PICK g : g = f(c)
      OBVIOUS
    <3>2. /\ g.source = e.source /\ g.destination = e.destination /\ g.previous = m
          /\ ~ g.forward /\ g.offset = AnswerOffset(e.offset) /\ g \in pending'
      BY <2>1, <2>4, <3>1
    <3>3. e \in Event /\ WellRouted /\ OnTheWay(e)
      BY <1>1, PendingType, IsOnTheWay, OneKind DEF RoutingInv
    <3>4. e.destination # Nobody
      BY <3>3, CrossedAt, SlaveIsSomebody
    <3>5. g \in Event /\ OnTheWay(g)
      BY <3>2, <3>3, <3>4, SentOnTheWay
    <3>6. Crossed(g) = Crossed(e)
      BY <1>1, <1>5, <2>6, <3>2, <3>3, <3>5, ProcessCrosses
    <3> QED
      BY <3>1, <3>6
  <2> QED
    BY <1>1, <1>2, <1>5, <2>3, <2>4, <2>5, <2>6, <2>7 DEF IsProcessed
<1> QED
  BY <1>1, <1>4, <1>5 DEF MachineOnTaskArrival

LEMMA ToSlaveDestination ==
  ASSUME NEW t \in Event, NEW m, NEW s, NEW time
  PROVE  ToSlave(m, s, time, t).destination = s
BY DEF ToSlave, Event

(* A task that is sent to a slave has crossed no link. *)
LEMMA SentCrossed ==
  ASSUME RoutingInv', WellRouted, NEW m \in Masters, NEW s \in SlaveSet(m),
         NEW time, NEW t \in Event, ToSlave(m, s, time, t) \in pending'
  PROVE  Crossed(ToSlave(m, s, time, t)) = 0
<1> DEFINE f == ToSlave(m, s, time, t)
<1>1. f.previous = m /\ f.forward /\ f.offset = 1 /\ f.destination = s
  BY DEF ToSlave, Event
<1>2. s # Nobody
  BY SlaveIsSomebody
<1> HIDE DEF f
<1>3. f \in pending'
  BY DEF f
<1>4. f \in Event /\ OnTheWay(f)
  BY <1>1, <1>2, <1>3, SentOnTheWay
<1>5. Crossed(f) = 0
  BY <1>1, <1>4, FirstHop
<1> QED
  BY <1>5 DEF f

(* The next slave gets a task. *)
LEMMA SendToNextGives ==
  ASSUME RoutingInv, RoutingInv', NEW m \in Masters, NEW e, NEW t \in Event,
         SendToNext(m, e, t)
  PROVE  LET f == ToSlave(m, Slave(m, 0), e.time, t)
         IN  /\ pending' = Swapped(pending, e, f) /\ f \in Event
             /\ f.destination = Slave(m, 0) /\ Slaves[m] # <<>> /\ Crossed(f) = 0
             /\ nextResource' = [nextResource EXCEPT ![m] = Advanced(m, 1)]
<1> DEFINE f == ToSlave(m, Slave(m, 0), e.time, t)
<1>1. /\ Replace(e, {f}) /\ Slaves[m] # <<>>
      /\ nextResource' = [nextResource EXCEPT ![m] = Advanced(m, 1)]
  BY NoStop DEF SendToNext
<1>2. f.destination = Slave(m, 0)
  BY ToSlaveDestination
<1> HIDE DEF f
<1>3. pending' = Swapped(pending, e, f) /\ f \in pending'
  BY <1>1 DEF Replace, Swapped
<1>4. f \in Event
  BY <1>3 DEF RoutingInv, TypeInv, TypeOK, EngineTypeOK
<1>5. Crossed(f) = 0
  <2>1. WellRouted /\ nextResource[m] \in Nat
    BY DEF RoutingInv, TypeInv, TypeOK, MasterTypeOK
  <2>2. PICK s \in SlaveSet(m) : s = Slave(m, 0)
    BY <1>1, <2>1, SlaveType
  <2>3. PICK time : time = e.time
    OBVIOUS
  <2>4. f = ToSlave(m, s, time, t)
    BY <2>2, <2>3 DEF f
  <2>5. Crossed(ToSlave(m, s, time, t)) = 0
    BY <1>3, <2>1, <2>4, SentCrossed
  <2> QED
    BY <2>4, <2>5
<1> QED
  BY <1>1, <1>2, <1>3, <1>4, <1>5 DEF f

(* What is processed and at a master is home. *)
LEMMA AtHome ==
  ASSUME RoutingInv, NEW e \in pending, e.to \in Masters, e.processed
  PROVE  IsHome(e, e.to)
<1>1. e \in Event /\ WellRouted /\ OnTheWay(e) /\ e.origin = e.to
  BY PendingType, IsOnTheWay, AtOwnMaster DEF RoutingInv
<1>2. e.destination \in SlaveSet(e.to)
  BY <1>1, CrossedAt
<1>3. Crossed(e) = 2 * Len(RoutePath[<<e.to, e.destination>>])
  BY <1>1, BackHome
<1> QED
  BY <1>2, <1>3 DEF IsHome

LEMMA MasterWorks ==
  ASSUME RoutingInv, RoutingInv', MasterArrival PROVE IsGiven \/ IsDone
<1>1. PICK e \in pending : e.to \in Masters /\ MasterOnTaskArrival(e.to, e)
  BY DEF MasterArrival
<1> DEFINE m == e.to
<1>2. /\ e \in Event /\ e.origin = m /\ m \in DOMAIN WorkloadSize /\ SameWork
      /\ remaining[m] \in Nat /\ SameHops
  BY <1>1, PendingType, RemainingType, AtOwnMaster, SameWorkOf, SameHopsOf
     DEF RoutingInv, Supplied, MasterArrival
<1>3. CASE ~ e.processed /\ SendToNext(m, e, e) /\ UNCHANGED remaining
  <2> DEFINE f == ToSlave(m, Slave(m, 0), e.time, e)
  <2>1. /\ pending' = Swapped(pending, e, f) /\ f \in Event
        /\ f.destination = Slave(m, 0) /\ Slaves[m] # <<>> /\ Crossed(f) = 0
        /\ nextResource' = [nextResource EXCEPT ![m] = Advanced(m, 1)]
    BY <1>1, <1>2, <1>3, SendToNextGives
  <2>2. TaskOf(f) = TaskOf(e) /\ ~ f.processed
    BY <1>2, <1>3, ToSlaveKeepsTask DEF TaskOf
  <2>3. e.destination = Nobody /\ Crossed(e) = 0
    BY <1>1, <1>2, <1>3, NotYetSent DEF Crossed, AtSource
  <2> HIDE DEF f
  <2> QED
    BY <1>1, <1>2, <1>3, <2>1, <2>2, <2>3 DEF IsGiven
<1>4. CASE e.processed /\ OnCompletedTask(m, e)
  <2> IsHome(e, m)
    BY <1>1, <1>4, AtHome
  <2>1. CASE Replace(e, {}) /\ UNCHANGED <<remaining, nextResource>>
    BY <1>1, <1>2, <1>4, <2>1 DEF Replace, IsDone, SameTurns
  <2>2. ASSUME NEW size \in TaskSizes, HasRemainingWorkload(m),
               SendToNext(m, e, NewTask("scheduler", m, TaskNumber(m, 0), size)),
               remaining' = [remaining EXCEPT ![m] = @ - 1]
        PROVE  IsGiven
    <3> DEFINE t == NewTask("scheduler", m, TaskNumber(m, 0), size)
               f == ToSlave(m, Slave(m, 0), e.time, t)
    <3>1. t \in Event
      BY <1>1, <1>2, NewTaskType DEF TaskNumber
    <3>2. /\ t.batch = "scheduler" /\ t.tid = Szudzik(remaining[m], m) /\ ~ t.processed
      BY <1>2 DEF NewTask, TaskNumber
    <3>3. SendToNext(m, e, t)
      BY <2>2
    <3> HIDE DEF t
    <3>4. /\ pending' = Swapped(pending, e, f) /\ f \in Event
          /\ f.destination = Slave(m, 0) /\ Slaves[m] # <<>> /\ Crossed(f) = 0
          /\ nextResource' = [nextResource EXCEPT ![m] = Advanced(m, 1)]
      BY <1>1, <3>1, <3>3, SendToNextGives
    <3>5. f.batch = "scheduler" /\ f.tid = Szudzik(remaining[m], m) /\ ~ f.processed
      BY <3>1, <3>2, ToSlaveKeepsTask
    <3>6. remaining[m] > 0
      BY <2>2 DEF HasRemainingWorkload
    <3> HIDE DEF f
    <3> QED
      BY <1>1, <1>2, <1>4, <2>2, <3>4, <3>5, <3>6 DEF IsGiven
  <2>3. workload[m] = "assigned"
    BY <1>1, <1>2 DEF RoutingInv, Supplied
  <2> QED
    BY <1>4, <2>1, <2>2, <2>3 DEF OnCompletedTask
<1> QED
  BY <1>1, <1>2, <1>3, <1>4 DEF MasterOnTaskArrival

LEMMA SchedulerWorks ==
  ASSUME RoutingInv, RoutingInv', NumberInv, SchedulerInit PROVE NothingGiven \/ AreGiven
<1>1. PICK m \in Masters : OnInit(m)
  BY DEF SchedulerInit, MasterOnSchedulerInit
<1>2. SameWork /\ SameHops
  BY SameWorkOf, SameHopsOf DEF SchedulerInit
<1>3. CASE UNCHANGED <<pending, remaining, nextResource>>
  BY <1>2, <1>3 DEF NothingGiven, SameTurns
<1>4. ASSUME workload[m] = "assigned",
             NEW size \in [0 .. InitialBatch(m) - 1 -> TaskSizes],
             pending' = pending \cup
               {ToSlave(m, Slave(m, i), 0,
                        NewTask("scheduler", m, TaskNumber(m, i), size[i])) :
                  i \in 0 .. InitialBatch(m) - 1},
             remaining' = [remaining EXCEPT ![m] = @ - InitialBatch(m)],
             nextResource' = [nextResource EXCEPT ![m] = Advanced(m, InitialBatch(m))]
      PROVE  AreGiven
  <2> DEFINE n == InitialBatch(m)
             batch == 0 .. n - 1
             task(i) == NewTask("scheduler", m, TaskNumber(m, i), size[i])
             sent == [i \in batch |-> ToSlave(m, Slave(m, i), 0, task(i))]
  <2>1. ASSUME NEW i \in batch
        PROVE  /\ sent[i].batch = "scheduler" /\ sent[i].origin = m /\ ~ sent[i].processed
               /\ sent[i].tid = Szudzik(remaining[m] - i, m)
               /\ sent[i].destination = Slave(m, i)
    <3>1. TaskNumber(m, i) \in Nat
      BY RemainingType, InitialBatchType DEF RoutingInv
    <3>2. task(i) \in Event
      BY <3>1, NewTaskType
    <3>3. /\ task(i).batch = "scheduler" /\ task(i).tid = Szudzik(remaining[m] - i, m)
          /\ task(i).origin = m /\ ~ task(i).processed
      BY DEF NewTask, TaskNumber
    <3>4. sent[i] = ToSlave(m, Slave(m, i), 0, task(i))
      OBVIOUS
    <3> HIDE DEF task, sent
    <3> QED
      BY <3>2, <3>3, <3>4, ToSlaveKeepsTask, ToSlaveDestination
  <2>2. pending' = WithAll(pending, n, sent)
    BY <1>4 DEF WithAll, Batch
  <2>3. DOMAIN sent = batch /\ sent = [i \in batch |-> sent[i]]
    OBVIOUS
  <2>4. ASSUME NEW i \in batch PROVE Crossed(sent[i]) = 0
    <3>1. TaskNumber(m, i) \in Nat /\ WellRouted /\ nextResource[m] \in Nat /\ i \in Nat
          /\ Slaves[m] # <<>>
      BY RemainingType, InitialBatchType DEF RoutingInv, TypeInv, TypeOK, MasterTypeOK
    <3>2. PICK t \in Event : t = task(i)
      BY <3>1, NewTaskType
    <3>3. PICK s \in SlaveSet(m) : s = Slave(m, i)
      BY <3>1, SlaveType
    <3>4. sent[i] = ToSlave(m, s, 0, t)
      BY <3>2, <3>3
    <3> HIDE DEF task, sent, n
    <3>5. sent[i] \in pending'
      BY <2>2 DEF WithAll, Batch, batch
    <3>6. Crossed(ToSlave(m, s, 0, t)) = 0
      BY <3>1, <3>4, <3>5, SentCrossed
    <3> QED
      BY <3>4, <3>6
  <2> HIDE DEF sent
  <2>5. \A i \in batch : sent[i] \in Event
    BY <2>2 DEF RoutingInv, TypeInv, TypeOK, EngineTypeOK, WithAll, Batch
  <2>6. sent \in [batch -> Event]
    BY <2>3, <2>5
  <2>7. AreNew(pending, n, sent, m)
    BY <2>1, BatchIsNew
  <2>8. m \in DOMAIN WorkloadSize
    BY <1>4 DEF RoutingInv, Supplied
  <2> QED
    BY <1>2, <1>4, <2>1, <2>2, <2>4, <2>6, <2>7, <2>8 DEF AreGiven
<1>5. ASSUME NEW why \in {"bad workload", "no route"}, fault' = [why |-> why, at |-> m]
      PROVE  FALSE
  <2>1. fault' = Running
    BY DEF RoutingInv, NoFault
  <2>2. Running.why = "none" /\ fault'.why = why
    BY <1>5 DEF Running
  <2> QED
    BY <2>1, <2>2
<1> QED
  BY <1>1, <1>3, <1>4, <1>5 DEF OnInit

LEMMA StepWorks ==
  ASSUME RoutingInv, NumberInv, [Next]_vars
  PROVE  GoesOn \/ IsProcessed \/ IsGiven \/ IsDone \/ AreGiven \/ NothingGiven
<1>1. RoutingInv'
  BY RoutingStep
<1>2. CASE UNCHANGED vars
  <2>1. UNCHANGED <<pending, masterVars, machineVars, linkVars>>
    BY <1>2 DEF vars, engineVars
  <2> QED
    BY <2>1, SameWorkOf, SameTurnsOf, SameHopsOf DEF NothingGiven
<1>3. CASE SwitchArrival
  <2>1. UNCHANGED remaining /\ SameTurns /\ SameWork /\ SameHops
    BY <1>3, SameWorkOf, SameTurnsOf, SameHopsOf DEF SwitchArrival
  <2> QED
    BY <1>1, <1>3, <2>1, ForwardGoesOn DEF SwitchArrival, SwitchOnTaskArrival
<1> QED
  BY <1>1, <1>2, <1>3, LinkGoesOn, MachineWorks, MasterWorks, SchedulerWorks DEF Next


-----------------------------------------------------------------------------
(* How many of the pending packets are in a set of packets. *)

LEMMA CommonFinite ==
  ASSUME NEW packets, IsFiniteSet(packets), NEW K
  PROVE  IsFiniteSet(packets \cap K) /\ Cardinality(packets \cap K) \in Nat
<1>1. packets \cap K \in SUBSET packets
  OBVIOUS
<1>2. IsFiniteSet(packets \cap K)
  BY <1>1, FS_Subset
<1> QED
  BY <1>2, FS_CardinalityType

LEMMA OneLessCommon ==
  ASSUME NEW packets, IsFiniteSet(packets), NEW e \in packets, NEW K
  PROVE  Cardinality((packets \ {e}) \cap K) =
           IF e \in K THEN Cardinality(packets \cap K) - 1 ELSE Cardinality(packets \cap K)
<1>1. IsFiniteSet(packets \cap K)
  BY CommonFinite
<1>2. CASE e \in K
  <2>1. (packets \ {e}) \cap K = (packets \cap K) \ {e} /\ e \in packets \cap K
    BY <1>2
  <2>2. Cardinality((packets \cap K) \ {e}) = Cardinality(packets \cap K) - 1
    BY <1>1, <2>1, FS_RemoveElement
  <2> QED
    BY <1>2, <2>1, <2>2
<1>3. CASE e \notin K
  <2>1. (packets \ {e}) \cap K = packets \cap K
    BY <1>3
  <2> QED
    BY <1>3, <2>1
<1> QED
  BY <1>2, <1>3

LEMMA OneMoreCommon ==
  ASSUME NEW packets, IsFiniteSet(packets), NEW f, f \notin packets, NEW K
  PROVE  Cardinality((packets \cup {f}) \cap K) =
           IF f \in K THEN Cardinality(packets \cap K) + 1 ELSE Cardinality(packets \cap K)
<1>1. IsFiniteSet(packets \cap K)
  BY CommonFinite
<1>2. CASE f \in K
  <2>1. (packets \cup {f}) \cap K = (packets \cap K) \cup {f} /\ f \notin packets \cap K
    BY <1>2
  <2>2. Cardinality((packets \cap K) \cup {f}) = Cardinality(packets \cap K) + 1
    BY <1>1, <2>1, FS_AddElement
  <2> QED
    BY <1>2, <2>1, <2>2
<1>3. CASE f \notin K
  <2>1. (packets \cup {f}) \cap K = packets \cap K
    BY <1>3
  <2> QED
    BY <1>3, <2>1
<1> QED
  BY <1>2, <1>3

LEMMA SwappedCommon ==
  ASSUME NEW packets, IsFiniteSet(packets), NEW e \in packets,
         NEW f, f \notin packets \ {e}, NEW K
  PROVE  /\ e \in K /\ f \in K =>
              Cardinality(Swapped(packets, e, f) \cap K) = Cardinality(packets \cap K)
         /\ e \notin K /\ f \notin K =>
              Cardinality(Swapped(packets, e, f) \cap K) = Cardinality(packets \cap K)
         /\ e \in K /\ f \notin K =>
              Cardinality(Swapped(packets, e, f) \cap K) = Cardinality(packets \cap K) - 1
         /\ e \notin K /\ f \in K =>
              Cardinality(Swapped(packets, e, f) \cap K) = Cardinality(packets \cap K) + 1
<1> DEFINE rest == packets \ {e}
<1>1. IsFiniteSet(rest)
  BY FS_RemoveElement
<1>2. Cardinality(rest \cap K) =
        IF e \in K THEN Cardinality(packets \cap K) - 1 ELSE Cardinality(packets \cap K)
  BY OneLessCommon
<1> HIDE DEF rest
<1>3. Cardinality((rest \cup {f}) \cap K) =
        IF f \in K THEN Cardinality(rest \cap K) + 1 ELSE Cardinality(rest \cap K)
  BY <1>1, OneMoreCommon DEF rest
<1>4. Swapped(packets, e, f) = rest \cup {f}
  BY DEF Swapped, rest
<1>5. Cardinality(packets \cap K) \in Nat
  BY CommonFinite
<1> QED
  BY <1>2, <1>3, <1>4, <1>5

Fresh(packets, n, sent) == \E m : AreNew(packets, n, sent, m)

NumberIn(packets, K) == Cardinality(packets \cap K)

LEMMA BatchCommon ==
  ASSUME NEW packets, IsFiniteSet(packets), NEW n \in Nat, NEW sent,
         Fresh(packets, n, sent), NEW K
  PROVE  NumberIn(WithAll(packets, n, sent), K)
           = NumberIn(packets, K) + NumberIn(Batch(n, sent), K)
<1> DEFINE old == packets \cap K
           new == Batch(n, sent) \cap K
<1>1. PICK m : AreNew(packets, n, sent, m)
  BY DEF Fresh
<1>2. IsFiniteSet(Batch(n, sent))
  BY <1>1, OneForEach DEF AreNew
<1>3. /\ IsFiniteSet(old) /\ Cardinality(old) \in Nat
      /\ IsFiniteSet(new) /\ Cardinality(new) \in Nat
  BY <1>2, CommonFinite
<1>4. WithAll(packets, n, sent) \cap K = old \cup new /\ old \cap new = {}
  BY <1>1 DEF WithAll, AreNew, Batch
<1> HIDE DEF old, new
<1>5. Cardinality(old \cup new) = Cardinality(old) + Cardinality(new) - Cardinality(old \cap new)
  BY <1>3, FS_Union
<1>6. Cardinality(old \cap new) = 0
  BY <1>4, FS_EmptySet
<1>7. Cardinality(old \cup new) = Cardinality(old) + Cardinality(new)
  BY <1>3, <1>5, <1>6
<1> QED
  BY <1>4, <1>7 DEF old, new, NumberIn


-----------------------------------------------------------------------------
(* The machines' counters, the generated tasks and the packets that are not
   processed yet add up. *)

Unprocessed == {e \in Event : ~ e.processed}

ProcTasks == [m \in Machines |-> machineMetrics[m].procTasks]

GeneratedBy == [m \in Masters |-> Generated(m)]

WorkInv == CountInv /\ TasksProcessedOnce

LEMMA Populations == IsFiniteSet(Machines) /\ IsFiniteSet(Masters)
<1>1. IsFiniteSet(Services) /\ Masters \in SUBSET Services /\ Machines \in SUBSET Services
  BY EngineAssumption DEF Services
<1> QED
  BY <1>1, FS_Subset

LEMMA WorkTypes ==
  ASSUME CountInv
  PROVE  /\ \A m \in Machines : ProcTasks[m] \in Nat
         /\ \A m \in Masters : GeneratedBy[m] \in Int
         /\ SumFunction(ProcTasks) \in Int /\ SumFunction(GeneratedBy) \in Int
         /\ {e \in pending : ~ e.processed} = pending \cap Unprocessed
         /\ Cardinality(pending \cap Unprocessed) \in Nat
<1>1. \A m \in Machines : ProcTasks[m] \in Nat
  BY DEF ProcTasks, CountInv, RoutingInv, TypeInv, TypeOK, MachineTypeOK, MachineMetrics
<1>2. ASSUME NEW m \in Masters PROVE GeneratedBy[m] \in Int
  <2>1. /\ BuilderTasks[m] \in Nat /\ remaining[m] \in Nat
        /\ m \in DOMAIN WorkloadSize => WorkloadSize[m] \in Nat
    BY CountTypes
  <2> QED
    BY <2>1 DEF GeneratedBy, Generated
<1>3. DOMAIN ProcTasks = Machines /\ DOMAIN GeneratedBy = Masters
  BY DEF ProcTasks, GeneratedBy
<1>4. SumFunction(ProcTasks) \in Int
  BY <1>1, <1>3, Populations, SumType DEF SumFunction
<1>5. SumFunction(GeneratedBy) \in Int
  BY <1>2, <1>3, Populations, SumType DEF SumFunction
<1>6. {e \in pending : ~ e.processed} = pending \cap Unprocessed
  BY DEF CountInv, RoutingInv, TypeInv, TypeOK, EngineTypeOK, Unprocessed
<1>7. Cardinality(pending \cap Unprocessed) \in Nat
  BY CommonFinite DEF CountInv
<1> QED
  BY <1>1, <1>2, <1>4, <1>5, <1>6, <1>7

GeneratedTypeOK == \A m \in Masters : GeneratedBy[m] \in Int

LEMMA GeneratedType == CountInv => GeneratedTypeOK
BY WorkTypes DEF GeneratedTypeOK

(* The balance, with its parts named. *)
LEMMA Balance ==
  ASSUME CountInv
  PROVE  TasksProcessedOnce <=>
           SumFunction(ProcTasks) = SumFunction(GeneratedBy) - Cardinality(pending \cap Unprocessed)
BY WorkTypes DEF TasksProcessedOnce, ProcTasks, GeneratedBy

LEMMA SameSum == ASSUME SameWork PROVE SumFunction(ProcTasks)' = SumFunction(ProcTasks)
<1>1. ProcTasks' = ProcTasks
  BY DEF SameWork, ProcTasks
<1> QED
  BY <1>1

LEMMA SumOfWork ==
  ASSUME CountInv, CountInv', NEW m \in Machines, WorkedBy(m)
  PROVE  SumFunction(ProcTasks)' = SumFunction(ProcTasks) + 1
<1> DEFINE f == ProcTasks
           g == ProcTasks'
<1>1. DOMAIN f = Machines /\ DOMAIN g = Machines
  BY DEF ProcTasks
<1>2. \A s \in Machines : f[s] \in Nat /\ g[s] = IF s = m THEN f[s] + 1 ELSE f[s]
  BY WorkTypes DEF WorkedBy, ProcTasks
<1>3. SumFunctionOnSet(f, Machines) \in Int
  BY <1>1, WorkTypes DEF SumFunction
<1>4. SumFunction(f)' = SumFunction(g)
  OBVIOUS
<1> HIDE DEF f, g
<1>5. \A s \in Machines : f[s] \in Int /\ g[s] \in Int
  BY <1>2
<1>6. \A s \in Machines \ {m} : f[s] = g[s]
  BY <1>2
<1>7. SumFunctionOnSet(g, Machines) = SumFunctionOnSet(f, Machines) + g[m] - f[m]
  BY <1>5, <1>6, Populations, SumChanges
<1>8. SumFunctionOnSet(g, Machines) = SumFunctionOnSet(f, Machines) + 1
  BY <1>2, <1>3, <1>7
<1> QED
  BY <1>1, <1>4, <1>8 DEF SumFunction, f

LEMMA SameGenerated ==
  ASSUME UNCHANGED remaining PROVE SumFunction(GeneratedBy)' = SumFunction(GeneratedBy)
<1>1. GeneratedBy' = GeneratedBy
  BY DEF GeneratedBy, Generated
<1> QED
  BY <1>1

LEMMA SumOfDrawn ==
  ASSUME CountInv, CountInv', NEW m \in Masters, m \in DOMAIN WorkloadSize, NEW n \in Nat,
         remaining' = [remaining EXCEPT ![m] = @ - n]
  PROVE  SumFunction(GeneratedBy)' = SumFunction(GeneratedBy) + n
<1> DEFINE f == GeneratedBy
           g == GeneratedBy'
<1>1. DOMAIN f = Masters /\ DOMAIN g = Masters
  BY DEF GeneratedBy
<1>2. \A k \in Masters : f[k] \in Int /\ g[k] \in Int
  <2>1. \A k \in Masters : GeneratedBy[k] \in Int
    BY WorkTypes
  <2>2. CountInv' => GeneratedTypeOK'
    BY GeneratedType, PTL
  <2> QED
    BY <2>1, <2>2 DEF GeneratedTypeOK
<1>3. \A k \in Masters \ {m} : f[k] = g[k]
  <2>1. \A k \in Masters \ {m} : remaining'[k] = remaining[k]
    BY CountTypes
  <2> QED
    BY <2>1 DEF GeneratedBy, Generated
<1>4. g[m] = f[m] + n
  <2>1. /\ BuilderTasks[m] \in Nat /\ remaining[m] \in Nat /\ WorkloadSize[m] \in Nat
        /\ remaining'[m] = remaining[m] - n
    BY CountTypes
  <2>2. f[m] = BuilderTasks[m] + (WorkloadSize[m] - remaining[m])
    BY DEF GeneratedBy, Generated
  <2>3. g[m] = BuilderTasks[m] + (WorkloadSize[m] - remaining'[m])
    BY DEF GeneratedBy, Generated
  <2> HIDE DEF f, g
  <2> QED
    BY <2>1, <2>2, <2>3
<1>5. SumFunctionOnSet(f, Masters) \in Int
  BY <1>1, WorkTypes DEF SumFunction
<1>6. SumFunction(f)' = SumFunction(g)
  OBVIOUS
<1> HIDE DEF f, g
<1>7. SumFunctionOnSet(g, Masters) = SumFunctionOnSet(f, Masters) + g[m] - f[m]
  BY <1>2, <1>3, Populations, SumChanges
<1>8. f[m] \in Int
  BY <1>2
<1>9. SumFunctionOnSet(g, Masters) = SumFunctionOnSet(f, Masters) + n
  BY <1>4, <1>5, <1>7, <1>8
<1> QED
  BY <1>1, <1>6, <1>9 DEF SumFunction, f

(* A packet that carries the task of the one it replaces, or a fresh one, is
   not among the others. *)
LEMMA NotAmong ==
  ASSUME NumberInv, NEW e \in pending, NEW f, TaskOf(f) = TaskOf(e)
  PROVE  f \notin pending \ {e}
BY DEF NumberInv, TasksDistinct

LEMMA DrawnNotAmong ==
  ASSUME NumberInv, NEW m \in Masters, NEW f, f.batch = "scheduler",
         f.tid = Szudzik(remaining[m], m)
  PROVE  f \notin pending
<1>1. remaining[m] \in Nat /\ remaining[m] <= remaining[m]
  BY RemainingType DEF NumberInv
<1>2. \A g \in pending : TaskOf(g) # TaskOf(f)
  BY <1>1, FreshTask
<1> QED
  BY <1>2

LEMMA WorkStep == WorkInv /\ [Next]_vars => WorkInv'
<1> SUFFICES ASSUME WorkInv, [Next]_vars PROVE WorkInv'
  OBVIOUS
<1>1. CountInv /\ CountInv' /\ RoutingInv /\ NumberInv /\ IsFiniteSet(pending)
  BY CountInvStep DEF WorkInv, CountInv
<1> DEFINE W == SumFunction(ProcTasks)
           G == SumFunction(GeneratedBy)
           U == Cardinality(pending \cap Unprocessed)
<1>2. W \in Int /\ G \in Int /\ U \in Nat /\ W = G - U
  BY <1>1, WorkTypes, Balance DEF WorkInv
<1>3. (TasksProcessedOnce <=> W = G - U)'
  <2>1. (CountInv => (TasksProcessedOnce <=> W = G - U))'
    BY Balance, PTL
  <2> QED
    BY <1>1, <2>1
<1>4. Unprocessed' = Unprocessed
  BY DEF Unprocessed
<1>5. CASE NothingGiven
  <2>1. W' = W /\ G' = G
    BY <1>5, SameSum, SameGenerated DEF NothingGiven
  <2>2. U' = U
    BY <1>4, <1>5 DEF NothingGiven
  <2> HIDE DEF W, G, U
  <2> QED
    BY <1>1, <1>2, <1>3, <2>1, <2>2 DEF WorkInv
<1>6. CASE GoesOn
  <2>1. PICK e \in pending, f \in Event :
          /\ pending' = Swapped(pending, e, f) /\ TaskOf(f) = TaskOf(e)
          /\ f.processed = e.processed /\ UNCHANGED remaining /\ SameWork
    BY <1>6 DEF GoesOn
  <2>2. W' = W /\ G' = G
    BY <2>1, SameSum, SameGenerated
  <2>3. f \notin pending \ {e}
    BY <1>1, <2>1, NotAmong
  <2>4. e \in Unprocessed <=> f \in Unprocessed
    BY <1>1, <2>1, PendingType DEF RoutingInv, Unprocessed
  <2>5. Cardinality(Swapped(pending, e, f) \cap Unprocessed) = U
    BY <1>1, <2>3, <2>4, SwappedCommon
  <2>6. U' = U
    BY <1>4, <2>1, <2>5
  <2> HIDE DEF W, G, U
  <2> QED
    BY <1>1, <1>2, <1>3, <2>2, <2>6 DEF WorkInv
<1>7. CASE IsProcessed
  <2>1. PICK m \in Machines, e \in pending, f \in Event :
          /\ pending' = Swapped(pending, e, f) /\ TaskOf(f) = TaskOf(e)
          /\ ~ e.processed /\ f.processed /\ UNCHANGED remaining /\ WorkedBy(m)
    BY <1>7 DEF IsProcessed
  <2>2. W' = W + 1 /\ G' = G
    BY <1>1, <2>1, SumOfWork, SameGenerated
  <2>3. f \notin pending \ {e}
    BY <1>1, <2>1, NotAmong
  <2>4. e \in Unprocessed /\ f \notin Unprocessed
    BY <1>1, <2>1, PendingType DEF RoutingInv, Unprocessed
  <2>5. Cardinality(Swapped(pending, e, f) \cap Unprocessed) = U - 1
    BY <1>1, <2>3, <2>4, SwappedCommon
  <2>6. U' = U - 1
    BY <1>4, <2>1, <2>5
  <2> HIDE DEF W, G, U
  <2> QED
    BY <1>1, <1>2, <1>3, <2>2, <2>6 DEF WorkInv
<1>8. CASE IsGiven
  <2>1. PICK m \in Masters, e \in pending, f \in Event :
          /\ pending' = Swapped(pending, e, f) /\ ~ f.processed /\ SameWork
          /\ \/ ~ e.processed /\ TaskOf(f) = TaskOf(e) /\ UNCHANGED remaining
             \/ /\ e.processed /\ m \in DOMAIN WorkloadSize
                /\ f.batch = "scheduler" /\ f.tid = Szudzik(remaining[m], m)
                /\ remaining' = [remaining EXCEPT ![m] = @ - 1]
    BY <1>8 DEF IsGiven
  <2>2. W' = W /\ f \in Unprocessed
    BY <2>1, SameSum DEF Unprocessed
  <2>3. CASE ~ e.processed /\ TaskOf(f) = TaskOf(e) /\ UNCHANGED remaining
    <3>1. G' = G /\ f \notin pending \ {e} /\ e \in Unprocessed
      BY <1>1, <2>3, SameGenerated, NotAmong, PendingType DEF RoutingInv, Unprocessed
    <3>2. Cardinality(Swapped(pending, e, f) \cap Unprocessed) = U
      BY <1>1, <2>2, <3>1, SwappedCommon
    <3>3. U' = U
      BY <1>4, <2>1, <3>2
    <3> HIDE DEF W, G, U
    <3> QED
      BY <1>1, <1>2, <1>3, <2>2, <3>1, <3>3 DEF WorkInv
  <2>4. CASE /\ e.processed /\ m \in DOMAIN WorkloadSize
             /\ f.batch = "scheduler" /\ f.tid = Szudzik(remaining[m], m)
             /\ remaining' = [remaining EXCEPT ![m] = @ - 1]
    <3>1. G' = G + 1
      BY <1>1, <2>4, SumOfDrawn
    <3>2. f \notin pending \ {e} /\ e \notin Unprocessed
      BY <1>1, <2>4, DrawnNotAmong DEF Unprocessed
    <3>3. Cardinality(Swapped(pending, e, f) \cap Unprocessed) = U + 1
      BY <1>1, <2>2, <3>2, SwappedCommon
    <3>4. U' = U + 1
      BY <1>4, <2>1, <3>3
    <3> HIDE DEF W, G, U
    <3> QED
      BY <1>1, <1>2, <1>3, <2>2, <3>1, <3>4 DEF WorkInv
  <2> QED
    BY <2>1, <2>3, <2>4
<1>9. CASE IsDone
  <2>1. PICK e \in pending : /\ e.processed /\ pending' = pending \ {e}
                             /\ UNCHANGED remaining /\ SameWork
    BY <1>9 DEF IsDone
  <2>2. W' = W /\ G' = G
    BY <2>1, SameSum, SameGenerated
  <2>3. Cardinality((pending \ {e}) \cap Unprocessed) = U
    <3>1. e \notin Unprocessed
      BY <2>1 DEF Unprocessed
    <3> QED
      BY <1>1, <3>1, OneLessCommon
  <2>4. U' = U
    BY <1>4, <2>1, <2>3
  <2> HIDE DEF W, G, U
  <2> QED
    BY <1>1, <1>2, <1>3, <2>2, <2>4 DEF WorkInv
<1>10. CASE AreGiven
  <2>1. PICK m \in Masters : \E sent \in [0 .. InitialBatch(m) - 1 -> Event] :
          /\ m \in DOMAIN WorkloadSize /\ AreNew(pending, InitialBatch(m), sent, m)
          /\ pending' = WithAll(pending, InitialBatch(m), sent)
          /\ \A i \in 0 .. InitialBatch(m) - 1 : ~ sent[i].processed
          /\ remaining' = [remaining EXCEPT ![m] = @ - InitialBatch(m)]
          /\ SameWork
    BY <1>10 DEF AreGiven
  <2>2. PICK n \in Nat : n = InitialBatch(m)
    <3>1. remaining[m] \in Nat /\ Len(Slaves[m]) \in Nat
      BY <1>1, CountTypes
    <3> QED
      BY <3>1 DEF InitialBatch
  <2>3. PICK sent \in [0 .. n - 1 -> Event] :
          /\ m \in DOMAIN WorkloadSize /\ AreNew(pending, n, sent, m)
          /\ pending' = WithAll(pending, n, sent)
          /\ \A i \in 0 .. n - 1 : ~ sent[i].processed
          /\ remaining' = [remaining EXCEPT ![m] = @ - n]
          /\ SameWork
    BY <2>1, <2>2
  <2>4. W' = W /\ G' = G + n
    BY <1>1, <2>3, SameSum, SumOfDrawn
  <2>5. Batch(n, sent) \cap Unprocessed = Batch(n, sent)
    BY <2>3 DEF Batch, Unprocessed
  <2>6. Cardinality(Batch(n, sent)) = n
    BY <2>3, OneForEach DEF AreNew
  <2>7. Cardinality(WithAll(pending, n, sent) \cap Unprocessed) = U + n
    <3>1. Cardinality(WithAll(pending, n, sent) \cap Unprocessed)
            = Cardinality(pending \cap Unprocessed) + Cardinality(Batch(n, sent) \cap Unprocessed)
      <4>1. IsFiniteSet(pending) /\ AreNew(pending, n, sent, m)
        BY <1>1, <2>3
      <4>2. Fresh(pending, n, sent)
        BY <4>1 DEF Fresh
      <4>3. NumberIn(WithAll(pending, n, sent), Unprocessed)
              = NumberIn(pending, Unprocessed) + NumberIn(Batch(n, sent), Unprocessed)
        BY <2>2, <4>1, <4>2, BatchCommon
      <4> QED
        BY <4>3 DEF NumberIn
    <3> QED
      BY <2>5, <2>6, <3>1
  <2>8. U' = U + n
    BY <1>4, <2>3, <2>7
  <2> HIDE DEF W, G, U
  <2> QED
    BY <1>1, <1>2, <1>3, <2>2, <2>4, <2>8 DEF WorkInv
<1> QED
  BY <1>1, <1>5, <1>6, <1>7, <1>8, <1>9, <1>10, StepWorks

LEMMA WorkInit == WellRouted /\ Init => WorkInv
<1> SUFFICES ASSUME WellRouted, Init PROVE WorkInv
  OBVIOUS
<1>1. CountInv
  BY CountInvInit
<1>2. SumFunction(ProcTasks) = 0
  <2>1. DOMAIN ProcTasks = Machines /\ \A m \in Machines : ProcTasks[m] = 0
    BY DEF Init, MachineInit, ProcTasks
  <2> QED
    BY <2>1, Populations, SumZero DEF SumFunction
<1>3. pending \cap Unprocessed = pending
  BY <1>1 DEF Init, BuilderInit, NewTask, Unprocessed, CountInv, RoutingInv, TypeInv, TypeOK,
              EngineTypeOK
<1>4. ASSUME NEW m \in Masters PROVE GeneratedBy[m] = Cardinality({e \in pending : e.origin = m})
  <2>1. Generated(m) = BuilderTasks[m]
    <3>1. remaining[m] = IF m \in DOMAIN WorkloadSize THEN WorkloadSize[m] ELSE 0
      BY DEF Init, MasterInit
    <3>2. BuilderTasks[m] \in Nat /\ (m \in DOMAIN WorkloadSize => WorkloadSize[m] \in Nat)
      BY MasterAssumption
    <3> QED
      BY <3>1, <3>2 DEF Generated
  <2>2. Flying(m) = BuilderTasks[m]
    BY InitialCounts
  <2> QED
    BY <2>1, <2>2 DEF Flying, InFlight, GeneratedBy
<1>5. SumFunction(GeneratedBy) = Cardinality(pending)
  <2> DEFINE part == [e \in pending |-> e.origin]
  <2>1. \A e \in pending : part[e] \in Masters
    BY <1>1, PendingType DEF CountInv, RoutingInv
  <2>2. \A m \in Masters : GeneratedBy[m] = Cardinality({e \in pending : part[e] = m})
    <3>1. \A m \in Masters : {e \in pending : part[e] = m} = {e \in pending : e.origin = m}
      OBVIOUS
    <3> HIDE DEF part
    <3> QED
      BY <1>4, <3>1
  <2>3. IsFiniteSet(pending) /\ DOMAIN GeneratedBy = Masters
    BY <1>1 DEF CountInv, GeneratedBy
  <2> HIDE DEF part
  <2>4. Cardinality(pending) = SumFunctionOnSet(GeneratedBy, Masters)
    BY <2>1, <2>2, <2>3, Populations, SumOfParts
  <2> QED
    BY <2>3, <2>4 DEF SumFunction
<1>6. Cardinality(pending) \in Nat
  BY <1>1, FS_CardinalityType DEF CountInv
<1> QED
  BY <1>1, <1>2, <1>3, <1>5, <1>6, Balance DEF WorkInv

(* In every flat grid the machines have processed exactly the tasks that were
   generated and are not in a packet on its way out: no task is lost before it
   is processed, and none is processed twice. *)
THEOREM EveryTaskIsProcessedOnce == WellRouted /\ Spec => []TasksProcessedOnce
<1>1. WellRouted /\ Init => WorkInv
  BY WorkInit
<1>2. WorkInv /\ [Next]_vars => WorkInv'
  BY WorkStep
<1>3. WorkInv => TasksProcessedOnce
  BY DEF WorkInv
<1> QED
  BY <1>1, <1>2, <1>3, PTL DEF Spec


-----------------------------------------------------------------------------
(* Round robin. *)

(* The packets that take a task to slave s. *)
For(s) == {e \in Event : ~ e.processed /\ e.destination = s}

(* The tasks slave s has been given. *)
Given(s) == machineMetrics[s].procTasks + NumberIn(pending, For(s))

(* The slaves of m that have had their turn in this round are one task ahead. *)
Even(m) ==
  \/ Slaves[m] = <<>>
  \/ /\ nextResource[m] < Len(Slaves[m])
     /\ \E q \in Nat : \A i \in 1 .. Len(Slaves[m]) :
          Given(Slaves[m][i]) = IF i <= nextResource[m] THEN q + 1 ELSE q

EvenInv == CountInv /\ SlavesOwned /\ \A m \in Masters : Even(m)

(* The effect of a step on the given tasks: master m gives n tasks, or nobody
   gives any. *)
Gives(m, n) ==
  /\ n <= Len(Slaves[m])
  /\ nextResource' = [nextResource EXCEPT ![m] = Advanced(m, n)]
  /\ \A s \in Machines :
       Given(s)' = IF \E j \in 0 .. n - 1 : s = Slave(m, j) THEN Given(s) + 1 ELSE Given(s)

NoneGives == UNCHANGED nextResource /\ \A s \in Machines : Given(s)' = Given(s)

LEMMA Turn ==
  ASSUME NEW L \in Nat, NEW x \in Nat, x < L + L
  PROVE  x % L = IF x < L THEN x ELSE x - L
<1>1. CASE x < L
  BY <1>1
<1>2. CASE ~ x < L
  <2>1. PICK y \in 0 .. L - 1 : x = L + y
    BY <1>2
  <2>2. (L + y) % L = y
    BY <2>1
  <2> QED
    BY <1>2, <2>1, <2>2
<1> QED
  BY <1>1, <1>2

(* n turns in a round of L slaves, of which p have had theirs. *)
AtLevel(f, L, p, q) == \A i \in 1 .. L : f[i] = IF i <= p THEN q + 1 ELSE q

TakeTurns(before, after, L, p, n) ==
  \A i \in 1 .. L :
    after[i] = IF \E j \in 0 .. n - 1 : i = ((p + j) % L) + 1
               THEN before[i] + 1 ELSE before[i]

LEMMA TurnsStayEven ==
  ASSUME NEW L \in Nat, NEW p \in 0 .. L - 1, NEW n \in 0 .. L, NEW q \in Nat,
         NEW before, NEW after, AtLevel(before, L, p, q), TakeTurns(before, after, L, p, n)
  PROVE  \E r \in Nat : AtLevel(after, L, (p + n) % L, r)
<1> DEFINE hit(i) == \E j \in 0 .. n - 1 : i = ((p + j) % L) + 1
<1>1. ASSUME NEW i \in 1 .. L
      PROVE  hit(i) <=> (p < i /\ i <= p + n) \/ i <= p + n - L
  <2>1. ASSUME NEW j \in 0 .. n - 1
        PROVE  ((p + j) % L) + 1 = IF p + j < L THEN p + j + 1 ELSE p + j + 1 - L
    <3>1. PICK x \in Nat : x = p + j /\ x < L + L
      OBVIOUS
    <3>2. x % L = IF x < L THEN x ELSE x - L
      BY <3>1, Turn
    <3> QED
      BY <3>1, <3>2
  <2>2. ASSUME hit(i) PROVE (p < i /\ i <= p + n) \/ i <= p + n - L
    <3>1. PICK j \in 0 .. n - 1 : i = ((p + j) % L) + 1
      BY <2>2
    <3>2. i = IF p + j < L THEN p + j + 1 ELSE p + j + 1 - L
      BY <2>1, <3>1
    <3> QED
      BY <3>2
  <2>3. ASSUME p < i /\ i <= p + n PROVE hit(i)
    <3>1. i - 1 - p \in 0 .. n - 1 /\ i = p + (i - 1 - p) + 1 /\ p + (i - 1 - p) < L
      BY <2>3
    <3> QED
      BY <2>1, <3>1
  <2>4. ASSUME i <= p + n - L PROVE hit(i)
    <3>1. /\ i - 1 - p + L \in 0 .. n - 1 /\ i = p + (i - 1 - p + L) + 1 - L
          /\ ~ p + (i - 1 - p + L) < L
      BY <2>4
    <3> QED
      BY <2>1, <3>1
  <2> QED
    BY <2>2, <2>3, <2>4
<1>2. PICK t \in Nat : t = (p + n) % L /\ t = IF p + n < L THEN p + n ELSE p + n - L
  <2>1. PICK x \in Nat : x = p + n /\ x < L + L
    OBVIOUS
  <2>2. x % L = IF x < L THEN x ELSE x - L
    BY <2>1, Turn
  <2> QED
    BY <2>1, <2>2
<1>3. \A i \in 1 .. L : after[i] = IF (p < i /\ i <= p + n) \/ i <= p + n - L
                                   THEN before[i] + 1 ELSE before[i]
  BY <1>1 DEF TakeTurns
<1> HIDE DEF hit
<1>4. CASE p + n < L
  <2>1. \A i \in 1 .. L : after[i] = IF i <= t THEN q + 1 ELSE q
    BY <1>2, <1>3, <1>4 DEF AtLevel
  <2> QED
    BY <1>2, <2>1 DEF AtLevel
<1>5. CASE ~ p + n < L
  <2>1. \A i \in 1 .. L : after[i] = IF i <= t THEN (q + 1) + 1 ELSE q + 1
    BY <1>2, <1>3, <1>5 DEF AtLevel
  <2>2. q + 1 \in Nat
    OBVIOUS
  <2> QED
    BY <1>2, <2>1, <2>2 DEF AtLevel
<1> QED
  BY <1>4, <1>5


(* The slave whose turn comes after j others. *)
LEMMA SlaveInTurn ==
  ASSUME EvenInv, NEW m \in Masters, Slaves[m] # <<>>, NEW j \in Nat
  PROVE  /\ nextResource[m] \in 0 .. Len(Slaves[m]) - 1
         /\ ((nextResource[m] + j) % Len(Slaves[m])) + 1 \in 1 .. Len(Slaves[m])
         /\ Slave(m, j) = Slaves[m][((nextResource[m] + j) % Len(Slaves[m])) + 1]
<1>1. nextResource[m] \in Nat /\ Len(Slaves[m]) \in Nat \ {0}
  <2>1. nextResource[m] \in Nat
    BY DEF EvenInv, CountInv, RoutingInv, TypeInv, TypeOK, MasterTypeOK
  <2>2. Slaves[m] \in Seq(Masters \cup Machines)
    BY MasterAssumption
  <2> QED
    BY <2>1, <2>2
<1>2. nextResource[m] < Len(Slaves[m])
  BY DEF EvenInv, Even
<1> DEFINE L == Len(Slaves[m])
           x == nextResource[m] + j
<1>3. L \in Nat \ {0} /\ x \in Nat
  BY <1>1
<1> HIDE DEF L, x
<1>4. x % L \in 0 .. L - 1
  BY <1>3
<1>5. (x % L) + 1 \in 1 .. L
  BY <1>3, <1>4
<1> QED
  BY <1>1, <1>2, <1>5 DEF L, x, Slave

LEMMA SlaveIndices ==
  ASSUME WellRouted, NEW m \in Masters
  PROVE  /\ DOMAIN Slaves[m] = 1 .. Len(Slaves[m]) /\ Len(Slaves[m]) \in Nat
         /\ \A i \in 1 .. Len(Slaves[m]) : Slaves[m][i] \in Machines
<1>1. DOMAIN Slaves[m] = 1 .. Len(Slaves[m]) /\ Len(Slaves[m]) \in Nat
  BY MasterAssumption
<1> QED
  BY <1>1 DEF WellRouted, SlaveSet

LEMMA GiverStaysEven ==
  ASSUME EvenInv, NEW m \in Masters, NEW n \in Nat, Gives(m, n)
  PROVE  Even(m)'
<1>1. CASE Slaves[m] = <<>>
  BY <1>1 DEF Even
<1>2. CASE Slaves[m] # <<>>
  <2> DEFINE L == Len(Slaves[m])
             p == nextResource[m]
             before == [i \in 1 .. L |-> Given(Slaves[m][i])]
             after  == [i \in 1 .. L |-> Given(Slaves[m][i])']
  <2>1. /\ L \in Nat /\ p \in 0 .. L - 1 /\ n \in 0 .. L
    BY <1>2, SlaveInTurn, SlaveIndices DEF EvenInv, CountInv, RoutingInv, Gives
  <2>2. PICK q \in Nat : AtLevel(before, L, p, q)
    BY <1>2 DEF EvenInv, Even, AtLevel
  <2>3. ASSUME NEW i \in 1 .. L
        PROVE  after[i] = IF \E j \in 0 .. n - 1 : i = ((p + j) % L) + 1
                          THEN before[i] + 1 ELSE before[i]
    <3>1. Slaves[m][i] \in Machines /\ DOMAIN Slaves[m] = 1 .. L
      BY SlaveIndices DEF EvenInv, CountInv, RoutingInv
    <3>2. \A j \in 0 .. n - 1 : Slaves[m][i] = Slave(m, j) <=> i = ((p + j) % L) + 1
      <4>1. ASSUME NEW j \in 0 .. n - 1
            PROVE  Slaves[m][i] = Slave(m, j) <=> i = ((p + j) % L) + 1
        <5>1. PICK x : x = ((p + j) % L) + 1
          OBVIOUS
        <5>2. x \in 1 .. L /\ Slave(m, j) = Slaves[m][x]
          <6>1. j \in Nat
            BY <2>1, <4>1
          <6> QED
            BY <1>2, <5>1, <6>1, SlaveInTurn
        <5>3. Slaves[m][i] = Slaves[m][x] => i = x
          BY <3>1, <5>2 DEF EvenInv, SlavesOwned
        <5> QED
          BY <5>1, <5>2, <5>3
      <4> QED
        BY <4>1
    <3>3. Given(Slaves[m][i])' = IF \E j \in 0 .. n - 1 : Slaves[m][i] = Slave(m, j)
                                 THEN Given(Slaves[m][i]) + 1 ELSE Given(Slaves[m][i])
      BY <3>1 DEF Gives
    <3>4. after[i] = Given(Slaves[m][i])' /\ before[i] = Given(Slaves[m][i])
      OBVIOUS
    <3> HIDE DEF before, after
    <3> QED
      BY <3>2, <3>3, <3>4
  <2>4. nextResource'[m] = (p + n) % L
    <3>1. nextResource'[m] = IF n = 0 THEN p ELSE (p + n) % L
      BY DEF Gives, Advanced, EvenInv, CountInv, RoutingInv, TypeInv, TypeOK, MasterTypeOK
    <3>2. n = 0 => (p + n) % L = p
      BY <2>1
    <3> QED
      BY <3>1, <3>2
  <2>5. \A i \in 1 .. L : after[i] = Given(Slaves[m][i])'
    OBVIOUS
  <2>6. TakeTurns(before, after, L, p, n)
    BY <2>3 DEF TakeTurns
  <2> HIDE DEF before, after, L, p
  <2>7. PICK r \in Nat : AtLevel(after, L, (p + n) % L, r)
    BY <2>1, <2>2, <2>6, TurnsStayEven
  <2>8. \A i \in 1 .. L : Given(Slaves[m][i])' = IF i <= nextResource'[m] THEN r + 1 ELSE r
    BY <2>4, <2>5, <2>7 DEF AtLevel
  <2>9. nextResource'[m] < L
    <3>1. p + n \in Nat /\ L \in Nat \ {0}
      BY <2>1
    <3>2. (p + n) % L \in 0 .. L - 1
      BY <3>1
    <3> QED
      BY <2>1, <2>4, <3>2
  <2> QED
    BY <2>8, <2>9 DEF Even, L
<1> QED
  BY <1>1, <1>2

LEMMA OthersStayEven ==
  ASSUME EvenInv, NEW m \in Masters, NEW n \in Nat, Gives(m, n), NEW k \in Masters, k # m
  PROVE  Even(k)'
<1>1. nextResource'[k] = nextResource[k]
  BY DEF Gives, EvenInv, CountInv, RoutingInv, TypeInv, TypeOK, MasterTypeOK
<1>2. ASSUME NEW i \in 1 .. Len(Slaves[k])
      PROVE  Given(Slaves[k][i])' = Given(Slaves[k][i])
  <2>1. Slaves[k][i] \in Machines /\ i \in DOMAIN Slaves[k]
    BY SlaveIndices DEF EvenInv, CountInv, RoutingInv
  <2>2. ASSUME NEW j \in 0 .. n - 1, Slaves[k][i] = Slave(m, j) PROVE FALSE
    <3>1. Slaves[m] # <<>> /\ DOMAIN Slaves[m] = 1 .. Len(Slaves[m])
      BY SlaveIndices DEF Gives, EvenInv, CountInv, RoutingInv
    <3>2. PICK x : x = ((nextResource[m] + j) % Len(Slaves[m])) + 1
      OBVIOUS
    <3>3. x \in 1 .. Len(Slaves[m]) /\ Slave(m, j) = Slaves[m][x]
      <4>1. j \in Nat /\ Slaves[m] # <<>>
        BY <3>1
      <4> QED
        BY <3>2, <4>1, SlaveInTurn
    <3> QED
      BY <2>1, <2>2, <3>1, <3>3 DEF EvenInv, SlavesOwned
  <2> QED
    BY <2>1, <2>2 DEF Gives
<1> QED
  BY <1>1, <1>2 DEF EvenInv, Even

LEMMA NoneStaysEven ==
  ASSUME EvenInv, NoneGives, NEW k \in Masters PROVE Even(k)'
<1>1. \A i \in 1 .. Len(Slaves[k]) : Given(Slaves[k][i])' = Given(Slaves[k][i])
  BY SlaveIndices DEF EvenInv, CountInv, RoutingInv, NoneGives
<1> QED
  BY <1>1 DEF EvenInv, Even, NoneGives


LEMMA EvenTypes ==
  ASSUME EvenInv
  PROVE  RoutingInv /\ NumberInv /\ IsFiniteSet(pending) /\ SlavesOwned /\ pending \subseteq Event
BY PendingType DEF EvenInv, CountInv, RoutingInv

(* What a packet in place of another does to the numbers of given tasks. *)
LEMMA SwapGiven ==
  ASSUME EvenInv, NEW e \in pending, NEW f \in Event, f \notin pending \ {e},
         pending' = Swapped(pending, e, f), NEW s
  PROVE  /\ e \in For(s) /\ f \in For(s) => NumberIn(pending', For(s)) = NumberIn(pending, For(s))
         /\ e \notin For(s) /\ f \notin For(s) =>
              NumberIn(pending', For(s)) = NumberIn(pending, For(s))
         /\ e \in For(s) /\ f \notin For(s) =>
              NumberIn(pending', For(s)) = NumberIn(pending, For(s)) - 1
         /\ e \notin For(s) /\ f \in For(s) =>
              NumberIn(pending', For(s)) = NumberIn(pending, For(s)) + 1
<1> DEFINE K == For(s)
<1> HIDE DEF K
<1>1. IsFiniteSet(pending)
  BY EvenTypes
<1>2. /\ e \in K /\ f \in K =>
           Cardinality(Swapped(pending, e, f) \cap K) = Cardinality(pending \cap K)
      /\ e \notin K /\ f \notin K =>
           Cardinality(Swapped(pending, e, f) \cap K) = Cardinality(pending \cap K)
      /\ e \in K /\ f \notin K =>
           Cardinality(Swapped(pending, e, f) \cap K) = Cardinality(pending \cap K) - 1
      /\ e \notin K /\ f \in K =>
           Cardinality(Swapped(pending, e, f) \cap K) = Cardinality(pending \cap K) + 1
  BY <1>1, SwappedCommon
<1> QED
  BY <1>2 DEF K, NumberIn

LEMMA GivenNext ==
  ASSUME NEW s
  PROVE  Given(s)' = machineMetrics'[s].procTasks + NumberIn(pending', For(s))
BY DEF Given, NumberIn, For

LEMMA GoesOnGives == ASSUME EvenInv, GoesOn PROVE NoneGives
<1>1. PICK e \in pending, f \in Event :
        /\ pending' = Swapped(pending, e, f) /\ TaskOf(f) = TaskOf(e)
        /\ f.processed = e.processed /\ f.destination = e.destination
        /\ UNCHANGED remaining /\ SameTurns /\ SameWork
  BY DEF GoesOn
<1>2. f \notin pending \ {e} /\ e \in Event
  BY <1>1, EvenTypes, NotAmong
<1>3. ASSUME NEW s \in Machines PROVE Given(s)' = Given(s)
  <2>1. (e \in For(s) /\ f \in For(s)) \/ (e \notin For(s) /\ f \notin For(s))
    BY <1>1, <1>2 DEF For
  <2>2. NumberIn(pending', For(s)) = NumberIn(pending, For(s))
    BY <1>1, <1>2, <2>1, SwapGiven
  <2> QED
    BY <1>1, <2>2, GivenNext DEF Given, SameWork
<1> QED
  BY <1>1, <1>3 DEF NoneGives, SameTurns

LEMMA IsProcessedGives == ASSUME EvenInv, IsProcessed PROVE NoneGives
<1>1. PICK m \in Machines, e \in pending, f \in Event :
        /\ pending' = Swapped(pending, e, f) /\ TaskOf(f) = TaskOf(e)
        /\ ~ e.processed /\ e.destination = m /\ f.processed
        /\ UNCHANGED remaining /\ SameTurns /\ WorkedBy(m)
  BY DEF IsProcessed
<1>2. f \notin pending \ {e} /\ e \in Event
  BY <1>1, EvenTypes, NotAmong
<1>3. ASSUME NEW s \in Machines PROVE Given(s)' = Given(s)
  <2>1. f \notin For(s) /\ (e \in For(s) <=> s = m)
    BY <1>1, <1>2 DEF For
  <2>2. NumberIn(pending', For(s)) = IF s = m THEN NumberIn(pending, For(s)) - 1
                                     ELSE NumberIn(pending, For(s))
    BY <1>1, <1>2, <2>1, SwapGiven
  <2>3. machineMetrics'[s].procTasks = IF s = m THEN machineMetrics[s].procTasks + 1
                                       ELSE machineMetrics[s].procTasks
    BY <1>1 DEF WorkedBy
  <2>4. machineMetrics[s].procTasks \in Nat /\ NumberIn(pending, For(s)) \in Nat
    BY CommonFinite
       DEF EvenInv, CountInv, RoutingInv, TypeInv, TypeOK, MachineTypeOK, MachineMetrics, NumberIn
  <2> QED
    BY <2>2, <2>3, <2>4, GivenNext DEF Given
<1> QED
  BY <1>1, <1>3 DEF NoneGives, SameTurns

LEMMA IsDoneGives == ASSUME EvenInv, IsDone PROVE NoneGives
<1>1. PICK e \in pending : /\ e.processed /\ pending' = pending \ {e}
                           /\ SameTurns /\ SameWork
  BY DEF IsDone
<1>2. ASSUME NEW s \in Machines PROVE Given(s)' = Given(s)
  <2> DEFINE K == For(s)
  <2>1. e \notin K
    BY <1>1 DEF For
  <2> HIDE DEF K
  <2>2. Cardinality((pending \ {e}) \cap K) = Cardinality(pending \cap K)
    BY <2>1, EvenTypes, OneLessCommon
  <2>3. NumberIn(pending', For(s)) = NumberIn(pending, For(s))
    BY <1>1, <2>2 DEF K, NumberIn
  <2> QED
    BY <1>1, <2>3, GivenNext DEF Given, SameWork
<1> QED
  BY <1>1, <1>2 DEF NoneGives, SameTurns

LEMMA NothingGives == ASSUME NothingGiven PROVE NoneGives
<1>1. ASSUME NEW s \in Machines PROVE Given(s)' = Given(s)
  BY GivenNext DEF Given, NothingGiven, SameWork
<1> QED
  BY <1>1 DEF NothingGiven, NoneGives, SameTurns

LEMMA IsGivenGives == ASSUME EvenInv, IsGiven PROVE \E m \in Masters : Gives(m, 1)
<1>1. PICK m \in Masters, e \in pending, f \in Event :
        /\ pending' = Swapped(pending, e, f)
        /\ ~ f.processed /\ f.destination = Slave(m, 0) /\ Slaves[m] # <<>>
        /\ nextResource' = [nextResource EXCEPT ![m] = Advanced(m, 1)] /\ SameWork
        /\ \/ ~ e.processed /\ e.destination = Nobody /\ TaskOf(f) = TaskOf(e)
           \/ e.processed /\ f.batch = "scheduler" /\ f.tid = Szudzik(remaining[m], m)
  BY DEF IsGiven
<1>2. f \notin pending \ {e} /\ e \in Event
  BY <1>1, EvenTypes, NotAmong, DrawnNotAmong
<1>3. ASSUME NEW s \in Machines
      PROVE  Given(s)' = IF s = Slave(m, 0) THEN Given(s) + 1 ELSE Given(s)
  <2>1. s # Nobody
    BY EngineAssumption DEF Services, Nobody
  <2>2. e \notin For(s) /\ (f \in For(s) <=> s = Slave(m, 0))
    BY <1>1, <1>2, <2>1 DEF For
  <2>3. NumberIn(pending', For(s)) = IF s = Slave(m, 0) THEN NumberIn(pending, For(s)) + 1
                                     ELSE NumberIn(pending, For(s))
    BY <1>1, <1>2, <2>2, SwapGiven
  <2>4. machineMetrics'[s].procTasks = machineMetrics[s].procTasks
    BY <1>1 DEF SameWork
  <2>5. machineMetrics[s].procTasks \in Nat /\ NumberIn(pending, For(s)) \in Nat
    BY CommonFinite
       DEF EvenInv, CountInv, RoutingInv, TypeInv, TypeOK, MachineTypeOK, MachineMetrics, NumberIn
  <2> QED
    BY <2>3, <2>4, <2>5, GivenNext DEF Given
<1>4. \A s : (\E j \in 0 .. 1 - 1 : s = Slave(m, j)) <=> s = Slave(m, 0)
  OBVIOUS
<1>5. 1 <= Len(Slaves[m])
  <2>1. Slaves[m] \in Seq(Masters \cup Machines)
    BY MasterAssumption
  <2> QED
    BY <1>1, <2>1
<1> QED
  BY <1>1, <1>3, <1>4, <1>5 DEF Gives

(* A batch of at most one round sends at most one packet to a slave. *)
LEMMA OneOfBatch ==
  ASSUME NEW n \in Nat, NEW sent, AllDifferent(n, sent), NEW K, NEW j \in 0 .. n - 1,
         \A i \in 0 .. n - 1 : sent[i] \in K <=> i = j
  PROVE  NumberIn(Batch(n, sent), K) = 1
<1>1. Batch(n, sent) \cap K = {sent[j]}
  BY DEF Batch
<1>2. Cardinality({sent[j]}) = 1
  BY FS_Singleton
<1> QED
  BY <1>1, <1>2 DEF NumberIn

LEMMA NoneOfBatch ==
  ASSUME NEW n \in Nat, NEW sent, NEW K, \A i \in 0 .. n - 1 : sent[i] \notin K
  PROVE  NumberIn(Batch(n, sent), K) = 0
<1>1. Batch(n, sent) \cap K = {}
  BY DEF Batch
<1> QED
  BY <1>1, FS_EmptySet DEF NumberIn

LEMMA DifferentTurns ==
  ASSUME NEW L \in Nat, NEW p \in 0 .. L - 1, NEW i \in 0 .. L - 1, NEW j \in 0 .. L - 1,
         (p + i) % L = (p + j) % L
  PROVE  i = j
<1>1. PICK x \in Nat : x = p + i /\ x < L + L
  OBVIOUS
<1>2. PICK y \in Nat : y = p + j /\ y < L + L
  OBVIOUS
<1>3. x % L = IF x < L THEN x ELSE x - L
  BY <1>1, Turn
<1>4. y % L = IF y < L THEN y ELSE y - L
  BY <1>2, Turn
<1> QED
  BY <1>1, <1>2, <1>3, <1>4

LEMMA AreGivenGives ==
  ASSUME EvenInv, AreGiven PROVE \E m \in Masters, n \in Nat : Gives(m, n)
<1>1. PICK m \in Masters : \E sent \in [0 .. InitialBatch(m) - 1 -> Event] :
        /\ AreNew(pending, InitialBatch(m), sent, m)
        /\ pending' = WithAll(pending, InitialBatch(m), sent)
        /\ \A i \in 0 .. InitialBatch(m) - 1 :
             ~ sent[i].processed /\ sent[i].destination = Slave(m, i)
        /\ nextResource' = [nextResource EXCEPT ![m] = Advanced(m, InitialBatch(m))]
        /\ SameWork
  BY DEF AreGiven
<1>2. PICK n \in Nat : n = InitialBatch(m) /\ n <= Len(Slaves[m])
  <2>1. remaining[m] \in Nat /\ Len(Slaves[m]) \in Nat
    BY EvenTypes, RemainingType, SlaveIndices DEF RoutingInv
  <2> QED
    BY <2>1 DEF InitialBatch
<1>3. PICK sent \in [0 .. n - 1 -> Event] :
        /\ AreNew(pending, n, sent, m) /\ pending' = WithAll(pending, n, sent)
        /\ \A i \in 0 .. n - 1 : ~ sent[i].processed /\ sent[i].destination = Slave(m, i)
        /\ nextResource' = [nextResource EXCEPT ![m] = Advanced(m, n)]
        /\ SameWork
  BY <1>1, <1>2
<1>4. ASSUME NEW i \in 0 .. n - 1, NEW j \in 0 .. n - 1, Slave(m, i) = Slave(m, j)
      PROVE  i = j
  <2> DEFINE L == Len(Slaves[m])
             p == nextResource[m]
  <2>1. Slaves[m] # <<>> /\ DOMAIN Slaves[m] = 1 .. L /\ L \in Nat
    BY <1>2, SlaveIndices, EvenTypes DEF RoutingInv
  <2>2. PICK x : x = ((p + i) % L) + 1
    OBVIOUS
  <2>3. PICK y : y = ((p + j) % L) + 1
    OBVIOUS
  <2>4. p \in 0 .. L - 1 /\ x \in 1 .. L /\ Slave(m, i) = Slaves[m][x]
    BY <2>1, <2>2, SlaveInTurn
  <2>5. y \in 1 .. L /\ Slave(m, j) = Slaves[m][y]
    BY <2>1, <2>3, SlaveInTurn
  <2>6. x = y
    BY <1>4, <2>1, <2>4, <2>5, EvenTypes DEF SlavesOwned
  <2>7. i \in 0 .. L - 1 /\ j \in 0 .. L - 1
    BY <1>2, <2>1
  <2> HIDE DEF L, p
  <2>8. (p + i) % L \in Int /\ (p + j) % L \in Int
    BY <2>1, <2>4, <2>7
  <2>9. (p + i) % L = (p + j) % L
    BY <2>2, <2>3, <2>6, <2>8
  <2> QED
    BY <2>1, <2>4, <2>7, <2>9, DifferentTurns
<1>5. ASSUME NEW s \in Machines
      PROVE  Given(s)' = IF \E j \in 0 .. n - 1 : s = Slave(m, j) THEN Given(s) + 1 ELSE Given(s)
  <2>1. \A i \in 0 .. n - 1 : sent[i] \in For(s) <=> s = Slave(m, i)
    BY <1>3 DEF For
  <2>2. Fresh(pending, n, sent) /\ AllDifferent(n, sent)
    BY <1>3 DEF Fresh, AreNew
  <2> DEFINE K == For(s)
  <2> HIDE DEF K
  <2>3. NumberIn(WithAll(pending, n, sent), K) = NumberIn(pending, K) + NumberIn(Batch(n, sent), K)
    BY <2>2, EvenTypes, BatchCommon
  <2>4. NumberIn(Batch(n, sent), K) = IF \E j \in 0 .. n - 1 : s = Slave(m, j) THEN 1 ELSE 0
    <3>1. CASE \E j \in 0 .. n - 1 : s = Slave(m, j)
      <4>1. PICK j \in 0 .. n - 1 : s = Slave(m, j)
        BY <3>1
      <4>2. \A i \in 0 .. n - 1 : sent[i] \in K <=> i = j
        BY <1>4, <2>1, <4>1 DEF K
      <4>3. NumberIn(Batch(n, sent), K) = 1
        BY <2>2, <4>2, OneOfBatch
      <4> QED
        BY <3>1, <4>3
    <3>2. CASE ~ \E j \in 0 .. n - 1 : s = Slave(m, j)
      <4>1. \A i \in 0 .. n - 1 : sent[i] \notin K
        BY <2>1, <3>2 DEF K
      <4>2. NumberIn(Batch(n, sent), K) = 0
        BY <4>1, NoneOfBatch
      <4> QED
        BY <3>2, <4>2
    <3> QED
      BY <3>1, <3>2
  <2>5. machineMetrics'[s].procTasks = machineMetrics[s].procTasks
    BY <1>3 DEF SameWork
  <2>6. machineMetrics[s].procTasks \in Nat
    BY DEF EvenInv, CountInv, RoutingInv, TypeInv, TypeOK, MachineTypeOK, MachineMetrics
  <2>7. NumberIn(pending, K) \in Nat
    BY CommonFinite DEF EvenInv, CountInv, NumberIn
  <2>8. /\ Given(s) = machineMetrics[s].procTasks + NumberIn(pending, K)
        /\ Given(s)' = machineMetrics'[s].procTasks + NumberIn(WithAll(pending, n, sent), K)
    BY <1>3, GivenNext DEF Given, K
  <2> QED
    BY <2>3, <2>4, <2>5, <2>6, <2>7, <2>8
<1> QED
  BY <1>2, <1>3, <1>5 DEF Gives

LEMMA EvenStep == EvenInv /\ [Next]_vars => EvenInv'
<1> SUFFICES ASSUME EvenInv, [Next]_vars PROVE EvenInv'
  OBVIOUS
<1>1. NoneGives \/ \E m \in Masters, n \in Nat : Gives(m, n)
  BY EvenTypes, StepWorks, GoesOnGives, IsProcessedGives, IsDoneGives, NothingGives,
     IsGivenGives, AreGivenGives
<1>2. \A k \in Masters : Even(k)'
  <2>1. CASE NoneGives
    BY <2>1, NoneStaysEven
  <2>2. ASSUME NEW m \in Masters, NEW n \in Nat, Gives(m, n)
        PROVE  \A k \in Masters : Even(k)'
    BY <2>2, GiverStaysEven, OthersStayEven
  <2> QED
    BY <1>1, <2>1, <2>2
<1>3. CountInv' /\ SlavesOwned'
  BY CountInvStep DEF EvenInv, SlavesOwned
<1> QED
  BY <1>2, <1>3 DEF EvenInv

LEMMA EvenInit == WellRouted /\ SlavesOwned /\ Init => EvenInv
<1> SUFFICES ASSUME WellRouted, SlavesOwned, Init PROVE EvenInv
  OBVIOUS
<1>1. CountInv
  BY CountInvInit
<1>2. ASSUME NEW s \in Machines PROVE Given(s) = 0
  <2>1. s # Nobody
    BY EngineAssumption DEF Services, Nobody
  <2>2. \A e \in pending : e.destination = Nobody
    BY DEF Init, BuilderInit, NewTask
  <2>3. pending \cap For(s) = {}
    BY <2>1, <2>2 DEF For
  <2>4. NumberIn(pending, For(s)) = 0
    BY <2>3, FS_EmptySet DEF NumberIn
  <2>5. machineMetrics[s].procTasks = 0
    BY DEF Init, MachineInit
  <2> QED
    BY <2>4, <2>5 DEF Given
<1>3. ASSUME NEW m \in Masters, Slaves[m] # <<>> PROVE Even(m)
  <2>1. nextResource[m] = 0 /\ Slaves[m] \in Seq(Masters \cup Machines)
    BY MasterAssumption DEF Init, MasterInit
  <2>2. nextResource[m] < Len(Slaves[m])
    BY <1>3, <2>1
  <2>3. \A i \in 1 .. Len(Slaves[m]) :
          Given(Slaves[m][i]) = IF i <= nextResource[m] THEN 0 + 1 ELSE 0
    BY <1>2, <2>1, SlaveIndices
  <2> QED
    BY <2>2, <2>3 DEF Even
<1> QED
  BY <1>1, <1>3 DEF EvenInv, Even

LEMMA EvenIsShared == ASSUME EvenInv PROVE SharedEvenly
<1> SUFFICES ASSUME NEW m \in Masters,
                    NEW i \in DOMAIN Slaves[m], NEW j \in DOMAIN Slaves[m]
             PROVE  /\ Given(Slaves[m][i]) - Given(Slaves[m][j]) \in -1 .. 1
                    /\ Given(Slaves[m][i]) > Given(Slaves[m][j]) =>
                         i <= nextResource[m] /\ nextResource[m] < j
  <2>1. \A s : {e \in pending : ~ e.processed /\ e.destination = s} = pending \cap For(s)
    BY EvenTypes DEF For
  <2> QED
    BY <2>1 DEF SharedEvenly, Given, NumberIn
<1>1. DOMAIN Slaves[m] = 1 .. Len(Slaves[m]) /\ Len(Slaves[m]) \in Nat /\ nextResource[m] \in Nat
  BY SlaveIndices DEF EvenInv, CountInv, RoutingInv, TypeInv, TypeOK, MasterTypeOK
<1>2. Slaves[m] # <<>>
  BY <1>1
<1>3. PICK q \in Nat : \A k \in 1 .. Len(Slaves[m]) :
        Given(Slaves[m][k]) = IF k <= nextResource[m] THEN q + 1 ELSE q
  BY <1>2 DEF EvenInv, Even
<1> QED
  BY <1>1, <1>3

(* In every flat grid whose slaves have one master each, whatever the order in
   which the answers come back, the tasks are shared as evenly as they can be,
   and the slaves that are ahead are those before the next in turn. *)
THEOREM RoundRobinIsFair == WellRouted /\ SlavesOwned /\ Spec => []SharedEvenly
<1>1. WellRouted /\ SlavesOwned /\ Init => EvenInv
  BY EvenInit
<1>2. EvenInv /\ [Next]_vars => EvenInv'
  BY EvenStep
<1>3. EvenInv => SharedEvenly
  BY EvenIsShared
<1> QED
  BY <1>1, <1>2, <1>3, PTL DEF Spec

-----------------------------------------------------------------------------
(* The hops of a flat grid with one master: what the links have counted is
   what the tasks that are done and the packets on their way have crossed. *)

LinkHops == [l \in Links |-> linkMetrics[l].commTasks]

DoneHops(m) == [s \in SlaveSet(m) |-> 2 * Len(RoutePath[<<m, s>>]) * Done(s)]

PacketHops == [e \in pending |-> Crossed(e)]

(* The same sum, over any set of packets. *)
CrossedBy == [e \in Event |-> Crossed(e)]

SumCrossed(packets) == SumFunctionOnSet(CrossedBy, packets)

(* The packets of tasks that a slave has processed. *)
BackFrom(s) == {e \in Event : e.processed /\ e.destination = s}

HopsInv == CountInv /\ OneMaster /\ HopsAccountedFor

LEMMA TheMaster ==
  ASSUME OneMaster, NEW m \in Masters, NEW k \in Masters PROVE m = k
<1>1. \E x : Masters = {x}
  BY Populations, FS_Singleton DEF OneMaster
<1> QED
  BY <1>1

LEMMA Places ==
  ASSUME WellRouted, NEW m \in Masters
  PROVE  /\ IsFiniteSet(Links) /\ IsFiniteSet(SlaveSet(m)) /\ SlaveSet(m) \in SUBSET Machines
         /\ \A s \in SlaveSet(m) : Len(RoutePath[<<m, s>>]) \in Nat
<1>1. IsFiniteSet(Services) /\ Links \in SUBSET Services
  BY EngineAssumption DEF Services
<1>2. SlaveSet(m) \in SUBSET Machines
  BY DEF WellRouted
<1> QED
  BY <1>1, <1>2, Populations, FS_Subset, RouteLength

(* The types of the counts. *)
LEMMA DoneType ==
  ASSUME CountInv, NEW s \in Machines
  PROVE  /\ Done(s) = machineMetrics[s].procTasks - NumberIn(pending, BackFrom(s))
         /\ Done(s) \in Int /\ machineMetrics[s].procTasks \in Nat
         /\ NumberIn(pending, BackFrom(s)) \in Nat
<1>1. machineMetrics[s].procTasks \in Nat
  BY DEF CountInv, RoutingInv, TypeInv, TypeOK, MachineTypeOK, MachineMetrics
<1>2. {e \in pending : e.processed /\ e.destination = s} = pending \cap BackFrom(s)
  BY DEF CountInv, RoutingInv, TypeInv, TypeOK, EngineTypeOK, BackFrom
<1>3. NumberIn(pending, BackFrom(s)) \in Nat
  BY CommonFinite DEF CountInv, NumberIn
<1>4. Done(s) = machineMetrics[s].procTasks - NumberIn(pending, BackFrom(s))
  BY <1>2 DEF Done, NumberIn
<1> QED
  BY <1>1, <1>3, <1>4

LEMMA PacketsCrossed ==
  ASSUME CountInv
  PROVE  /\ \A e \in pending : e \in Event /\ CrossedBy[e] = Crossed(e) /\ CrossedBy[e] \in Int
         /\ SumFunction(PacketHops) = SumCrossed(pending)
         /\ SumCrossed(pending) \in Int
<1>1. ASSUME NEW e \in pending
      PROVE  e \in Event /\ CrossedBy[e] = Crossed(e) /\ CrossedBy[e] \in Int
  <2>1. e \in Event /\ WellRouted /\ (AtSource(e) \/ OnTheWay(e))
    BY PendingType DEF CountInv, RoutingInv, PacketsOnRoute
  <2>2. Crossed(e) \in Int
    BY <2>1, CrossedType
  <2> QED
    BY <2>1, <2>2 DEF CrossedBy
<1>2. IsFiniteSet(pending)
  BY DEF CountInv
<1>3. DOMAIN PacketHops = pending /\ \A e \in pending : PacketHops[e] = CrossedBy[e]
  BY <1>1 DEF PacketHops
<1>4. SumFunctionOnSet(PacketHops, pending) = SumFunctionOnSet(CrossedBy, pending)
  BY <1>2, <1>3, SumAgrees
<1>5. SumFunctionOnSet(CrossedBy, pending) \in Int
  BY <1>1, <1>2, SumType
<1> QED
  BY <1>1, <1>3, <1>4, <1>5 DEF SumCrossed, SumFunction

LEMMA HopTypes ==
  ASSUME CountInv, NEW m \in Masters
  PROVE  /\ \A l \in Links : LinkHops[l] \in Nat
         /\ \A s \in SlaveSet(m) : DoneHops(m)[s] \in Int
         /\ SumFunction(LinkHops) \in Int /\ SumFunction(DoneHops(m)) \in Int
         /\ DOMAIN LinkHops = Links /\ DOMAIN DoneHops(m) = SlaveSet(m)
<1>1. WellRouted
  BY DEF CountInv, RoutingInv
<1>2. \A l \in Links : LinkHops[l] \in Nat
  BY DEF LinkHops, CountInv, RoutingInv, TypeInv, TypeOK, LinkTypeOK, LinkMetrics
<1>3. ASSUME NEW s \in SlaveSet(m) PROVE DoneHops(m)[s] \in Int
  <2>1. Done(s) \in Int /\ Len(RoutePath[<<m, s>>]) \in Nat
    BY <1>1, Places, DoneType
  <2> QED
    BY <2>1 DEF DoneHops
<1>4. DOMAIN LinkHops = Links /\ DOMAIN DoneHops(m) = SlaveSet(m)
  BY DEF LinkHops, DoneHops
<1>5. SumFunction(LinkHops) \in Int
  BY <1>1, <1>2, <1>4, Places, SumType DEF SumFunction
<1>6. SumFunction(DoneHops(m)) \in Int
  BY <1>1, <1>3, <1>4, Places, SumType DEF SumFunction
<1> QED
  BY <1>2, <1>3, <1>4, <1>5, <1>6

(* The balance for one master, with its parts named. *)
Balanced(m) ==
  SumFunction(LinkHops) = SumFunction(DoneHops(m)) + SumCrossed(pending)

LEMMA HopBalance == CountInv => (HopsAccountedFor <=> \A m \in Masters : Balanced(m))
<1> SUFFICES ASSUME CountInv
             PROVE  HopsAccountedFor <=> \A m \in Masters : Balanced(m)
  OBVIOUS
<1>1. HopsAccountedFor <=>
        \A m \in Masters :
          SumFunction(LinkHops) = SumFunction(DoneHops(m)) + SumFunction(PacketHops)
  BY DEF HopsAccountedFor, LinkHops, DoneHops, PacketHops
<1> QED
  BY <1>1, PacketsCrossed DEF Balanced

(* What a step does to the sums. *)
LEMMA SameLinkSum == ASSUME SameHops PROVE SumFunction(LinkHops)' = SumFunction(LinkHops)
<1>1. LinkHops' = LinkHops
  BY DEF SameHops, LinkHops
<1> QED
  BY <1>1

LinkHopsOK == \A l \in Links : LinkHops[l] \in Nat

LEMMA LinkHopsType == ASSUME CountInv PROVE LinkHopsOK
BY DEF LinkHopsOK, LinkHops, CountInv, RoutingInv, TypeInv, TypeOK, LinkTypeOK, LinkMetrics

LEMMA OneMoreHop ==
  ASSUME CountInv, NEW k \in Links, HoppedBy(k)
  PROVE  SumFunction(LinkHops)' = SumFunction(LinkHops) + 1
<1> DEFINE f == LinkHops
           g == LinkHops'
<1>1. DOMAIN f = Links /\ DOMAIN g = Links
  BY DEF LinkHops
<1>2. \A l \in Links : f[l] \in Nat /\ g[l] = IF l = k THEN f[l] + 1 ELSE f[l]
  BY LinkHopsType DEF LinkHopsOK, HoppedBy, LinkHops
<1>3. IsFiniteSet(Links)
  <2>1. IsFiniteSet(Services) /\ Links \in SUBSET Services
    BY EngineAssumption DEF Services
  <2> QED
    BY <2>1, FS_Subset
<1>4. SumFunction(f)' = SumFunction(g)
  OBVIOUS
<1> HIDE DEF f, g
<1>5. \A l \in Links : f[l] \in Int /\ g[l] \in Int
  BY <1>2
<1>6. \A l \in Links \ {k} : f[l] = g[l]
  BY <1>2
<1>7. SumFunctionOnSet(f, Links) \in Int
  BY <1>3, <1>5, SumType
<1>8. SumFunctionOnSet(g, Links) = SumFunctionOnSet(f, Links) + g[k] - f[k]
  BY <1>3, <1>5, <1>6, SumChanges
<1>9. SumFunctionOnSet(g, Links) = SumFunctionOnSet(f, Links) + 1
  BY <1>2, <1>7, <1>8
<1> QED
  BY <1>1, <1>4, <1>9 DEF SumFunction, f

SameDone(m) == \A s \in SlaveSet(m) : Done(s)' = Done(s)

LEMMA SameDoneSum ==
  ASSUME NEW m \in Masters, SameDone(m)
  PROVE  SumFunction(DoneHops(m))' = SumFunction(DoneHops(m))
<1>1. ASSUME NEW s \in SlaveSet(m)
      PROVE  (2 * Len(RoutePath[<<m, s>>]) * Done(s))' = 2 * Len(RoutePath[<<m, s>>]) * Done(s)
  BY DEF SameDone
<1>2. DoneHops(m)' = DoneHops(m)
  BY <1>1 DEF DoneHops, SlaveSet
<1> QED
  BY <1>2

(* A task of slave d is back. *)
DoneBy(m, d) ==
  \A s \in SlaveSet(m) : Done(s)' = IF s = d THEN Done(s) + 1 ELSE Done(s)

LEMMA OneMoreDone ==
  ASSUME CountInv, NEW m \in Masters, NEW d \in SlaveSet(m), DoneBy(m, d)
  PROVE  SumFunction(DoneHops(m))' = SumFunction(DoneHops(m)) + 2 * Len(RoutePath[<<m, d>>])
<1> DEFINE f == DoneHops(m)
           g == DoneHops(m)'
           n(s) == Len(RoutePath[<<m, s>>])
<1>1. DOMAIN f = SlaveSet(m) /\ DOMAIN g = SlaveSet(m)
  BY DEF DoneHops, SlaveSet
<1>2. ASSUME NEW s \in SlaveSet(m)
      PROVE  f[s] \in Int /\ g[s] \in Int /\ g[s] = IF s = d THEN f[s] + 2 * n(s) ELSE f[s]
  <2>1. n(s) \in Nat /\ Done(s) \in Int
    BY Places, DoneType DEF CountInv, RoutingInv
  <2>2. f[s] = 2 * n(s) * Done(s)
    BY DEF DoneHops
  <2>3. g[s] = 2 * n(s) * Done(s)'
    BY DEF DoneHops, SlaveSet
  <2>4. PICK a \in Nat : a = n(s)
    BY <2>1
  <2>5. PICK b \in Int : b = Done(s)
    BY <2>1
  <2>6. Done(s)' = IF s = d THEN b + 1 ELSE b
    BY <2>5 DEF DoneBy
  <2>7. f[s] = 2 * a * b /\ g[s] = IF s = d THEN 2 * a * (b + 1) ELSE 2 * a * b
    BY <2>2, <2>3, <2>4, <2>5, <2>6
  <2>8. 2 * a * (b + 1) = 2 * a * b + 2 * a /\ 2 * a * b \in Int /\ 2 * a * (b + 1) \in Int
    OBVIOUS
  <2> HIDE DEF f, g, n
  <2> QED
    BY <2>4, <2>7, <2>8
<1>3. IsFiniteSet(SlaveSet(m))
  BY Places DEF CountInv, RoutingInv
<1>4. SumFunction(f)' = SumFunction(g)
  OBVIOUS
<1>5. n(d) \in Nat
  BY Places DEF CountInv, RoutingInv
<1> HIDE DEF f, g, n
<1>6. \A s \in SlaveSet(m) : f[s] \in Int /\ g[s] \in Int
  BY <1>2
<1>7. \A s \in SlaveSet(m) \ {d} : f[s] = g[s]
  BY <1>2
<1>8. SumFunctionOnSet(f, SlaveSet(m)) \in Int
  BY <1>3, <1>6, SumType
<1>9. SumFunctionOnSet(g, SlaveSet(m)) = SumFunctionOnSet(f, SlaveSet(m)) + g[d] - f[d]
  BY <1>3, <1>6, <1>7, SumChanges
<1>10. g[d] = f[d] + 2 * n(d) /\ f[d] \in Int
  BY <1>2
<1>11. SumFunctionOnSet(g, SlaveSet(m)) = SumFunctionOnSet(f, SlaveSet(m)) + 2 * n(d)
  BY <1>5, <1>8, <1>9, <1>10
<1> QED
  BY <1>1, <1>4, <1>11 DEF SumFunction, f, n

LEMMA LessCrossed ==
  ASSUME CountInv, NEW e \in pending
  PROVE  SumCrossed(pending \ {e}) = SumCrossed(pending) - Crossed(e)
<1>1. IsFiniteSet(pending) /\ IsFiniteSet(pending \ {e})
  BY FS_RemoveElement DEF CountInv
<1>2. \A x \in pending : CrossedBy[x] \in Int
  BY PacketsCrossed
<1>3. CrossedBy[e] = Crossed(e) /\ CrossedBy[e] \in Int
  BY PacketsCrossed
<1>4. SumCrossed(pending) = CrossedBy[e] + SumCrossed(pending \ {e})
  BY <1>1, <1>2, SumSplits DEF SumCrossed
<1>5. SumCrossed(pending \ {e}) \in Int
  BY <1>1, <1>2, SumType DEF SumCrossed
<1> QED
  BY <1>3, <1>4, <1>5

LEMMA SwappedCrossed ==
  ASSUME CountInv, NEW e \in pending, NEW f \in Event, f \notin pending \ {e},
         Crossed(f) \in Int
  PROVE  SumCrossed(Swapped(pending, e, f)) = SumCrossed(pending) - Crossed(e) + Crossed(f)
<1> DEFINE rest == pending \ {e}
<1>1. IsFiniteSet(rest)
  BY FS_RemoveElement DEF CountInv
<1>2. CrossedBy[f] = Crossed(f)
  BY DEF CrossedBy
<1>3. \A x \in rest \cup {f} : CrossedBy[x] \in Int
  BY <1>2, PacketsCrossed
<1>4. SumCrossed(rest) = SumCrossed(pending) - Crossed(e)
  BY LessCrossed
<1>5. Swapped(pending, e, f) = rest \cup {f}
  BY DEF Swapped
<1> HIDE DEF rest
<1>6. SumCrossed(rest \cup {f}) = SumCrossed(rest) + CrossedBy[f]
  BY <1>1, <1>3, SumAdds DEF SumCrossed, rest
<1> QED
  BY <1>2, <1>4, <1>5, <1>6

LEMMA BatchCrossed ==
  ASSUME CountInv, NEW n \in Nat, NEW sent \in [0 .. n - 1 -> Event],
         IsFiniteSet(Batch(n, sent)), \A i \in 0 .. n - 1 : Crossed(sent[i]) = 0
  PROVE  SumCrossed(WithAll(pending, n, sent)) = SumCrossed(pending)
<1>1. \A x \in Batch(n, sent) : CrossedBy[x] = 0
  BY DEF Batch, CrossedBy
<1>2. \A x \in pending \cup Batch(n, sent) : CrossedBy[x] \in Int
  BY <1>1, PacketsCrossed
<1>3. IsFiniteSet(pending)
  BY DEF CountInv
<1>4. WithAll(pending, n, sent) = pending \cup Batch(n, sent)
  BY DEF WithAll
<1>5. PICK new : new = Batch(n, sent)
  OBVIOUS
<1>6. SumFunctionOnSet(CrossedBy, pending \cup new) = SumFunctionOnSet(CrossedBy, pending)
  BY <1>1, <1>2, <1>3, <1>5, SumAddsNothing
<1> QED
  BY <1>4, <1>5, <1>6 DEF SumCrossed

(* What a step does to the tasks that are done. *)
DoneOK ==
  \A s \in Machines :
    /\ Done(s) = machineMetrics[s].procTasks - NumberIn(pending, BackFrom(s))
    /\ machineMetrics[s].procTasks \in Nat /\ NumberIn(pending, BackFrom(s)) \in Nat

LEMMA DoneIs == CountInv => DoneOK
BY DoneType DEF DoneOK

LEMMA DoneNext ==
  ASSUME CountInv, CountInv', NEW s \in Machines
  PROVE  /\ Done(s) = machineMetrics[s].procTasks - NumberIn(pending, BackFrom(s))
         /\ Done(s)' = machineMetrics'[s].procTasks - NumberIn(pending', BackFrom(s))
         /\ machineMetrics[s].procTasks \in Nat /\ NumberIn(pending, BackFrom(s)) \in Nat
<1>1. BackFrom(s)' = BackFrom(s)
  BY DEF BackFrom
<1>2. CountInv' => DoneOK'
  BY DoneIs, PTL
<1>3. Done(s)' = (machineMetrics[s].procTasks - NumberIn(pending, BackFrom(s)))'
  BY <1>2 DEF DoneOK
<1>4. Done(s)' = machineMetrics'[s].procTasks - NumberIn(pending', BackFrom(s)')
  BY <1>3 DEF NumberIn
<1> QED
  BY <1>1, <1>4, DoneType

(* A packet is replaced, and its slave may have processed it. *)
LEMMA DoneIfSwapped ==
  ASSUME CountInv, CountInv', NEW s \in Machines, NEW e \in pending, NEW f \in Event,
         f \notin pending \ {e}, pending' = Swapped(pending, e, f)
  PROVE  NumberIn(pending', BackFrom(s)) =
           NumberIn(pending, BackFrom(s))
             - (IF e.processed /\ e.destination = s THEN 1 ELSE 0)
             + (IF f.processed /\ f.destination = s THEN 1 ELSE 0)
<1>1. IsFiniteSet(pending) /\ e \in Event /\ NumberIn(pending, BackFrom(s)) \in Nat
  BY PendingType, DoneType DEF CountInv, RoutingInv
<1>2. /\ e \in BackFrom(s) <=> (e.processed /\ e.destination = s)
      /\ f \in BackFrom(s) <=> (f.processed /\ f.destination = s)
  BY <1>1 DEF BackFrom
<1>3. PICK K : K = BackFrom(s)
  OBVIOUS
<1>4. /\ e \in K /\ f \in K =>
           NumberIn(Swapped(pending, e, f), K) = NumberIn(pending, K)
      /\ e \notin K /\ f \notin K =>
           NumberIn(Swapped(pending, e, f), K) = NumberIn(pending, K)
      /\ e \in K /\ f \notin K =>
           NumberIn(Swapped(pending, e, f), K) = NumberIn(pending, K) - 1
      /\ e \notin K /\ f \in K =>
           NumberIn(Swapped(pending, e, f), K) = NumberIn(pending, K) + 1
  BY <1>1, SwappedCommon DEF NumberIn
<1>5. NumberIn(pending', K) =
        NumberIn(pending, K) - (IF e \in K THEN 1 ELSE 0) + (IF f \in K THEN 1 ELSE 0)
  BY <1>1, <1>3, <1>4
<1>6. /\ (IF e.processed /\ e.destination = s THEN 1 ELSE 0) = IF e \in K THEN 1 ELSE 0
      /\ (IF f.processed /\ f.destination = s THEN 1 ELSE 0) = IF f \in K THEN 1 ELSE 0
  BY <1>2, <1>3
<1> QED
  BY <1>3, <1>5, <1>6

(* Nothing is done when a packet goes on, as what it was. *)
LEMMA NothingDone ==
  ASSUME CountInv, CountInv', NEW m \in Masters, NEW e \in pending, NEW f \in Event,
         f \notin pending \ {e}, pending' = Swapped(pending, e, f), SameWork,
         e.processed = f.processed, e.processed => e.destination = f.destination
  PROVE  SameDone(m)
<1> SUFFICES ASSUME NEW s \in SlaveSet(m) PROVE Done(s)' = Done(s)
  BY DEF SameDone, SlaveSet
<1>1. s \in Machines
  BY Places DEF CountInv, RoutingInv
<1>2. NumberIn(pending', BackFrom(s)) =
        NumberIn(pending, BackFrom(s))
          - (IF e.processed /\ e.destination = s THEN 1 ELSE 0)
          + (IF f.processed /\ f.destination = s THEN 1 ELSE 0)
  BY <1>1, DoneIfSwapped
<1>3. NumberIn(pending, BackFrom(s)) \in Nat
  BY <1>1, DoneType
<1>4. NumberIn(pending', BackFrom(s)) = NumberIn(pending, BackFrom(s))
  BY <1>2, <1>3
<1>5. machineMetrics'[s].procTasks = machineMetrics[s].procTasks
  BY <1>1 DEF SameWork
<1> QED
  BY <1>1, <1>4, <1>5, DoneNext

(* Nor when a machine has processed a task, which is on its way back then. *)
LEMMA NotYetDone ==
  ASSUME CountInv, CountInv', NEW m \in Masters, NEW d \in Machines,
         NEW e \in pending, NEW f \in Event,
         f \notin pending \ {e}, pending' = Swapped(pending, e, f), WorkedBy(d),
         ~ e.processed, f.processed, f.destination = d
  PROVE  SameDone(m)
<1> SUFFICES ASSUME NEW s \in SlaveSet(m) PROVE Done(s)' = Done(s)
  BY DEF SameDone, SlaveSet
<1>1. s \in Machines
  BY Places DEF CountInv, RoutingInv
<1>2. NumberIn(pending', BackFrom(s)) =
        NumberIn(pending, BackFrom(s))
          - (IF e.processed /\ e.destination = s THEN 1 ELSE 0)
          + (IF f.processed /\ f.destination = s THEN 1 ELSE 0)
  BY <1>1, DoneIfSwapped
<1>3. NumberIn(pending, BackFrom(s)) \in Nat /\ machineMetrics[s].procTasks \in Nat
  BY <1>1, DoneType
<1>4. NumberIn(pending', BackFrom(s)) = NumberIn(pending, BackFrom(s)) + (IF s = d THEN 1 ELSE 0)
  BY <1>2, <1>3
<1>5. machineMetrics'[s].procTasks = machineMetrics[s].procTasks + (IF s = d THEN 1 ELSE 0)
  BY <1>1, <1>3 DEF WorkedBy
<1>6. /\ Done(s) = machineMetrics[s].procTasks - NumberIn(pending, BackFrom(s))
      /\ Done(s)' = machineMetrics'[s].procTasks - NumberIn(pending', BackFrom(s))
  BY <1>1, DoneNext
<1> QED
  BY <1>3, <1>4, <1>5, <1>6

(* A task is done when it is back. *)
LEMMA DoneIfReturned ==
  ASSUME CountInv, CountInv', NEW m \in Masters, NEW e \in pending, SameWork, e.processed,
         \/ pending' = pending \ {e}
         \/ \E f \in Event : /\ f \notin pending /\ ~ f.processed
                             /\ pending' = Swapped(pending, e, f)
  PROVE  DoneBy(m, e.destination)
<1> SUFFICES ASSUME NEW s \in SlaveSet(m)
             PROVE  Done(s)' = IF s = e.destination THEN Done(s) + 1 ELSE Done(s)
  BY DEF DoneBy, SlaveSet
<1>1. s \in Machines
  BY Places DEF CountInv, RoutingInv
<1>2. NumberIn(pending, BackFrom(s)) \in Nat /\ machineMetrics[s].procTasks \in Nat
  BY <1>1, DoneType
<1>3. NumberIn(pending', BackFrom(s)) =
        NumberIn(pending, BackFrom(s)) - (IF s = e.destination THEN 1 ELSE 0)
  <2>1. CASE pending' = pending \ {e}
    <3>1. e \in BackFrom(s) <=> e.destination = s
      BY PendingType DEF BackFrom, CountInv, RoutingInv
    <3>2. PICK K : K = BackFrom(s)
      OBVIOUS
    <3>3. NumberIn(pending \ {e}, K) =
            IF e \in K THEN NumberIn(pending, K) - 1 ELSE NumberIn(pending, K)
      BY OneLessCommon DEF CountInv, NumberIn
    <3> QED
      BY <1>2, <2>1, <3>1, <3>2, <3>3
  <2>2. ASSUME NEW f \in Event, f \notin pending, ~ f.processed,
               pending' = Swapped(pending, e, f)
        PROVE  NumberIn(pending', BackFrom(s)) =
                 NumberIn(pending, BackFrom(s)) - (IF s = e.destination THEN 1 ELSE 0)
    <3>1. NumberIn(pending', BackFrom(s)) =
            NumberIn(pending, BackFrom(s))
              - (IF e.processed /\ e.destination = s THEN 1 ELSE 0)
              + (IF f.processed /\ f.destination = s THEN 1 ELSE 0)
      BY <1>1, <2>2, DoneIfSwapped
    <3> QED
      BY <1>2, <2>2, <3>1
  <2> QED
    BY <2>1, <2>2
<1>4. machineMetrics'[s].procTasks = machineMetrics[s].procTasks
  BY <1>1 DEF SameWork
<1>5. /\ Done(s) = machineMetrics[s].procTasks - NumberIn(pending, BackFrom(s))
      /\ Done(s)' = machineMetrics'[s].procTasks - NumberIn(pending', BackFrom(s))
  BY <1>1, DoneNext
<1> QED
  BY <1>2, <1>3, <1>4, <1>5

LEMMA StillBalanced ==
  ASSUME CountInv, CountInv', NEW m \in Masters, Balanced(m), NEW x \in Int, NEW y \in Int,
         SumFunction(LinkHops)' = SumFunction(LinkHops) + x,
         SumFunction(DoneHops(m))' = SumFunction(DoneHops(m)) + y,
         SumCrossed(pending') = SumCrossed(pending) + (x - y)
  PROVE  Balanced(m)'
<1> DEFINE L == SumFunction(LinkHops)
           D == SumFunction(DoneHops(m))
           C == SumCrossed(pending)
<1>1. L \in Int /\ D \in Int /\ C \in Int
  BY HopTypes, PacketsCrossed
<1>2. L = D + C
  BY DEF Balanced
<1>3. C' = C + (x - y)
  <2>1. CrossedBy' = CrossedBy
    BY DEF CrossedBy
  <2>2. C' = SumCrossed(pending')
    BY <2>1 DEF SumCrossed
  <2> QED
    BY <2>2
<1>4. Balanced(m)' <=> L' = D' + C'
  BY DEF Balanced
<1>5. L' = L + x /\ D' = D + y
  OBVIOUS
<1> HIDE DEF L, D, C
<1> QED
  BY <1>1, <1>2, <1>3, <1>4, <1>5

LEMMA HopsStep == HopsInv /\ [Next]_vars => HopsInv'
<1> SUFFICES ASSUME HopsInv, [Next]_vars PROVE HopsInv'
  OBVIOUS
<1>1. CountInv /\ CountInv' /\ RoutingInv /\ NumberInv
  BY CountInvStep DEF HopsInv, CountInv
<1>2. OneMaster /\ OneMaster' /\ \A m \in Masters : Balanced(m)
  BY <1>1, HopBalance DEF HopsInv, OneMaster
<1>3. SUFFICES \A m \in Masters : Balanced(m)'
  <2>1. (CountInv => (HopsAccountedFor <=> \A m \in Masters : Balanced(m)))'
    BY HopBalance, PTL
  <2> QED
    BY <1>1, <1>2, <1>3, <2>1 DEF HopsInv
<1>4. SUFFICES ASSUME NEW m \in Masters PROVE Balanced(m)'
  OBVIOUS
<1>5. Balanced(m) /\ SumCrossed(pending) \in Int
      /\ SumFunction(LinkHops) \in Int /\ SumFunction(DoneHops(m)) \in Int
  BY <1>1, <1>2, HopTypes, PacketsCrossed
<1>6. ASSUME SameHops PROVE SumFunction(LinkHops)' = SumFunction(LinkHops) + 0
  BY <1>5, <1>6, SameLinkSum
<1>7. ASSUME SameDone(m) PROVE SumFunction(DoneHops(m))' = SumFunction(DoneHops(m)) + 0
  BY <1>5, <1>7, SameDoneSum
<1>8. \A e \in pending : Crossed(e) \in Int
  BY <1>1, PacketsCrossed
<1>9. CASE NothingGiven
  <2>1. SameDone(m)
    <3>1. ASSUME NEW s \in SlaveSet(m) PROVE Done(s)' = Done(s)
      <4>1. s \in Machines
        BY <1>1, Places DEF RoutingInv
      <4>2. machineMetrics'[s].procTasks = machineMetrics[s].procTasks /\ pending' = pending
        BY <1>9, <4>1 DEF NothingGiven, SameWork
      <4> QED
        BY <1>1, <4>1, <4>2, DoneNext
    <3> QED
      BY <3>1 DEF SameDone
  <2>2. SumCrossed(pending') = SumCrossed(pending) + (0 - 0)
    BY <1>5, <1>9 DEF NothingGiven
  <2>3. SameHops
    BY <1>9 DEF NothingGiven
  <2> QED
    BY <1>1, <1>5, <1>6, <1>7, <2>1, <2>2, <2>3, StillBalanced
<1>10. CASE GoesOn
  <2>1. PICK e \in pending, f \in Event :
          /\ pending' = Swapped(pending, e, f) /\ TaskOf(f) = TaskOf(e)
          /\ f.processed = e.processed /\ f.destination = e.destination /\ SameWork
          /\ \/ SameHops /\ Crossed(f) = Crossed(e)
             \/ \E l \in Links : HoppedBy(l) /\ Crossed(f) = Crossed(e) + 1
    BY <1>10 DEF GoesOn
  <2>2. f \notin pending \ {e}
    BY <1>1, <2>1, NotAmong
  <2>3. SumFunction(DoneHops(m))' = SumFunction(DoneHops(m)) + 0
    BY <1>1, <1>7, <2>1, <2>2, NothingDone
  <2>4. Crossed(e) \in Int /\ Crossed(f) \in Int
    BY <1>8, <2>1
  <2>5. SumCrossed(pending') = SumCrossed(pending) - Crossed(e) + Crossed(f)
    BY <1>1, <2>1, <2>2, <2>4, SwappedCrossed
  <2>6. CASE SameHops /\ Crossed(f) = Crossed(e)
    <3>1. SumCrossed(pending') = SumCrossed(pending) + (0 - 0)
      BY <1>5, <2>4, <2>5, <2>6
    <3> QED
      BY <1>1, <1>5, <1>6, <2>3, <2>6, <3>1, StillBalanced
  <2>7. ASSUME NEW l \in Links, HoppedBy(l), Crossed(f) = Crossed(e) + 1 PROVE Balanced(m)'
    <3>1. SumFunction(LinkHops)' = SumFunction(LinkHops) + 1
      BY <1>1, <2>7, OneMoreHop
    <3>2. SumCrossed(pending') = SumCrossed(pending) + (1 - 0)
      BY <1>5, <2>4, <2>5, <2>7
    <3> QED
      BY <1>1, <1>5, <2>3, <3>1, <3>2, StillBalanced
  <2> QED
    BY <2>1, <2>6, <2>7
<1>11. CASE IsProcessed
  <2>1. PICK d \in Machines, e \in pending, f \in Event :
          /\ pending' = Swapped(pending, e, f) /\ TaskOf(f) = TaskOf(e)
          /\ ~ e.processed /\ f.processed /\ f.destination = d /\ WorkedBy(d)
          /\ SameHops /\ Crossed(f) = Crossed(e)
    BY <1>11 DEF IsProcessed
  <2>2. f \notin pending \ {e}
    BY <1>1, <2>1, NotAmong
  <2>3. SumFunction(DoneHops(m))' = SumFunction(DoneHops(m)) + 0
    BY <1>1, <1>7, <2>1, <2>2, NotYetDone
  <2>4. Crossed(e) \in Int /\ Crossed(f) = Crossed(e)
    BY <1>8, <2>1
  <2>5. SumCrossed(pending') = SumCrossed(pending) - Crossed(e) + Crossed(f)
    BY <1>1, <2>1, <2>2, <2>4, SwappedCrossed
  <2>6. SumCrossed(pending') = SumCrossed(pending) + (0 - 0)
    BY <1>5, <2>4, <2>5
  <2> QED
    BY <1>1, <1>5, <1>6, <2>1, <2>3, <2>6, StillBalanced
<1>12. ASSUME NEW e \in pending, IsHome(e, m), DoneBy(m, e.destination), SameHops,
              SumCrossed(pending') = SumCrossed(pending) - Crossed(e)
       PROVE  Balanced(m)'
  <2>1. PICK d \in SlaveSet(m) : d = e.destination
    BY <1>12 DEF IsHome
  <2>2. PICK n \in Nat : n = 2 * Len(RoutePath[<<m, d>>])
    BY <1>1, Places DEF RoutingInv
  <2>3. Crossed(e) = n
    BY <1>12, <2>1, <2>2 DEF IsHome
  <2>4. SumFunction(DoneHops(m))' = SumFunction(DoneHops(m)) + n
    BY <1>1, <1>12, <2>1, <2>2, OneMoreDone
  <2>5. SumCrossed(pending') = SumCrossed(pending) + (0 - n)
    BY <1>5, <1>12, <2>3
  <2> QED
    BY <1>1, <1>5, <1>6, <1>12, <2>4, <2>5, StillBalanced
<1>13. CASE IsGiven
  <2>1. PICK k \in Masters, e \in pending, f \in Event :
          /\ pending' = Swapped(pending, e, f) /\ ~ f.processed
          /\ SameWork /\ SameHops /\ Crossed(f) = 0
          /\ \/ ~ e.processed /\ TaskOf(f) = TaskOf(e) /\ Crossed(e) = 0
             \/ /\ e.processed /\ IsHome(e, k)
                /\ f.batch = "scheduler" /\ f.tid = Szudzik(remaining[k], k)
    BY <1>13 DEF IsGiven
  <2>2. CASE ~ e.processed /\ TaskOf(f) = TaskOf(e) /\ Crossed(e) = 0
    <3>1. f \notin pending \ {e}
      BY <1>1, <2>2, NotAmong
    <3>2. SumFunction(DoneHops(m))' = SumFunction(DoneHops(m)) + 0
      <4>1. e.processed \in BOOLEAN /\ f.processed \in BOOLEAN
        BY <1>1, PendingType DEF RoutingInv, Event
      <4>2. e.processed = f.processed
        BY <2>1, <2>2, <4>1
      <4> QED
        BY <1>1, <1>7, <2>1, <2>2, <3>1, <4>2, NothingDone
    <3>3. SumCrossed(pending') = SumCrossed(pending) - Crossed(e) + Crossed(f)
      BY <1>1, <2>1, <2>2, <3>1, SwappedCrossed
    <3>4. SumCrossed(pending') = SumCrossed(pending) + (0 - 0)
      BY <1>5, <2>1, <2>2, <3>3
    <3> QED
      BY <1>1, <1>5, <1>6, <2>1, <3>2, <3>4, StillBalanced
  <2>3. CASE /\ e.processed /\ IsHome(e, k)
             /\ f.batch = "scheduler" /\ f.tid = Szudzik(remaining[k], k)
    <3>1. f \notin pending /\ m = k
      BY <1>1, <1>2, <2>3, DrawnNotAmong, TheMaster
    <3>2. DoneBy(m, e.destination)
      BY <1>1, <2>1, <2>3, <3>1, DoneIfReturned
    <3>3. SumCrossed(pending') = SumCrossed(pending) - Crossed(e) + Crossed(f)
      BY <1>1, <2>1, <3>1, SwappedCrossed
    <3>4. SumCrossed(pending') = SumCrossed(pending) - Crossed(e)
      BY <1>5, <1>8, <2>1, <3>3
    <3> QED
      BY <1>12, <2>1, <2>3, <3>1, <3>2, <3>4
  <2> QED
    BY <2>1, <2>2, <2>3
<1>14. CASE IsDone
  <2>1. PICK k \in Masters, e \in pending :
          /\ e.processed /\ IsHome(e, k) /\ pending' = pending \ {e} /\ SameWork /\ SameHops
    BY <1>14 DEF IsDone
  <2>2. m = k
    BY <1>2, TheMaster
  <2>3. DoneBy(m, e.destination)
    BY <1>1, <2>1, DoneIfReturned
  <2>4. SumCrossed(pending') = SumCrossed(pending) - Crossed(e)
    BY <1>1, <2>1, LessCrossed
  <2> QED
    BY <1>12, <2>1, <2>2, <2>3, <2>4
<1>15. CASE AreGiven
  <2>1. PICK k \in Masters : \E sent \in [0 .. InitialBatch(k) - 1 -> Event] :
          /\ AreNew(pending, InitialBatch(k), sent, k)
          /\ pending' = WithAll(pending, InitialBatch(k), sent)
          /\ \A i \in 0 .. InitialBatch(k) - 1 : ~ sent[i].processed /\ Crossed(sent[i]) = 0
          /\ SameWork /\ SameHops
    BY <1>15 DEF AreGiven
  <2>2. PICK n \in Nat : n = InitialBatch(k)
    <3>1. remaining[k] \in Nat /\ Len(Slaves[k]) \in Nat
      BY <1>1, CountTypes
    <3> QED
      BY <3>1 DEF InitialBatch
  <2>3. PICK sent \in [0 .. n - 1 -> Event] :
          /\ AreNew(pending, n, sent, k)
          /\ pending' = WithAll(pending, n, sent)
          /\ \A i \in 0 .. n - 1 : ~ sent[i].processed /\ Crossed(sent[i]) = 0
          /\ SameWork /\ SameHops
    BY <2>1, <2>2
  <2>4. IsFiniteSet(Batch(n, sent)) /\ IsFiniteSet(pending) /\ Fresh(pending, n, sent)
    BY <1>1, <2>3, OneForEach DEF AreNew, Fresh, CountInv
  <2>5. SumCrossed(pending') = SumCrossed(pending)
    BY <1>1, <2>3, <2>4, BatchCrossed
  <2>6. SumCrossed(pending') = SumCrossed(pending) + (0 - 0)
    BY <1>5, <2>5
  <2>7. ASSUME NEW s \in SlaveSet(m) PROVE Done(s)' = Done(s)
    <3>1. s \in Machines
      BY <1>1, Places DEF RoutingInv
    <3>2. Batch(n, sent) \cap BackFrom(s) = {}
      BY <2>3 DEF Batch, BackFrom
    <3>3. PICK K : K = BackFrom(s)
      OBVIOUS
    <3>4. NumberIn(WithAll(pending, n, sent), K)
            = NumberIn(pending, K) + NumberIn(Batch(n, sent), K)
      BY <2>4, BatchCommon
    <3>5. NumberIn(Batch(n, sent), K) = 0
      BY <3>2, <3>3, FS_EmptySet DEF NumberIn
    <3>6. NumberIn(pending', BackFrom(s)) = NumberIn(pending, BackFrom(s))
      <4>1. NumberIn(pending, BackFrom(s)) \in Nat
        BY <1>1, <3>1, DoneType
      <4> QED
        BY <2>3, <3>3, <3>4, <3>5, <4>1
    <3>7. machineMetrics'[s].procTasks = machineMetrics[s].procTasks
      BY <2>3, <3>1 DEF SameWork
    <3> QED
      BY <1>1, <3>1, <3>6, <3>7, DoneNext
  <2>8. SameDone(m)
    BY <2>7 DEF SameDone
  <2> QED
    BY <1>1, <1>5, <1>6, <1>7, <2>3, <2>6, <2>8, StillBalanced
<1> QED
  BY <1>1, <1>9, <1>10, <1>11, <1>13, <1>14, <1>15, StepWorks

LEMMA HopsInit == WellRouted /\ OneMaster /\ Init => HopsInv
<1> SUFFICES ASSUME WellRouted, OneMaster, Init PROVE HopsInv
  OBVIOUS
<1>1. CountInv
  BY CountInvInit
<1>2. ASSUME NEW e \in pending PROVE CrossedBy[e] = 0 /\ ~ e.processed
  <2>1. ~ e.processed /\ e.to = e.origin
    <3>1. PICK time \in [BuilderNumbers -> ArrivalTimes], size \in [Masters -> TaskSizes] :
            pending = {[NewTask("builder", x[1], x[2], size[x[1]]) EXCEPT !.time = time[x]] :
                         x \in BuilderNumbers}
      BY DEF Init, BuilderInit
    <3>2. PICK x \in BuilderNumbers :
            e = [NewTask("builder", x[1], x[2], size[x[1]]) EXCEPT !.time = time[x]]
      BY <3>1
    <3> QED
      BY <3>2 DEF NewTask
  <2>2. Crossed(e) = 0
    BY <2>1 DEF Crossed, AtSource
  <2> QED
    BY <1>1, <2>1, <2>2, PacketsCrossed
<1>3. SumCrossed(pending) = 0
  BY <1>1, <1>2, SumZero DEF SumCrossed, CountInv
<1>4. SumFunction(LinkHops) = 0
  <2>1. DOMAIN LinkHops = Links /\ \A l \in Links : LinkHops[l] = 0
    BY DEF Init, LinkInit, LinkHops
  <2>2. IsFiniteSet(Links)
    <3>1. IsFiniteSet(Services) /\ Links \in SUBSET Services
      BY EngineAssumption DEF Services
    <3> QED
      BY <3>1, FS_Subset
  <2> QED
    BY <2>1, <2>2, SumZero DEF SumFunction
<1>5. ASSUME NEW m \in Masters PROVE SumFunction(DoneHops(m)) = 0
  <2>1. ASSUME NEW s \in SlaveSet(m) PROVE DoneHops(m)[s] = 0
    <3>1. s \in Machines /\ Len(RoutePath[<<m, s>>]) \in Nat
      BY Places
    <3>2. machineMetrics[s].procTasks = 0
      BY <3>1 DEF Init, MachineInit
    <3>3. pending \cap BackFrom(s) = {}
      BY <1>2 DEF BackFrom
    <3>4. NumberIn(pending, BackFrom(s)) = 0
      BY <3>3, FS_EmptySet DEF NumberIn
    <3>5. Done(s) = 0
      BY <1>1, <3>1, <3>2, <3>4, DoneType
    <3> QED
      BY <3>1, <3>5 DEF DoneHops
  <2>2. IsFiniteSet(SlaveSet(m)) /\ DOMAIN DoneHops(m) = SlaveSet(m)
    BY Places DEF DoneHops
  <2> QED
    BY <2>1, <2>2, SumZero DEF SumFunction
<1>6. \A m \in Masters : Balanced(m)
  BY <1>3, <1>4, <1>5 DEF Balanced
<1> QED
  BY <1>1, <1>6, HopBalance DEF HopsInv

(* In every flat grid with one master the counters of the links add up to the
   hops of the tasks that are done and of the packets on their way: no hop is
   lost or counted twice, on whatever routes and in whatever order. *)
THEOREM HopsAddUp == WellRouted /\ OneMaster /\ Spec => []HopsAccountedFor
<1>1. WellRouted /\ OneMaster /\ Init => HopsInv
  BY HopsInit
<1>2. HopsInv /\ [Next]_vars => HopsInv'
  BY HopsStep
<1> QED
  BY <1>1, <1>2, PTL DEF Spec, HopsInv
=============================================================================
