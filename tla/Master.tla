------------------------------- MODULE Master -------------------------------
(***************************************************************************)
(* The masters (service/master) with their RoundRobin scheduler and their  *)
(* workload.  A master draws tasks from its workload and sends them to its *)
(* slaves in turn: one per slave when it starts, then one for each task of *)
(* its own that comes back.  It also schedules any task that arrives, and  *)
(* passes on to its origin a processed task of another master.             *)
(***************************************************************************)
EXTENDS Engine, Szudzik

CONSTANTS
  Slaves,          \* what addSlave was called with, in order
  WorkloadSize,    \* tasks in the workload of each master that has one
  TaskSizes,       \* <<procSize, commSize>> a workload may draw
  FreshPointers,   \* what m_Workload holds when nothing was assigned to it
  BuilderTasks,    \* tasks that addConstantSizedWorkload sends to a master
  ArrivalTimes     \* times at which it sends them

(* DOMAIN WorkloadSize: masters whose m_Workload is assigned. *)
ASSUME MasterAssumption ==
  /\ Slaves \in [Masters -> Seq(Masters \cup Machines)]
  /\ DOMAIN WorkloadSize \subseteq Masters
  /\ WorkloadSize \in [DOMAIN WorkloadSize -> Nat]
  /\ TaskSizes \in (SUBSET (Nat \X Nat)) \ {{}}
  /\ FreshPointers \in (SUBSET {"null", "wild"}) \ {{}}
  /\ BuilderTasks \in [Masters -> Nat]
  /\ ArrivalTimes \in (SUBSET Nat) \ {{}}

VARIABLES
  workload,        \* the pointer m_Workload: "assigned", "null" or "wild"
  remaining,       \* m_TaskAmount of the workload
  nextResource,    \* index in Slaves of the slave to be scheduled next
  masterMetrics

masterVars == <<workload, remaining, nextResource, masterMetrics>>

MasterMetrics == [lastActivityTime : Nat, completedTasks : Nat]

MasterTypeOK ==
  /\ workload \in [Masters -> {"assigned", "null", "wild"}]
  /\ remaining \in [Masters -> Nat]
  /\ nextResource \in [Masters -> Nat]
  /\ masterMetrics \in [Masters -> MasterMetrics]

MasterInit ==
  /\ workload \in [Masters -> {"assigned"} \cup FreshPointers]
  /\ \A m \in Masters : (workload[m] = "assigned") <=> (m \in DOMAIN WorkloadSize)
  /\ remaining = [m \in Masters |-> IF m \in DOMAIN WorkloadSize THEN WorkloadSize[m] ELSE 0]
  /\ nextResource = [m \in Masters |-> 0]
  /\ masterMetrics = [m \in Masters |-> [lastActivityTime |-> 0, completedTasks |-> 0]]

-----------------------------------------------------------------------------
(* A new task of master m, number n of its batch, with the descriptor of
   Event(task): no source, destination or previous service. *)
NewTask(batch, m, n, size) ==
  [to |-> m, time |-> 0, batch |-> batch, tid |-> Szudzik(n, m), origin |-> m,
   procSize |-> size[1], commSize |-> size[2], processed |-> FALSE,
   source |-> Nobody, destination |-> Nobody, previous |-> Nobody,
   offset |-> 0, forward |-> TRUE]

BuilderNumbers == UNION {{m} \X (0 .. BuilderTasks[m] - 1) : m \in Masters}

(* The events addConstantSizedWorkload schedules: tasks numbered from 0, all
   at time 0 (zeroth) or at random times in increasing order (exp), and all
   those of a master with the same sizes. *)
BuilderInit ==
  \E time \in [BuilderNumbers -> ArrivalTimes], size \in [Masters -> TaskSizes] :
    /\ \A x, y \in BuilderNumbers : x[1] = y[1] /\ x[2] < y[2] => time[x] <= time[y]
    /\ pending = {[NewTask("builder", x[1], x[2], size[x[1]]) EXCEPT !.time = time[x]] :
                    x \in BuilderNumbers}

-----------------------------------------------------------------------------
(* RoundRobin::schedule: the slave it returns at its i-th next call, from 0,
   and the index after k calls. *)
Slave(m, i) == Slaves[m][((nextResource[m] + i) % Len(Slaves[m])) + 1]

(* Mutated form: the index is reset when a batch has been sent. *)
ResetIndex(m, k) == 0

Advanced(m, k) ==
  IF k = 0 THEN nextResource[m] ELSE (nextResource[m] + k) % Len(Slaves[m])

(* The event that takes task t of an event to the slave. *)
ToSlave(m, slave, time, t) ==
  [t EXCEPT !.to = RoutePath[<<m, slave>>][1], !.time = time,
            !.source = m, !.destination = slave, !.previous = m,
            !.offset = 1, !.forward = TRUE]

(* How many tasks onInit sends: one per slave while there are tasks. *)
InitialBatch(m) ==
  IF remaining[m] < Len(Slaves[m]) THEN remaining[m] ELSE Len(Slaves[m])

(* Mutated form: the tasks of one batch have the same number. *)
SameNumber(m, i) == remaining[m]

(* The number of the i-th task drawn from now on, from 0: how many tasks are
   left when it is drawn. *)
TaskNumber(m, i) == remaining[m] - i

(* RoundRobin::onInit.  Its events are sent at time 0, which is now. *)
OnInit(m) ==
  \/ /\ workload[m] = "null"
     /\ UNCHANGED <<pending, fault, remaining, nextResource>>
  \/ /\ workload[m] = "wild"
     /\ fault' = [why |-> "bad workload", at |-> m]
     /\ UNCHANGED <<pending, remaining, nextResource>>
  \/ /\ workload[m] = "assigned"
     /\ \A i \in 0 .. InitialBatch(m) - 1 : HasRoute(m, Slave(m, i))
     /\ \E size \in [0 .. InitialBatch(m) - 1 -> TaskSizes] :
          pending' = pending \cup
            {ToSlave(m, Slave(m, i), 0, NewTask("scheduler", m, TaskNumber(m, i), size[i])) :
               i \in 0 .. InitialBatch(m) - 1}
     /\ remaining' = [remaining EXCEPT ![m] = @ - InitialBatch(m)]
     /\ nextResource' = [nextResource EXCEPT ![m] = Advanced(m, InitialBatch(m))]
     /\ UNCHANGED fault
  \/ /\ workload[m] = "assigned"
     /\ \E i \in 0 .. InitialBatch(m) - 1 : ~ HasRoute(m, Slave(m, i))
     /\ fault' = [why |-> "no route", at |-> m]
     /\ UNCHANGED <<pending, remaining, nextResource>>

MasterOnSchedulerInit(m) ==
  /\ fault = Running /\ m \in inits
  /\ inits' = inits \ {m}
  /\ OnInit(m)
  /\ UNCHANGED <<now, workload, masterMetrics>>

-----------------------------------------------------------------------------
(* The next slave gets task t when the handler of e returns. *)
SendToNext(m, e, t) ==
  \/ /\ Slaves[m] = <<>>
     /\ Stop(e, "no slave")
     /\ UNCHANGED nextResource
  \/ /\ Slaves[m] # <<>> /\ HasRoute(m, Slave(m, 0))
     /\ Replace(e, {ToSlave(m, Slave(m, 0), e.time, t)})
     /\ nextResource' = [nextResource EXCEPT ![m] = Advanced(m, 1)]
  \/ /\ Slaves[m] # <<>> /\ ~ HasRoute(m, Slave(m, 0))
     /\ Stop(e, "no route")
     /\ UNCHANGED nextResource

(* Mutated form: the last task of the workload is never drawn. *)
KeepOne(m) == remaining[m] > 1

HasRemainingWorkload(m) == remaining[m] > 0

(* A task of this master is back: RoundRobin::onCompletedTask. *)
OnCompletedTask(m, e) ==
  \/ /\ workload[m] # "assigned"
     /\ Stop(e, "bad workload")
     /\ UNCHANGED <<remaining, nextResource>>
  \/ /\ workload[m] = "assigned" /\ ~ HasRemainingWorkload(m)
     /\ Replace(e, {})
     /\ UNCHANGED <<remaining, nextResource>>
  \/ /\ workload[m] = "assigned" /\ HasRemainingWorkload(m)
     /\ \E size \in TaskSizes : SendToNext(m, e, NewTask("scheduler", m, TaskNumber(m, 0), size))
     /\ remaining' = [remaining EXCEPT ![m] = @ - 1]

(* Mutated form: the task ends at the master that has scheduled it last. *)
EndHere(m, e) == Replace(e, {}) /\ UNCHANGED <<remaining, nextResource>>

(* A processed task of another master goes on to its origin, under the route
   from the origin to this master but with the offset it has come with. *)
Relay(m, e) ==
  \/ /\ HasRoute(e.origin, m)
     /\ \E next \in RouteElement(RoutePath[<<e.origin, m>>], e.offset) :
          Replace(e, {[e EXCEPT !.to = next, !.source = e.origin, !.destination = m,
                                !.previous = m, !.offset = NextOffset(e),
                                !.forward = FALSE]})
     /\ UNCHANGED <<remaining, nextResource>>
  \/ /\ ~ HasRoute(e.origin, m)
     /\ Stop(e, "no route")
     /\ UNCHANGED <<remaining, nextResource>>

(* Mutated form: a task that arrives to be scheduled counts as completed. *)
CountArrivals(m, e) ==
  masterMetrics' = [masterMetrics EXCEPT
    ![m].lastActivityTime = e.time,
    ![m].completedTasks = @ + 1]

MasterCount(m, e) ==
  masterMetrics' = [masterMetrics EXCEPT
    ![m].lastActivityTime = e.time,
    ![m].completedTasks = IF e.processed THEN @ + 1 ELSE @]

(* Every other task is scheduled, whether or not this master is its
   destination. *)
MasterOnTaskArrival(m, e) ==
  /\ \/ e.processed /\ e.origin = m /\ OnCompletedTask(m, e)
     \/ e.processed /\ e.origin # m /\ Relay(m, e)
     \/ ~ e.processed /\ SendToNext(m, e, e) /\ UNCHANGED remaining
  /\ MasterCount(m, e)
  /\ UNCHANGED workload
=============================================================================
