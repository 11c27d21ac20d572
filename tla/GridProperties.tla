--------------------------- MODULE GridProperties ---------------------------
(***************************************************************************)
(* What a simulation must keep true while the services exchange packets:   *)
(* no task is lost or done twice, the scheduler shares the work out, the   *)
(* queues respect their servers, and the metrics that are reported at the  *)
(* end describe one and the same history.                                  *)
(***************************************************************************)
EXTENDS GridRouting, Functions

(* Masters that no other master sends tasks to. *)
Roots == Masters \ UNION {SlaveSet(m) : m \in Masters}

InFlight(m) == {e \in pending : e.origin = m}

(* How many tasks master m has been the origin of so far. *)
Generated(m) ==
  BuilderTasks[m] + (IF m \in DOMAIN WorkloadSize THEN WorkloadSize[m] - remaining[m] ELSE 0)

-----------------------------------------------------------------------------
(* Tasks. *)

(* No two pending packets carry the same task: none is duplicated, and no two
   tasks of the scheduler, or of the builder, share a tid. *)
TasksDistinct == \A e, f \in pending : TaskOf(e) = TaskOf(f) => e = f

(* The machines have counted exactly the tasks that were generated and are not
   in a packet on its way out: a task that is lost, or that is processed twice,
   breaks the balance. *)
TasksProcessedOnce ==
  SumFunction([m \in Machines |-> machineMetrics[m].procTasks])
    = SumFunction([m \in Masters |-> Generated(m)]) - Cardinality({e \in pending : ~ e.processed})

(* A master has counted exactly its tasks that are no longer in flight. *)
TasksReturnOnce ==
  \A m \in Roots :
    masterMetrics[m].completedTasks = Generated(m) - Cardinality(InFlight(m))

(* The scheduler keeps one task in flight per slave: never more, and never
   fewer while there are tasks left.  Tasks that the builder sends to the
   master come on top. *)
WindowFull ==
  \A m \in DOMAIN WorkloadSize \ inits :
    LET flying == Cardinality(InFlight(m)) IN
    BuilderTasks[m] = 0 =>
      /\ flying <= Len(Slaves[m])
      /\ remaining[m] > 0 => flying = Len(Slaves[m])

(* Every slave is the slave of one master, and only once. *)
SlavesOwned ==
  \A m, k \in Masters : \A i \in DOMAIN Slaves[m], j \in DOMAIN Slaves[k] :
    Slaves[m][i] = Slaves[k][j] => m = k /\ i = j

(* Round robin: however the answers come back, the numbers of tasks two slaves
   of a master have been given differ by at most one, and the slaves before
   the next one in turn are those that are ahead.  A task given to a slave is
   processed by it or on its way to it. *)
SharedEvenly ==
  \A m \in Masters : \A i, j \in DOMAIN Slaves[m] :
    LET given(s) == machineMetrics[s].procTasks
                      + Cardinality({e \in pending : ~ e.processed /\ e.destination = s})
        a == given(Slaves[m][i])
        b == given(Slaves[m][j])
    IN  /\ a - b \in -1 .. 1
        /\ a > b => i <= nextResource[m] /\ nextResource[m] < j

(* The tasks of m on their way to be processed, and on their way back. *)
TasksOut(m)  == {TaskOf(e) : e \in {f \in InFlight(m) : ~ f.processed}}
TasksBack(m) == {TaskOf(e) : e \in {f \in InFlight(m) : f.processed}}

WorkloadTask(m, n) == <<"scheduler", Szudzik(n, m)>>

Flow == INSTANCE TaskFlow WITH
  Owners   <- DOMAIN WorkloadSize,
  Total    <- WorkloadSize,
  Task     <- [m \in DOMAIN WorkloadSize |-> [n \in 1 .. WorkloadSize[m] |-> WorkloadTask(m, n)]],
  Given    <- [m \in DOMAIN WorkloadSize |->
                 {<<"builder", Szudzik(n, m)>> : n \in 0 .. BuilderTasks[m] - 1}],
  Window   <- [m \in DOMAIN WorkloadSize |-> Len(Slaves[m])],
  begun    <- DOMAIN WorkloadSize \ inits,
  left     <- [m \in DOMAIN WorkloadSize |-> remaining[m]],
  sent     <- [m \in DOMAIN WorkloadSize |-> TasksOut(m)],
  executed <- [m \in DOMAIN WorkloadSize |-> TasksBack(m)]

(* With the network, the queues and the other masters in between, the grid
   does to the tasks of each master only what TaskFlow says: they are drawn in
   order, executed once and returned once each, and one is drawn only when one
   returns, be it of the workload or of the builder. *)
FollowsTaskFlow == Flow!Safety

(* And each of these steps is taken eventually for every task. *)
KeepsTaskFlow == Flow!Spec

-----------------------------------------------------------------------------
(* Time and queues. *)

(* No service schedules an event before the time at which it runs. *)
NothingInThePast == \A e \in pending : e.time >= now

(* Two packets leave a link, in whatever directions, at least the time apart
   that the later of them takes to cross it. *)
LinksSerial ==
  \A e, f \in pending :
    e # f /\ e.previous = f.previous /\ e.previous \in Links /\ e.time <= f.time =>
      \/ f.time - e.time >= LinkCommTime(e.previous, f.commSize)
      \/ e.time = f.time /\ LinkCommTime(e.previous, e.commSize) = 0

(* Tasks that machine m has taken and not yet answered. *)
BeingProcessed(m) == {e \in pending : e.processed /\ e.previous = m /\ e.destination = m}

(* At no time does a machine work on more tasks than it has cores. *)
CoresRespected ==
  \A m \in Machines : \A e \in BeingProcessed(m) :
    LET start(f) == f.time - TimeToProcess(m, f.procSize) IN
    Cardinality({f \in BeingProcessed(m) : start(f) <= start(e) /\ start(e) < f.time})
      <= Cores[m]

(* A task waits in a machine only while every core is at work. *)
NoIdleCore ==
  \A m \in Machines : \A e \in BeingProcessed(m) :
    LET start(f) == f.time - TimeToProcess(m, f.procSize) IN
    start(e) > now =>
      Cardinality({f \in BeingProcessed(m) : start(f) <= now /\ now < f.time}) = Cores[m]

(* A service is never busy longer than it has been there: the time a link or a
   switch has spent on packets fits before the time it is available, and the
   time a machine has spent on tasks fits in that of its cores. *)
UtilisationBounded ==
  /\ \A l \in Links : linkMetrics[l].commTime <= linkAvailable[l]
  /\ \A s \in Switches : /\ switchMetrics[s].commTime <= switchAvailable[s]
                         /\ switchMetrics[s].lastActivityTime = switchAvailable[s]
  /\ \A m \in Machines :
       machineMetrics[m].procTime <= SumFunction(coreFreeTimes[m])

(* A packet takes time to cross a switch: it is not delivered to the next
   service before the switch has communicated it. *)
SwitchDelays ==
  [][\A e \in pending : e.to \in Switches /\ e \notin pending' =>
       \E f \in pending' : /\ TaskOf(f) = TaskOf(e)
                           /\ f.time >= e.time + SwitchCommTime(e.to, e.commSize)]_vars

-----------------------------------------------------------------------------
(* Metrics. *)

(* How many links a packet has crossed, from its place on the route. *)
Crossed(e) ==
  LET length == Len(RoutePath[<<e.source, e.destination>>])
      atLink == IF e.to \in Links THEN 1 ELSE 0
      \* the number of the link it is at, comes from or, on its way back, came from
      k      == IF e.forward THEN e.offset ELSE Increment(e.offset) + 1
  IN  IF AtSource(e) THEN 0
      ELSE IF e.forward THEN k - atLink
      ELSE 2 * length - k + 1 - atLink

(* Each of the done tasks of a slave has crossed the route twice. *)
Done(s) == machineMetrics[s].procTasks
             - Cardinality({e \in pending : e.processed /\ e.destination = s})

(* The machines do not count for whom they work: with several masters their
   counters do not say which routes the tasks have taken. *)
OneMaster == Cardinality(Masters) = 1

(* The counters of the links add up to the hops that the tasks have made: what
   the links report agrees with what the machines report and with where the
   packets are.  For grids with OneMaster. *)
HopsAccountedFor ==
  \A m \in Masters :
    LET length(s) == Len(RoutePath[<<m, s>>]) IN
    SumFunction([l \in Links |-> linkMetrics[l].commTasks])
      = SumFunction([s \in SlaveSet(m) |-> 2 * length(s) * Done(s)])
        + SumFunction([e \in pending |-> Crossed(e)])

-----------------------------------------------------------------------------
(* What is documented of routes and masters. *)

(* A packet keeps its destination on the way, also when it passes through a
   master. *)
DestinationKept ==
  [][\A e \in pending :
       /\ ~ e.processed /\ e.destination \in Machines \ {e.to}
       /\ e \notin pending' /\ fault' = Running
       => \E f \in pending' : TaskOf(f) = TaskOf(e) /\ f.destination = e.destination]_vars

-----------------------------------------------------------------------------
(* Progress. *)

(* The simulation ends, and only with every task of every workload drawn,
   processed and back. *)
Completes ==
  <>[](/\ pending = {} /\ inits = {}
       /\ \A m \in DOMAIN WorkloadSize : remaining[m] = 0
       /\ \A m \in Roots : masterMetrics[m].completedTasks = Generated(m))
=============================================================================
