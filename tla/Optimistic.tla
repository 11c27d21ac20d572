----------------------------- MODULE Optimistic -----------------------------
(***************************************************************************)
(* The optimistic mode: the services of a grid on the Time Warp runtime of *)
(* ROOT-Sim.  The threads of the kernel execute events without waiting for *)
(* earlier ones; when one turns up late, the service it is for goes back   *)
(* to its last checkpoint, executes again, silently, what comes before the *)
(* late event, and withdraws the events it should not have sent.           *)
(*                                                                         *)
(* The runtime is external.  What belongs to the engine is what it may rely*)
(* on: that all that a handler writes lives in the kernel's memory         *)
(* (Restore), that a handler executed again does the same, and that no     *)
(* event is sent into the past.  The specification says that the committed *)
(* part of an optimistic execution, whatever its configuration, is an      *)
(* execution of Grid.                                                      *)
(*                                                                         *)
(* The variables of Grid hold the present, speculative state: now is the   *)
(* time of the event executed last by any thread, pending what its handler *)
(* has sent, until the kernel has taken it.                                *)
(***************************************************************************)
EXTENDS Grid, SimulatorBuilder, SequencesExt

CONSTANTS
  AvailableCores,   \* the threads the kernel starts when it is asked for 0
  AutoInterval,     \* the checkpoint interval it takes when it is given 0
  RandomSize(_, _)  \* the size that a master draws for the task of a tid

(* The state of the random numbers of a service is the kernel's, and goes back
   with the service: the draw that follows a given state is always the same. *)
ASSUME OptimisticAssumption ==
  /\ AvailableCores \in Nat \ {0} /\ AutoInterval \in Nat \ {0}
  /\ \A m \in DOMAIN WorkloadSize : \A n \in 1 .. WorkloadSize[m] :
        RandomSize(m, Szudzik(n, m)) \in TaskSizes

VARIABLES
  queue,      \* the messages sent and not executed
  log,        \* per service, the executed messages in order, those they have
              \* sent and the memory they have left
  loaded,     \* the memory of each service before the first of them
  replayed,   \* how many messages of its log are in the memory of a service
  anti,       \* executed messages that their senders have withdrawn
  committed,  \* how many messages of its log are final
  outstanding \* history: events sent by final executions, and not final

kernelVars == <<queue, log, loaded, replayed, anti, committed, outstanding>>
optimisticVars == <<vars, builderVars, kernelVars>>

(* A message: an event, and which of its copies it is.  A handler executed
   again after a rollback may send an event of which an earlier copy is about. *)
Message == [event : Event, copy : Nat]

Copies(events, c) == {[event |-> e, copy |-> c] : e \in events}

EventsOf(messages) == {m.event : m \in messages}

(* The messages that the kernel holds, in the queue or in a log. *)
Held(entries) == UNION {{entry.message} \cup entry.sent : entry \in entries}

Known == queue \cup anti \cup UNION {Held(ToSet(log[p])) : p \in Services}

(* c tells copies of the events from the messages that the kernel holds. *)
Fresh(events, c) == Copies(events, c) \cap Known = {}

(* What a handler has drawn is what the random numbers of its master say. *)
DrawsAsSeeded(sent) ==
  \A e \in sent :
    e.batch = "scheduler" => <<e.procSize, e.commSize>> = RandomSize(e.origin, e.tid)

-----------------------------------------------------------------------------
(* Memory. *)

(* What the handlers of a service write: all of it in objects and arrays that
   the initializers take from the kernel's allocator.  The slaves of a master,
   its links and the routing table are outside; no handler writes them. *)
Memory(p) ==
  CASE p \in Links    -> [available |-> linkAvailable[p], metrics |-> linkMetrics[p]]
    [] p \in Switches -> [available |-> switchAvailable[p], metrics |-> switchMetrics[p]]
    [] p \in Machines -> [coreFreeTimes |-> coreFreeTimes[p], metrics |-> machineMetrics[p]]
    [] p \in Masters  -> [remaining |-> remaining[p], nextResource |-> nextResource[p],
                          metrics |-> masterMetrics[p]]

RestoreLink(l, memory) ==
  /\ linkAvailable' = [linkAvailable EXCEPT ![l] = memory.available]
  /\ linkMetrics' = [linkMetrics EXCEPT ![l] = memory.metrics]
  /\ UNCHANGED <<switchVars, machineVars, masterVars>>

RestoreSwitch(s, memory) ==
  /\ switchAvailable' = [switchAvailable EXCEPT ![s] = memory.available]
  /\ switchMetrics' = [switchMetrics EXCEPT ![s] = memory.metrics]
  /\ UNCHANGED <<linkVars, machineVars, masterVars>>

(* Mutated form: the core times come from new, not from the kernel. *)
CoreTimesOutside(m, memory) ==
  /\ machineMetrics' = [machineMetrics EXCEPT ![m] = memory.metrics]
  /\ UNCHANGED <<coreFreeTimes, linkVars, switchVars, masterVars>>

RestoreMachine(m, memory) ==
  /\ coreFreeTimes' = [coreFreeTimes EXCEPT ![m] = memory.coreFreeTimes]
  /\ machineMetrics' = [machineMetrics EXCEPT ![m] = memory.metrics]
  /\ UNCHANGED <<linkVars, switchVars, masterVars>>

(* Mutated form: the scheduler comes from new. *)
SchedulerOutside(m, memory) ==
  /\ remaining' = [remaining EXCEPT ![m] = memory.remaining]
  /\ masterMetrics' = [masterMetrics EXCEPT ![m] = memory.metrics]
  /\ UNCHANGED <<workload, nextResource, linkVars, switchVars, machineVars>>

(* Mutated form: the workload comes from new. *)
WorkloadOutside(m, memory) ==
  /\ nextResource' = [nextResource EXCEPT ![m] = memory.nextResource]
  /\ masterMetrics' = [masterMetrics EXCEPT ![m] = memory.metrics]
  /\ UNCHANGED <<workload, remaining, linkVars, switchVars, machineVars>>

(* The scheduler, the workload and the metrics of a master. *)
RestoreMaster(m, memory) ==
  /\ remaining' = [remaining EXCEPT ![m] = memory.remaining]
  /\ nextResource' = [nextResource EXCEPT ![m] = memory.nextResource]
  /\ masterMetrics' = [masterMetrics EXCEPT ![m] = memory.metrics]
  /\ UNCHANGED <<workload, linkVars, switchVars, machineVars>>

Restore(p, memory) ==
  \/ p \in Links /\ RestoreLink(p, memory)
  \/ p \in Switches /\ RestoreSwitch(p, memory)
  \/ p \in Machines /\ RestoreMachine(p, memory)
  \/ p \in Masters /\ RestoreMaster(p, memory)

-----------------------------------------------------------------------------
(* The kernel. *)

Executing == simulator # <<>> /\ fault = Running

(* A service that is not executing silently. *)
UpToDate(p) == replayed[p] = Len(log[p])

(* The kernel gives each thread a block of the services. *)
Threads ==
  IF simulator[1].serial THEN 1
  ELSE IF simulator[1].n_threads = 0 THEN AvailableCores ELSE simulator[1].n_threads

ThreadOf(p) ==
  (Cardinality({q \in Services : q < p}) * Threads) \div Cardinality(Services)

(* The order of the events of a service: by time, then by content.  Two events
   of one task at one time differ in whether it is processed. *)
Precedes(e, f) ==
  LET rank(g) == 4 * g.tid + (IF g.batch = "builder" THEN 2 ELSE 0)
                           + (IF g.processed THEN 1 ELSE 0)
  IN  e.time < f.time \/ (e.time = f.time /\ rank(e) < rank(f))

Earlier(e, f) == e.time < f.time \/ (e.to = f.to /\ Precedes(e, f))

(* A thread has the events that its own services send to each other; those of
   other threads arrive when they do. *)
Local(e) == e.previous = Nobody \/ ThreadOf(e.previous) = ThreadOf(e.to)

(* It takes e, the event of a message or of its withdrawal, as the earliest it
   has. *)
Taken(e) ==
  /\ \A m \in inits : ThreadOf(m) = ThreadOf(e.to) => m # e.to /\ e.time = 0
  /\ \A f \in EventsOf(queue \cup anti) :
       Local(f) /\ ThreadOf(f.to) = ThreadOf(e.to) => ~ Earlier(f, e)

(* The serial runtime has no logs, and takes equal times as they come. *)
Late(e) ==
  ~ simulator[1].serial /\ log[e.to] # <<>> /\ Precedes(e, Last(log[e.to]).message.event)

MemoryAfter(p, k) == IF k = 0 THEN loaded[p] ELSE log[p][k].memory

(* The last event before the k-th after which a checkpoint was taken. *)
LastCheckpoint(k) ==
  LET asked    == simulator[1].ckpt_interval
      interval == IF asked = 0 THEN AutoInterval ELSE asked
  IN  k - (k % interval)

(* An executed event is final when nothing is left to be done at its time or
   before: it is older than the global virtual time. *)
CanCommit(p) ==
  /\ inits = {}
  /\ committed[p] < Len(log[p])
  /\ LET e == log[p][committed[p] + 1].message.event IN
     /\ e \in outstanding
     /\ \A f \in EventsOf(queue \cup anti) : e.time < f.time
     /\ \A f \in outstanding : e.time <= f.time

(* No step depends on how far the memory of another service has been restored,
   and none on which events are final: other steps wait for these. *)
Settled ==
  /\ Executing /\ pending = {}
  /\ \A p \in Services : UpToDate(p) /\ ~ CanCommit(p)

(* Service p keeps the first k entries of its log.  The messages it had sent
   after them are dropped or, if they have been executed, withdrawn; those it
   had executed are to be executed again, unless they have been withdrawn. *)
Rollback(p, k) ==
  LET undone   == {log[p][i] : i \in k + 1 .. Len(log[p])}
      messages == {entry.message : entry \in undone}
      sent     == UNION {entry.sent : entry \in undone}
  IN  /\ log' = [log EXCEPT ![p] = SubSeq(@, 1, k)]
      /\ replayed' = [replayed EXCEPT ![p] = LastCheckpoint(k)]
      /\ Restore(p, MemoryAfter(p, LastCheckpoint(k)))
      /\ queue' = (queue \ sent) \cup (messages \ anti)
      /\ anti' = (anti \ messages) \cup (sent \ queue)
      /\ UNCHANGED <<engineVars, builderVars, loaded, committed, outstanding>>

OptimisticInit ==
  /\ Init
  /\ SimulatorBuilderInit
  /\ queue = Copies(pending, 0)
  /\ log = [p \in Services |-> <<>>]
  /\ loaded = [p \in Services |-> Memory(p)]
  /\ replayed = [p \in Services |-> 0]
  /\ anti = {}
  /\ committed = [p \in Services |-> 0]
  /\ outstanding = pending

ConfigureSimulator == Configure /\ UNCHANGED <<vars, kernelVars>>

(* The least number that tells the copies is given to all that is sent. *)
Enqueue(rest, sent, c) ==
  /\ Fresh(sent, c) /\ \A d \in 0 .. c - 1 : ~ Fresh(sent, d)
  /\ queue' = rest \cup Copies(sent, c)

(* TASK_SCHEDULER_INIT is the first event of a master: nothing precedes it. *)
StartScheduler ==
  /\ Settled
  /\ SchedulerInit /\ DrawsAsSeeded(pending')
  /\ \E c \in 0 .. Cardinality(Known) : Enqueue(queue, pending', c)
  /\ loaded' = [p \in Services |-> IF p \in inits \ inits' THEN Memory(p)' ELSE loaded[p]]
  /\ outstanding' = outstanding \cup pending'
  /\ UNCHANGED <<builderVars, log, replayed, anti, committed>>

(* A thread executes the earliest message it has; it need not be the next one
   of the service.  The withdrawal of another copy comes first. *)
Execute(m) ==
  LET p == m.event.to IN
  /\ Settled
  /\ m \in queue /\ Taken(m.event) /\ ~ Late(m.event)
  /\ m.event \notin EventsOf(anti)
  /\ Dispatch(m.event) /\ DrawsAsSeeded(pending')
  /\ \E c \in 0 .. Cardinality(Known) :
       /\ Enqueue(queue \ {m}, pending', c)
       /\ log' = [log EXCEPT ![p] = Append(@,
            [message |-> m, sent |-> Copies(pending', c), memory |-> Memory(p)'])]
  /\ replayed' = [replayed EXCEPT ![p] = @ + 1]
  /\ UNCHANGED <<builderVars, loaded, anti, committed, outstanding>>

(* A message arrives late. *)
Straggler(m) ==
  LET e == m.event IN
  /\ Settled
  /\ m \in queue /\ Taken(e) /\ Late(e)
  /\ Rollback(e.to,
       Cardinality({i \in DOMAIN log[e.to] : ~ Precedes(e, log[e.to][i].message.event)}))

(* An executed message has been withdrawn. *)
AntiMessage(m) ==
  LET p == m.event.to IN
  /\ Settled
  /\ m \in anti /\ Taken(m.event)
  /\ \E i \in DOMAIN log[p] : log[p][i].message = m /\ Rollback(p, i - 1)

(* After a rollback, a service executes again what follows its checkpoint; the
   kernel does not send what the handlers send. *)
CoastForward ==
  /\ Executing /\ pending = {}
  /\ \E p \in Services :
       /\ ~ UpToDate(p)
       /\ Dispatch(log[p][replayed[p] + 1].message.event) /\ DrawsAsSeeded(pending')
       /\ replayed' = [replayed EXCEPT ![p] = @ + 1]
  /\ UNCHANGED <<builderVars, queue, log, loaded, anti, committed, outstanding>>

(* The handler has returned: the kernel is done with what it has sent. *)
Return ==
  /\ pending # {} /\ pending' = {}
  /\ UNCHANGED <<inits, now, fault, linkVars, switchVars, machineVars, masterVars,
                 builderVars, kernelVars>>

Commit ==
  /\ Executing
  /\ \E p \in Services :
       /\ CanCommit(p)
       /\ LET entry == log[p][committed[p] + 1] IN
          outstanding' = (outstanding \ {entry.message.event}) \cup EventsOf(entry.sent)
       /\ committed' = [committed EXCEPT ![p] = @ + 1]
  /\ UNCHANGED <<vars, builderVars, queue, log, loaded, replayed, anti>>

Process(m) == Execute(m) \/ Straggler(m) \/ AntiMessage(m)

Kernel == StartScheduler \/ CoastForward \/ Return \/ Commit

OptimisticNext ==
  \/ ConfigureSimulator
  \/ \E m \in queue \cup anti : Process(m)
  \/ Kernel

OptimisticSpec == OptimisticInit /\ [][OptimisticNext]_optimisticVars

(* One of the earliest of all the events. *)
First(e) == \A f \in EventsOf(queue \cup anti) : ~ Earlier(f, e)

MakeRoomForFirst == \E m \in queue : First(m.event) /\ Straggler(m)

CarryOutFirst ==
  \E m \in queue \cup anti : First(m.event) /\ (Execute(m) \/ AntiMessage(m))

(* The threads go on, every message reaches the thread it is for, and the
   thread that goes back for a late one then carries it out.  Later ones may
   come in between, so that this is strong fairness; of these nothing is
   assumed, they may be executed too early again and again. *)
FairOptimisticSpec ==
  /\ OptimisticSpec
  /\ WF_optimisticVars(Kernel)
  /\ SF_optimisticVars(MakeRoomForFirst) /\ SF_optimisticVars(CarryOutFirst)

-----------------------------------------------------------------------------
(* Properties. *)

OptimisticTypeOK ==
  /\ TypeOK /\ SimulatorBuilderTypeOK
  /\ \A p \in Services :
       /\ \A i \in DOMAIN log[p] :
            /\ log[p][i].message \in Message /\ log[p][i].message.event.to = p
            /\ log[p][i].sent \in SUBSET Message
       /\ committed[p] \in 0 .. Len(log[p]) /\ replayed[p] \in 0 .. Len(log[p])
  /\ queue \in SUBSET Message /\ anti \in SUBSET Message /\ outstanding \in SUBSET Event

(* However often a service has been rolled back, its memory is what the events
   of its log leave when they are executed once, in order. *)
MemoryIsReplayed ==
  fault = Running => \A p \in Services : Memory(p) = MemoryAfter(p, replayed[p])

(* An event executed again sends what it has sent before: its receivers, which
   have kept the first copies, would not learn of a difference. *)
ResendsTheSame ==
  [][\A p \in Services :
       replayed'[p] = replayed[p] + 1 /\ log'[p] = log[p]
         => pending' = EventsOf(log[p][replayed'[p]].sent)]_optimisticVars

(* No event that is final is rolled back: no late event or withdrawal comes
   from before the global virtual time. *)
FinalStays ==
  [][\A p \in Services :
       /\ committed[p] <= Len(log'[p])
       /\ \A i \in 1 .. committed[p] : log'[p][i] = log[p][i]]_optimisticVars

(* The memory of a service after its final events. *)
Final(p) == MemoryAfter(p, committed[p])

FinalTime ==
  Max({0} \cup UNION {{log[p][i].message.event.time : i \in 1 .. committed[p]} : p \in Services})

Sequential == INSTANCE Grid WITH
  pending         <- outstanding,
  now             <- FinalTime,
  linkAvailable   <- [l \in Links |-> Final(l).available],
  linkMetrics     <- [l \in Links |-> Final(l).metrics],
  switchAvailable <- [s \in Switches |-> Final(s).available],
  switchMetrics   <- [s \in Switches |-> Final(s).metrics],
  coreFreeTimes   <- [m \in Machines |-> Final(m).coreFreeTimes],
  machineMetrics  <- [m \in Machines |-> Final(m).metrics],
  remaining       <- [m \in Masters |-> Final(m).remaining],
  nextResource    <- [m \in Masters |-> Final(m).nextResource],
  masterMetrics   <- [m \in Masters |-> Final(m).metrics]

(* What is final is a sequential execution of the grid: with one thread or
   many, whatever the checkpoint interval, the optimistic mode simulates what
   the sequential mode simulates. *)
FinalIsSequential == Sequential!Spec

(* Rollbacks come to an end: a simulation that is started ends, with everything
   done and final, in every mode. *)
AllBecomesFinal ==
  simulator # <<>> ~>
    [](/\ queue = {} /\ anti = {} /\ outstanding = {} /\ inits = {}
       /\ \A m \in DOMAIN WorkloadSize :
            /\ Final(m).remaining = 0
            /\ Final(m).metrics.completedTasks = WorkloadSize[m] + BuilderTasks[m])
=============================================================================
