# A formal model of the iSPD-Exa simulation engine

The repository is a discrete-event simulator of computational grids. A grid is
made of *services*: masters that own or pass on work, machines that process it,
links and switches that carry it. Every service is a logical process of the
ROOT-Sim kernel (an external, prebuilt library) and reacts to events; almost
all behaviour is in the event handlers of the services, in what they leave in
the route descriptor of a packet for the next handler to find, and in the state
each of them keeps between two events.

This directory holds TLA+ modules for the engine, the TLC configurations that
model-check them, and theorems that TLAPS checks. Paths below are relative to
the repository; `PROJECT.json` maps each definition to its lines.

## 1. Inventory

| Component | Code | State | Operations | Status |
|---|---|---|---|---|
| Queue, events, routes | `include/engine.hpp`, `include/event/event.hpp`, `include/customer/customer.hpp`, `include/routing/route.hpp` | pending events; the clock | schedule, deliver, look up a route, index it, die | `Engine` |
| Link | `src/service/link.cpp`, `include/service/link.hpp` | when it is available; counters | task arrival | `Link` |
| Switch | `src/service/switch.cpp`, `include/service/switch.hpp` | when it is available; counters | task arrival | `Switch` |
| Machine | `src/service/machine.cpp`, `include/service/machine.hpp` | when each core is free; counters | task arrival: forward, process and answer | `Machine` |
| Master, RoundRobin, Workload | `src/service/master.cpp`, `src/scheduler/round_robin.cpp`, `include/scheduler/*.hpp`, `include/workload/workload.hpp` | remaining tasks, next slave, workload pointer; counters | scheduler init; task arrival: schedule, complete, relay | `Master` |
| Composition | the dispatcher in `src/simulator/rootsim.cpp` | all of the above | deliver one event | `Grid`, `GridRouting`, `GridProperties`, `TaskFlow`, and the `Grid*_proofs` |
| Pairing function | `include/math/utility.hpp` | none | `szudzik` | `Szudzik` |
| Initial workloads | `addConstantSizedWorkload` in `src/model/builder.cpp` | none | schedule tasks before the start | `Master` (`BuilderInit`) |
| Routing table, route files | `include/routing/table.hpp` | map from pairs of identifiers to routes | add, get, read a file: parse a line, size and fill its route | `RoutingTable` |
| Model builder | `src/model/builder.cpp` | none of its own | validate and register a master, link, machine, switch, dummy | `Builder` |
| Simulator registry | `include/simulator/simulator.hpp`, `src/simulator/rootsim.cpp` | initializers, finalizers, number of processes | register, simulate, `LP_INIT`, dispatch, `LP_FINI` | `Simulator` |
| Simulator configuration | `src/simulator/simulator.cpp` | mode, threads, checkpoint interval, core binding, GVT period | the setters, create | `SimulatorBuilder` |
| Optimistic execution | `include/allocator/rootsim_allocator.hpp` | memory of the services inside the kernel's allocator | roll back, execute again, commit | `Optimistic` |
| Dummy service | `include/service/dummy.hpp` | none | ignore everything | `Builder` (registration), `Simulator` (its events are consumed) |
| Distributions | `include/math/distribution` | none | numerical code the engine does not use | not modelled |
| Programs under `test/`, `main.cpp`, build files | | | input, output, command line | their topologies are constants of the runs |

**How components interact.** Only through events. A handler may schedule events
for other services and does not see their state. What one service must tell
another is in the route descriptor of the packet: source, destination, the
service it has just left (`previous`), an `offset` into the route, and the
direction. A route lists only links, so the service after a link is found by
the link, from `previous`; and the link after a service is found by the
service, from `offset`. The offset is +1 per hop on the way out, -2 in the
machine that answers, -1 per hop on the way back, all of it in `size_t`.

**What is hard.** (a) *Protocol*: four handlers in two directions have to agree
on `previous`, `offset` and direction; a slip in one sends a packet astray hops
later, in another service. (b) *Interleaving*: packets of several tasks and
masters share links, switches and cores, answers come back in any order, and
equal timestamps have no order. (c) *Queues*: each link, switch and core is
represented only by the time at which it will be free. (d) *Numbers*: unsigned
wrap-around, indexes outside arrays, arrays sized by one loop and filled by
another. (e) *Uninitialised memory*: the core times
of a machine and the workload pointer of a master are read before they are
written. (f) *Configuration*: the grid, routes and workloads come from the
user, and mistakes are found only when an event reaches them. (g) *Progress*: a
simulation ends when its queue is empty; one lost packet ends a task silently.
(h) *Rollback*: in the optimistic mode a handler runs on events that may be
withdrawn, and runs again on the same events; the kernel restores only what
lives in its memory.

The 29 places where these bite are the `hazards` of `PROJECT.json`.

**What makes each component correct.**
- *Queue and routes*: no event in the past; no fault unless the configuration
  explains it; indexes inside the route.
- *Link*: packets leave by the other end, one at a time, in both directions.
- *Switch*: as a link; its state and its metrics describe what it does.
- *Machine*: never more tasks than cores, no waiting beside a free core, the
  answer goes back where the task came from.
- *Master*: exactly one task in flight per slave while tasks are left; the
  slaves are served in turn; the workload is drawn exactly once.
- *Routing table*: the parser stays in its array on every line; the table has
  the routes of the file, and no pair hides another.
- *Registry and dispatcher*: the services that run are those that were
  registered; a model without mistakes is simulated to its end, a model with one
  dies before it does harm; the finalizers of all services are called.
- *Optimistic execution*: what becomes final is what the sequential mode
  simulates, whatever the threads and the checkpoint interval.
- *The grid*: every task is executed once and comes back once; what the links
  count agrees with what the machines and masters count; the simulation ends.

## 2. The modules

| Module | Content |
|---|---|
| `Engine` | constants of a grid; `pending`, `inits`, `now`, `fault`; `Ready`, `Replace`, `Stop`: delivery of an event and the ways a handler ends; `Forward`, which machines and switches share |
| `Link`, `Switch`, `Machine`, `Master` | one per service: variables, initial values, the handler with its steps. `Master` holds the scheduler and the workload it alone uses |
| `Szudzik` | the pairing function |
| `Grid` | composition: `Init`, one action per kind of service and one for the scheduler start, `Next`, `Spec`, `FairSpec` |
| `GridRouting` | where a packet may be (`PacketsOnRoute`, `IndexesInRoute`), how the process may die (`NoFault`, `FaultsExplained`), and hypotheses on configurations: `WellRouted`, `RoutesToMachines` |
| `GridProperties` | the other properties and the refinement mapping to `TaskFlow` |
| `RoutingTable` | the table and the reader that fills it, one step per part of a line; the declarative reading of a line (`Identifiers`, `Accepted`) it is compared with |
| `Simulator` | the registry of initializers and finalizers, and the life of a simulation: processes that start, events that are dispatched by type, finalizers |
| `Builder` | validation and registration of the services, composed with `Simulator`; what a model without mistakes is (`WellBuilt`) |
| `TaskFlow` | abstract specification: what a grid does to a workload, without any network |
| `SimulatorBuilder` | the builder of simulators: mode, setters in any order, the configuration the kernel is given |
| `Optimistic` | `Grid` and `SimulatorBuilder` on a Time Warp kernel: messages, logs, rollback to a checkpoint, withdrawn events, silent re-execution, commitment; the mapping of what is final to `Grid` |
| `MCLinear`, `MCSwitched`, `MCTree`, `MCMisconfigured`, `MCRoutingTable`, `MCBuilder`, `MCOptimistic` | instances for TLC |
| `Numbers_proofs` | theorems on the pairing function and on sums over finite sets |
| `Grid_proofs` | theorems of `Grid`: types, and the routes of `GridRouting` |
| `GridTasks_proofs`, `GridQueues_proofs` | on top of it: what becomes of the tasks; time and queues |
| `RoutingTable_proofs`, `Builder_proofs`, `Optimistic_proofs` | theorems of these modules |
| `Sequential_proofs` | on top of `Optimistic_proofs`: what is final is a behaviour of `Grid` |

**Correspondence.** One step of `Grid` is one delivery by the dispatcher, that
is the whole handler: its queueing computation, its counters, its lookup and
the events it schedules. The lines of a handler that compute one idea are one
operator (`LinkDeparture`, `AttendingCore`, `AnswerOffset`, `Advanced`,
`TaskNumber`, ...). Definitions headed "Mutated form" are plausible wrong
versions of the next one; nothing uses them but the mutants of `PROJECT.json`,
which show that each property notices a bug it is there for.

**Abstractions.**
- Times, sizes and costs are naturals where the code has doubles: latency and
  unit cost stand for the expressions over bandwidth, load factor and power.
  Rounding, infinities (a load factor of 1) and NaN are outside the model.
- `size_t` is the integers modulo `OffsetMod`; an event's other numbers do not
  overflow in the runs. Counters are unbounded naturals; they are bounded in
  every run because the number of tasks is.
- The queue holds a set of events. No two pending events are equal: `batch`, a
  field the code does not have, separates the tasks of the builder from those
  of the scheduler, to which the code may give the same tid (section 6).
- Equal timestamps are delivered in any order. The kernel is external: nothing
  in the repository fixes that order, and a result that depends on it would
  differ between the sequential and the optimistic mode.
- Every master has sent itself `TASK_SCHEDULER_INIT` at 0, as every program
  under `test/` makes it do. Slaves and workloads are set before the start.
- Uninitialised memory and reads beside an array are nondeterministic choices
  from a constant (`InitialCoreTimes`, `FreshPointers`, `HeapWords`). `HeapWords`
  holds identifiers of services only: the model does not say what the kernel
  does with an event for a service that does not exist. A relay with
  `HeapWords = {}` would be blocked, so only runs without relays use that.
- `fault` records that the process is dead: `die`, an uncaught exception of
  `getRoute`, a null or wild pointer, a division by zero. Nothing is enabled
  afterwards.
- In `RoutingTable` a line is a sequence of blanks and numbers, a number standing
  for all its digits. `stoul` throws for a number of `LongMod` or more, and what it
  yields is cut to `IdMod`. The array of a line and its identifiers hold garbage until
  they are written. Text other than digits is left out: `stoul` throws or stops
  at it. The grid runs take the table as it stands, as `RoutePath`.
- `Simulator` and `Builder` are about which service gets an event, `Grid` about
  what it does with it: in `Simulator` the handlers only consume. Load factors
  are in percent; of the other parameters only those that are validated are
  modelled. A scheduler start delivered to a service
  that is no master, and an event for a process that does not exist, end the
  process; a finalizer of the wrong kind may.
- `Optimistic`: the Time Warp protocol is the kernel's and is taken as it is
  known. What the module asks of the engine is what that protocol relies on: all
  that a handler writes is in the kernel's memory (`Memory`, `Restore`), a handler
  that is executed again does the same, and nothing is sent into the past. The
  slaves of a master, `m_Links` and the routing table are outside that memory;
  no handler writes them. Events of equal time for one service are taken in one
  fixed order, those of different services in any. The events of a thread to
  itself are there at once, those of another thread when they arrive
  (`Local`). Silent re-execution and commitment go first (`Settled`): no other
  step depends on how far they are. The kernel's queue is a set of messages, and a
  message is an event with a number that tells it from other copies of that event
  (`Message`, `Enqueue`): a handler that is executed anew after a rollback may send
  an event of which an earlier copy is still about, to be withdrawn. `pending` holds
  only what the handler at work has sent, until it returns (`Return`). The sizes of
  random workloads (`include/workload/workload.hpp:218-224`) come from the
  kernel's random numbers, whose state is kept per service and goes back with it;
  so the n-th draw of a master is the same in every execution (`RandomSize`,
  `DrawsAsSeeded`). In the run the grid is flat and
  has no tasks of the builder. Core binding
  and the period of the global virtual time change when things happen, not what.
- `m_Lvt` and the printed reports of the finalizers are left out.

**Fairness.** `FairSpec` is weak fairness of `Next` as a whole: `RootsimRun`
delivers events until none is left. `FairBuilderSpec` is weak fairness of the
kernel's steps only: a program need never call `simulate()`. No fairness is assumed of one service
against another; the order of timestamps gives it. `FairOptimisticSpec` is weak
fairness of what the kernel does on its own (start, re-execute, return, commit)
and strong fairness of two steps on an event that none precedes: to go back for
it, and to carry it out. Threads run for ever, and an event that none precedes
stays the first its thread has once it has arrived; but before it arrives the
thread may execute later ones, again and again, so that the step is enabled
and disabled in turn, which is why weak fairness says nothing of it. Of later
events nothing is assumed: they may be executed too early without end, or not
until their time has come.

## 3. The runs

Every configuration is small enough to be explored completely; the only bounds
are the constants, and no state constraint is used. `OffsetMod = 8` exceeds
every route by more than two, so that the wrap-around is reached on every
answer and never by accident: an offset that wraps comes back as 7, which is no
index of any route. Deadlock is not checked because a simulation ends.

| Run | Configuration | Shows | States |
|---|---|---|---|
| `linear` | `MCLinear` | routing, conservation, the safety of `TaskFlow`, fairness of the turn, causality, serial links, busy cores, hop accounting, termination, with a machine that forwards, a link used in both directions, two builder tasks at any of three times over a workload of three, two sizes | 51 252 |
| `switched` | `MCSwitched` | types, tids that no two tasks share, the window of the scheduler, cores never oversubscribed, utilisation, refinement of `TaskFlow` with its liveness, for two masters behind one switch and core times that hold garbage | 12 038 |
| `tree` | `MCTree` | in a tree of masters the tasks still come back to the root, if the word before a route's array is zero as with glibc's allocator | 1 000 |
| `misconfigured` | `MCMisconfigured` | with six masters, five of them wrong in their own way (in the way of another's packets, without workload, without route, without slave, with a route along the wrong link), the fault is always explained by the configuration of the service it happens in | 621 158 |
| `routing_table` | `MCRoutingTable` | the parser stays in its array, reads exactly the lines of the grammar, and fills the table with the routes of the file, over all files of two lines of at most five tokens, all of one such line with a number that is too large, and one file a test program writes | 196 734 |
| `builder` | `MCBuilder` | the registered services run or none does; a model without mistakes runs to its end; finalizers are called, over all programs that register up to three services and three finalizers, one identifier leaving a gap | 226 696 |
| `optimistic` | `MCOptimistic` | in the sequential mode, and in the optimistic mode with one thread and with two, after any calls of the setters: what is final is a run of `Grid`, and everything becomes final | 43 300 |
| `tree_index`, `switch_delay`, `transit_destination`, `core_times`, `route_replaced` | the same instances | the disagreements of section 6 | violations |

Why these are enough to be interesting: in `linear` the workload exceeds the
number of slaves, so that completions draw new tasks, and builder tasks arrive
before, between and after them; both packets directions meet on link 1; machine
4 has a second core, which matters because of the builder tasks. In `switched`
the masters serve the machines in opposite orders, sizes make answers overtake
each other, and one master has fewer tasks than slaves. `MCLinear` and
`MCSwitched` also assume `WellRouted`, `MCLinear` assumes `SlavesOwned` and
`OneMaster`, `MCOptimistic` assumes `WellRouted`, and `MCMisconfigured` assumes `RoutesToMachines`, so TLC confirms that the hypotheses of the theorems hold of them. In `routing_table` five tokens are enough for a
route with an inner vertex and for a blank too many in each place; two lines
are enough for one pair to be registered twice; two of the three numbers are
the same identifier once cut to `IdMod`. In `misconfigured` the tasks of the
builder arrive at 0 or at 9, when a task of master 0 has made its way to the
slave of master 2 and back, so that the faults of both come first in some
behaviours; every kind of fault that the model knows occurs in it. In
`optimistic` the second thread has machine 4 and the branch of machine 6, so that
tasks and answers cross between the threads in both directions; the checkpoint interval
is 1 or 2, so that a rollback goes back to the event itself or to one before it,
which is then executed again in silence; three tasks on machines of different
speed with two cores each, and of different sizes, make stragglers at the master, link 1, the switch, link 3 and machine 4, and some of what
is withdrawn has been executed and some has not.

**The properties.**
- `PacketsOnRoute`: every packet is at the place on its route that the hops made
  so far have brought it to, and its offset, previous service and direction are
  those its next hop needs.
- `IndexesInRoute`: the offset with which a handler indexes a route is inside its
  array. It holds in `linear` and fails in `tree_index`, where masters relay.
- `NoFault`: no delivery ends the process.
- `TasksDistinct`: no task is in two packets, and no two tasks of a batch share a
  tid, in `switched` with two masters to give them. `TasksProcessedOnce`, `TasksReturnOnce`: the machines have counted exactly
  the tasks that are processed, a master exactly those of its tasks that are no
  longer in flight.
- `WindowFull`, `SharedEvenly`: one task in flight per slave while tasks are
  left; the slaves differ by at most one task, in the order of the turn, in
  grids where no slave is listed twice (`SlavesOwned`).
- `FollowsTaskFlow`: the grid refines the safety of `TaskFlow`: tasks are drawn in
  order, one for each that returns, executed once and returned once.
  `KeepsTaskFlow`: and its fairness: each of these steps happens.
- `NothingInThePast`, `LinksSerial`, `CoresRespected`, `NoIdleCore`,
  `UtilisationBounded`: the queues respect time and their servers.
- `HopsAccountedFor`: the counters of the links add up to what the machines'
  counters and the places of the packets imply, in grids with one master.
- `NoOverrun`, `ReadsGrammar`, `TableIsFile`: counting the blanks and looping
  over the parts agree on every line, and fail on the same lines; a pair is in
  the table if and only if a line names it, with the route of such a line.
- `RouteReplaced`: of the lines that name a pair the last one counts, as the
  documentation of `addRoute` says. It fails in `route_replaced`.
- `AllServicesRun`, `WellBuiltRuns`, `RunsToEnd`, `FinalizersCalled`: although
  `simulate()` only counts the initializers, either all registered services run,
  each under its own identifier, or no event is delivered; the process dies after
  `simulate()` only if the model has a mistake, and else it ends, having called
  each finalizer of a service.
- `MemoryIsReplayed`: the memory of a service is what its executed events leave
  when they are executed once, in order, however often it has been rolled back.
- `ResendsTheSame`: an event that is executed again sends what it has sent; the
  kernel does not send it again, so a difference would never reach the receiver.
- `FinalStays`: nothing that is older than the global virtual time is undone.
- `FinalIsSequential`: the final events, and the memory they leave, are a
  behaviour of `Grid` (`Sequential == INSTANCE Grid WITH ...`).
- `AllBecomesFinal`: rollbacks come to an end, and the whole workload becomes
  final.
- `FaultsExplained`: a fault is the fault of the configuration.
- `Completes`: the simulation ends with all tasks drawn, executed and back.
  It implies that the queue drains: the queue is the only thing that ends a run.

## 4. The proofs

All theorems hold for every value of the constants that satisfies the named
assumptions of the modules (`EngineAssumption`, ..., `MasterAssumption`: ranges
of the parameters, identifiers registered once, paths shorter than the range of
`size_t`; `RoutingTableAssumption`, `SimulatorAssumption`, `BuilderAssumption`,
`SimulatorBuilderAssumption`, `OptimisticAssumption`), which TLC evaluates in the runs.
Some have a hypothesis on the grid besides; it is part of the theorem:

| Hypothesis | Meaning | Theorems | Checked of |
|---|---|---|---|
| `WellRouted` | masters send to machines only, along routes that follow the links and pass through machines and switches that are not the destination; a master that gets tasks has slaves and a workload | `PacketsFollowRoutes`, `IndexesStayInRoute`, `NeverDies`, `WindowStaysFull`, `EveryTaskReturns`, `GridFollowsTaskFlow`, `EveryTaskIsProcessedOnce`, `RoundRobinIsFair`, `HopsAddUp`, `SpeculationNeverDies`, `OptimisticIsSequential`, `ResentIsTheSame` | `MCLinear`, `MCSwitched`, `MCOptimistic` |
| `RoutesToMachines` | the routes of the table lead to machines and name only links; links connect other services | `FaultsAreExplained` | `MCMisconfigured` |
| `[]IndexesInRoute` | no handler indexes a route beside its array | `FaultsAreExplained` | `MCLinear`, as an invariant; in `MCMisconfigured` a master that has to relay finds no route; `IndexesStayInRoute` proves it of well-routed grids |
| `SlavesOwned` | no slave is listed twice, by one master or by two | `RoundRobinIsFair` | `MCLinear` |
| `OneMaster` | there is one master | `HopsAddUp` | `MCLinear` |
| `InitialCoreTimes = {0}` | the uninitialised array of the core times holds zeros | `NoCoreIsIdle` | `MCLinear` |

Without `SlavesOwned` two turns give to one slave; without `OneMaster` the counter of
a machine does not say along which route its tasks have come. Neither is a fault of
the code: the properties do not say anything sensible of such grids.

**The pairing function and sums** (`Numbers_proofs`).
- `SzudzikInjective`, `SzudzikFits`: the pairing function is injective, and cannot
  wrap in 64 bits for 32-bit arguments. The codes of the pairs with maximum n fill
  exactly n^2 .. n^2 + 2n, so the code gives the maximum (`SameShell`), and within
  a shell the pair.
- The lemmas on the sums of the community modules, on which all theorems about
  counters rest: a sum is an integer, does not depend on the order of its elements,
  and changes as its terms do (`SumType`, `SumSplits`, `SumChanges`, ...). The library's
  induction over finite sets takes an operator as a parameter, out of the reach of
  the provers; instead a least set that violates the fact is derived from the
  well-foundedness of the finite subsets (`LeastSet`), and contradicts itself.

**The grid, step by step.**
- `TypeCorrect` (`Grid_proofs`): `Spec => []TypeOK` for *every* configuration,
  right or wrong. `TypeOK` is not inductive: a machine answers `previous`, which
  is no service in a packet that nobody has sent. `SendersKnown` adds that such
  packets are at masters. One lemma per way in which a handler ends
  (`ReplaceType`, `StopType`, `ForwardType`), then one per action.
- `PacketsFollowRoutes`, `NeverDies` (`Grid_proofs`): `[]PacketsOnRoute` and
  `[]NoFault`. The inductive invariant is the conjunction of both with the types,
  `Supplied` (the origin of every packet can schedule the next task) and `Directed`
  (only a task that has not been scheduled has no slave to go to). A packet is in
  one of five kinds of place
  (at its source; at link or service k, going or coming back); each lemma shows
  that a handler moves it from one to the next: a link to the service on its
  other side (`LinkKeeps`), a forwarding service to link k+1 or k-1
  (`ForwardKeeps`), the slave from the last service going to the last link back,
  where `k - 2` in `size_t` is what the convention of the way back requires
  (`ProcessKeeps`), a master from the source to link 1, or a completed task off
  the queue (`MasterKeeps`: a processed packet at a master is at its own origin,
  so that a flat grid never relays).
- `IndexesStayInRoute` (`Grid_proofs`): `[]IndexesInRoute`, from the same invariant.
  The offset of a packet on its walk is k after link k on the way out, and k - 2
  after link k on the way back; only at the two ends of the walk is that no index,
  and there nobody uses it (`OffsetIsIndex`).
- `FaultsAreExplained` (`Grid_proofs`): `[]FaultsExplained`, the converse for grids
  that are wrong. A fault is found by a service that has been sent a packet on
  behalf of another, so that the invariant (`FaultInv`) says of every packet how it
  has come there: it is at a link of the route it was sent along or has just left
  one by one of its ends, and it is where a walk would have it if the route is
  one (`PacketsTraced`); and a master that has sent the packet of another is on
  a route of another. A link that dies then has a packet whose route is no walk; a
  master that has to relay and finds no route has been passed through by packets
  of another. The lemmas on one handler (`LinkAlong`, `ForwardAlong`, `ProcessAlong`,
  `ToSlaveAlong`) are those of `PacketsFollowRoutes`. Two things limit the theorem, both
  needed. A word beside an array (`HeapWords`) can take a packet to any service,
  where it ends in a fault that the configuration does not explain. And where routes
  lead to masters, a processed packet is relayed along a route it was not sent on.

**What becomes of the tasks** (`GridTasks_proofs`). Every step of every service
does one of six things to the tasks (`StepDoes`: idle, move one, end one, end one
and draw the next, start a master, die), and, seen with the counters, one of a few
more (`StepWorks`: it goes on over a link, is forwarded, is processed, is done and
replaced, ...); the proofs are about these, whichever service takes the step.
- `TasksStayDistinct`: `[]TasksDistinct` for every configuration. A tid is
  `Szudzik(n, origin)` where n is above what remains of the workload of its master
  (`NumberInv`), so that a task that is drawn has a tid no other has, by
  `SzudzikInjective`.
- `WindowStaysFull`, `EveryTaskReturns`: `[]WindowFull`, `[]TasksReturnOnce`. Both
  count the packets in flight (`CountInv`), to which a return adds what it takes
  away as long as something remains to be drawn.
- `GridFollowsTaskFlow`: `FollowsTaskFlow`, the safety half of the refinement. With
  `FlowInv` (routes, numbers, and that every packet carries a task of its own
  master's) each thing a step does to the tasks is a step of `TaskFlow` or a stutter
  under the mapping of `GridProperties`: the first tasks of a master are `Begin`,
  an answer is `Execute`, an end is `Return`, the rest leaves the sets alone.
- `EveryTaskIsProcessedOnce`: `[]TasksProcessedOnce`. `WorkInv`: the sum of the
  machines' counters is the sum of what the masters have drawn, less the packets
  that are not processed. A step of a machine adds one to one side and takes one
  packet from the other; the rest is about sums of which one term changes.
- `RoundRobinIsFair`: `[]SharedEvenly`. The invariant says where in the round a
  master is (`Even`): the slaves up to `nextResource` have been given exactly one
  task more than those after it, a task being given when its packet is on the way
  or it is processed. A start or a completion gives n tasks, n at most the number
  of slaves, and moves the level on by n, around the end (`TakeTurns`).
- `HopsAddUp`: `[]HopsAccountedFor`. For every place on a route (`At`) there is the
  number of links a packet has crossed to be there (`CrossedAt`). A link moves
  its packet to the next place and counts one (`LinkCrosses`); a switch or machine
  that forwards changes the place and not the number (`ForwardCrosses`); a slave
  turns the packet round in the middle of its way (`ProcessCrosses`); and at
  home it has crossed its route twice (`BackHome`), by as much as the term of its
  slave grows when it leaves the sum over the packets.

**Time and queues** (`GridQueues_proofs`), for every configuration.
- `Causality`: `[]NothingInThePast`. `onInit` sends at 0.0 without looking at the
  clock, so the invariant needs `StartsAtZero`: no time has passed while a master
  has not started.
- `LinksAreSerial`, `CoresAreRespected`: `[]LinksSerial` and `[]CoresRespected`,
  whatever the uninitialised core
  times hold. Neither property is inductive: a link or core is represented only
  by the time at which it will be free, and the invariants add that this time
  is not before the end of any work it has promised (`LinksBooked`). For a
  machine the promise is a booking: the tasks in process are dealt to the cores
  so that those of a core do not overlap and end when it is free at the latest
  (`CoresBooked`). A new task goes to the core that is free the earliest, after
  all that is booked there; at any time the tasks that are processed are then on
  different cores, an injection into 1 .. `Cores[m]`.
- `CoresWorkFrom`, `NoCoreIsIdle`: no task waits in a machine beside an idle core.
  The code does not see to it: the array of the core times is never
  initialised, and a core that holds a late time idles until then. What holds in
  every grid is that it idles no longer: from the latest time G that the array may
  hold, `NoIdleCore` holds (`CoresWorkFrom`), and if the array holds zeros it always
  does. The invariant `IdleInv(G)` says of a whole stretch of time what the property
  says of now: from the horizon (now or G, whichever is later) on, as long as a
  task waits, each core is covered without a gap by the tasks dealt to it.
- `NeverOverused`: `[]UtilisationBounded`. A server that begins a packet when it
  arrives or when those before it are done adds at least the service time to the time
  at which it is free; for a machine the bound is a sum over its cores, of which
  one term grows (`UsageInv`).

**The reader of route files** (`RoutingTable_proofs`), for all files.
- `ReaderStaysInArray`: `[]NoOverrun`. The invariant counts: the loop is at part p
  of a line when its index is 2p, and every part behind it ended in a blank, so
  that a part still to be parsed means at least p blanks, one more than the elements
  of the array, of which element p - 2 is written (`RoomLeft`, `OneMoreBlank`).
- `ReaderReadsGrammar`: `[]ReadsGrammar`. A line fails exactly when `stoul` throws on a
  part that the loop reaches (`Readable`), which is what the declarative reading says of it
  (`ReaderInv`, with what the loop has stored of the p parts behind it).
- `ReaderFillsTable`: `[]TableIsFile`. `TableOf(t, f, k)`: the table is that of the
  first k lines; a line adds its route under a key that no line before has, or
  adds nothing (`Inserted`), and by `SzudzikInjective` no two pairs share a key. The
  theorem does not say which line of a pair is the one: that is the disagreement
  of `route_replaced`.

**The builder** (`Builder_proofs`), for every program.
- `RegisteredServicesRun`, `WellBuiltNeverDies`, `FinalizersRun`:
  `[]AllServicesRun`, `[]WellBuiltRuns`, `[]FinalizersCalled`. The kernel numbers its
  processes from 0 and `simulate()` counts the initializers; so the theorems rest on
  two lemmas on a finite set D of naturals with n elements: if it contains 0..n-1 it
  has no other (`NoOthers`), and if it has no gap it is 0..n-1 (`NoGaps`). The
  invariant adds where states and events come from (`Started`), so that a fault leads
  back to a registration.

**The optimistic mode** (`Optimistic_proofs`), for every grid, number of threads and
checkpoint interval. The first three need not have well-routed grids.
- `OptimisticTypeCorrect`: `[]OptimisticTypeOK`.
- `RollbackIsExact`: `[]MemoryIsReplayed`. A handler without a fault is a function of
  its event and of the memory of its service: `Outcome`, in which nothing is a
  choice. Each memory in a log is the outcome of its event on the memory before it
  (`LogIsExecution`); so the memory a rollback takes from a checkpoint and the memory
  the silent re-execution arrives at are those the log had (`SameExecution`). That
  needs the log in order, and a service that has not started to have an empty log
  (`SchedulersWait`).
- `NothingFinalIsUndone`: `FinalStays`. `TimeWarpInv`: the log of a service is in the
  order of its events, what an event sends is not earlier than it, what is final is
  before everything that may still arrive (`FinalIsPast`), and nothing is final
  while a master has not started. A straggler or a withdrawn event then finds its
  place behind what is final.
- `SpeculationNeverDies`: `[]NoFault` under speculation. `RoutesInv` says of every
  event that is pending or logged what `PacketsOnRoute` says of a packet of the
  grid (`Routable`); the lemmas of `Grid_proofs` on one handler carry over, because
  each handler of `Optimistic` is that of `Grid` on a queue that holds nothing but
  what it sends.

**The refinement of the grid by the optimistic mode** (`Sequential_proofs`), for every
flat grid: whatever takes time or does not, with any number of cores and tasks of any
sizes.
- `OptimisticIsSequential`: `FinalIsSequential`, that is `Sequential!Spec` under the
  mapping of `Optimistic`. A handler sends one event of a set (`Emits`) that
  depends on its event and the memory of its service, or none when the last task is
  done, so that an entry of a log carries what the same event sends from the memory
  before it (`LogSends`); no event that is sent by final executions
  and not final itself is before a final one (`FinalInOrder`). With these
  (`SequentialInv`), `Commit` of an entry is the delivery of its event in `Grid`
  (`CarriesOut`), `StartScheduler` is `SchedulerInit`, and every other step leaves
  the final part alone, that is, stutters.
- `ResentIsTheSame`: `ResendsTheSame`. What `Emits` leaves open are ties between
  cores, of which all give the same event (`OneMessage`), and the sizes of a task
  that is drawn, which the random numbers settle; and the log says what it was. A
  master that draws from random numbers outside the kernel's memory would break it.
- Neither needs an assumption on the messages. Two versions of a packet, one of them
  withdrawn and not yet annihilated, may be equal as events, as when a link takes no
  time or a machine has a second core; as messages they are not, and an execution
  of the one does not find the other.

**Only model-checked.**
- Liveness (`Completes`, `RunsToEnd`, `AllBecomesFinal`, the fairness half of
  `KeepsTaskFlow`): out of the prover's reach.
- `TasksReturnOnce` in trees of masters, whose relays read beside the array: what
  happens then depends on the memory of the process. `tree` shows it for one tree
  and one allocator. `FaultsExplained` is not claimed of such trees at all.

## 5. The plan

The order was: the services and their composition (`Engine`, `Link`, `Switch`,
`Machine`, `Master`, `Grid`, `GridRouting`), the abstract specification (`TaskFlow`),
what the program sets up before (`RoutingTable`, `Builder`, `Simulator`,
`SimulatorBuilder`), and last the mode that does not keep to the order of the events
(`Optimistic`); proofs from types through routes and time to queues, tasks, sums and
rollbacks. All of that is there. What would come next are times with an infinity
and a scheduler that is initialized later than at 0, for the two hazards that the
assumptions on time leave out. Larger
instances of `Optimistic` are out of TLC's reach within minutes (with three threads
the run does not end).

## 6. Where the code and its documentation disagree

Each of these is a violation run; `PROJECT.json` quotes the documentation.

- `tree_index` (`src/service/master.cpp:63`): a master that relays a processed
  task to its origin indexes the route with the offset the task came with,
  which has wrapped to 2^64-1.
- `switch_delay` (`src/service/switch.cpp:55`): a switch computes the departure
  of a packet, reports it in its metrics, and sends the packet without delay.
- `transit_destination` (`src/service/master.cpp:69`): routes may pass through
  masters according to `include/routing/table.hpp`; a master on the way takes
  the task for one of its own slaves.
- `route_replaced` (`include/routing/table.hpp:119`): `addRoute` keeps the old route
  of a pair that is registered again, where its documentation says that it is
  replaced.
- `core_times` (`include/service/machine.hpp:51`): core times are never
  initialised.

Without a run of their own: the completion of a task dereferences the workload
without the null test that `onInit` has (`src/scheduler/round_robin.cpp:47`;
`FaultsExplained` admits that fault only in a master without workload);
the builder passes the load factor of a switch as its latency and the latency as its
load factor (`src/model/builder.cpp:106` against `include/service/switch.hpp:30-33`),
so that the value in use is not the one that was checked; a line that ends in a blank, as the programs under `test/`
write them, gets a route with one element too many, which is never initialised
and to which no packet of a well-routed grid comes
(`include/routing/table.hpp:240`; `TableIsFile` admits it); `getRoute`
throws where its documentation says it returns null
(`include/routing/table.hpp:136`); tasks of the builder and of the workload of
one master share their tids (`src/scheduler/round_robin.cpp:51`), on which
nothing in the engine depends.

## 7. Not modelled, and why

The kernel itself: an external binary. Its queue is an assumption of `Engine`, its
Time Warp protocol one of `Optimistic`; neither is checked against it. Input,
output, formatting of reports and the command line have no state the services
depend on. The probability distributions are numerical code that the engine does
not use. Infinite times (a load factor of 1) and machines without cores are named
in the hazards: the first needs real numbers with an infinity, the second an index
outside the state of a machine. A crash of the process is the end of a simulation:
nothing is persisted and nothing recovers.
