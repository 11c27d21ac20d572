----------------------------- MODULE Simulator ------------------------------
(***************************************************************************)
(* The registry of services (simulator/simulator.hpp) and the life of a    *)
(* simulation in the kernel (simulator/rootsim.cpp): the program registers *)
(* initializers and finalizers, simulate() starts as many logical          *)
(* processes as there are initializers, each process makes its service,    *)
(* events are delivered until none is left, and the finalizers are called. *)
(*                                                                         *)
(* What the handlers of the services do is the matter of module Grid; here *)
(* an event is delivered to the right kind of service or to a wrong one.   *)
(***************************************************************************)
EXTENDS Integers, FiniteSets

CONSTANT Ids        \* identifiers that the program may use

ASSUME SimulatorAssumption == Ids \subseteq Nat

VARIABLES
  phase,            \* "registering", "initializing", "running", "finalizing", "ended", "died"
  initializers,     \* m_ServiceInitializers: what each initializer builds and sends
  finalizers,       \* m_ServiceFinalizers: the kind of service each finalizer casts to
  lps,              \* m_Conf.lps
  services,         \* the states that the logical processes have set
  queue,            \* the events that are pending
  finalized         \* the processes that have got LP_FINI, and whether a finalizer ran

registry == <<initializers, finalizers>>
processes == <<services, queue, finalized>>
simulatorVars == <<phase, registry, lps, processes>>

Nothing == [i \in {} |-> 0]

Insert(f, key, value) == [k \in DOMAIN f \cup {key} |-> IF k = key THEN value ELSE f[k]]

SimulatorInit ==
  /\ phase = "registering" /\ lps = 0
  /\ initializers = Nothing /\ finalizers = Nothing
  /\ services = Nothing /\ queue = {} /\ finalized = Nothing

Die == phase' = "died" /\ UNCHANGED <<registry, lps, processes>>

-----------------------------------------------------------------------------
(* Before simulate(). *)

RegisterService(id, initializer) ==
  /\ phase = "registering"
  /\ \/ id \in DOMAIN initializers /\ Die
     \/ /\ id \notin DOMAIN initializers
        /\ initializers' = Insert(initializers, id, initializer)
        /\ UNCHANGED <<phase, finalizers, lps, processes>>

RegisterServiceFinalizer(id, kind) ==
  /\ phase = "registering"
  /\ \/ id \in DOMAIN finalizers /\ Die
     \/ /\ id \notin DOMAIN finalizers
        /\ finalizers' = Insert(finalizers, id, kind)
        /\ UNCHANGED <<phase, initializers, lps, processes>>

(* Mutated form: the processes are numbered from 1. *)
HighestIdentifier == Cardinality(DOMAIN initializers \ {0})

NumberOfProcesses == Cardinality(DOMAIN initializers)

Simulate ==
  /\ phase = "registering"
  /\ phase' = "initializing" /\ lps' = NumberOfProcesses
  /\ UNCHANGED <<registry, processes>>

-----------------------------------------------------------------------------
(* The dispatcher.  The kernel initializes its processes in any order, and
   delivers no other event before all of them are. *)

Processes == 0 .. lps - 1

LpInit(me) ==
  /\ phase = "initializing" /\ me \in Processes \ DOMAIN services
  /\ \/ me \notin DOMAIN initializers /\ Die
     \/ /\ me \in DOMAIN initializers
        /\ initializers[me].builds # me
        /\ Die
     \/ /\ me \in DOMAIN initializers
        /\ initializers[me].builds = me
        /\ services' = Insert(services, me, initializers[me])
        /\ queue' = queue \cup initializers[me].sends
        /\ UNCHANGED <<phase, registry, lps, finalized>>

Start ==
  /\ phase = "initializing" /\ DOMAIN services = Processes
  /\ phase' = "running"
  /\ UNCHANGED <<registry, lps, processes>>

(* Service::onTaskArrival is virtual: every kind of service has it. *)
DispatchTaskArrival(event) ==
  /\ phase = "running" /\ event \in queue /\ event.to \in Processes
  /\ event.type = "TASK_ARRIVAL"
  /\ queue' = queue \ {event}
  /\ UNCHANGED <<phase, registry, lps, services, finalized>>

(* The state is taken for a Master without a test: on another service the call
   goes through a pointer that is not there. *)
DispatchSchedulerInit(event) ==
  /\ phase = "running" /\ event \in queue /\ event.to \in Processes
  /\ event.type = "TASK_SCHEDULER_INIT"
  /\ \/ services[event.to].kind # "master" /\ Die
     \/ /\ services[event.to].kind = "master"
        /\ queue' = queue \ {event}
        /\ UNCHANGED <<phase, registry, lps, services, finalized>>

DispatchUnknown(event) ==
  /\ phase = "running" /\ event \in queue /\ event.to \in Processes
  /\ event.type \notin {"TASK_ARRIVAL", "TASK_SCHEDULER_INIT"}
  /\ Die

(* The kernel finds a process by its number, and does not survive one that is
   not there. *)
DispatchNowhere(event) ==
  /\ phase = "running" /\ event \in queue /\ event.to \notin Processes
  /\ Die

Finish ==
  /\ phase = "running" /\ queue = {}
  /\ phase' = "finalizing"
  /\ UNCHANGED <<registry, lps, processes>>

(* Mutated form: the test for a finalizer is inverted. *)
NoFinalizerIfFound(me) == me \in DOMAIN finalizers

NoFinalizer(me) == me \notin DOMAIN finalizers

(* A finalizer casts the state to the kind it was written for; on another kind
   it reads what is there, which may end the process. *)
LpFini(me) ==
  /\ phase = "finalizing" /\ me \in Processes \ DOMAIN finalized
  /\ \/ /\ NoFinalizer(me)
        /\ finalized' = Insert(finalized, me, FALSE)
        /\ UNCHANGED <<phase, registry, lps, services, queue>>
     \/ /\ ~ NoFinalizer(me) /\ me \in DOMAIN finalizers
        /\ finalized' = Insert(finalized, me, TRUE)
        /\ UNCHANGED <<phase, registry, lps, services, queue>>
     \/ /\ ~ NoFinalizer(me)
        /\ me \in DOMAIN finalizers => finalizers[me] # services[me].kind
        /\ Die

End ==
  /\ phase = "finalizing" /\ DOMAIN finalized = Processes
  /\ phase' = "ended"
  /\ UNCHANGED <<registry, lps, processes>>

Kernel ==
  \/ \E me \in Processes : LpInit(me) \/ LpFini(me)
  \/ \E event \in queue :
       DispatchTaskArrival(event) \/ DispatchSchedulerInit(event)
       \/ DispatchUnknown(event) \/ DispatchNowhere(event)
  \/ Start \/ Finish \/ End
=============================================================================
