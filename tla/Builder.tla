------------------------------ MODULE Builder -------------------------------
(***************************************************************************)
(* The builder of models (model/builder.cpp) on the registry of a          *)
(* simulator: it validates the parameters of a service and registers an    *)
(* initializer that makes it.  Load factors are in percent.                *)
(***************************************************************************)
EXTENDS Simulator

CONSTANTS
  Powers,           \* of machines
  LoadFactors,      \* of machines, links and switches
  Callbacks,        \* the events a callback of a master, or an initializer, may send
  FinalizerKinds    \* the kinds of service that the finalizers of the program are for

EventTypes == {"TASK_ARRIVAL", "TASK_SCHEDULER_INIT", "OTHER"}

ASSUME BuilderAssumption ==
  /\ Powers \subseteq Int /\ LoadFactors \subseteq Int
  /\ \A sends \in Callbacks : sends \subseteq [to : Ids, type : EventTypes]

(* What the initializer of a service makes, and the events it schedules. *)
Initializer(id, kind, sends) == [builds |-> id, kind |-> kind, sends |-> sends]

OutOfRange(loadFactor) == loadFactor < 0 \/ loadFactor > 100

RegisterMaster(id, callback) ==
  RegisterService(id, Initializer(id, "master", callback))

RegisterMachine(id, power, loadFactor) ==
  /\ phase = "registering"
  /\ \/ (power <= 0 \/ OutOfRange(loadFactor)) /\ Die
     \/ /\ power > 0 /\ ~ OutOfRange(loadFactor)
        /\ RegisterService(id, Initializer(id, "machine", {}))

RegisterLink(id, loadFactor) ==
  /\ phase = "registering"
  /\ \/ OutOfRange(loadFactor) /\ Die
     \/ /\ ~ OutOfRange(loadFactor)
        /\ RegisterService(id, Initializer(id, "link", {}))

(* What it checks, the builder then passes to the constructor of Switch as the
   latency, and the latency as the load factor. *)
RegisterSwitch(id, loadFactor) ==
  /\ phase = "registering"
  /\ \/ OutOfRange(loadFactor) /\ Die
     \/ /\ ~ OutOfRange(loadFactor)
        /\ RegisterService(id, Initializer(id, "switch", {}))

RegisterDummy(id) == RegisterService(id, Initializer(id, "dummy", {}))

(* A program may also register an initializer of its own, and that one may make
   a service with another identifier or send other events. *)
RegisterOwn(id, builds, sends) ==
  RegisterService(id, Initializer(builds, "dummy", sends))

Program ==
  \/ \E id \in Ids :
       \/ \E callback \in Callbacks : RegisterMaster(id, callback)
       \/ \E loadFactor \in LoadFactors :
            \/ \E power \in Powers : RegisterMachine(id, power, loadFactor)
            \/ RegisterLink(id, loadFactor)
            \/ RegisterSwitch(id, loadFactor)
       \/ RegisterDummy(id)
       \/ \E builds \in Ids, sends \in Callbacks : RegisterOwn(id, builds, sends)
       \/ \E kind \in FinalizerKinds : RegisterServiceFinalizer(id, kind)
  \/ Simulate

BuilderNext == Program \/ Kernel

BuilderSpec == SimulatorInit /\ [][BuilderNext]_simulatorVars

(* RootsimRun works until it is done; the program may take its time. *)
FairBuilderSpec == BuilderSpec /\ WF_simulatorVars(Kernel)

-----------------------------------------------------------------------------
(* The services that run are exactly those that were registered, each with its
   own identifier, although simulate() only counts them: a model whose
   identifiers are not 0, 1, ..., n-1 never delivers an event. *)
AllServicesRun ==
  phase \in {"running", "finalizing", "ended"} =>
    /\ DOMAIN services = DOMAIN initializers
    /\ \A me \in DOMAIN services : services[me] = initializers[me] /\ services[me].builds = me

(* A model without mistakes: identifiers without gaps, initializers that make
   their own service, schedulers of masters only, finalizers that fit. *)
WellBuilt ==
  /\ \A id \in DOMAIN initializers :
        /\ \A below \in 0 .. id : below \in DOMAIN initializers
        /\ initializers[id].builds = id
        /\ \A event \in initializers[id].sends :
              /\ event.to \in DOMAIN initializers
              /\ \/ event.type = "TASK_ARRIVAL"
                 \/ /\ event.type = "TASK_SCHEDULER_INIT"
                    /\ initializers[event.to].kind = "master"
  /\ \A id \in DOMAIN finalizers \cap DOMAIN initializers :
        finalizers[id] = initializers[id].kind

(* A process that dies after simulate() was called had a model with a mistake. *)
WellBuiltRuns == phase = "died" /\ lps > 0 => ~ WellBuilt

(* A model without mistakes is simulated to the end. *)
RunsToEnd == (phase = "initializing" /\ WellBuilt) ~> (phase = "ended")

(* At the end the finalizers of all services have run, and no others. *)
FinalizersCalled ==
  phase = "ended" =>
    /\ DOMAIN finalized = DOMAIN initializers
    /\ \A me \in DOMAIN finalized : finalized[me] <=> me \in DOMAIN finalizers
=============================================================================
