--------------------------- MODULE Builder_proofs ---------------------------
(***************************************************************************)
(* A simulation that delivers events has started exactly the services that *)
(* were registered, and one whose model has no mistake never dies, for     *)
(* every program.                                                          *)
(*                                                                         *)
(* simulate() counts the initializers and the kernel numbers its processes *)
(* from 0, so that both theorems are about a set of naturals D with n      *)
(* elements: if 0 .. n-1 is in D then it is D, and if D has no gaps then   *)
(* it is 0 .. n-1.                                                         *)
(***************************************************************************)
EXTENDS Builder, FiniteSetTheorems, TLAPS

Registered ==
  /\ IsFiniteSet(DOMAIN initializers) /\ DOMAIN initializers \subseteq Nat
  /\ lps \in Nat
  /\ phase = "registering" =>
       lps = 0 /\ DOMAIN services = {} /\ queue = {} /\ DOMAIN finalized = {}
  /\ phase = "registering" \/ lps \in {0, Cardinality(DOMAIN initializers)}
  /\ phase \notin {"registering", "died"} => lps = Cardinality(DOMAIN initializers)

Started ==
  /\ DOMAIN services \subseteq Processes
  /\ \A me \in DOMAIN services :
        me \in DOMAIN initializers /\ services[me] = initializers[me] /\ services[me].builds = me
  /\ phase \in {"running", "finalizing", "ended"} => DOMAIN services = Processes
  /\ \A event \in queue : \E id \in DOMAIN initializers : event \in initializers[id].sends

Finalized ==
  /\ DOMAIN finalized \subseteq Processes
  /\ \A me \in DOMAIN finalized : finalized[me] <=> me \in DOMAIN finalizers
  /\ phase = "ended" => DOMAIN finalized = Processes

BuilderInv == Registered /\ Started /\ Finalized /\ WellBuiltRuns

-----------------------------------------------------------------------------
(* As many naturals as processes, among which all processes are. *)
LEMMA NoOthers ==
  ASSUME NEW D, IsFiniteSet(D), 0 .. Cardinality(D) - 1 \subseteq D
  PROVE  D = 0 .. Cardinality(D) - 1
<1>1. Cardinality(D) \in Nat
  BY FS_CardinalityType
<1>2. Cardinality(0 .. Cardinality(D) - 1) = Cardinality(D)
  BY <1>1, FS_Interval
<1> QED
  BY <1>2, FS_Subset

(* Naturals without a gap are the numbers of the processes. *)
LEMMA NoGaps ==
  ASSUME NEW D, IsFiniteSet(D), D \subseteq Nat, \A id \in D : 0 .. id \subseteq D
  PROVE  D = 0 .. Cardinality(D) - 1
<1>1. Cardinality(D) \in Nat
  BY FS_CardinalityType
<1>2. ASSUME NEW me \in 0 .. Cardinality(D) - 1, me \notin D PROVE FALSE
  <2>1. me \in Nat /\ me < Cardinality(D)
    BY <1>1
  <2>2. D \subseteq 0 .. me - 1
    BY <1>2, <2>1
  <2>3. IsFiniteSet(0 .. me - 1) /\ Cardinality(0 .. me - 1) = me
    <3>1. me - 1 \in Int /\ 0 \in Int /\ (0 > me - 1 <=> me = 0)
      BY <2>1
    <3>2. Cardinality(0 .. me - 1) = IF 0 > me - 1 THEN 0 ELSE me - 1 - 0 + 1
      BY <3>1, FS_Interval
    <3> QED
      BY <2>1, <3>1, <3>2, FS_Interval
  <2>4. Cardinality(D) <= me
    BY <2>2, <2>3, FS_Subset
  <2> QED
    BY <1>1, <2>1, <2>4
<1> QED
  BY <1>2, NoOthers

LEMMA WellBuiltDense ==
  ASSUME Registered, WellBuilt
  PROVE  DOMAIN initializers = 0 .. Cardinality(DOMAIN initializers) - 1
<1>1. \A id \in DOMAIN initializers : 0 .. id \subseteq DOMAIN initializers
  BY DEF WellBuilt
<1> QED
  BY <1>1, NoGaps DEF Registered

-----------------------------------------------------------------------------
(* A process that dies does so because of a mistake in the model. *)
LEMMA DieKeeps ==
  ASSUME BuilderInv, Die, lps > 0 => ~ WellBuilt
  PROVE  BuilderInv'
<1>1. phase' = "died" /\ UNCHANGED <<registry, lps, processes>>
  BY DEF Die
<1>2. UNCHANGED <<initializers, finalizers, lps, services, queue, finalized>>
  BY <1>1 DEF registry, processes
<1>3. Registered' /\ Finalized'
  BY <1>1, <1>2 DEF BuilderInv, Registered, Finalized, Processes
<1>4. Started'
  BY <1>1, <1>2 DEF BuilderInv, Started, Processes
<1>5. WellBuilt' <=> WellBuilt
  BY <1>2 DEF WellBuilt
<1> QED
  BY <1>2, <1>3, <1>4, <1>5 DEF BuilderInv, WellBuiltRuns

LEMMA RegisterServiceKeeps ==
  ASSUME BuilderInv, NEW id \in Ids, NEW initializer, RegisterService(id, initializer)
  PROVE  BuilderInv'
<1>1. phase = "registering" /\ lps = 0 /\ DOMAIN services = {} /\ queue = {}
      /\ DOMAIN finalized = {}
  BY DEF RegisterService, BuilderInv, Registered
<1>2. CASE Die
  BY <1>1, <1>2, DieKeeps
<1>3. CASE /\ initializers' = Insert(initializers, id, initializer)
           /\ UNCHANGED <<phase, finalizers, lps, processes>>
  <2>1. UNCHANGED <<phase, finalizers, lps, services, queue, finalized>>
    BY <1>3 DEF processes
  <2>2. DOMAIN initializers' = DOMAIN initializers \cup {id}
    BY <1>3 DEF Insert
  <2>3. IsFiniteSet(DOMAIN initializers')
    <3>1. IsFiniteSet(DOMAIN initializers)
      BY DEF BuilderInv, Registered
    <3>2. IsFiniteSet(DOMAIN initializers \cup {id})
      BY <3>1, FS_AddElement
    <3> QED
      BY <2>2, <3>2
  <2>4. DOMAIN initializers' \subseteq Nat
    BY <2>2, SimulatorAssumption DEF BuilderInv, Registered
  <2> QED
    BY <1>1, <2>1, <2>3, <2>4
       DEF BuilderInv, Registered, Started, Finalized, WellBuiltRuns, Processes
<1> QED
  BY <1>2, <1>3 DEF RegisterService

LEMMA RegisterFinalizerKeeps ==
  ASSUME BuilderInv, NEW id \in Ids, NEW kind, RegisterServiceFinalizer(id, kind)
  PROVE  BuilderInv'
<1>1. phase = "registering" /\ lps = 0 /\ DOMAIN services = {} /\ queue = {}
      /\ DOMAIN finalized = {}
  BY DEF RegisterServiceFinalizer, BuilderInv, Registered
<1>2. CASE Die
  BY <1>1, <1>2, DieKeeps
<1>3. CASE UNCHANGED <<phase, initializers, lps, processes>>
  <2>1. UNCHANGED <<phase, initializers, lps, services, queue, finalized>>
    BY <1>3 DEF processes
  <2> QED
    BY <1>1, <2>1
       DEF BuilderInv, Registered, Started, Finalized, WellBuiltRuns, Processes
<1> QED
  BY <1>2, <1>3 DEF RegisterServiceFinalizer

LEMMA ProgramKeeps == ASSUME BuilderInv, Program PROVE BuilderInv'
<1>1. CASE Simulate
  <2>1. phase = "registering" /\ phase' = "initializing"
        /\ lps' = Cardinality(DOMAIN initializers)
        /\ UNCHANGED <<initializers, finalizers, services, queue, finalized>>
    BY <1>1 DEF Simulate, NumberOfProcesses, registry, processes
  <2>2. DOMAIN services = {} /\ queue = {} /\ DOMAIN finalized = {}
    BY <2>1 DEF BuilderInv, Registered
  <2>3. lps' \in Nat
    BY <2>1, FS_CardinalityType DEF BuilderInv, Registered
  <2> QED
    BY <2>1, <2>2, <2>3
       DEF BuilderInv, Registered, Started, Finalized, WellBuiltRuns, Processes
<1>2. ASSUME NEW id \in Ids, phase = "registering", Die PROVE BuilderInv'
  BY <1>2, DieKeeps DEF BuilderInv, Registered
<1>3. ASSUME NEW id \in Ids, NEW power, NEW loadFactor, RegisterMachine(id, power, loadFactor)
      PROVE  BuilderInv'
  BY <1>2, <1>3, RegisterServiceKeeps DEF RegisterMachine
<1>4. ASSUME NEW id \in Ids, NEW loadFactor, RegisterLink(id, loadFactor) PROVE BuilderInv'
  BY <1>2, <1>4, RegisterServiceKeeps DEF RegisterLink
<1>5. ASSUME NEW id \in Ids, NEW loadFactor, RegisterSwitch(id, loadFactor) PROVE BuilderInv'
  BY <1>2, <1>5, RegisterServiceKeeps DEF RegisterSwitch
<1> QED
  BY <1>1, <1>3, <1>4, <1>5, RegisterServiceKeeps, RegisterFinalizerKeeps
     DEF Program, RegisterMaster, RegisterDummy, RegisterOwn

-----------------------------------------------------------------------------
LEMMA LpInitKeeps ==
  ASSUME BuilderInv, NEW me \in Processes, LpInit(me)
  PROVE  BuilderInv'
<1>1. phase = "initializing" /\ lps = Cardinality(DOMAIN initializers)
      /\ me \notin DOMAIN services
  BY DEF LpInit, BuilderInv, Registered
<1>2. CASE me \notin DOMAIN initializers /\ Die
  <2>1. ~ WellBuilt
    BY <1>1, <1>2, WellBuiltDense DEF BuilderInv, Processes
  <2> QED
    BY <1>2, <2>1, DieKeeps
<1>3. CASE me \in DOMAIN initializers /\ initializers[me].builds # me /\ Die
  <2>1. ~ WellBuilt
    BY <1>3 DEF WellBuilt
  <2> QED
    BY <1>3, <2>1, DieKeeps
<1>4. CASE /\ me \in DOMAIN initializers
           /\ initializers[me].builds = me
           /\ services' = Insert(services, me, initializers[me])
           /\ queue' = queue \cup initializers[me].sends
           /\ UNCHANGED <<phase, registry, lps, finalized>>
  <2>1. UNCHANGED <<phase, initializers, finalizers, lps, finalized>>
    BY <1>4 DEF registry
  <2>2. /\ DOMAIN services' = DOMAIN services \cup {me}
        /\ services'[me] = initializers[me]
        /\ \A k \in DOMAIN services : services'[k] = services[k]
    BY <1>1, <1>4 DEF Insert
  <2>3. Registered' /\ Finalized' /\ WellBuiltRuns'
    BY <1>1, <2>1 DEF BuilderInv, Registered, Finalized, WellBuiltRuns, Processes
  <2>4. Started'
    BY <1>1, <1>4, <2>1, <2>2 DEF BuilderInv, Started, Processes
  <2> QED
    BY <2>3, <2>4 DEF BuilderInv
<1> QED
  BY <1>2, <1>3, <1>4 DEF LpInit

LEMMA DispatchKeeps ==
  ASSUME BuilderInv, NEW event \in queue,
         \/ DispatchTaskArrival(event) \/ DispatchSchedulerInit(event)
         \/ DispatchUnknown(event) \/ DispatchNowhere(event)
  PROVE  BuilderInv'
<1>1. phase = "running" /\ lps = Cardinality(DOMAIN initializers)
      /\ DOMAIN services = Processes
  BY DEF DispatchTaskArrival, DispatchSchedulerInit, DispatchUnknown, DispatchNowhere,
         BuilderInv, Registered, Started
<1>2. PICK id \in DOMAIN initializers : event \in initializers[id].sends
  BY DEF BuilderInv, Started
<1>3. CASE queue' = queue \ {event} /\ UNCHANGED <<phase, registry, lps, services, finalized>>
  <2>1. UNCHANGED <<phase, initializers, finalizers, lps, services, finalized>>
    BY <1>3 DEF registry
  <2>2. Registered' /\ Finalized' /\ WellBuiltRuns'
    BY <1>1, <2>1 DEF BuilderInv, Registered, Finalized, WellBuiltRuns, Processes
  <2>3. Started'
    BY <1>1, <1>3, <2>1 DEF BuilderInv, Started, Processes
  <2> QED
    BY <2>2, <2>3 DEF BuilderInv
<1>4. CASE event.to \in Processes /\ event.type = "TASK_SCHEDULER_INIT"
           /\ services[event.to].kind # "master" /\ Die
  <2>1. services[event.to] = initializers[event.to]
    BY <1>1, <1>4 DEF BuilderInv, Started
  <2>2. ~ WellBuilt
    BY <1>2, <1>4, <2>1 DEF WellBuilt
  <2> QED
    BY <1>4, <2>2, DieKeeps
<1>5. CASE event.type \notin {"TASK_ARRIVAL", "TASK_SCHEDULER_INIT"} /\ Die
  <2>1. ~ WellBuilt
    BY <1>2, <1>5 DEF WellBuilt
  <2> QED
    BY <1>5, <2>1, DieKeeps
<1>6. CASE event.to \notin Processes /\ Die
  <2>1. WellBuilt => event.to \in DOMAIN initializers
    BY <1>2 DEF WellBuilt
  <2>2. WellBuilt => DOMAIN initializers = Processes
    BY <1>1, WellBuiltDense DEF BuilderInv, Processes
  <2> QED
    BY <1>6, <2>1, <2>2, DieKeeps
<1> QED
  BY <1>3, <1>4, <1>5, <1>6
     DEF DispatchTaskArrival, DispatchSchedulerInit, DispatchUnknown, DispatchNowhere

LEMMA LpFiniKeeps ==
  ASSUME BuilderInv, NEW me \in Processes, LpFini(me)
  PROVE  BuilderInv'
<1>1. phase = "finalizing" /\ me \notin DOMAIN finalized /\ DOMAIN services = Processes
  BY DEF LpFini, BuilderInv, Started
<1>2. ASSUME NEW ran, ran <=> me \in DOMAIN finalizers,
             finalized' = Insert(finalized, me, ran),
             UNCHANGED <<phase, registry, lps, services, queue>>
      PROVE  BuilderInv'
  <2>1. UNCHANGED <<phase, initializers, finalizers, lps, services, queue>>
    BY <1>2 DEF registry
  <2>2. /\ DOMAIN finalized' = DOMAIN finalized \cup {me}
        /\ finalized'[me] = ran
        /\ \A k \in DOMAIN finalized : finalized'[k] = finalized[k]
    BY <1>1, <1>2 DEF Insert
  <2>3. Registered' /\ WellBuiltRuns'
    BY <1>1, <2>1 DEF BuilderInv, Registered, WellBuiltRuns
  <2>4. Started'
    BY <2>1 DEF BuilderInv, Started, Processes
  <2>5. Finalized'
    BY <1>1, <1>2, <2>1, <2>2 DEF BuilderInv, Finalized, Processes
  <2> QED
    BY <2>3, <2>4, <2>5 DEF BuilderInv
<1>3. CASE me \in DOMAIN finalizers /\ finalizers[me] # services[me].kind /\ Die
  <2>1. me \in DOMAIN initializers /\ services[me] = initializers[me]
    BY <1>1 DEF BuilderInv, Started
  <2>2. ~ WellBuilt
    BY <1>3, <2>1 DEF WellBuilt
  <2> QED
    BY <1>3, <2>2, DieKeeps
<1> QED
  BY <1>2, <1>3 DEF LpFini, NoFinalizer

LEMMA PhaseKeeps ==
  ASSUME BuilderInv, Start \/ Finish \/ End \/ UNCHANGED simulatorVars
  PROVE  BuilderInv'
<1>1. UNCHANGED <<initializers, finalizers, lps, services, queue, finalized>>
  BY DEF Start, Finish, End, simulatorVars, registry, processes
<1>2. CASE Start
  BY <1>1, <1>2
     DEF Start, BuilderInv, Registered, Started, Finalized, WellBuiltRuns, Processes
<1>3. CASE Finish
  BY <1>1, <1>3
     DEF Finish, BuilderInv, Registered, Started, Finalized, WellBuiltRuns, Processes
<1>4. CASE End
  BY <1>1, <1>4
     DEF End, BuilderInv, Registered, Started, Finalized, WellBuiltRuns, Processes
<1>5. CASE UNCHANGED simulatorVars
  <2>1. UNCHANGED phase /\ (WellBuilt' <=> WellBuilt)
    BY <1>1, <1>5 DEF simulatorVars, WellBuilt
  <2> QED
    BY <1>1, <2>1 DEF BuilderInv, Registered, Started, Finalized, WellBuiltRuns, Processes
<1> QED
  BY <1>2, <1>3, <1>4, <1>5

-----------------------------------------------------------------------------
LEMMA BuilderInvariant == BuilderSpec => []BuilderInv
<1>1. SimulatorInit => BuilderInv
  <2> SUFFICES ASSUME SimulatorInit PROVE BuilderInv
    OBVIOUS
  <2>1. phase = "registering" /\ lps = 0 /\ queue = {} /\ DOMAIN initializers = {}
        /\ DOMAIN services = {} /\ DOMAIN finalized = {}
    BY DEF SimulatorInit, Nothing
  <2> QED
    BY <2>1, FS_EmptySet
       DEF BuilderInv, Registered, Started, Finalized, WellBuiltRuns, Processes
<1>2. BuilderInv /\ [BuilderNext]_simulatorVars => BuilderInv'
  BY ProgramKeeps, LpInitKeeps, DispatchKeeps, LpFiniKeeps, PhaseKeeps
     DEF BuilderNext, Kernel
<1> QED
  BY <1>1, <1>2, PTL DEF BuilderSpec

(* A simulation that delivers events runs exactly the registered services, each
   under its own identifier (Simulator::registerService, LP_INIT), whatever the
   program has registered. *)
THEOREM RegisteredServicesRun == BuilderSpec => []AllServicesRun
<1>1. BuilderInv => AllServicesRun
  <2> SUFFICES ASSUME BuilderInv, phase \in {"running", "finalizing", "ended"}
               PROVE  /\ DOMAIN services = DOMAIN initializers
                      /\ \A me \in DOMAIN services :
                           services[me] = initializers[me] /\ services[me].builds = me
    BY DEF AllServicesRun
  <2>1. DOMAIN services = 0 .. Cardinality(DOMAIN initializers) - 1
    BY DEF BuilderInv, Registered, Started, Processes
  <2>2. IsFiniteSet(DOMAIN initializers)
        /\ 0 .. Cardinality(DOMAIN initializers) - 1 \subseteq DOMAIN initializers
    BY <2>1 DEF BuilderInv, Registered, Started
  <2> QED
    BY <2>1, <2>2, NoOthers DEF BuilderInv, Started
<1> QED
  BY <1>1, BuilderInvariant, PTL

(* A model with dense identifiers, initializers that make their own service,
   scheduler starts for masters and finalizers that fit never dies after
   simulate() has been called. *)
THEOREM WellBuiltNeverDies == BuilderSpec => []WellBuiltRuns
<1>1. BuilderInv => WellBuiltRuns
  BY DEF BuilderInv
<1> QED
  BY <1>1, BuilderInvariant, PTL

(* A simulation that has ended has called the finalizers of all its services,
   and no others (LP_FINI). *)
THEOREM FinalizersRun == BuilderSpec => []FinalizersCalled
<1>1. BuilderInv /\ AllServicesRun => FinalizersCalled
  BY DEF BuilderInv, AllServicesRun, Started, Finalized, FinalizersCalled
<1> QED
  BY <1>1, BuilderInvariant, RegisteredServicesRun, PTL
=============================================================================
