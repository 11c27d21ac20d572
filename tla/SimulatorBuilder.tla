-------------------------- MODULE SimulatorBuilder --------------------------
(***************************************************************************)
(* The builder of simulators (simulator/simulator.cpp): a program chooses a *)
(* mode, calls setters in any order and as often as it likes, and creates  *)
(* the simulator, which keeps the configuration of that moment.            *)
(***************************************************************************)
EXTENDS Naturals, Sequences

CONSTANTS
  ThreadCounts, CheckpointIntervals, CoreBindings, GvtPeriods
                            \* what a program may pass to the setters

(* The parameters of the setters are unsigned integers, and a bool. *)
ASSUME SimulatorBuilderAssumption ==
  /\ ThreadCounts \subseteq Nat /\ CheckpointIntervals \subseteq Nat
  /\ CoreBindings \subseteq BOOLEAN /\ GvtPeriods \subseteq Nat

VARIABLES
  builder,      \* the members of the SimulatorBuilder
  simulator,    \* <<>>, or the one configuration handed to the kernel
  aborted       \* whether the program has died

builderVars == <<builder, simulator, aborted>>

SimulationMode == {"SEQUENTIAL", "OPTIMISTIC", "CONSERVATIVE"}

(* What createSimulator fills in from the members; the other fields of
   simulation_configuration are the same for all simulators. *)
Configuration ==
  [n_threads : Nat, ckpt_interval : Nat, core_binding : BOOLEAN, gvt_period : Nat,
   serial : BOOLEAN]

SimulatorBuilderTypeOK ==
  /\ builder \in [mode : SimulationMode, cores : Nat, checkpointInterval : Nat,
                  coreBinding : BOOLEAN, gvtPeriod : Nat]
  /\ simulator = <<>> \/ (Len(simulator) = 1 /\ simulator[1] \in Configuration)
  /\ aborted \in BOOLEAN

SimulatorBuilderInit ==
  /\ \E mode \in SimulationMode :
       builder = [mode |-> mode, cores |-> 0, checkpointInterval |-> 0,
                  coreBinding |-> FALSE, gvtPeriod |-> 1000]
  /\ simulator = <<>>
  /\ aborted = FALSE

-----------------------------------------------------------------------------
SetThreads(threads) ==
  /\ builder' = [builder EXCEPT !.cores = IF builder.mode = "SEQUENTIAL" THEN 1 ELSE threads]
  /\ UNCHANGED <<simulator, aborted>>

SetCheckpointInterval(interval) ==
  /\ builder' = [builder EXCEPT !.checkpointInterval = interval]
  /\ UNCHANGED <<simulator, aborted>>

SetCoreBinding(coreBinding) ==
  /\ builder' = [builder EXCEPT !.coreBinding = coreBinding]
  /\ UNCHANGED <<simulator, aborted>>

SetGvtPeriod(period) ==
  /\ builder' = [builder EXCEPT !.gvtPeriod = period]
  /\ UNCHANGED <<simulator, aborted>>

(* ROOT-Sim has no conservative protocol. *)
CreateSimulator ==
  /\ \/ builder.mode = "CONSERVATIVE" /\ aborted' = TRUE /\ UNCHANGED simulator
     \/ /\ builder.mode # "CONSERVATIVE"
        /\ simulator' = <<[n_threads     |-> builder.cores,
                          ckpt_interval |-> builder.checkpointInterval,
                          core_binding  |-> builder.coreBinding,
                          gvt_period    |-> builder.gvtPeriod,
                          serial        |-> builder.mode = "SEQUENTIAL"]>>
        /\ UNCHANGED aborted
  /\ UNCHANGED builder

(* A step of the program before it has a simulator. *)
Configure ==
  /\ simulator = <<>> /\ ~ aborted
  /\ \/ \E threads \in ThreadCounts : SetThreads(threads)
     \/ \E interval \in CheckpointIntervals : SetCheckpointInterval(interval)
     \/ \E coreBinding \in CoreBindings : SetCoreBinding(coreBinding)
     \/ \E period \in GvtPeriods : SetGvtPeriod(period)
     \/ CreateSimulator
=============================================================================
