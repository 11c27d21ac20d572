------------------------------ MODULE MCLinear ------------------------------
(***************************************************************************)
(* The linear topology of test/topology_linear with two machines:          *)
(*                                                                         *)
(*    master 0 -- link 1 -- machine 2 -- link 3 -- machine 4               *)
(*                                                                         *)
(* Machine 2 forwards the packets of machine 4, and link 1 carries the     *)
(* packets of both, in both directions.  Two tasks of the builder come on  *)
(* top of the workload of the master, at any of three times.               *)
(***************************************************************************)
EXTENDS GridProperties, TLC

MCRoutePath == (<<0, 2>> :> <<1>>) @@ (<<0, 4>> :> <<1, 3>>)
MCLinkFrom  == (1 :> 0) @@ (3 :> 2)
MCLinkTo    == (1 :> 2) @@ (3 :> 4)
MCLinkLatency  == [l \in Links |-> 1]
MCLinkUnitCost == [l \in Links |-> 1]
MCSwitchLatency  == [s \in Switches |-> 0]
MCSwitchUnitCost == [s \in Switches |-> 0]
MCCores           == (2 :> 1) @@ (4 :> 2)
MCMachineUnitCost == (2 :> 3) @@ (4 :> 3)
MCSlaves       == (0 :> <<2, 4>>)
MCWorkloadSize == (0 :> 3)
MCTaskSizes    == {<<1, 1>>, <<2, 3>>}
MCBuilderTasks == (0 :> 2)

(* The theorems about flat grids hold of this one. *)
ASSUME MCWellRouted == WellRouted
ASSUME MCSlavesOwned == SlavesOwned
ASSUME MCOneMaster == OneMaster
=============================================================================
