---------------------------- MODULE MCOptimistic ----------------------------
(***************************************************************************)
(* The switched star of test/topology_star_switched with one master:       *)
(*                                                                         *)
(*                                      +-- link 3 -- machine 4            *)
(*    master 0 -- link 1 -- switch 2 ---+                                  *)
(*                                      +-- link 5 -- machine 6            *)
(***************************************************************************)
EXTENDS Optimistic, GridRouting

MCRoutePath == (<<0, 4>> :> <<1, 3>>) @@ (<<0, 6>> :> <<1, 5>>)
MCLinkFrom  == (1 :> 0) @@ (3 :> 2) @@ (5 :> 2)
MCLinkTo    == (1 :> 2) @@ (3 :> 4) @@ (5 :> 6)
MCLinkLatency  == [l \in Links |-> 1]
MCLinkUnitCost == [l \in Links |-> 0]
MCSwitchLatency  == (2 :> 1)
MCSwitchUnitCost == (2 :> 0)
MCCores           == [m \in Machines |-> 2]
MCMachineUnitCost == (4 :> 1) @@ (6 :> 3)
MCSlaves        == (0 :> <<4,6>>)
MCWorkloadSize  == (0 :> 3)
MCTaskSizes     == {<<1, 1>>, <<2, 1>>}
MCRandomSize(m, tid) == IF tid % 4 = 0 THEN <<1, 1>> ELSE <<2, 1>>
MCBuilderTasks  == [m \in Masters |-> 0]

(* The theorems about flat grids hold of this one. *)
ASSUME MCWellRouted == WellRouted
=============================================================================
