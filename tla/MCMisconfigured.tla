--------------------------- MODULE MCMisconfigured --------------------------
(***************************************************************************)
(* Masters that share links and machines, most of them configured wrongly: *)
(*                                                                         *)
(*   master 0    its packets to 4 pass through master 2;                   *)
(*   master 2    has neither a workload nor tasks of its own;              *)
(*   master 6    has tasks of the builder for 4, and no workload;          *)
(*   master 10   has tasks for 8 and 4, and no route to 4;                 *)
(*   master 12   has a task and no slave;                                  *)
(*   master 14   its route to 8 is link 7, which connects 2 and 8.         *)
(*                                                                         *)
(*    master 0 -- link 1 -- master 2 -- link 3 -- machine 4 -- link 5 -- master 6*)
(*                             |                                           *)
(*                          link 7 -- machine 8 -- link 9 -- master 10     *)
(***************************************************************************)
EXTENDS GridProperties, TLC

MCRoutePath == (<<0, 4>> :> <<1, 3>>) @@ (<<2, 8>> :> <<7>>) @@ (<<6, 4>> :> <<5>>)
               @@ (<<10, 8>> :> <<9>>) @@ (<<14, 8>> :> <<7>>)
MCLinkFrom  == (1 :> 0) @@ (3 :> 2) @@ (5 :> 4) @@ (7 :> 2) @@ (9 :> 8)
MCLinkTo    == (1 :> 2) @@ (3 :> 4) @@ (5 :> 6) @@ (7 :> 8) @@ (9 :> 10)
MCLinkLatency  == [l \in Links |-> 1]
MCLinkUnitCost == [l \in Links |-> 1]
MCSwitchLatency  == [s \in Switches |-> 0]
MCSwitchUnitCost == [s \in Switches |-> 0]
MCCores           == [m \in Machines |-> 1]
MCMachineUnitCost == [m \in Machines |-> 2]
MCSlaves       == (0 :> <<4>>) @@ (2 :> <<8>>) @@ (6 :> <<4>>)
                  @@ (10 :> <<8, 4>>) @@ (12 :> << >>) @@ (14 :> <<8>>)
MCWorkloadSize == (0 :> 2)
MCTaskSizes    == {<<1, 1>>}
MCBuilderTasks == (0 :> 0) @@ (2 :> 0) @@ (6 :> 1) @@ (10 :> 2) @@ (12 :> 1) @@ (14 :> 1)

(* The routes are those of machines, over links, whatever else is wrong. *)
ASSUME MCRoutesToMachines == RoutesToMachines
=============================================================================
