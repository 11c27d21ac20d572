----------------------------- MODULE MCSwitched -----------------------------
(***************************************************************************)
(* The switched star of test/topology_star_switched with a second master:  *)
(*                                                                         *)
(*    master 0 -- link 1 --+            +-- link 5 -- machine 6 (2 cores)  *)
(*                         +- switch 4 -+                                  *)
(*    master 2 -- link 3 --+            +-- link 7 -- machine 8            *)
(*                                                                         *)
(* The masters share the switch, its links and both machines.  The memory of*)
(* the core times holds one of two values, core by core.                   *)
(***************************************************************************)
EXTENDS GridProperties, TLC

MCRoutePath == (<<0, 6>> :> <<1, 5>>) @@ (<<0, 8>> :> <<1, 7>>)
            @@ (<<2, 6>> :> <<3, 5>>) @@ (<<2, 8>> :> <<3, 7>>)
MCLinkFrom  == (1 :> 0) @@ (3 :> 2) @@ (5 :> 4) @@ (7 :> 8)
MCLinkTo    == (1 :> 4) @@ (3 :> 4) @@ (5 :> 6) @@ (7 :> 4)
MCLinkLatency  == [l \in Links |-> 1]
MCLinkUnitCost == [l \in Links |-> 1]
MCSwitchLatency  == (4 :> 1)
MCSwitchUnitCost == (4 :> 2)
MCCores           == (6 :> 2) @@ (8 :> 1)
MCMachineUnitCost == (6 :> 4) @@ (8 :> 3)
MCSlaves       == (0 :> <<6, 8>>) @@ (2 :> <<8, 6>>)
MCWorkloadSize == (0 :> 3) @@ (2 :> 1)
MCTaskSizes    == {<<1, 1>>, <<2, 1>>}
MCBuilderTasks  == [m \in Masters |-> 0]

(* The theorems about flat grids hold of this one. *)
ASSUME MCWellRouted == WellRouted
=============================================================================
