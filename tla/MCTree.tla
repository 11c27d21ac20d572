------------------------------- MODULE MCTree -------------------------------
(***************************************************************************)
(* The tree of test/topology_tree without two of its machines: master 0    *)
(* sends its tasks to the masters 2 and 4, which have no workload and      *)
(* schedule them to their machines.                                        *)
(*                                                                         *)
(*    master 0 -+- link 1 -- master 2 -+- link 5 -- machine 6              *)
(*              |                      +- link 7 -- machine 8              *)
(*              +- link 3 -- master 4 -+- link 11 -- machine 12            *)
(*                                     +- link 13 -- machine 14            *)
(*                                                      |                  *)
(*                                        machine 16 - link 15             *)
(*                                                                         *)
(* On their way back the tasks make the masters 2 and 4 read the element   *)
(* 2^64-1 of a route.  With the allocator of glibc this is the high half of*)
(* the size of the array, which is zero, and zero is the root master.      *)
(***************************************************************************)
EXTENDS GridProperties, TLC

MCRoutePath == (<<0, 2>> :> <<1>>) @@ (<<0, 4>> :> <<3>>)
            @@ (<<2, 6>> :> <<5>>) @@ (<<2, 8>> :> <<7>>)
            @@ (<<4, 12>> :> <<11>>) @@ (<<4, 14>> :> <<13>>) @@ (<<4, 16>> :> <<13, 15>>)
MCLinkFrom  == (1 :> 0) @@ (3 :> 0) @@ (5 :> 2) @@ (7 :> 2) @@ (11 :> 4) @@ (13 :> 4) @@ (15 :> 14)
MCLinkTo    == (1 :> 2) @@ (3 :> 4) @@ (5 :> 6) @@ (7 :> 8) @@ (11 :> 12) @@ (13 :> 14) @@ (15 :> 16)
MCLinkLatency  == [l \in Links |-> 1]
MCLinkUnitCost == [l \in Links |-> 1]
MCSwitchLatency  == [s \in Switches |-> 0]
MCSwitchUnitCost == [s \in Switches |-> 0]
MCCores           == [m \in Machines |-> 2]
MCMachineUnitCost == [m \in Machines |-> 2]
MCSlaves       == (0 :> <<2, 4>>) @@ (2 :> <<6, 8>>) @@ (4 :> <<12, 14, 16>>)
MCWorkloadSize == (0 :> 5)
MCTaskSizes    == {<<1, 1>>, <<2, 1>>}
MCBuilderTasks  == [m \in Masters |-> 0]
=============================================================================
