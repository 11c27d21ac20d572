----------------------------- MODULE MCBuilder ------------------------------
(***************************************************************************)
(* Programs with up to three services, one of whose identifiers leaves a   *)
(* gap, with valid and invalid parameters, and with callbacks that start a *)
(* scheduler, send a task to another service or an event of no known type. *)
(***************************************************************************)
EXTENDS Builder

MCIds == {0, 1, 3}

MCCallbacks ==
  {{},
   {[to |-> 0, type |-> "TASK_SCHEDULER_INIT"], [to |-> 1, type |-> "TASK_ARRIVAL"]},
   {[to |-> 1, type |-> "TASK_SCHEDULER_INIT"], [to |-> 0, type |-> "OTHER"]}}
=============================================================================
