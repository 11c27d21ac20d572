------------------------------- MODULE Switch -------------------------------
(***************************************************************************)
(* The switches (service/switch).  A switch computes when its queue would  *)
(* let the packet go, writes that time in its state and in its metrics,    *)
(* and sends the packet on at the time of its arrival.                     *)
(***************************************************************************)
EXTENDS Engine

CONSTANTS SwitchLatency, SwitchUnitCost

ASSUME SwitchAssumption ==
  /\ SwitchLatency \in [Switches -> Nat] /\ SwitchUnitCost \in [Switches -> Nat]

VARIABLES switchAvailable, switchMetrics

switchVars == <<switchAvailable, switchMetrics>>

SwitchMetrics ==
  [lastActivityTime : Nat, commMBits : Nat, commTime : Nat, commPackets : Nat]

SwitchTypeOK ==
  /\ switchAvailable \in [Switches -> Nat]
  /\ switchMetrics \in [Switches -> SwitchMetrics]

SwitchInit ==
  /\ switchAvailable = [s \in Switches |-> 0]
  /\ switchMetrics = [s \in Switches |-> [lastActivityTime |-> 0, commMBits |-> 0,
                                          commTime |-> 0, commPackets |-> 0]]

-----------------------------------------------------------------------------
SwitchCommTime(s, size) == SwitchLatency[s] + size * SwitchUnitCost[s]

(* Mutated form: the packets before this one are forgotten. *)
SwitchNoWaiting(s, e) == e.time + SwitchCommTime(s, e.commSize)

SwitchDeparture(s, e) ==
  LET waitingTime == IF switchAvailable[s] > e.time THEN switchAvailable[s] - e.time ELSE 0
  IN  e.time + waitingTime + SwitchCommTime(s, e.commSize)

SwitchCount(s, e) ==
  switchMetrics' = [switchMetrics EXCEPT
    ![s].lastActivityTime = SwitchDeparture(s, e),
    ![s].commMBits   = @ + e.commSize,
    ![s].commTime    = @ + SwitchCommTime(s, e.commSize),
    ![s].commPackets = @ + 1]

SwitchOnTaskArrival(s, e) ==
  /\ switchAvailable' = [switchAvailable EXCEPT ![s] = SwitchDeparture(s, e)]
  /\ SwitchCount(s, e)
  /\ Forward(s, e)
=============================================================================
