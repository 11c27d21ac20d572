-------------------------------- MODULE Link --------------------------------
(***************************************************************************)
(* The links (service/link): a single-server queue that both directions    *)
(* share.  A packet leaves by the end it has not come from.                *)
(***************************************************************************)
EXTENDS Engine

CONSTANTS
  LinkFrom, LinkTo,          \* the two services a link connects
  LinkLatency, LinkUnitCost  \* time per packet and per unit of size

ASSUME LinkAssumption ==
  /\ LinkFrom \in [Links -> Services] /\ LinkTo \in [Links -> Services]
  /\ LinkLatency \in [Links -> Nat] /\ LinkUnitCost \in [Links -> Nat]

VARIABLES linkAvailable,     \* when the link has sent all it has received
          linkMetrics

linkVars == <<linkAvailable, linkMetrics>>

(* m_Lvt is left out: it is written next to m_AvailableTime, and read by no
   handler. *)
LinkMetrics == [commMBits : Nat, commTime : Nat, commTasks : Nat]

LinkTypeOK ==
  /\ linkAvailable \in [Links -> Nat]
  /\ linkMetrics \in [Links -> LinkMetrics]

LinkInit ==
  /\ linkAvailable = [l \in Links |-> 0]
  /\ linkMetrics = [l \in Links |-> [commMBits |-> 0, commTime |-> 0, commTasks |-> 0]]

-----------------------------------------------------------------------------
LinkCommTime(l, size) == LinkLatency[l] + size * LinkUnitCost[l]

(* Mutated form: a busy link does not delay the packet. *)
NoWaiting(l, e) == e.time + LinkCommTime(l, e.commSize)

(* Mutated form: the idle time of the link counts as negative waiting. *)
NegativeWaiting(l, e) ==
  e.time + (linkAvailable[l] - e.time) + LinkCommTime(l, e.commSize)

LinkDeparture(l, e) ==
  LET waitingTime == IF linkAvailable[l] > e.time THEN linkAvailable[l] - e.time ELSE 0
  IN  e.time + waitingTime + LinkCommTime(l, e.commSize)

OtherEnd(l, e) == IF LinkFrom[l] = e.previous THEN LinkTo[l] ELSE LinkFrom[l]

(* Mutated form: a packet that goes back is not counted. *)
CountForwardOnly(l, e) ==
  linkMetrics' = [linkMetrics EXCEPT
    ![l].commMBits = @ + e.commSize,
    ![l].commTime  = @ + LinkCommTime(l, e.commSize),
    ![l].commTasks = IF e.processed THEN @ ELSE @ + 1]

LinkCount(l, e) ==
  linkMetrics' = [linkMetrics EXCEPT
    ![l].commMBits = @ + e.commSize,
    ![l].commTime  = @ + LinkCommTime(l, e.commSize),
    ![l].commTasks = @ + 1]

LinkOnTaskArrival(l, e) ==
  /\ linkAvailable' = [linkAvailable EXCEPT ![l] = LinkDeparture(l, e)]
  /\ LinkCount(l, e)
  /\ \/ /\ e.previous \in {LinkFrom[l], LinkTo[l]}
        /\ Replace(e, {[e EXCEPT !.to = OtherEnd(l, e),
                                 !.time = LinkDeparture(l, e),
                                 !.previous = l]})
     \/ /\ e.previous \notin {LinkFrom[l], LinkTo[l]}
        /\ Stop(e, "not an end")
=============================================================================
