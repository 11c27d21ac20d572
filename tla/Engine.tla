------------------------------- MODULE Engine -------------------------------
(***************************************************************************)
(* What every service of the simulator shares: the event queue it sends    *)
(* to, the events in it, and the routing table it consults.                *)
(*                                                                         *)
(* The queue is ROOT-Sim's, external to the repository: it delivers the    *)
(* events one after the other in the order of their timestamps, and events *)
(* with the same timestamp in any order.  That is what its sequential mode *)
(* does and what its optimistic mode commits.                              *)
(*                                                                         *)
(* Abstractions.  Timestamps, sizes and costs are integers, not doubles.   *)
(* Identifiers of services are natural numbers, as in the code, because    *)
(* the tid of a task is computed from one.  Offsets are size_t, that is,   *)
(* integers modulo OffsetMod (2^64 in the code).                           *)
(***************************************************************************)
EXTENDS Integers, Sequences, FiniteSets

CONSTANTS
  Masters, Machines, Links, Switches,  \* identifiers of the services
  RoutePath,   \* <<source, destination>> -> identifiers on the way
  OffsetMod,   \* number of values of a size_t
  HeapWords    \* what a read outside the array of a route may return

Services == Masters \cup Machines \cup Links \cup Switches

(* The identifier -1 of the default RouteDescriptor. *)
Nobody == -1

(* The four kinds of service are disjoint: an identifier is registered once.
   A path has at least one element and is shorter than the range of size_t.
   What lies beside an array is modelled as the identifier of a service. *)
ASSUME EngineAssumption ==
  /\ Services \subseteq Nat /\ IsFiniteSet(Services)
  /\ Masters \cap (Machines \cup Links \cup Switches) = {}
  /\ Machines \cap (Links \cup Switches) = {}
  /\ Links \cap Switches = {}
  /\ OffsetMod \in Nat \ {0}
  /\ DOMAIN RoutePath \subseteq Services \X Services
  /\ \A pair \in DOMAIN RoutePath :
        /\ RoutePath[pair] \in Seq(Services) \ {<<>>}
        /\ Len(RoutePath[pair]) + 2 < OffsetMod
  /\ HeapWords \subseteq Services

VARIABLES
  pending,     \* the TASK_ARRIVAL events that are not delivered yet
  inits,       \* masters whose TASK_SCHEDULER_INIT, sent at 0, is pending
  now,         \* timestamp of the event delivered last
  fault        \* whether the process has died, why and in which service

engineVars == <<pending, inits, now, fault>>

Running == [why |-> "none", at |-> Nobody]

Faults ==
  {Running} \cup
  [why : {"no route", "not an end", "no slave", "bad workload"}, at : Services]

(* An event: receiver, timestamp, task and route descriptor in one record.
   batch is not in the code: it says where the task was generated, to tell
   apart two tasks to which the code gives the same tid. *)
Event ==
  [to : Services, time : Nat,
   batch : {"scheduler", "builder"}, tid : Nat, origin : Masters,
   procSize : Nat, commSize : Nat, processed : BOOLEAN,
   source : Services \cup {Nobody}, destination : Services \cup {Nobody},
   previous : Services \cup {Nobody}, offset : 0 .. OffsetMod - 1,
   forward : BOOLEAN]

(* Which task an event carries. *)
TaskOf(e) == <<e.batch, e.tid>>

EngineTypeOK ==
  /\ pending \in SUBSET Event
  /\ inits \in SUBSET Masters
  /\ now \in Nat
  /\ fault \in Faults

-----------------------------------------------------------------------------
(* Mutated form: a signed offset. *)
SignedDecrement(offset) == offset - 1

(* size_t arithmetic on the offset of a descriptor. *)
Increment(offset) == IF offset = OffsetMod - 1 THEN 0 ELSE offset + 1
Decrement(offset) == IF offset = 0 THEN OffsetMod - 1 ELSE offset - 1

(* The offset a forwarding service puts in the descriptor it sends on. *)
NextOffset(e) == IF e.forward THEN Increment(e.offset) ELSE Decrement(e.offset)

(* Mutated form: the key of a route is looked up the wrong way round. *)
HasReverseRoute(source, destination) == <<destination, source>> \in DOMAIN RoutePath

(* RoutingTable::getRoute throws when the pair is not in the table. *)
HasRoute(source, destination) == <<source, destination>> \in DOMAIN RoutePath

(* Route::operator[] is unchecked: inside the array it returns the element,
   outside it returns whatever the memory holds. *)
RouteElement(path, offset) ==
  IF offset < Len(path) THEN {path[offset + 1]} ELSE HeapWords

(* The queue delivers an event none of the pending ones precedes.  The
   TASK_SCHEDULER_INIT events are all at time 0. *)
Ready(e) ==
  /\ fault = Running
  /\ \A f \in pending : e.time <= f.time
  /\ inits # {} => e.time = 0

(* The handler of e returns after scheduling the events of new. *)
Replace(e, new) ==
  /\ pending' = (pending \ {e}) \cup new
  /\ now' = e.time
  /\ UNCHANGED <<inits, fault>>

(* The handler of e ends the process: die(), an uncaught exception, a
   division by zero or the dereference of an invalid pointer. *)
Stop(e, why) ==
  /\ pending' = pending \ {e}
  /\ now' = e.time
  /\ fault' = [why |-> why, at |-> e.to]
  /\ UNCHANGED inits

-----------------------------------------------------------------------------
(* Mutated form: the packet does not say which service it comes from. *)
ForwardSamePrevious(self, e) ==
  \/ /\ HasRoute(e.source, e.destination)
     /\ \E next \in RouteElement(RoutePath[<<e.source, e.destination>>], e.offset) :
          Replace(e, {[e EXCEPT !.to = next, !.offset = NextOffset(e)]})
  \/ /\ ~ HasRoute(e.source, e.destination)
     /\ Stop(e, "no route")

(* A machine or a switch that is not the destination sends the packet to the
   service at the offset of the descriptor, without delay. *)
Forward(self, e) ==
  \/ /\ HasRoute(e.source, e.destination)
     /\ \E next \in RouteElement(RoutePath[<<e.source, e.destination>>], e.offset) :
          Replace(e, {[e EXCEPT !.to = next, !.previous = self,
                                !.offset = NextOffset(e)]})
  \/ /\ ~ HasRoute(e.source, e.destination)
     /\ Stop(e, "no route")
=============================================================================
