---------------------------- MODULE GridRouting -----------------------------
(***************************************************************************)
(* Where a packet may be.  A route lists only links; which services the    *)
(* packet visits in between, and that the offset each of them reads or     *)
(* writes is the right one, follows from arithmetic that is spread over    *)
(* Master, Link, Switch and Machine (+1 on the way out, -2 in the machine  *)
(* that answers, -1 on the way back, all modulo 2^64).                     *)
(***************************************************************************)
EXTENDS Grid

(* The services on a route: walk[0] is the source, and link number k of the
   path connects walk[k-1] and walk[k].  Machines and switches forward; the
   destination is met only at the end. *)
IsWalk(walk, source, destination) ==
  LET path == RoutePath[<<source, destination>>] IN
  /\ walk[0] = source /\ walk[Len(path)] = destination
  /\ \A k \in 1 .. Len(path) :
        path[k] \in Links /\ {LinkFrom[path[k]], LinkTo[path[k]]} = {walk[k-1], walk[k]}
  /\ \A k \in 1 .. Len(path) - 1 :
        walk[k] \in Machines \cup Switches /\ walk[k] # destination

Walks(pair) == [0 .. Len(RoutePath[pair]) -> Services]

SlaveSet(m) == {Slaves[m][i] : i \in DOMAIN Slaves[m]}

(* A flat grid, as all the programs under test/ but the tree build: masters
   send to machines only, along routes that follow the links; a master that
   gets tasks has slaves and a workload object; and a pointer to a workload
   that nobody has assigned happens to be null. *)
WellRouted ==
  /\ \A m \in Masters : \A s \in SlaveSet(m) :
        /\ s \in Machines
        /\ HasRoute(m, s)
        /\ \E walk \in Walks(<<m, s>>) : IsWalk(walk, m, s)
  /\ \A m \in Masters :
        BuilderTasks[m] > 0 => Slaves[m] # <<>> /\ m \in DOMAIN WorkloadSize
  /\ FreshPointers = {"null"}

(* The routes of the table lead to machines and name links only, and links
   connect other services.  Nothing is said of where a route begins, of the
   services that the links on it connect, or of the slaves. *)
RoutesToMachines ==
  /\ \A pair \in DOMAIN RoutePath :
        /\ pair[2] \in Machines
        /\ \A k \in 1 .. Len(RoutePath[pair]) : RoutePath[pair][k] \in Links
  /\ \A l \in Links : LinkFrom[l] \notin Links /\ LinkTo[l] \notin Links

(* The walk along each route. *)
Walk == [pair \in DOMAIN RoutePath |->
           CHOOSE walk \in Walks(pair) : IsWalk(walk, pair[1], pair[2])]

-----------------------------------------------------------------------------
(* The four places of a packet on the way between its source and destination,
   with what its descriptor must say there.  k counts links from the source. *)
GoingAtLink(e, path, walk, k) ==
  ~ e.processed /\ e.forward /\ e.to = path[k] /\ e.previous = walk[k-1] /\ e.offset = k

GoingAtService(e, path, walk, k) ==
  ~ e.processed /\ e.forward /\ e.to = walk[k] /\ e.previous = path[k] /\ e.offset = k

BackAtLink(e, path, walk, k) ==
  /\ e.processed /\ ~ e.forward /\ e.to = path[k] /\ e.previous = walk[k]
  /\ e.offset = Decrement(k - 1)

BackAtService(e, path, walk, k) ==
  /\ e.processed /\ ~ e.forward /\ e.to = walk[k-1] /\ e.previous = path[k]
  /\ e.offset = Decrement(k - 1)

AlongRoute(e) ==
  LET path == RoutePath[<<e.source, e.destination>>]
      walk == Walk[<<e.source, e.destination>>]
  IN  \E k \in 1 .. Len(path) :
         \/ GoingAtLink(e, path, walk, k)
         \/ GoingAtService(e, path, walk, k)
         \/ BackAtLink(e, path, walk, k)
         \/ BackAtService(e, path, walk, k)

AtSource(e) == ~ e.processed /\ e.to = e.origin

OnTheWay(e) ==
  e.source = e.origin /\ e.destination \in SlaveSet(e.origin) /\ AlongRoute(e)

(* Every packet is where the hops made so far have brought it, and its offset,
   previous service and direction are those that its next hop needs. *)
PacketsOnRoute == \A e \in pending : AtSource(e) \/ OnTheWay(e)

(* No packet ever ends the simulation: no link receives a packet from a
   service that is not one of its ends, no route that is asked for is missing
   and no master is left without a slave or without a workload to consult. *)
NoFault == fault = Running

-----------------------------------------------------------------------------
(* Configurations. *)

(* What in the configuration of a service explains that the process dies there. *)
Explained(why, at) ==
  CASE why = "none"     -> TRUE
    [] why = "no route" ->
         \/ \E s \in SlaveSet(at) : <<at, s>> \notin DOMAIN RoutePath
         \/ \E pair \in DOMAIN RoutePath : \E k \in DOMAIN RoutePath[pair] :
               /\ pair[1] # at /\ <<pair[1], at>> \notin DOMAIN RoutePath
               /\ at \in {LinkFrom[RoutePath[pair][k]], LinkTo[RoutePath[pair][k]]}
    [] why = "not an end" ->
         \E pair \in DOMAIN RoutePath :
            /\ \E k \in DOMAIN RoutePath[pair] : RoutePath[pair][k] = at
            /\ ~ \E walk \in Walks(pair) : IsWalk(walk, pair[1], pair[2])
    [] why = "no slave"     -> SlaveSet(at) = {}
    [] why = "bad workload" -> at \notin DOMAIN WorkloadSize

(* The simulation dies only where the configuration deserves it: in a master
   that has no route to one of its slaves, or that another master's packets
   pass through without being one of its slaves; in a link on a route that does
   not follow the links it names; in a master without slaves; in a master
   without workload. *)
FaultsExplained == Explained(fault.why, fault.at)

(* The offset of a descriptor is an index of the route it is used with: that
   of the packet in a machine or switch that forwards it, that from the origin
   in a master that relays it. *)
IndexesInRoute ==
  \A e \in pending :
    /\ e.to \in Machines \cup Switches /\ e.to # e.destination =>
         e.offset < Len(RoutePath[<<e.source, e.destination>>])
    /\ e.to \in Masters /\ e.processed /\ e.to # e.origin /\ HasRoute(e.origin, e.to) =>
         e.offset < Len(RoutePath[<<e.origin, e.to>>])
=============================================================================
