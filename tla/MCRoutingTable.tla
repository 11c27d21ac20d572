--------------------------- MODULE MCRoutingTable ---------------------------
(***************************************************************************)
(* Every file of two lines of at most five tokens, over three numbers of   *)
(* which the last two are the same identifier; every file of one such line *)
(* with a number that no unsigned long can hold; and the file that the     *)
(* program test/topology_linear writes for two machines.                   *)
(***************************************************************************)
EXTENDS RoutingTable

(* Sequences in which no two numbers are adjacent. *)
MCLines(numbers) ==
  {line \in UNION {[1 .. length -> numbers \cup {Blank}] : length \in 0 .. 5} :
     \A i \in 1 .. Len(line) - 1 : line[i] = Blank \/ line[i + 1] = Blank}

MCLinear == << <<0, Blank, 2, Blank, 1, Blank>>,
               <<0, Blank, 3, Blank, 1, Blank, 2, Blank>> >>

MCFiles ==
  {<<first, second>> : first, second \in MCLines({1, 2, 6})}
    \cup {<<line>> : line \in MCLines({1, 9})} \cup {MCLinear}
=============================================================================
