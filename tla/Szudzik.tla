------------------------------ MODULE Szudzik ------------------------------
(***************************************************************************)
(* Szudzik's pairing function (include/math/utility.hpp).  It names every  *)
(* task of the simulator from a counter and the identifier of the master   *)
(* that generates it, and it is the key of the routing table's hash map.   *)
(*                                                                         *)
(* The code takes two uint32_t and computes in uint64_t.  The operator is  *)
(* over the naturals: Numbers_proofs shows that for two arguments below W  *)
(* the result is below W^2, so with W = 2^32 nothing wraps in 64 bits.     *)
(***************************************************************************)
EXTENDS Naturals

(* Mutated form: the order of the arguments is not looked at. *)
SzudzikOneShell(x, y) == x*x + x + y

(* Mutated form: the arguments are added, so that tasks of two masters meet. *)
SzudzikSum(x, y) == x + y

Szudzik(x, y) == IF x >= y THEN x*x + x + y ELSE x + y*y
=============================================================================
