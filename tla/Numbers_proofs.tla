--------------------------- MODULE Numbers_proofs ---------------------------
(***************************************************************************)
(* Two things about numbers that the other proofs rest on.                 *)
(*                                                                         *)
(* The pairing function is injective on the naturals and its codes fit in  *)
(* twice the bits of its arguments.  The code of a pair lies in the shell  *)
(* between the squares of k and k+1, where k is the larger of the two.     *)
(*                                                                         *)
(* A sum over a finite set, as the community modules define it, is an      *)
(* integer that does not depend on the order of the elements, and changes  *)
(* by as much as one of its terms does.                                    *)
(***************************************************************************)
EXTENDS Szudzik, Integers, Functions, FiniteSetTheorems, TLAPS

Larger(x, y) == IF x >= y THEN x ELSE y

(* Squares grow with their base. *)
LEMMA SquareMonotone == ASSUME NEW x \in Nat, NEW y \in Nat, x <= y
                        PROVE  x*x <= y*y
<1>1. PICK d \in Nat : y = x + d
  <2>1. y - x \in Nat /\ y = x + (y - x)
    OBVIOUS
  <2> QED
    BY <2>1
<1>2. y*y = x*x + (2*x*d + d*d)
  BY <1>1
<1>3. x*d \in Nat /\ d*d \in Nat /\ x*x \in Nat
  OBVIOUS
<1> QED
  BY <1>2, <1>3

(* The shell in which the code of a pair lies. *)
LEMMA Shell == ASSUME NEW x \in Nat, NEW y \in Nat
               PROVE  /\ Szudzik(x, y) \in Nat
                      /\ Larger(x, y) * Larger(x, y) <= Szudzik(x, y)
                      /\ Szudzik(x, y) < (Larger(x, y) + 1) * (Larger(x, y) + 1)
<1>0. x*x \in Nat /\ y*y \in Nat
  OBVIOUS
<1>1. CASE x >= y
  <2>1. Szudzik(x, y) = x*x + x + y /\ Larger(x, y) = x
    BY <1>1 DEF Szudzik, Larger
  <2>2. (x + 1) * (x + 1) = x*x + 2*x + 1
    OBVIOUS
  <2> QED
    BY <1>0, <1>1, <2>1, <2>2
<1>2. CASE ~ (x >= y)
  <2>1. Szudzik(x, y) = x + y*y /\ Larger(x, y) = y
    BY <1>2 DEF Szudzik, Larger
  <2>2. (y + 1) * (y + 1) = y*y + 2*y + 1
    OBVIOUS
  <2> QED
    BY <1>0, <1>2, <2>1, <2>2
<1> QED
  BY <1>1, <1>2

(* Two pairs with the same code have the same larger number. *)
LEMMA SameShell == ASSUME NEW x \in Nat, NEW y \in Nat, NEW u \in Nat, NEW v \in Nat,
                          Szudzik(x, y) = Szudzik(u, v)
                   PROVE  ~ (Larger(x, y) < Larger(u, v))
<1> DEFINE k == Larger(x, y)
           l == Larger(u, v)
<1>1. k \in Nat /\ l \in Nat
  BY DEF Larger
<1>2. SUFFICES ASSUME k < l PROVE FALSE
  OBVIOUS
<1>3. (k + 1) * (k + 1) <= l * l
  <2>1. k + 1 \in Nat /\ k + 1 <= l
    BY <1>1, <1>2
  <2> HIDE DEF k, l
  <2> QED
    BY <1>1, <2>1, SquareMonotone
<1>4. Szudzik(x, y) < (k + 1) * (k + 1) /\ Szudzik(x, y) \in Nat
  BY Shell
<1>5. l * l <= Szudzik(x, y)
  BY Shell
<1>6. (k + 1) * (k + 1) \in Nat /\ l * l \in Nat
  BY <1>1
<1> HIDE DEF k, l
<1> QED
  BY <1>3, <1>4, <1>5, <1>6

(* No two pairs of naturals have the same code: tasks that are drawn from
   different counters or by different masters never share a tid, and routes
   between different services never share a slot of the routing table. *)
THEOREM SzudzikInjective ==
  ASSUME NEW x \in Nat, NEW y \in Nat, NEW u \in Nat, NEW v \in Nat,
         Szudzik(x, y) = Szudzik(u, v)
  PROVE  x = u /\ y = v
<1>1. Larger(x, y) = Larger(u, v)
  <2>1. Larger(x, y) \in Nat /\ Larger(u, v) \in Nat
    BY DEF Larger
  <2>2. ~ (Larger(x, y) < Larger(u, v)) /\ ~ (Larger(u, v) < Larger(x, y))
    BY SameShell
  <2> QED
    BY <2>1, <2>2
<1> DEFINE k == Larger(x, y)
<1>2. k \in Nat /\ k*k \in Nat
  BY DEF Larger
\* in one shell, the code tells the second number from the first
<1>3. \/ x = k /\ y <= k /\ Szudzik(x, y) = k*k + k + y
      \/ y = k /\ x < k /\ Szudzik(x, y) = x + k*k
  BY DEF Szudzik, Larger
<1>4. \/ u = k /\ v <= k /\ Szudzik(u, v) = k*k + k + v
      \/ v = k /\ u < k /\ Szudzik(u, v) = u + k*k
  BY <1>1 DEF Szudzik, Larger
<1> HIDE DEF k
<1> QED
  BY <1>2, <1>3, <1>4

(* The code of two numbers below W is below W^2: with W = 2^32 the 64-bit
   computation of szudzik() cannot wrap around. *)
THEOREM SzudzikFits ==
  ASSUME NEW W \in Nat, NEW x \in 0 .. W - 1, NEW y \in 0 .. W - 1
  PROVE  Szudzik(x, y) < W * W
<1> DEFINE k == Larger(x, y)
<1>1. k \in Nat /\ k + 1 \in Nat /\ k + 1 <= W
  BY DEF Larger
<1>2. Szudzik(x, y) < (k + 1) * (k + 1) /\ Szudzik(x, y) \in Nat
  BY Shell
<1> HIDE DEF k
<1>3. (k + 1) * (k + 1) <= W * W
  BY <1>1, SquareMonotone
<1>4. (k + 1) * (k + 1) \in Nat /\ W * W \in Nat
  BY <1>1
<1> QED
  BY <1>2, <1>3, <1>4


-----------------------------------------------------------------------------
(* Sums over finite sets.  The library has no facts about its folds: these
   follow from its definitions, by induction on the finite set, which takes
   the form of a least set without the property. *)

LEMMA LeastSet ==
  ASSUME NEW S, IsFiniteSet(S), NEW Bad \in SUBSET (SUBSET S), Bad # {}
  PROVE  \E s \in Bad : \A t \in SUBSET s : t # s => t \notin Bad
<1>1. IsWellFoundedOn(StrictSubsetOrdering(S), FiniteSubsetsOf(S))
  BY FS_StrictSubsetOrderingWellFounded
<1>2. FiniteSubsetsOf(S) = SUBSET S
  BY FS_FiniteSubsetsOfFinite
<1>3. \E s \in Bad : \A t \in Bad : <<t, s>> \notin StrictSubsetOrdering(S)
  BY <1>1, <1>2, WFMin
<1>4. \A s, t \in Bad : t \subseteq s /\ t # s => <<t, s>> \in StrictSubsetOrdering(S)
  BY DEF StrictSubsetOrdering
<1> QED
  BY <1>3, <1>4

Some(s) == CHOOSE x \in s : TRUE
Rest(s) == s \ {Some(s)}

LEMMA SomeIsIn == ASSUME NEW s, s # {} PROVE Some(s) \in s /\ Rest(s) \subseteq s /\ Rest(s) # s
<1>1. \E x \in s : TRUE
  OBVIOUS
<1>2. Some(s) \in s
  BY <1>1 DEF Some
<1> QED
  BY <1>2 DEF Rest

(* What the fold defines recursively. *)
Sums(f, S, g) == [s \in SUBSET S |-> IF s = {} THEN 0 ELSE f[Some(s)] + g[Rest(s)]]
Chosen(f, S) == CHOOSE g : g = Sums(f, S, g)

LEMMA SumIs == ASSUME NEW f, NEW S PROVE SumFunctionOnSet(f, S) = Chosen(f, S)[S]
BY DEF SumFunctionOnSet, FoldFunctionOnSet, MapThenFoldSet, Sums, Some, Rest, Chosen

(* There is such a function for s, and it gives the sums over the subsets. *)
Defined(f, s) ==
  /\ Chosen(f, s) = Sums(f, s, Chosen(f, s))
  /\ \A t \in SUBSET s : Chosen(f, s)[t] = SumFunctionOnSet(f, t)

LEMMA DefinedStep ==
  ASSUME NEW f, NEW s, IsFiniteSet(s), \A t \in SUBSET s : t # s => Defined(f, t)
  PROVE  Defined(f, s)
<1> DEFINE h == [t \in SUBSET s |-> IF t = {} THEN 0 ELSE f[Some(t)] + SumFunctionOnSet(f, Rest(t))]
           unfolds(t) == SumFunctionOnSet(f, t) =
                           IF t = {} THEN 0 ELSE f[Some(t)] + SumFunctionOnSet(f, Rest(t))
<1>1. ASSUME NEW t \in SUBSET s, t # s PROVE unfolds(t)
  <2>1. Defined(f, t)
    BY <1>1
  <2>2. Chosen(f, t)[t] = IF t = {} THEN 0 ELSE f[Some(t)] + Chosen(f, t)[Rest(t)]
    BY <2>1 DEF Defined, Sums
  <2>3. t # {} => Chosen(f, t)[Rest(t)] = SumFunctionOnSet(f, Rest(t))
    BY <2>1, SomeIsIn DEF Defined
  <2> QED
    BY <2>2, <2>3, SumIs
<1>2. \A t \in SUBSET s : t # {} => Rest(t) \in SUBSET s /\ Rest(t) # s
  BY SomeIsIn
<1>3. h = Sums(f, s, h)
  <2>1. \A t \in SUBSET s : t # {} => h[Rest(t)] = SumFunctionOnSet(f, Rest(t))
    BY <1>1, <1>2
  <2> QED
    BY <2>1 DEF Sums
<1> HIDE DEF h
<1>4. Chosen(f, s) = Sums(f, s, Chosen(f, s))
  <2>1. \E g : g = Sums(f, s, g)
    BY <1>3
  <2> QED
    BY <2>1 DEF Chosen
<1>5. \A t \in SUBSET s : Chosen(f, s)[t] = SumFunctionOnSet(f, t)
  <2> DEFINE Bad == {t \in SUBSET s : Chosen(f, s)[t] # SumFunctionOnSet(f, t)}
  <2> SUFFICES ASSUME Bad # {} PROVE FALSE
    OBVIOUS
  <2>1. PICK t \in Bad : \A u \in SUBSET t : u # t => u \notin Bad
    <3>1. Bad \in SUBSET (SUBSET s)
      OBVIOUS
    <3> HIDE DEF Bad
    <3> QED
      BY <3>1, LeastSet
  <2>2. t \in SUBSET s /\ t # s
    BY SumIs
  <2>3. Chosen(f, s)[t] = IF t = {} THEN 0 ELSE f[Some(t)] + Chosen(f, s)[Rest(t)]
    BY <1>4, <2>2 DEF Sums
  <2>4. t # {} => Chosen(f, s)[Rest(t)] = SumFunctionOnSet(f, Rest(t))
    BY <2>1, <2>2, SomeIsIn
  <2>5. unfolds(t)
    BY <1>1, <2>2
  <2> QED
    BY <2>1, <2>3, <2>4, <2>5
<1> QED
  BY <1>4, <1>5 DEF Defined

LEMMA SumDefined == ASSUME NEW f, NEW S, IsFiniteSet(S) PROVE Defined(f, S)
<1> DEFINE Bad == {t \in SUBSET S : ~ Defined(f, t)}
<1> SUFFICES ASSUME Bad # {} PROVE FALSE
  OBVIOUS
<1>1. PICK t \in Bad : \A u \in SUBSET t : u # t => u \notin Bad
  <2>1. Bad \in SUBSET (SUBSET S)
    OBVIOUS
  <2> HIDE DEF Bad
  <2> QED
    BY <2>1, LeastSet
<1>2. \A u \in SUBSET t : u # t => Defined(f, u)
  BY <1>1
<1>3. IsFiniteSet(t)
  BY <1>1, FS_Subset
<1> QED
  BY <1>1, <1>2, <1>3, DefinedStep

LEMMA SumUnfolds ==
  ASSUME NEW f, NEW S, IsFiniteSet(S)
  PROVE  SumFunctionOnSet(f, S) =
           IF S = {} THEN 0 ELSE f[Some(S)] + SumFunctionOnSet(f, Rest(S))
<1>1. Defined(f, S)
  BY SumDefined
<1>2. Chosen(f, S)[S] = IF S = {} THEN 0 ELSE f[Some(S)] + Chosen(f, S)[Rest(S)]
  BY <1>1 DEF Defined, Sums
<1>3. S # {} => Chosen(f, S)[Rest(S)] = SumFunctionOnSet(f, Rest(S))
  BY <1>1, SomeIsIn DEF Defined
<1> QED
  BY <1>2, <1>3, SumIs

LEMMA SumEmpty == ASSUME NEW f PROVE SumFunctionOnSet(f, {}) = 0
BY SumUnfolds, FS_EmptySet

(* A sum of integers is one. *)
LEMMA SumType ==
  ASSUME NEW f, NEW S, IsFiniteSet(S), \A x \in S : f[x] \in Int
  PROVE  SumFunctionOnSet(f, S) \in Int
<1> DEFINE Bad == {t \in SUBSET S : SumFunctionOnSet(f, t) \notin Int}
<1> SUFFICES ASSUME Bad # {} PROVE FALSE
  OBVIOUS
<1>1. PICK t \in Bad : \A u \in SUBSET t : u # t => u \notin Bad
  <2>1. Bad \in SUBSET (SUBSET S)
    OBVIOUS
  <2> HIDE DEF Bad
  <2> QED
    BY <2>1, LeastSet
<1>2. t \in SUBSET S /\ IsFiniteSet(t)
  BY <1>1, FS_Subset
<1>3. CASE t = {}
  BY <1>1, <1>3, SumEmpty
<1>4. CASE t # {}
  <2>1. Some(t) \in t /\ Rest(t) \in SUBSET t /\ Rest(t) # t
    BY <1>4, SomeIsIn
  <2>2. SumFunctionOnSet(f, Rest(t)) \in Int /\ f[Some(t)] \in Int
    BY <1>1, <1>2, <2>1
  <2>3. SumFunctionOnSet(f, t) = f[Some(t)] + SumFunctionOnSet(f, Rest(t))
    BY <1>2, <1>4, SumUnfolds
  <2> QED
    BY <1>1, <2>2, <2>3
<1> QED
  BY <1>3, <1>4

(* The order in which the elements are added does not matter. *)
LEMMA SumSplits ==
  ASSUME NEW f, NEW S, IsFiniteSet(S), \A x \in S : f[x] \in Int, NEW y \in S
  PROVE  SumFunctionOnSet(f, S) = f[y] + SumFunctionOnSet(f, S \ {y})
<1> DEFINE splits(t) == \A x \in t : SumFunctionOnSet(f, t) = f[x] + SumFunctionOnSet(f, t \ {x})
           Bad == {t \in SUBSET S : ~ splits(t)}
<1> SUFFICES ASSUME Bad # {} PROVE FALSE
  OBVIOUS
<1>1. PICK t \in Bad : \A u \in SUBSET t : u # t => u \notin Bad
  <2>1. Bad \in SUBSET (SUBSET S)
    OBVIOUS
  <2> HIDE DEF Bad
  <2> QED
    BY <2>1, LeastSet
<1>2. t \in SUBSET S /\ IsFiniteSet(t)
  BY <1>1, FS_Subset
<1>3. PICK x \in t : SumFunctionOnSet(f, t) # f[x] + SumFunctionOnSet(f, t \ {x})
  BY <1>1
<1> DEFINE c == Some(t)
<1>4. c \in t /\ Rest(t) = t \ {c}
  BY SomeIsIn DEF Rest
<1>5. SumFunctionOnSet(f, t) = f[c] + SumFunctionOnSet(f, t \ {c})
  BY <1>2, <1>4, SumUnfolds
<1> HIDE DEF c
<1>6. x # c
  BY <1>3, <1>5
<1>7. splits(t \ {c}) /\ splits(t \ {x})
  BY <1>1, <1>2, <1>4
<1>8. SumFunctionOnSet(f, t \ {c}) = f[x] + SumFunctionOnSet(f, (t \ {c}) \ {x})
  BY <1>6, <1>7
<1>9. SumFunctionOnSet(f, t \ {x}) = f[c] + SumFunctionOnSet(f, (t \ {x}) \ {c})
  BY <1>4, <1>6, <1>7
<1>10. (t \ {c}) \ {x} = (t \ {x}) \ {c}
  OBVIOUS
<1>11. f[x] \in Int /\ f[c] \in Int /\ SumFunctionOnSet(f, (t \ {x}) \ {c}) \in Int
  <2>1. IsFiniteSet((t \ {x}) \ {c}) /\ \A z \in (t \ {x}) \ {c} : f[z] \in Int
    BY <1>2, FS_Subset
  <2> QED
    BY <1>2, <1>4, <2>1, SumType
<1> DEFINE rest == SumFunctionOnSet(f, (t \ {x}) \ {c})
<1>12. SumFunctionOnSet(f, t) = f[c] + (f[x] + rest)
  BY <1>5, <1>8, <1>10
<1>13. SumFunctionOnSet(f, t \ {x}) = f[c] + rest
  BY <1>9
<1> HIDE DEF rest
<1>14. SumFunctionOnSet(f, t) = f[x] + SumFunctionOnSet(f, t \ {x})
  BY <1>11, <1>12, <1>13 DEF rest
<1> QED
  BY <1>3, <1>14

LEMMA SumAdds ==
  ASSUME NEW f, NEW S, IsFiniteSet(S), NEW y, y \notin S, \A x \in S \cup {y} : f[x] \in Int
  PROVE  SumFunctionOnSet(f, S \cup {y}) = SumFunctionOnSet(f, S) + f[y]
<1>1. IsFiniteSet(S \cup {y})
  BY FS_AddElement
<1>2. (S \cup {y}) \ {y} = S
  OBVIOUS
<1>3. SumFunctionOnSet(f, S \cup {y}) = f[y] + SumFunctionOnSet(f, S)
  BY <1>1, <1>2, SumSplits
<1> QED
  BY <1>3, SumType

(* Functions that agree on a set have the same sum over it. *)
LEMMA SumAgrees ==
  ASSUME NEW f, NEW g, NEW S, IsFiniteSet(S), \A x \in S : f[x] = g[x]
  PROVE  SumFunctionOnSet(f, S) = SumFunctionOnSet(g, S)
<1> DEFINE Bad == {t \in SUBSET S : SumFunctionOnSet(f, t) # SumFunctionOnSet(g, t)}
<1> SUFFICES ASSUME Bad # {} PROVE FALSE
  OBVIOUS
<1>1. PICK t \in Bad : \A u \in SUBSET t : u # t => u \notin Bad
  <2>1. Bad \in SUBSET (SUBSET S)
    OBVIOUS
  <2> HIDE DEF Bad
  <2> QED
    BY <2>1, LeastSet
<1>2. t \in SUBSET S /\ IsFiniteSet(t)
  BY <1>1, FS_Subset
<1>3. CASE t = {}
  BY <1>1, <1>3, SumEmpty
<1>4. CASE t # {}
  <2>1. Some(t) \in t /\ Rest(t) \in SUBSET t /\ Rest(t) # t
    BY <1>4, SomeIsIn
  <2>2. /\ SumFunctionOnSet(f, Rest(t)) = SumFunctionOnSet(g, Rest(t))
        /\ f[Some(t)] = g[Some(t)]
    BY <1>1, <1>2, <2>1
  <2>3. /\ SumFunctionOnSet(f, t) = f[Some(t)] + SumFunctionOnSet(f, Rest(t))
        /\ SumFunctionOnSet(g, t) = g[Some(t)] + SumFunctionOnSet(g, Rest(t))
    BY <1>2, <1>4, SumUnfolds
  <2> QED
    BY <1>1, <2>2, <2>3
<1> QED
  BY <1>3, <1>4

(* Where two functions differ at one element, so do their sums. *)
LEMMA SumChanges ==
  ASSUME NEW f, NEW g, NEW S, IsFiniteSet(S), NEW y \in S,
         \A x \in S : f[x] \in Int /\ g[x] \in Int,
         \A x \in S \ {y} : f[x] = g[x]
  PROVE  SumFunctionOnSet(g, S) = SumFunctionOnSet(f, S) + g[y] - f[y]
<1>1. IsFiniteSet(S \ {y})
  BY FS_Subset
<1>2. SumFunctionOnSet(f, S \ {y}) = SumFunctionOnSet(g, S \ {y})
  BY <1>1, SumAgrees
<1>3. /\ SumFunctionOnSet(f, S) = f[y] + SumFunctionOnSet(f, S \ {y})
      /\ SumFunctionOnSet(g, S) = g[y] + SumFunctionOnSet(g, S \ {y})
  BY SumSplits
<1>4. SumFunctionOnSet(f, S \ {y}) \in Int
  BY <1>1, SumType
<1> QED
  BY <1>2, <1>3, <1>4


(* A sum of naturals is one. *)
LEMMA SumNat ==
  ASSUME NEW f, NEW S, IsFiniteSet(S), \A x \in S : f[x] \in Nat
  PROVE  SumFunctionOnSet(f, S) \in Nat
<1> DEFINE Bad == {t \in SUBSET S : SumFunctionOnSet(f, t) \notin Nat}
<1> SUFFICES ASSUME Bad # {} PROVE FALSE
  OBVIOUS
<1>1. PICK t \in Bad : \A u \in SUBSET t : u # t => u \notin Bad
  <2>1. Bad \in SUBSET (SUBSET S)
    OBVIOUS
  <2> HIDE DEF Bad
  <2> QED
    BY <2>1, LeastSet
<1>2. t \in SUBSET S /\ IsFiniteSet(t)
  BY <1>1, FS_Subset
<1>3. t # {}
  <2>1. SumFunctionOnSet(f, {}) = 0
    BY SumEmpty
  <2>2. {} \notin Bad
    BY <2>1
  <2> HIDE DEF Bad
  <2> QED
    BY <1>1, <2>2
<1>4. Some(t) \in t /\ Rest(t) \in SUBSET t /\ Rest(t) # t
  BY <1>3, SomeIsIn
<1>5. SumFunctionOnSet(f, Rest(t)) \in Nat /\ f[Some(t)] \in Nat
  BY <1>1, <1>2, <1>4
<1>6. SumFunctionOnSet(f, t) = f[Some(t)] + SumFunctionOnSet(f, Rest(t))
  BY <1>2, <1>3, SumUnfolds
<1> QED
  BY <1>1, <1>5, <1>6

(* A sum of zeros. *)
LEMMA SumZero ==
  ASSUME NEW f, NEW S, IsFiniteSet(S), \A x \in S : f[x] = 0
  PROVE  SumFunctionOnSet(f, S) = 0
<1> DEFINE Bad == {t \in SUBSET S : SumFunctionOnSet(f, t) # 0}
<1> SUFFICES ASSUME Bad # {} PROVE FALSE
  OBVIOUS
<1>1. PICK t \in Bad : \A u \in SUBSET t : u # t => u \notin Bad
  <2>1. Bad \in SUBSET (SUBSET S)
    OBVIOUS
  <2> HIDE DEF Bad
  <2> QED
    BY <2>1, LeastSet
<1>2. t \in SUBSET S /\ IsFiniteSet(t)
  BY <1>1, FS_Subset
<1>3. t # {}
  <2>1. SumFunctionOnSet(f, {}) = 0
    BY SumEmpty
  <2>2. {} \notin Bad
    BY <2>1
  <2> HIDE DEF Bad
  <2> QED
    BY <1>1, <2>2
<1>4. Some(t) \in t /\ Rest(t) \in SUBSET t /\ Rest(t) # t
  BY <1>3, SomeIsIn
<1>5. SumFunctionOnSet(f, Rest(t)) = 0 /\ f[Some(t)] = 0
  BY <1>1, <1>2, <1>4
<1>6. SumFunctionOnSet(f, t) = f[Some(t)] + SumFunctionOnSet(f, Rest(t))
  BY <1>2, <1>3, SumUnfolds
<1> QED
  BY <1>1, <1>5, <1>6


(* Adding what counts nothing changes no sum. *)
LEMMA SumAddsNothing ==
  ASSUME NEW f, NEW S, IsFiniteSet(S), NEW T, IsFiniteSet(T),
         \A x \in S \cup T : f[x] \in Int, \A x \in T : f[x] = 0
  PROVE  SumFunctionOnSet(f, S \cup T) = SumFunctionOnSet(f, S)
<1> DEFINE Bad == {t \in SUBSET T : SumFunctionOnSet(f, S \cup t) # SumFunctionOnSet(f, S)}
<1> SUFFICES ASSUME Bad # {} PROVE FALSE
  <2> HIDE DEF Bad
  <2>1. SUFFICES ASSUME T \notin Bad PROVE SumFunctionOnSet(f, S \cup T) = SumFunctionOnSet(f, S)
    OBVIOUS
  <2> QED
    BY <2>1 DEF Bad
<1>1. PICK t \in Bad : \A u \in SUBSET t : u # t => u \notin Bad
  <2>1. Bad \in SUBSET (SUBSET T)
    OBVIOUS
  <2> HIDE DEF Bad
  <2> QED
    BY <2>1, LeastSet
<1>2. t \in SUBSET T /\ SumFunctionOnSet(f, S \cup t) # SumFunctionOnSet(f, S)
  OBVIOUS
<1>3. t # {}
  <2>1. S \cup {} = S
    OBVIOUS
  <2> QED
    BY <1>2, <2>1
<1>4. PICK y : y \in t
  BY <1>3
<1> DEFINE rest == t \ {y}
<1>5. rest \in SUBSET t /\ rest # t /\ rest \in SUBSET T
  BY <1>2, <1>4
<1>6. SumFunctionOnSet(f, S \cup rest) = SumFunctionOnSet(f, S)
  BY <1>1, <1>5
<1>7. S \cup t = (S \cup rest) \cup {y}
  BY <1>4
<1>8. IsFiniteSet(S \cup rest)
  <2>1. IsFiniteSet(rest)
    BY <1>5, FS_Subset
  <2> QED
    BY <2>1, FS_Union
<1>9. f[y] = 0 /\ \A x \in (S \cup rest) \cup {y} : f[x] \in Int
  BY <1>2, <1>4, <1>5
<1> HIDE DEF rest, Bad
<1>10. CASE y \in S \cup rest
  <2>1. (S \cup rest) \cup {y} = S \cup rest
    BY <1>10
  <2> QED
    BY <1>2, <1>6, <1>7, <2>1
<1>11. CASE y \notin S \cup rest
  <2>1. SumFunctionOnSet(f, (S \cup rest) \cup {y}) = SumFunctionOnSet(f, S \cup rest) + f[y]
    BY <1>8, <1>9, <1>11, SumAdds
  <2>2. SumFunctionOnSet(f, S \cup rest) \in Int
    BY <1>8, <1>9, SumType
  <2>3. SumFunctionOnSet(f, S \cup t) = SumFunctionOnSet(f, S \cup rest) + 0
    BY <1>7, <1>9, <2>1
  <2> QED
    BY <1>2, <1>6, <2>2, <2>3
<1> QED
  BY <1>10, <1>11


(* A set that is divided into parts has as many elements as the parts together. *)
Within(S, part, Q) == {x \in S : part[x] \in Q}

LEMMA WithinFinite ==
  ASSUME NEW S, IsFiniteSet(S), NEW part, NEW Q
  PROVE  IsFiniteSet(Within(S, part, Q)) /\ Cardinality(Within(S, part, Q)) \in Nat
<1>1. Within(S, part, Q) \in SUBSET S
  BY DEF Within
<1>2. IsFiniteSet(Within(S, part, Q))
  BY <1>1, FS_Subset
<1> QED
  BY <1>2, FS_CardinalityType

LEMMA OneMorePart ==
  ASSUME NEW S, IsFiniteSet(S), NEW part, NEW Q, NEW p \in Q
  PROVE  Cardinality(Within(S, part, Q)) =
           Cardinality(Within(S, part, Q \ {p})) + Cardinality(Within(S, part, {p}))
<1> DEFINE others == Within(S, part, Q \ {p})
           one    == Within(S, part, {p})
<1>1. Within(S, part, Q) = others \cup one /\ others \cap one = {}
  BY DEF Within
<1>2. /\ IsFiniteSet(others) /\ Cardinality(others) \in Nat
      /\ IsFiniteSet(one) /\ Cardinality(one) \in Nat
  BY WithinFinite
<1> HIDE DEF others, one
<1>3. Cardinality(others \cup one)
        = Cardinality(others) + Cardinality(one) - Cardinality(others \cap one)
  BY <1>2, FS_Union
<1>4. Cardinality(others \cap one) = 0
  BY <1>1, FS_EmptySet
<1>5. Cardinality(Within(S, part, Q)) = Cardinality(others) + Cardinality(one)
  BY <1>1, <1>2, <1>3, <1>4
<1> QED
  BY <1>5 DEF others, one

LEMMA SumOfParts ==
  ASSUME NEW S, IsFiniteSet(S), NEW P, IsFiniteSet(P), NEW part, NEW size,
         \A x \in S : part[x] \in P,
         \A p \in P : size[p] = Cardinality({x \in S : part[x] = p})
  PROVE  Cardinality(S) = SumFunctionOnSet(size, P)
<1> DEFINE Bad == {Q \in SUBSET P : Cardinality(Within(S, part, Q)) # SumFunctionOnSet(size, Q)}
<1>1. \A p \in P : size[p] = Cardinality(Within(S, part, {p})) /\ size[p] \in Int
  <2> TAKE p \in P
  <2>1. {x \in S : part[x] = p} = Within(S, part, {p})
    BY DEF Within
  <2>2. Cardinality(Within(S, part, {p})) \in Nat
    BY WithinFinite
  <2> QED
    BY <2>1, <2>2
<1>2. ASSUME Bad # {} PROVE FALSE
  <2>1. PICK Q \in Bad : \A R \in SUBSET Q : R # Q => R \notin Bad
    <3>1. Bad \in SUBSET (SUBSET P)
      OBVIOUS
    <3> HIDE DEF Bad
    <3> QED
      BY <1>2, <3>1, LeastSet
  <2>2. Q \in SUBSET P /\ IsFiniteSet(Q)
    BY <2>1, FS_Subset
  <2>3. Q # {}
    <3>1. Within(S, part, {}) = {} /\ SumFunctionOnSet(size, {}) = 0 /\ Cardinality({}) = 0
      BY SumEmpty, FS_EmptySet DEF Within
    <3>2. {} \notin Bad
      BY <3>1
    <3> HIDE DEF Bad
    <3> QED
      BY <2>1, <3>2
  <2>4. PICK p \in Q : TRUE
    BY <2>3
  <2>5. Q \ {p} \in SUBSET Q /\ Q \ {p} # Q /\ Q \ {p} \in SUBSET P
    BY <2>2, <2>4
  <2>6. Cardinality(Within(S, part, Q \ {p})) = SumFunctionOnSet(size, Q \ {p})
    BY <2>1, <2>5
  <2>7. SumFunctionOnSet(size, Q) = size[p] + SumFunctionOnSet(size, Q \ {p})
    <3>1. \A x \in Q : size[x] \in Int
      BY <1>1, <2>2
    <3> QED
      BY <2>2, <2>4, <3>1, SumSplits
  <2>8. Cardinality(Within(S, part, Q)) =
          Cardinality(Within(S, part, Q \ {p})) + Cardinality(Within(S, part, {p}))
    BY <2>4, OneMorePart
  <2>9. /\ size[p] = Cardinality(Within(S, part, {p})) /\ size[p] \in Int
        /\ Cardinality(Within(S, part, Q \ {p})) \in Nat
    BY <1>1, <2>2, <2>4, WithinFinite
  <2>10. Cardinality(Within(S, part, Q)) = SumFunctionOnSet(size, Q)
    BY <2>6, <2>7, <2>8, <2>9
  <2> QED
    BY <2>1, <2>10
<1>3. P \notin Bad
  BY <1>2
<1>4. Cardinality(Within(S, part, P)) = SumFunctionOnSet(size, P)
  BY <1>3
<1>5. Within(S, part, P) = S
  BY DEF Within
<1> QED
  BY <1>4, <1>5
=============================================================================
