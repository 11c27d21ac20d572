------------------------ MODULE RoutingTable_proofs -------------------------
(***************************************************************************)
(* The reader of route files never writes beside the array of a route, it  *)
(* accepts exactly the lines of the grammar, and the table it leaves is    *)
(* the file, for every file and every size of an identifier.               *)
(*                                                                         *)
(* The loop is at part number p of the line when pos = 2p.  Each part it   *)
(* has passed was a number and ended in a blank, so that p blanks are      *)
(* behind it as long as there is something left to parse; the array has    *)
(* one element less than the line has blanks, and the loop writes element  *)
(* p - 2.                                                                  *)
(***************************************************************************)
EXTENDS RoutingTable, Numbers_proofs

(* The blanks among the first j tokens of a line. *)
BlanksUpTo(line, j) == {i \in 1 .. j : line[i] = Blank}

(* The i-th identifier of a line. *)
IdOf(line, i) == line[2 * i - 1] % IdMod

(* The loop has read p parts of the line. *)
Parsed(line, p) ==
  /\ 2 * p <= Len(line) + 1
  /\ \A i \in 1 .. p : Readable(line[2 * i - 1])
  /\ 2 * p <= Len(line) => Cardinality(BlanksUpTo(line, 2 * p)) = p
  /\ 2 * p = Len(line) + 1 => BlankCount(line) = p - 1

Stored(line, p) ==
  /\ p >= 1 => src = IdOf(line, 1)
  /\ p >= 2 => dest = IdOf(line, 2)
  /\ \A i \in 3 .. p : path[i - 2] = IdOf(line, i)

InLoop(line, p) ==
  /\ pos = 2 * p /\ Parsed(line, p) /\ Stored(line, p)
  /\ stage = "SOURCE_VERTEX"      => p = 0 /\ pathIndex = 0
  /\ stage = "DESTINATION_VERTEX" => p = 1 /\ pathIndex = 0
  /\ stage = "INNER_VERTEX"       => p >= 2 /\ pathIndex = p - 2
  /\ Len(path) = PathLength(line)

(* The table t has the routes of the first lines, up to number last, of file f:
   under each key the route of a line that has it. *)
Key(line) == Szudzik(IdOf(line, 1), IdOf(line, 2))

IsRouteOf(route, f, last, key) ==
  \E k \in 1 .. last : Key(f[k]) = key /\ IsRoute(route, f[k])

CompleteTo(f, last) == \A k \in 1 .. last : Len(Identifiers(f[k])) >= 2

TableOf(t, f, last) ==
  /\ \A k \in 1 .. last : Key(f[k]) \in DOMAIN t
  /\ \A key \in DOMAIN t : IsRouteOf(t[key], f, last, key)

(* How many lines are in the table. *)
Last == IF stage = "NONE" /\ status \in {"reading", "closed"} THEN n ELSE n - 1

ReaderInv ==
  /\ file \in Files /\ n \in 0 .. Len(file) /\ stage \in Stages /\ path \in Seq(Ids)
  /\ NoOverrun /\ ReadsGrammar
  /\ stage # "NONE" => n > 0
  /\ status = "opening" => stage = "NONE" /\ n = 0
  /\ stage # "NONE" /\ status = "reading" => \E p \in Nat : InLoop(file[n], p)
  /\ CompleteTo(file, Last) => TableOf(table, file, Last)

-----------------------------------------------------------------------------
LEMMA LineType ==
  ASSUME NEW f \in Files, NEW k \in 1 .. Len(f)
  PROVE  /\ f[k] \in Lines /\ Len(f[k]) \in Nat /\ DOMAIN f[k] = 1 .. Len(f[k])
         /\ \A i \in 1 .. Len(f[k]) - 1 : f[k][i] = Blank \/ f[k][i + 1] = Blank
         /\ \A i \in DOMAIN f[k] : f[k][i] # Blank => f[k][i] \in Nat
BY RoutingTableAssumption DEF Lines

(* Blanks are finitely many, and a longer prefix of a line has at least as
   many of them; one more where it ends in a blank. *)
LEMMA BlanksType ==
  ASSUME NEW line \in Lines, NEW j \in Nat, j <= Len(line)
  PROVE  /\ IsFiniteSet(BlanksUpTo(line, j))
         /\ Cardinality(BlanksUpTo(line, j)) \in Nat
         /\ BlankCount(line) \in Nat
         /\ Cardinality(BlanksUpTo(line, j)) <= BlankCount(line)
<1> DEFINE blanks == {i \in DOMAIN line : line[i] = Blank}
<1>1. DOMAIN line = 1 .. Len(line) /\ Len(line) \in Nat
  BY DEF Lines
<1>2. IsFiniteSet(1 .. Len(line))
  BY <1>1, FS_Interval
<1>3. IsFiniteSet(blanks)
  BY <1>1, <1>2, FS_Subset
<1>4. BlanksUpTo(line, j) \subseteq blanks
  BY <1>1 DEF BlanksUpTo
<1> QED
  BY <1>3, <1>4, FS_Subset, FS_CardinalityType DEF BlankCount

LEMMA OneMoreBlank ==
  ASSUME NEW line \in Lines, NEW j \in Nat, j + 2 <= Len(line),
         line[j + 1] # Blank, line[j + 2] = Blank
  PROVE  Cardinality(BlanksUpTo(line, j + 2)) = Cardinality(BlanksUpTo(line, j)) + 1
<1>1. Len(line) \in Nat
  BY DEF Lines
<1>2. IsFiniteSet(BlanksUpTo(line, j)) /\ Cardinality(BlanksUpTo(line, j)) \in Nat
  BY <1>1, BlanksType
<1>3. j + 2 \notin BlanksUpTo(line, j)
  BY DEF BlanksUpTo
<1>4. BlanksUpTo(line, j + 2) = BlanksUpTo(line, j) \cup {j + 2}
  BY DEF BlanksUpTo
<1> QED
  BY <1>2, <1>3, <1>4, FS_AddElement

(* Before the first part there is nothing behind the loop. *)
LEMMA NoBlanks == ASSUME NEW line PROVE Cardinality(BlanksUpTo(line, 0)) = 0
<1>1. BlanksUpTo(line, 0) = {}
  BY DEF BlanksUpTo
<1> QED
  BY <1>1, FS_EmptySet

LEMMA AllBlanks == ASSUME NEW line \in Lines PROVE BlanksUpTo(line, Len(line)) = {i \in DOMAIN line : line[i] = Blank}
BY DEF BlanksUpTo, Lines

(* A line that has a last part without a blank after it. *)
LEMMA LastPart ==
  ASSUME NEW line \in Lines, NEW p \in Nat, 2 * p + 1 = Len(line),
         line[2 * p + 1] # Blank, Cardinality(BlanksUpTo(line, 2 * p)) = p
  PROVE  BlankCount(line) = p
<1>1. BlanksUpTo(line, Len(line)) = BlanksUpTo(line, 2 * p)
  BY DEF BlanksUpTo
<1> QED
  BY <1>1, AllBlanks DEF BlankCount

(* One part more. *)
LEMMA PartParsed ==
  ASSUME NEW f \in Files, NEW k \in 1 .. Len(f), NEW p \in Nat, Parsed(f[k], p),
         2 * p < Len(f[k]), Readable(f[k][2 * p + 1])
  PROVE  Parsed(f[k], p + 1)
<1> DEFINE line == f[k]
<1>1. line \in Lines /\ Len(line) \in Nat
  BY LineType
<1>2. 2 * (p + 1) <= Len(line) => line[2 * p + 2] = Blank
  <2>1. 2 * (p + 1) <= Len(line) => 2 * p + 1 \in 1 .. Len(line) - 1 /\ 2 * p + 1 + 1 = 2 * p + 2
    BY <1>1
  <2> QED
    BY <2>1, LineType DEF Readable
<1> HIDE DEF line
<1>3. /\ \A i \in 1 .. p : Readable(line[2 * i - 1])
      /\ Cardinality(BlanksUpTo(line, 2 * p)) = p
      /\ Readable(line[2 * p + 1]) /\ line[2 * p + 1] # Blank
      /\ 2 * p < Len(line)
  BY <1>1 DEF Parsed, Readable, line
<1>4. \A i \in 1 .. p + 1 : Readable(line[2 * i - 1])
  <2>1. \A i \in 1 .. p + 1 : i \in 1 .. p \/ (i = p + 1 /\ 2 * i - 1 = 2 * p + 1)
    OBVIOUS
  <2> QED
    BY <1>3, <2>1
<1>5. ASSUME 2 * (p + 1) <= Len(line)
      PROVE  Cardinality(BlanksUpTo(line, 2 * (p + 1))) = p + 1
  <2>1. PICK j \in Nat : j = 2 * p
    OBVIOUS
  <2>2. j + 2 <= Len(line) /\ line[j + 1] # Blank /\ line[j + 2] = Blank
    BY <1>1, <1>2, <1>3, <1>5, <2>1
  <2>3. Cardinality(BlanksUpTo(line, j + 2)) = Cardinality(BlanksUpTo(line, j)) + 1
    BY <1>1, <2>2, OneMoreBlank
  <2>4. j + 2 = 2 * (p + 1)
    BY <2>1
  <2> QED
    BY <1>3, <2>1, <2>3, <2>4
<1>6. ASSUME 2 * (p + 1) = Len(line) + 1 PROVE BlankCount(line) = p
  BY <1>1, <1>3, <1>6, LastPart
<1>7. 2 * (p + 1) <= Len(line) + 1
  BY <1>1, <1>3
<1> QED
  BY <1>1, <1>4, <1>5, <1>6, <1>7 DEF Parsed, line

(* Where something is left to parse, the array has room for the identifier
   of the next part. *)
LEMMA RoomLeft ==
  ASSUME NEW line \in Lines, NEW p \in Nat, Parsed(line, p), 2 * p < Len(line)
  PROVE  PathLength(line) > p - 2
<1>1. Len(line) \in Nat
  BY DEF Lines
<1>2. Cardinality(BlanksUpTo(line, 2 * p)) = p
  BY <1>1 DEF Parsed
<1>3. Cardinality(BlanksUpTo(line, 2 * p)) <= BlankCount(line) /\ BlankCount(line) \in Nat
  <2>1. PICK j \in Nat : j = 2 * p
    OBVIOUS
  <2>2. Cardinality(BlanksUpTo(line, j)) <= BlankCount(line) /\ BlankCount(line) \in Nat
    BY <1>1, <2>1, BlanksType
  <2> QED
    BY <2>1, <2>2
<1> QED
  BY <1>2, <1>3 DEF PathLength

(* At the end of a line: it is of the grammar, and the array has the length
   of its route. *)
LEMMA AtEnd ==
  ASSUME NEW f \in Files, NEW k \in 1 .. Len(f), NEW p \in Nat, Parsed(f[k], p),
         ~ 2 * p < Len(f[k]), PathLength(f[k]) >= 0
  PROVE  /\ Accepted(f[k]) /\ p >= 1
         /\ Len(Identifiers(f[k])) = p /\ DOMAIN Identifiers(f[k]) = 1 .. p
         /\ PathLength(f[k]) = p - 2 + (IF EndsWithBlank(f[k]) THEN 1 ELSE 0)
<1> DEFINE line == f[k]
           L == Len(line)
<1>1. /\ line \in Lines /\ L \in Nat /\ DOMAIN line = 1 .. L
      /\ \A i \in 1 .. L - 1 : line[i] = Blank \/ line[i + 1] = Blank
  BY LineType
<1>2. 2 * p = L \/ 2 * p = L + 1
  BY <1>1 DEF Parsed
<1>3. BlankCount(line) >= 1 /\ BlankCount(line) \in Nat
  <2>1. PICK j \in Nat : j = L
    BY <1>1
  <2>2. BlankCount(line) \in Nat
    BY <1>1, <2>1, BlanksType
  <2> QED
    BY <2>2 DEF PathLength
<1>4. BlankCount(line) = IF 2 * p = L THEN p ELSE p - 1
  <2>1. CASE 2 * p = L
    <3>1. Cardinality(BlanksUpTo(line, L)) = p
      BY <1>1, <2>1 DEF Parsed
    <3>2. BlankCount(line) = p
      <4> HIDE DEF line
      <4> QED
        BY <1>1, <3>1, AllBlanks DEF BlankCount
    <3> QED
      BY <2>1, <3>2
  <2>2. CASE 2 * p = L + 1
    BY <1>1, <2>2 DEF Parsed
  <2> QED
    BY <1>2, <2>1, <2>2
<1>5. p >= 1
  BY <1>1, <1>2, <1>3, <1>4
<1>6. \A i \in 1 .. p : Readable(line[2 * i - 1]) /\ line[2 * i - 1] # Blank
  BY DEF Parsed, Readable
<1> HIDE DEF line, L
<1>7. \E i \in DOMAIN line : line[i] = Blank
  <2>1. SUFFICES ASSUME \A i \in DOMAIN line : line[i] # Blank PROVE FALSE
    OBVIOUS
  <2>2. {i \in DOMAIN line : line[i] = Blank} = {}
    BY <2>1
  <2>3. Cardinality({}) = 0
    BY FS_EmptySet
  <2>4. BlankCount(line) = 0
    BY <2>2, <2>3 DEF BlankCount
  <2> QED
    BY <1>3, <2>4
<1>8. ASSUME NEW i \in DOMAIN line
      PROVE  /\ line[i] = Blank => i > 1 /\ line[i - 1] # Blank
             /\ line[i] # Blank => line[i] < LongMod
  <2>1. i \in 1 .. L
    BY <1>1
  <2>2. PICK h \in 1 .. p : i = 2 * h \/ i = 2 * h - 1
    <3>1. PICK x \in Nat : x = i + 1
      BY <2>1
    <3>2. x = 2 * (x \div 2) + (x % 2) /\ x \div 2 \in Nat /\ x % 2 \in 0 .. 1
      OBVIOUS
    <3>3. PICK h \in Nat : i = 2 * h \/ i = 2 * h - 1
      <4>1. PICK h \in Nat : x = 2 * h \/ x = 2 * h + 1
        BY <3>2
      <4> QED
        BY <2>1, <3>1, <4>1
    <3>4. h \in 1 .. p
      BY <1>1, <1>2, <2>1, <3>3
    <3> QED
      BY <3>3, <3>4
  <2>3. CASE i = 2 * h
    <3>1. i - 1 = 2 * h - 1 /\ i - 1 \in 1 .. L - 1 /\ i - 1 + 1 = i
      BY <1>1, <2>1, <2>2, <2>3
    <3>2. line[i - 1] # Blank
      BY <1>6, <2>2, <3>1
    <3>3. line[i] = Blank
      BY <1>1, <3>1, <3>2
    <3> QED
      BY <2>3, <3>2, <3>3
  <2>4. CASE i = 2 * h - 1
    BY <1>6, <2>2, <2>4 DEF Readable
  <2> QED
    BY <2>2, <2>3, <2>4
<1>9. (L + 1) \div 2 = p
  <2>1. L + 1 = 2 * p \/ L + 1 = 2 * p + 1
    BY <1>1, <1>2
  <2>2. (2 * p) \div 2 = p /\ (2 * p + 1) \div 2 = p
    OBVIOUS
  <2> QED
    BY <2>1, <2>2
<1>10. Len(Identifiers(line)) = p /\ DOMAIN Identifiers(line) = 1 .. p
  BY <1>9 DEF Identifiers, L
<1>11. EndsWithBlank(line) <=> 2 * p = L
  <2>1. CASE 2 * p = L
    <3>1. line[L] = Blank
      <4>1. PICK j \in 1 .. L - 1 : j = 2 * p - 1 /\ j + 1 = L
        BY <1>5, <2>1
      <4>2. line[j] # Blank
        BY <1>5, <1>6, <4>1
      <4> QED
        BY <1>1, <4>1, <4>2
    <3>2. line # <<>>
      BY <1>1, <1>5, <2>1
    <3> QED
      BY <2>1, <3>1, <3>2 DEF EndsWithBlank, L
  <2>2. CASE 2 * p = L + 1
    <3>1. L = 2 * p - 1 /\ p \in 1 .. p
      BY <1>1, <1>5, <2>2
    <3>2. line[L] # Blank
      BY <1>6, <3>1
    <3>3. 2 * p # L
      BY <3>1
    <3> QED
      BY <3>2, <3>3 DEF EndsWithBlank, L
  <2> QED
    BY <1>2, <2>1, <2>2
<1>12. PathLength(line) = p - 2 + (IF EndsWithBlank(line) THEN 1 ELSE 0)
  BY <1>4, <1>11 DEF PathLength
<1> QED
  BY <1>5, <1>7, <1>8, <1>10, <1>12 DEF Accepted, line, L

(* A line that stops the loop is not of the grammar. *)
LEMMA NotAccepted ==
  ASSUME NEW f \in Files, NEW k \in 1 .. Len(f), NEW p \in Nat, Parsed(f[k], p),
         2 * p < Len(f[k]), ~ Readable(f[k][2 * p + 1])
  PROVE  ~ Accepted(f[k])
<1> DEFINE line == f[k]
<1>1. /\ Len(line) \in Nat /\ DOMAIN line = 1 .. Len(line)
      /\ \A i \in 1 .. Len(line) - 1 : line[i] = Blank \/ line[i + 1] = Blank
  BY LineType
<1>2. CASE line[2 * p + 1] # Blank
  <2>1. 2 * p + 1 \in DOMAIN line /\ ~ line[2 * p + 1] < LongMod
    BY <1>1, <1>2 DEF Readable
  <2> QED
    BY <1>2, <2>1 DEF Accepted
<1>3. CASE line[2 * p + 1] = Blank /\ p = 0
  <2>1. 1 \in DOMAIN line /\ line[1] = Blank
    BY <1>1, <1>3
  <2>2. Accepted(line) => 1 > 1
    <3> HIDE DEF line
    <3> QED
      BY <2>1 DEF Accepted
  <2> QED
    BY <2>2
<1>4. CASE line[2 * p + 1] = Blank /\ p > 0
  <2>1. line[2 * p - 1] # Blank
    BY <1>4 DEF Parsed, Readable
  <2>2. 2 * p - 1 \in 1 .. Len(line) - 1 /\ 2 * p - 1 + 1 = 2 * p
    BY <1>1, <1>4
  <2>3. line[2 * p] = Blank
    BY <1>1, <2>1, <2>2
  <2>4. 2 * p + 1 \in DOMAIN line /\ 2 * p + 1 - 1 = 2 * p
    BY <1>1
  <2> QED
    <3>1. PICK i \in DOMAIN line : i = 2 * p + 1 /\ i - 1 = 2 * p
      BY <2>4
    <3>2. line[i] = Blank /\ line[i - 1] = Blank
      BY <1>4, <2>3, <3>1
    <3> QED
      BY <3>2 DEF Accepted
<1> QED
  BY <1>2, <1>3, <1>4


-----------------------------------------------------------------------------
(* The table. *)

LEMMA IdType ==
  ASSUME NEW f \in Files, NEW k \in 1 .. Len(f), NEW i \in Nat \ {0},
         2 * i - 1 <= Len(f[k]), f[k][2 * i - 1] # Blank
  PROVE  IdOf(f[k], i) \in Ids
<1>1. PICK j \in 1 .. Len(f[k]) : j = 2 * i - 1
  BY LineType
<1>2. f[k][j] \in Nat
  BY <1>1, LineType
<1> QED
  BY <1>1, <1>2, RoutingTableAssumption DEF IdOf, Ids

(* insert, as addRoute calls it. *)
Inserted(t, key, route) ==
  IF key \in DOMAIN t THEN t
  ELSE [k \in DOMAIN t \cup {key} |-> IF k = key THEN route ELSE t[k]]

LEMMA TableGrows ==
  ASSUME NEW f, NEW last \in Nat, NEW t, TableOf(t, f, last),
         NEW route, IsRoute(route, f[last + 1])
  PROVE  TableOf(Inserted(t, Key(f[last + 1]), route), f, last + 1)
<1> DEFINE key == Key(f[last + 1])
           new == Inserted(t, key, route)
<1>1. DOMAIN new = DOMAIN t \cup {key} /\ \A k \in DOMAIN t : new[k] = t[k]
  BY DEF Inserted
<1>2. key \notin DOMAIN t => new[key] = route
  BY DEF Inserted
<1> HIDE DEF new
<1>3. \A k \in 1 .. last + 1 : k \in 1 .. last \/ k = last + 1
  OBVIOUS
<1>4. \A k \in 1 .. last + 1 : Key(f[k]) \in DOMAIN new
  BY <1>1, <1>3 DEF TableOf
<1>5. ASSUME NEW x \in DOMAIN t PROVE IsRouteOf(new[x], f, last + 1, x)
  <2>1. PICK k \in 1 .. last : Key(f[k]) = x /\ IsRoute(t[x], f[k])
    BY DEF TableOf, IsRouteOf
  <2>2. k \in 1 .. last + 1 /\ new[x] = t[x]
    BY <1>1
  <2> QED
    BY <2>1, <2>2 DEF IsRouteOf
<1>6. ASSUME key \notin DOMAIN t PROVE IsRouteOf(new[key], f, last + 1, key)
  <2>1. last + 1 \in 1 .. last + 1
    OBVIOUS
  <2> QED
    BY <1>2, <1>6, <2>1 DEF IsRouteOf
<1>7. \A x \in DOMAIN new : IsRouteOf(new[x], f, last + 1, x)
  BY <1>1, <1>5, <1>6
<1> QED
  BY <1>4, <1>7 DEF TableOf, new

LEMMA CompleteBefore ==
  ASSUME NEW f, NEW last \in Nat, CompleteTo(f, last + 1)
  PROVE  CompleteTo(f, last) /\ Len(Identifiers(f[last + 1])) >= 2
BY DEF CompleteTo

-----------------------------------------------------------------------------
(* What every step finds. *)
LEMMA Found ==
  ASSUME ReaderInv
  PROVE  /\ file \in Files /\ n \in 0 .. Len(file) /\ Len(file) \in Nat /\ n \in Nat
         /\ stage \in Stages /\ path \in Seq(Ids) /\ status # "overrun"
         /\ \A k \in 1 .. Last : Accepted(file[k])
         /\ CompleteTo(file, Last) => TableOf(table, file, Last)
<1>1. file \in Files /\ n \in 0 .. Len(file)
  BY DEF ReaderInv
<1>2. Len(file) \in Nat
  BY <1>1, RoutingTableAssumption
<1>3. n \in Nat
  BY <1>1, <1>2
<1>4. stage \in Stages /\ path \in Seq(Ids) /\ status # "overrun"
  BY DEF ReaderInv, NoOverrun
<1>5. \A k \in Added : Accepted(file[k])
  BY DEF ReaderInv, ReadsGrammar
<1>6. Added = 1 .. Last
  BY DEF Added, Last
<1>7. CompleteTo(file, Last) => TableOf(table, file, Last)
  BY DEF ReaderInv
<1> QED
  BY <1>1, <1>2, <1>3, <1>4, <1>5, <1>6, <1>7

(* A step that leaves the table alone and adds no line to it. *)
LEMMA SameTable ==
  ASSUME ReaderInv, UNCHANGED <<file, table>>, Last' = Last
  PROVE  /\ (\A k \in Added : Accepted(file[k]))'
         /\ (CompleteTo(file, Last) => TableOf(table, file, Last))'
<1>1. Added' = 1 .. Last
  BY DEF Added, Last
<1>2. \A k \in 1 .. Last : Accepted(file[k])
  BY Found
<1>3. (\A k \in Added : Accepted(file[k]))'
  BY <1>1, <1>2
<1> DEFINE last == Last
<1>4. CompleteTo(file, last) => TableOf(table, file, last)
  BY Found
<1>5. last' = last
  OBVIOUS
<1> HIDE DEF last
<1>6. CompleteTo(file', last') => TableOf(table', file', last')
  BY <1>4, <1>5
<1>7. (CompleteTo(file, last) => TableOf(table, file, last))'
  BY <1>6 DEF CompleteTo, TableOf, IsRouteOf, Key, IdOf, IsRoute, Identifiers, EndsWithBlank
<1> QED
  BY <1>3, <1>7 DEF last

LEMMA ReaderInit == RoutingTableInit => ReaderInv
<1> SUFFICES ASSUME RoutingTableInit PROVE ReaderInv
  OBVIOUS
<1>1. /\ file \in Files /\ n = 0 /\ stage = "NONE" /\ path = <<>> /\ status = "opening"
      /\ DOMAIN table = {}
  BY DEF RoutingTableInit
<1>2. Len(file) \in Nat
  BY <1>1, RoutingTableAssumption
<1>3. path \in Seq(Ids)
  BY <1>1
<1>4. Last = -1 /\ 1 .. Last = {} /\ Added = {}
  BY <1>1 DEF Last, Added
<1>5. ReadsGrammar
  BY <1>1, <1>4 DEF ReadsGrammar
<1>6. TableOf(table, file, Last)
  BY <1>1, <1>4 DEF TableOf
<1> QED
  BY <1>1, <1>2, <1>3, <1>5, <1>6 DEF ReaderInv, NoOverrun, Stages

LEMMA GetLineKeeps == ASSUME ReaderInv, GetLine PROVE ReaderInv'
<1>1. file \in Files /\ n' = n + 1 /\ n' \in 1 .. Len(file) /\ n' \in 0 .. Len(file)
      /\ UNCHANGED <<file, table>> /\ stage \in Stages /\ path \in Seq(Ids)
      /\ status = "reading" /\ stage = "NONE" /\ n \in Nat
  <2>1. /\ status = "reading" /\ stage = "NONE" /\ n < Len(file) /\ n' = n + 1
        /\ UNCHANGED <<file, table>>
    BY DEF GetLine
  <2>2. /\ file \in Files /\ n \in Nat /\ Len(file) \in Nat /\ stage \in Stages
        /\ path \in Seq(Ids)
    BY Found
  <2>3. n + 1 \in 1 .. Len(file) /\ n + 1 \in 0 .. Len(file)
    BY <2>1, <2>2
  <2> QED
    BY <2>1, <2>2, <2>3
<1> DEFINE line == file[n']
<1>2. line \in Lines
  BY <1>1, LineType
<1>3. BlankCount(line) \in Nat
  <2>1. Len(line) \in Nat
    BY <1>1, LineType
  <2> QED
    BY <1>2, <2>1, BlanksType
<1>4. CASE /\ PathLength(line) >= 0
           /\ path' \in [1 .. PathLength(line) -> Garbage]
           /\ stage' = "SOURCE_VERTEX" /\ pos' = 0 /\ pathIndex' = 0
           /\ UNCHANGED status
  <2>1. PathLength(line) \in Nat
    BY <1>3, <1>4 DEF PathLength
  <2>2. path' \in Seq(Ids) /\ Len(path') = PathLength(line)
    <3> HIDE DEF line
    <3> QED
      BY <1>4, <2>1, RoutingTableAssumption
  <2>3. file'[n'] = line
    BY <1>1
  <2>4. Parsed(line, 0)
    <3>1. Len(line) \in Nat
      BY <1>1, LineType
    <3>2. Cardinality(BlanksUpTo(line, 2 * 0)) = 0
      BY NoBlanks
    <3> HIDE DEF line
    <3> QED
      BY <3>1, <3>2 DEF Parsed
  <2>5. InLoop(file[n], 0)'
    <3>1. Parsed(file'[n'], 0)
      BY <2>3, <2>4
    <3>2. Len(path') = PathLength(file'[n'])
      BY <2>2, <2>3
    <3> QED
      BY <1>4, <3>1, <3>2 DEF InLoop, Stored, Parsed, PathLength, BlankCount, BlanksUpTo
  <2>6. (\E p \in Nat : InLoop(file[n], p))'
    BY <2>5
  <2>7. Last' = Last
    BY <1>1, <1>4 DEF Last
  <2> QED
    BY <1>1, <1>4, <2>2, <2>6, <2>7, SameTable DEF ReaderInv, NoOverrun, Stages, ReadsGrammar
<1>5. CASE PathLength(line) < 0 /\ status' = "bad length" /\ UNCHANGED <<stage, path>>
  <2>1. stage' = "NONE" /\ path' \in Seq(Ids) /\ file' \in Files /\ file' = file
    BY <1>1, <1>5
  <2>2. ~ Accepted(file'[n'])
    <3>1. BlankCount(line) = 0
      <4>1. PICK x \in Nat : x = BlankCount(line)
        BY <1>3
      <4>2. x - 1 < 0
        BY <1>5, <4>1 DEF PathLength
      <4> QED
        BY <4>1, <4>2
    <3>2. IsFiniteSet({i \in DOMAIN line : line[i] = Blank})
      <4>1. Len(line) \in Nat /\ DOMAIN line = 1 .. Len(line)
        BY <1>1, LineType
      <4>2. IsFiniteSet(1 .. Len(line))
        BY <4>1, FS_Interval
      <4> QED
        BY <4>1, <4>2, FS_Subset
    <3>3. {i \in DOMAIN line : line[i] = Blank} = {}
      BY <3>1, <3>2, FS_EmptySet DEF BlankCount
    <3> QED
      BY <1>1, <3>3 DEF Accepted
  <2>3. Last' = Last
    <3>1. Last = n
      BY <1>1 DEF Last
    <3>2. Last' = n' - 1
      BY <1>5 DEF Last
    <3> QED
      BY <1>1, <3>1, <3>2
  <2> QED
    BY <1>1, <1>5, <2>1, <2>2, <2>3, SameTable
       DEF ReaderInv, NoOverrun, Stages, ReadsGrammar, Accepted
<1> QED
  BY <1>4, <1>5 DEF GetLine

LEMMA ReadPartKeeps == ASSUME ReaderInv, ReadPart PROVE ReaderInv'
<1>1. /\ file \in Files /\ UNCHANGED <<file, n, table>> /\ n > 0 /\ n \in 0 .. Len(file)
      /\ stage \in Stages /\ stage # "NONE" /\ path \in Seq(Ids) /\ status = "reading"
      /\ pos < Len(file[n])
  BY DEF ReaderInv, ReadPart
<1>2. PICK p \in Nat : InLoop(file[n], p)
  BY <1>1 DEF ReaderInv
<1>3. n \in 1 .. Len(file) /\ Len(file[n]) \in Nat /\ DOMAIN file[n] = 1 .. Len(file[n])
      /\ file[n] \in Lines
  <2>1. n \in 1 .. Len(file)
    BY <1>1, RoutingTableAssumption
  <2> QED
    BY <1>1, <2>1, LineType
<1>4. /\ pos = 2 * p /\ Len(path) = PathLength(file[n]) /\ Parsed(file[n], p)
      /\ Stored(file[n], p) /\ 2 * p < Len(file[n])
  BY <1>1, <1>2 DEF InLoop
<1>5. CASE /\ ~ Readable(file[n][pos + 1]) /\ status' = "bad number"
           /\ UNCHANGED <<stage, path>>
  <2>1. ~ Accepted(file[n])
    BY <1>1, <1>3, <1>4, <1>5, NotAccepted
  <2>2. ~ Accepted(file'[n'])
    BY <1>1, <2>1
  <2>3. Last' = Last
    BY <1>1, <1>5 DEF Last
  <2> QED
    BY <1>1, <1>5, <2>2, <2>3, SameTable DEF ReaderInv, NoOverrun, ReadsGrammar, Accepted
<1>6. CASE /\ Readable(file[n][pos + 1]) /\ pos' = pos + 2
           /\ LET id == file[n][pos + 1] % IdMod IN
              SourceVertex(id) \/ DestinationVertex(id) \/ InnerVertex(id)
  <2> DEFINE id == file[n][pos + 1] % IdMod
  <2>1. id \in Ids
    <3>1. file[n][pos + 1] \in Nat
      BY <1>1, <1>3, <1>4, <1>6, LineType DEF Readable
    <3> QED
      BY <3>1, RoutingTableAssumption DEF Ids
  <2>2. id = IdOf(file[n], p + 1)
    <3>1. pos + 1 = 2 * (p + 1) - 1
      BY <1>4
    <3> QED
      BY <3>1 DEF IdOf
  <2>3. Parsed(file[n], p + 1)
    <3>1. Readable(file[n][2 * p + 1])
      BY <1>4, <1>6
    <3> QED
      BY <1>1, <1>3, <1>4, <3>1, PartParsed
  <2>4. ASSUME Len(path') = Len(path),
               stage' = "SOURCE_VERTEX" => p + 1 = 0,
               stage' = "DESTINATION_VERTEX" => p + 1 = 1 /\ pathIndex' = 0,
               stage' = "INNER_VERTEX" => p + 1 >= 2 /\ pathIndex' = p - 1,
               src' = IdOf(file[n], 1),
               p + 1 >= 2 => dest' = IdOf(file[n], 2),
               \A i \in 3 .. p + 1 : path'[i - 2] = IdOf(file[n], i)
        PROVE  (\E q \in Nat : InLoop(file[n], q))'
    <3>1. file'[n'] = file[n] /\ p + 1 \in Nat
      BY <1>1
    <3>2. pos' = 2 * (p + 1) /\ Len(path') = PathLength(file'[n'])
      BY <1>4, <1>6, <2>4, <3>1
    <3>3. Parsed(file'[n'], p + 1)
      BY <2>3, <3>1
    <3>4. /\ src' = IdOf(file'[n'], 1) /\ (p + 1 >= 2 => dest' = IdOf(file'[n'], 2))
          /\ \A i \in 3 .. p + 1 : path'[i - 2] = IdOf(file'[n'], i)
      BY <2>4, <3>1
    <3>5. PICK q \in Nat : q = p + 1
      BY <3>1
    <3>6. Stored(file[n], q)'
      BY <3>4, <3>5 DEF Stored, IdOf
    <3>7. Parsed(file[n], q)'
      BY <3>3, <3>5 DEF Parsed, BlankCount, BlanksUpTo
    <3>8. InLoop(file[n], q)'
      BY <2>4, <3>2, <3>5, <3>6, <3>7 DEF InLoop, PathLength, BlankCount
    <3> QED
      BY <3>8
  <2>5. ASSUME stage' # "NONE", stage' \in Stages, UNCHANGED status, path' \in Seq(Ids),
               (\E q \in Nat : InLoop(file[n], q))'
        PROVE  ReaderInv'
    <3>1. Last' = Last
      BY <1>1, <2>5 DEF Last
    <3> QED
      BY <1>1, <2>5, <3>1, SameTable DEF ReaderInv, NoOverrun, ReadsGrammar
  <2>6. CASE SourceVertex(id)
    <3>1. p = 0 /\ UNCHANGED <<dest, path, pathIndex, status>> /\ src' = id
          /\ stage' = "DESTINATION_VERTEX" /\ pathIndex = 0
      BY <1>2, <2>6 DEF SourceVertex, InLoop
    <3>2. (\E q \in Nat : InLoop(file[n], q))'
      BY <2>2, <2>4, <3>1
    <3> QED
      BY <1>1, <2>5, <3>1, <3>2 DEF Stages
  <2>7. CASE DestinationVertex(id)
    <3>1. /\ p = 1 /\ pathIndex = 0 /\ UNCHANGED <<src, path, pathIndex, status>> /\ dest' = id
          /\ stage' = "INNER_VERTEX"
      BY <1>2, <2>7 DEF DestinationVertex, InLoop
    <3>2. src = IdOf(file[n], 1)
      BY <1>4, <3>1 DEF Stored
    <3>3. (\E q \in Nat : InLoop(file[n], q))'
      BY <2>2, <2>4, <3>1, <3>2
    <3> QED
      BY <1>1, <2>5, <3>1, <3>3 DEF Stages
  <2>8. CASE InnerVertex(id)
    <3>1. /\ pathIndex = p - 2 /\ p >= 2 /\ stage = "INNER_VERTEX"
          /\ UNCHANGED <<src, dest, stage>>
      BY <1>2, <2>8 DEF InnerVertex, InLoop
    <3>2. pathIndex < Len(path) /\ Len(path) \in Nat
      BY <1>1, <1>3, <1>4, <3>1, RoomLeft
    <3>3. path' = [path EXCEPT ![pathIndex + 1] = id] /\ pathIndex' = pathIndex + 1
          /\ UNCHANGED status
      BY <1>1, <2>8, <3>1, <3>2 DEF InnerVertex
    <3>4. pathIndex + 1 \in 1 .. Len(path) /\ DOMAIN path = 1 .. Len(path)
      BY <1>1, <3>1, <3>2
    <3>5. path' \in Seq(Ids) /\ Len(path') = Len(path)
      <4> HIDE DEF id
      <4> QED
        BY <1>1, <2>1, <3>3, <3>4
    <3>6. src = IdOf(file[n], 1) /\ dest = IdOf(file[n], 2)
          /\ \A i \in 3 .. p : path[i - 2] = IdOf(file[n], i)
      BY <1>4, <3>1 DEF Stored
    <3>7. ASSUME NEW i \in 3 .. p + 1 PROVE path'[i - 2] = IdOf(file[n], i)
      <4> HIDE DEF id
      <4>1. CASE i = p + 1
        <5>1. i - 2 = pathIndex + 1
          BY <3>1, <4>1
        <5> QED
          BY <2>2, <3>3, <3>4, <4>1, <5>1
      <4>2. CASE i \in 3 .. p
        <5>1. i - 2 # pathIndex + 1 /\ i - 2 \in 1 .. Len(path)
          BY <3>1, <3>2, <4>2
        <5>2. path'[i - 2] = path[i - 2]
          BY <3>3, <3>4, <5>1
        <5> QED
          BY <3>6, <4>2, <5>2
      <4> QED
        BY <4>1, <4>2
    <3>8. (\E q \in Nat : InLoop(file[n], q))'
      BY <2>4, <3>1, <3>3, <3>5, <3>6, <3>7
    <3> QED
      BY <1>1, <2>5, <3>1, <3>3, <3>5, <3>8 DEF Stages
  <2> QED
    BY <1>6, <2>6, <2>7, <2>8
<1> QED
  BY <1>5, <1>6 DEF ReadPart, Part

LEMMA AddRouteKeeps == ASSUME ReaderInv, AddRoute PROVE ReaderInv'
<1>1. /\ file \in Files /\ UNCHANGED <<file, n, path, status>> /\ n > 0
      /\ n \in 0 .. Len(file) /\ n \in Nat /\ path \in Seq(Ids)
      /\ stage # "NONE" /\ status = "reading" /\ stage' = "NONE" /\ ~ pos < Len(file[n])
      /\ table' = Inserted(table, Szudzik(src, dest), path)
  <2>1. /\ file \in Files /\ n > 0 /\ n \in 0 .. Len(file) /\ n \in Nat /\ path \in Seq(Ids)
        /\ stage # "NONE" /\ status = "reading"
    BY Found DEF ReaderInv, AddRoute
  <2>2. /\ UNCHANGED <<file, n, path, status>> /\ stage' = "NONE" /\ pos >= Len(file[n])
        /\ table' = Inserted(table, Szudzik(src, dest), path)
    BY DEF AddRoute, Inserted
  <2>3. PICK p \in Nat : InLoop(file[n], p)
    BY <2>1 DEF ReaderInv
  <2>4. pos \in Nat /\ Len(file[n]) \in Nat
    BY <2>1, <2>3, LineType DEF InLoop
  <2> QED
    BY <2>1, <2>2, <2>4
<1>2. PICK p \in Nat : InLoop(file[n], p)
  BY <1>1 DEF ReaderInv
<1>3. n \in 1 .. Len(file) /\ Len(path) \in Nat
  BY <1>1, RoutingTableAssumption
<1> DEFINE line == file[n]
<1>4. /\ Parsed(line, p) /\ ~ 2 * p < Len(line) /\ Len(path) = PathLength(line)
      /\ Stored(line, p)
  BY <1>1, <1>2 DEF InLoop
<1>5. /\ Accepted(line) /\ Len(Identifiers(line)) = p /\ DOMAIN Identifiers(line) = 1 .. p
      /\ PathLength(line) = p - 2 + (IF EndsWithBlank(line) THEN 1 ELSE 0)
  BY <1>1, <1>3, <1>4, AtEnd
<1>6. Last = n - 1 /\ Last' = n /\ Added' = 1 .. n
  BY <1>1 DEF Last, Added
<1>7. \A k \in 1 .. n : Accepted(file[k])
  <2>1. \A k \in 1 .. n - 1 : Accepted(file[k])
    BY <1>6, Found
  <2> QED
    BY <1>1, <1>5, <2>1
<1>8. (\A k \in Added : Accepted(file[k]))'
  BY <1>1, <1>6, <1>7
<1>9. ASSUME CompleteTo(file, n) PROVE TableOf(table', file, n)
  <2>1. PICK last \in Nat : n = last + 1
    <3>1. n - 1 \in Nat /\ n = (n - 1) + 1
      BY <1>1
    <3> QED
      BY <3>1
  <2>2. CompleteTo(file, last) /\ Len(Identifiers(file[last + 1])) >= 2
    BY <1>9, <2>1, CompleteBefore
  <2>3. TableOf(table, file, last)
    <3>1. Last = last
      BY <1>6, <2>1
    <3> QED
      BY <2>2, <3>1, Found
  <2>4. p >= 2 /\ src = IdOf(line, 1) /\ dest = IdOf(line, 2)
    BY <1>4, <1>5, <2>1, <2>2 DEF Stored
  <2>5. \A i \in 3 .. p : path[i - 2] = Identifiers(line)[i]
    <3>1. \A i \in 3 .. p : path[i - 2] = IdOf(line, i)
      BY <1>4 DEF Stored
    <3>2. \A i \in 1 .. p : Identifiers(line)[i] = IdOf(line, i)
      BY <1>5 DEF Identifiers, IdOf
    <3> QED
      BY <3>1, <3>2
  <2>6. IsRoute(path, line)
    BY <1>4, <1>5, <2>5 DEF IsRoute
  <2>7. table' = Inserted(table, Key(line), path)
    BY <1>1, <2>4 DEF Key
  <2>8. TableOf(Inserted(table, Key(file[last + 1]), path), file, last + 1)
    BY <2>1, <2>3, <2>6, TableGrows
  <2> QED
    BY <2>1, <2>7, <2>8
<1>10. (CompleteTo(file, Last) => TableOf(table, file, Last))'
  <2>1. CompleteTo(file', n') => TableOf(table', file', n')
    BY <1>1, <1>9
  <2>2. Last' = n'
    BY <1>1, <1>6
  <2> QED
    BY <2>1, <2>2 DEF CompleteTo, TableOf, IsRouteOf, Key, IdOf, IsRoute, Identifiers, EndsWithBlank
<1>11. /\ file' \in Files /\ n' \in 0 .. Len(file') /\ stage' \in Stages /\ path' \in Seq(Ids)
       /\ NoOverrun' /\ stage' = "NONE" /\ status' = "reading"
  BY <1>1 DEF Stages, NoOverrun
<1>12. ReadsGrammar'
  BY <1>8, <1>11 DEF ReadsGrammar
<1> QED
  BY <1>10, <1>11, <1>12 DEF ReaderInv

LEMMA OtherSteps ==
  ASSUME ReaderInv, Open \/ Close \/ UNCHANGED tableVars
  PROVE  ReaderInv'
<1>1. CASE Open
  <2>1. /\ UNCHANGED <<file, n, stage, pos, path, pathIndex, table>>
        /\ status' \in {"reading", "not opened"} /\ status = "opening"
        /\ stage = "NONE" /\ n = 0
    BY <1>1 DEF Open, readerVars, ReaderInv
  <2>2. 1 .. Last = {} /\ 1 .. Last' = {} /\ Added' = {}
    <3>1. Last = n - 1
      BY <2>1 DEF Last
    <3>2. Last' = n \/ Last' = n - 1
      BY <2>1 DEF Last
    <3>3. Added' = 1 .. Last'
      BY DEF Added, Last
    <3>4. 1 .. n - 1 = {} /\ 1 .. n = {}
      <4>1. \A x \in Int : x < 1 => 1 .. x = {}
        OBVIOUS
      <4>2. n = 0
        BY <2>1
      <4>3. n \in Int /\ n < 1 /\ n - 1 \in Int /\ n - 1 < 1
        BY <4>2
      <4> QED
        BY <4>1, <4>3
    <3> QED
      BY <3>1, <3>2, <3>3, <3>4
  <2>3. CompleteTo(file, Last) => TableOf(table, file, Last)
    BY Found
  <2> DEFINE last == Last'
             before == Last
  <2>4. CompleteTo(file', last) => TableOf(table', file', last)
    <3>1. 1 .. before = 1 .. last
      BY <2>2
    <3>2. CompleteTo(file, before) => TableOf(table, file, before)
      BY <2>3
    <3> HIDE DEF last, before
    <3> QED
      BY <2>1, <3>1, <3>2 DEF CompleteTo, TableOf, IsRouteOf
  <2>5. (CompleteTo(file, Last) => TableOf(table, file, Last))'
    BY <2>4
  <2>6. ReadsGrammar'
    BY <2>1, <2>2 DEF ReadsGrammar
  <2> QED
    BY <2>1, <2>5, <2>6 DEF ReaderInv, NoOverrun, Stages
<1>2. CASE Close
  <2>1. UNCHANGED <<file, n, stage, path, table>> /\ status' = "closed" /\ stage = "NONE"
        /\ status = "reading"
    BY <1>2 DEF Close, readerVars
  <2>2. Last' = Last
    BY <2>1 DEF Last
  <2> QED
    BY <2>1, <2>2, SameTable DEF ReaderInv, NoOverrun, Stages, ReadsGrammar
<1>3. CASE UNCHANGED tableVars
  <2>1. Last' = Last /\ UNCHANGED <<file, table>>
    BY <1>3 DEF Last, tableVars, readerVars
  <2>2. ASSUME NEW p, InLoop(file[n], p) PROVE InLoop(file[n], p)'
    BY <1>3, <2>2 DEF InLoop, Parsed, Stored, IdOf, PathLength, BlankCount, BlanksUpTo,
                      tableVars, readerVars
  <2> QED
    BY <1>3, <2>1, <2>2, SameTable
       DEF ReaderInv, NoOverrun, ReadsGrammar, Accepted, tableVars, readerVars
<1> QED
  BY <1>1, <1>2, <1>3

LEMMA ReaderInvariant == RoutingTableSpec => []ReaderInv
<1>1. RoutingTableInit => ReaderInv
  BY ReaderInit
<1>2. ReaderInv /\ [RoutingTableNext]_tableVars => ReaderInv'
  BY GetLineKeeps, ReadPartKeeps, AddRouteKeeps, OtherSteps DEF RoutingTableNext
<1> QED
  BY <1>1, <1>2, PTL DEF RoutingTableSpec

(* The parser never writes beside the array of a route (readRoute in
   routing/table.hpp), whatever the file, its lines and their numbers are. *)
THEOREM ReaderStaysInArray == RoutingTableSpec => []NoOverrun
<1>1. ReaderInv => NoOverrun
  BY DEF ReaderInv
<1> QED
  BY <1>1, ReaderInvariant, PTL

(* The count of the blanks and the loop over the parts agree on what a line is:
   together they let exactly the lines of the grammar pass. *)
THEOREM ReaderReadsGrammar == RoutingTableSpec => []ReadsGrammar
<1>1. ReaderInv => ReadsGrammar
  BY DEF ReaderInv
<1> QED
  BY <1>1, ReaderInvariant, PTL


-----------------------------------------------------------------------------
(* From the keys of the table to the pairs of the file. *)

LEMMA IdentifiersOf ==
  ASSUME NEW line \in Lines, Len(Identifiers(line)) >= 2
  PROVE  /\ Len(line) >= 3
         /\ Identifiers(line)[1] = IdOf(line, 1) /\ Identifiers(line)[2] = IdOf(line, 2)
<1>1. PICK x \in Nat : x = Len(line) + 1
  BY DEF Lines
<1>2. PICK h \in Nat : h = x \div 2 /\ (x = 2 * h \/ x = 2 * h + 1)
  <2>1. x = 2 * (x \div 2) + (x % 2) /\ x \div 2 \in Nat /\ x % 2 \in 0 .. 1
    OBVIOUS
  <2> QED
    BY <2>1
<1>3. Identifiers(line) = [i \in 1 .. h |-> IdOf(line, i)]
  BY <1>1, <1>2 DEF Identifiers, IdOf
<1>4. Len(Identifiers(line)) = h
  BY <1>3
<1> QED
  BY <1>1, <1>2, <1>3, <1>4

LEMMA PairOf ==
  ASSUME NEW f \in Files, NEW k \in 1 .. Len(f), Accepted(f[k]), Len(Identifiers(f[k])) >= 2
  PROVE  /\ Identifiers(f[k])[1] = IdOf(f[k], 1) /\ IdOf(f[k], 1) \in Ids
         /\ Identifiers(f[k])[2] = IdOf(f[k], 2) /\ IdOf(f[k], 2) \in Ids
<1> DEFINE line == f[k]
<1>1. /\ line \in Lines /\ Len(line) \in Nat /\ DOMAIN line = 1 .. Len(line)
      /\ \A i \in 1 .. Len(line) - 1 : line[i] = Blank \/ line[i + 1] = Blank
  BY LineType
<1>2. /\ Len(line) >= 3
      /\ Identifiers(line)[1] = IdOf(line, 1) /\ Identifiers(line)[2] = IdOf(line, 2)
  BY <1>1, IdentifiersOf
<1>3. line[1] # Blank
  <2>1. 1 \in DOMAIN line /\ ~ 1 > 1
    BY <1>1, <1>2
  <2> QED
    BY <2>1 DEF Accepted
<1>4. line[3] # Blank
  <2>1. 1 \in 1 .. Len(line) - 1 /\ 1 + 1 = 2 /\ 3 \in DOMAIN line /\ 3 - 1 = 2
    BY <1>1, <1>2
  <2>2. line[2] = Blank
    BY <1>1, <1>3, <2>1
  <2> QED
    BY <2>1, <2>2 DEF Accepted
<1>5. IdOf(line, 1) \in Ids
  <2>1. 2 * 1 - 1 = 1 /\ 1 \in Nat \ {0} /\ 1 <= Len(line)
    BY <1>2
  <2> QED
    BY <1>3, <2>1, IdType
<1>6. IdOf(line, 2) \in Ids
  <2>1. 2 * 2 - 1 = 3 /\ 2 \in Nat \ {0} /\ 3 <= Len(line)
    BY <1>2
  <2> QED
    BY <1>4, <2>1, IdType
<1> QED
  BY <1>2, <1>5, <1>6

LEMMA TableOfFile == ASSUME ReaderInv PROVE TableIsFile
<1> SUFFICES ASSUME CompleteTo(file, Last), NEW a \in Ids, NEW b \in Ids
             PROVE  /\ Registered(a, b) <=> LinesOf(a, b) # {}
                    /\ Registered(a, b) =>
                         \E k \in LinesOf(a, b) : IsRoute(GetRoute(a, b), file[k])
  <2>1. Added = 1 .. Last
    BY DEF Added, Last
  <2> QED
    BY <2>1 DEF TableIsFile, Complete, CompleteTo
<1> DEFINE lines == LinesOf(a, b)
<1>0. lines = {k \in 1 .. Last : /\ Identifiers(file[k])[1] = a
                                 /\ Identifiers(file[k])[2] = b}
  BY DEF LinesOf, Added, Last
<1> HIDE DEF lines
<1>1. /\ file \in Files /\ Last \in Int /\ Last <= Len(file) /\ Len(file) \in Nat
      /\ \A k \in 1 .. Last : Accepted(file[k])
      /\ TableOf(table, file, Last)
  <2>1. Last = n \/ Last = n - 1
    BY DEF Last
  <2> QED
    BY <2>1, Found
<1>2. \A k \in 1 .. Last : k \in lines <=> Key(file[k]) = Szudzik(a, b)
  <2>1. ASSUME NEW k \in 1 .. Last
        PROVE  k \in lines <=> Key(file[k]) = Szudzik(a, b)
    <3>1. k \in 1 .. Len(file) /\ Accepted(file[k]) /\ Len(Identifiers(file[k])) >= 2
      BY <1>1 DEF CompleteTo
    <3> DEFINE x == IdOf(file[k], 1)
               y == IdOf(file[k], 2)
    <3>2. x \in Ids /\ y \in Ids /\ (k \in lines <=> x = a /\ y = b)
      BY <1>0, <1>1, <3>1, PairOf
    <3>3. Key(file[k]) = Szudzik(x, y)
      BY DEF Key
    <3> HIDE DEF x, y
    <3>4. x \in Nat /\ y \in Nat /\ a \in Nat /\ b \in Nat
      BY <3>2, RoutingTableAssumption DEF Ids
    <3>5. Szudzik(x, y) = Szudzik(a, b) => x = a /\ y = b
      BY <3>4, SzudzikInjective
    <3> QED
      BY <3>2, <3>3, <3>5
  <2> QED
    BY <2>1
<1> DEFINE key == Szudzik(a, b)
<1>3. ASSUME NEW k \in lines PROVE key \in DOMAIN table
  <2>1. k \in 1 .. Last /\ Key(file[k]) = key
    BY <1>0, <1>2
  <2> QED
    BY <1>1, <2>1 DEF TableOf
<1>4. ASSUME key \in DOMAIN table PROVE \E k \in lines : IsRoute(table[key], file[k])
  <2>1. PICK k \in 1 .. Last : Key(file[k]) = key /\ IsRoute(table[key], file[k])
    BY <1>1, <1>4 DEF TableOf, IsRouteOf
  <2> QED
    BY <1>2, <2>1
<1> QED
  BY <1>3, <1>4 DEF Registered, GetRoute, lines

(* The table that the reader leaves answers with the routes of the file: it has
   exactly the pairs that the lines name, each with the route of a line that
   names it, and no two pairs share a key. *)
THEOREM ReaderFillsTable == RoutingTableSpec => []TableIsFile
<1>1. ReaderInv => TableIsFile
  BY TableOfFile
<1> QED
  BY <1>1, ReaderInvariant, PTL
=============================================================================
