---------------------------- MODULE RoutingTable ----------------------------
(***************************************************************************)
(* The routing table and the reader that fills it from a file              *)
(* (routing/table.hpp).  The reader counts the blanks of a line to learn   *)
(* how many identifiers the line has, allocates an array for the inner     *)
(* ones, and then parses the line in a loop with an index of its own: that *)
(* the loop stays inside the array, and that the table answers with the    *)
(* routes of the file, depends on count and loop agreeing on every line.   *)
(*                                                                         *)
(* A line is a sequence of blanks and numbers, a number standing for all   *)
(* its digits, so that no two numbers are adjacent.  The index pos is that *)
(* of the code, from 0.                                                    *)
(***************************************************************************)
EXTENDS Integers, Sequences, FiniteSets, Szudzik

CONSTANTS
  Files,       \* the files that may be read: sequences of lines
  Blank,       \* a space in a line
  IdMod,       \* number of values of a uint32_t
  LongMod,     \* number of values of an unsigned long
  Garbage      \* what uninitialised memory may hold

Ids == 0 .. IdMod - 1

Lines == Seq(Nat \cup {Blank})

ASSUME RoutingTableAssumption ==
  /\ Blank \notin Nat
  /\ IdMod \in Nat \ {0} /\ LongMod \in Nat
  /\ Garbage \in (SUBSET Ids) \ {{}}
  /\ \A file \in Files :
        /\ file \in Seq(Lines)
        /\ \A n \in DOMAIN file : \A i \in 1 .. Len(file[n]) - 1 :
              file[n][i] = Blank \/ file[n][i + 1] = Blank

VARIABLES
  file,        \* the lines of the file
  status,      \* of the reader: one of Statuses
  n,           \* how many lines have been taken from the file
  stage,       \* one of Stages: ParsingStage, or "NONE" between two lines
  pos,         \* index of the part to be parsed next in line n
  src, dest,   \* the identifiers of line n
  path,        \* the array allocated for line n
  pathIndex,   \* how many of its elements have been written
  table        \* m_RoutingTable: from keys to the arrays of the routes

readerVars == <<n, stage, pos, src, dest, path, pathIndex>>
tableVars == <<file, status, readerVars, table>>

(* Working, done, or dead: die, an exception that nobody catches, a write
   beside the array. *)
Statuses ==
  {"opening", "reading", "closed", "not opened", "bad length", "bad number", "overrun"}

Stages == {"NONE", "SOURCE_VERTEX", "DESTINATION_VERTEX", "INNER_VERTEX"}

RoutingTableInit ==
  /\ file \in Files /\ status = "opening"
  /\ n = 0 /\ stage = "NONE" /\ pos = 0
  /\ src \in Garbage /\ dest \in Garbage /\ path = <<>> /\ pathIndex = 0
  /\ table = [key \in {} |-> <<>>]

-----------------------------------------------------------------------------
(* RoutingTableReader::read dies if the file cannot be opened. *)
Open ==
  /\ status = "opening"
  /\ status' \in {"reading", "not opened"}
  /\ UNCHANGED <<file, readerVars, table>>

BlankCount(line) == Cardinality({i \in DOMAIN line : line[i] = Blank})

(* Mutated form: the last number of a line is not followed by a blank. *)
LengthWithoutLast(line) == BlankCount(line) - 2

PathLength(line) == BlankCount(line) - 1

(* A line is taken from the file and the array of its route is allocated.
   Without a blank the length wraps to 2^64 - 1, which new refuses. *)
GetLine ==
  /\ status = "reading" /\ stage = "NONE" /\ n < Len(file)
  /\ n' = n + 1
  /\ \/ /\ PathLength(file[n']) >= 0
        /\ path' \in [1 .. PathLength(file[n']) -> Garbage]
        /\ src' \in Garbage /\ dest' \in Garbage
        /\ stage' = "SOURCE_VERTEX" /\ pos' = 0 /\ pathIndex' = 0
        /\ UNCHANGED status
     \/ /\ PathLength(file[n']) < 0
        /\ status' = "bad length"
        /\ UNCHANGED <<stage, pos, src, dest, path, pathIndex>>
  /\ UNCHANGED <<file, table>>

(* What a stage does with the identifier it has parsed. *)
SourceVertex(id) ==
  /\ stage = "SOURCE_VERTEX" /\ stage' = "DESTINATION_VERTEX"
  /\ src' = id
  /\ UNCHANGED <<dest, path, pathIndex, status>>

DestinationVertex(id) ==
  /\ stage = "DESTINATION_VERTEX" /\ stage' = "INNER_VERTEX"
  /\ dest' = id
  /\ UNCHANGED <<src, path, pathIndex, status>>

(* Beside the array the write corrupts memory: "overrun". *)
InnerVertex(id) ==
  /\ stage = "INNER_VERTEX"
  /\ \/ /\ pathIndex < Len(path)
        /\ path' = [path EXCEPT ![pathIndex + 1] = id]
        /\ pathIndex' = pathIndex + 1
        /\ UNCHANGED status
     \/ /\ pathIndex >= Len(path)
        /\ status' = "overrun"
        /\ UNCHANGED <<path, pathIndex>>
  /\ UNCHANGED <<src, dest, stage>>

(* A part of a line that stoul makes a number of: not an empty one, of which
   stoul says invalid_argument, nor one beyond its type, out_of_range. *)
Readable(part) == part # Blank /\ part < LongMod

(* Mutated form: an empty part between two blanks is passed over. *)
SkipEmpty(line) ==
  \/ /\ Readable(line[pos + 1])
     /\ LET id == line[pos + 1] % IdMod IN
        SourceVertex(id) \/ DestinationVertex(id) \/ InnerVertex(id)
     /\ pos' = pos + 2
  \/ /\ line[pos + 1] = Blank
     /\ pos' = pos + 1
     /\ UNCHANGED <<status, stage, src, dest, path, pathIndex>>
  \/ /\ line[pos + 1] # Blank /\ ~ Readable(line[pos + 1])
     /\ status' = "bad number"
     /\ UNCHANGED <<stage, pos, src, dest, path, pathIndex>>

(* One turn of the loop: stoul reads the part that starts at pos, the assignment
   cuts the number to 32 bits, and the blank after it is passed over; or stoul
   throws. *)
Part(line) ==
  \/ /\ Readable(line[pos + 1])
     /\ LET id == line[pos + 1] % IdMod IN
        SourceVertex(id) \/ DestinationVertex(id) \/ InnerVertex(id)
     /\ pos' = pos + 2
  \/ /\ ~ Readable(line[pos + 1])
     /\ status' = "bad number"
     /\ UNCHANGED <<stage, pos, src, dest, path, pathIndex>>

ReadPart ==
  /\ status = "reading" /\ stage # "NONE" /\ pos < Len(file[n])
  /\ Part(file[n])
  /\ UNCHANGED <<file, n, table>>

(* RoutingTable::addRoute: insert leaves a key alone that is there. *)
AddRoute ==
  /\ status = "reading" /\ stage # "NONE" /\ pos >= Len(file[n])
  /\ stage' = "NONE"
  /\ LET key == Szudzik(src, dest) IN
     table' = IF key \in DOMAIN table THEN table
              ELSE [k \in DOMAIN table \cup {key} |-> IF k = key THEN path ELSE table[k]]
  /\ UNCHANGED <<file, status, n, pos, src, dest, path, pathIndex>>

Close ==
  /\ status = "reading" /\ stage = "NONE" /\ n = Len(file)
  /\ status' = "closed"
  /\ UNCHANGED <<file, readerVars, table>>

RoutingTableNext == Open \/ GetLine \/ ReadPart \/ AddRoute \/ Close

RoutingTableSpec == RoutingTableInit /\ [][RoutingTableNext]_tableVars

-----------------------------------------------------------------------------
(* RoutingTable::getRoute throws for a key that is not there. *)
Registered(source, destination) == Szudzik(source, destination) \in DOMAIN table
GetRoute(source, destination) == table[Szudzik(source, destination)]

-----------------------------------------------------------------------------
(* What the file says. *)

(* Numbers that an unsigned long can hold, separated by single blanks, with at
   most one blank at the end, and at least one blank in all. *)
Accepted(line) ==
  /\ \E i \in DOMAIN line : line[i] = Blank
  /\ \A i \in DOMAIN line : line[i] = Blank => i > 1 /\ line[i - 1] # Blank
  /\ \A i \in DOMAIN line : line[i] # Blank => line[i] < LongMod

(* The numbers of an accepted line as identifiers: they are at its odd places. *)
Identifiers(line) == [i \in 1 .. (Len(line) + 1) \div 2 |-> line[2 * i - 1] % IdMod]

EndsWithBlank(line) == line # <<>> /\ line[Len(line)] = Blank

(* The array of the route of an accepted line: its inner identifiers, and one
   more element that nothing has been assigned to if the line ends in a blank. *)
IsRoute(route, line) ==
  /\ \A i \in 3 .. Len(Identifiers(line)) : route[i - 2] = Identifiers(line)[i]
  /\ Len(route) = Len(Identifiers(line)) - 2 + (IF EndsWithBlank(line) THEN 1 ELSE 0)

(* The lines that are in the table, and those of them that name a pair. *)
Added == 1 .. (IF stage = "NONE" /\ status \in {"reading", "closed"} THEN n ELSE n - 1)
Complete == \A k \in Added : Len(Identifiers(file[k])) >= 2
LinesOf(a, b) == {k \in Added : Identifiers(file[k])[1] = a /\ Identifiers(file[k])[2] = b}

(* The parser never writes beside the array that was allocated from the number
   of blanks, on no line of any form. *)
NoOverrun == status # "overrun"

(* The lines that are read are those of the grammar, and the reading of a file
   fails at its first line that is not.  A count of the blanks and a loop over
   the parts would disagree on others. *)
ReadsGrammar ==
  /\ \A k \in Added : Accepted(file[k])
  /\ status \in {"bad length", "bad number"} => ~ Accepted(file[n])

(* The table is the file (addRoute and getRoute in routing/table.hpp): a pair is
   registered if and only if a line that has been read names it, and its route
   has the identifiers of a line that names it.  The hash of one pair never
   hides another. *)
TableIsFile ==
  Complete => \A a, b \in Ids :
    /\ Registered(a, b) <=> LinesOf(a, b) # {}
    /\ Registered(a, b) => \E k \in LinesOf(a, b) : IsRoute(GetRoute(a, b), file[k])

(* What routing/table.hpp:112-114 says of addRoute: the route of a pair that is
   registered again replaces the old one.  The route of a pair is then that of
   the last line that names it. *)
RouteReplaced ==
  Complete => \A a, b \in Ids : \A last \in LinesOf(a, b) :
    (\A k \in LinesOf(a, b) : k <= last) => IsRoute(GetRoute(a, b), file[last])
=============================================================================
