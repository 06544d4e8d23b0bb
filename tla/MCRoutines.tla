------------------------------ MODULE MCRoutines -----------------------------
(***************************************************************************)
(* Small instances of the routines that compute something from their       *)
(* arguments: numbers and names for the programs, the byte order of an     *)
(* image, the sort of bobsort.  A behaviour uses one of them.              *)
(***************************************************************************)
EXTENDS NumberText, PathNames, ImageOrder, BobSort

\* Every int; longs on both sides of every limit, negative ones too.
MCInts == -IntLimit .. IntLimit - 1
MCLongs == 0 .. 130 \cup {-7777, -1, 199, 200, 777, 999, 1000, 1001, 1090, 7777, 9000, 9999}

\* Names that are prefixes of each other, one that fills its field, one too long for it,
\* one too long for a path, one with a slash, and none.
MCMount == <<"/", "m">>
MCName == {<<>>, <<"a">>, <<"b">>, <<"a", "b">>, <<"a", "b", "a">>, <<"a", "/", "b">>,
           <<"a", "b", "a", "b">>, <<"a", "b", "a", "b", "a">>}
MCGarbage == {[k \in Offsets(NameSize) |-> c] : c \in {"NUL", "b"}}

\* Numbers of one byte, of two and of four, and the greatest.
MCNumber == {1, 40, 5000, 65535}

\* Sizes below zero, around one and around the size of the array.
MCSizes == {-3, 0, 1, 2, 4, 5, 6}

VARIABLE used     \* "numbers", "names", "image" or "sort"

routineVars == <<numberVars, namesVars, imageVars, sortVars, used>>

\* What is not used begins with the least of its arguments.
RoutinesInit ==
  /\ used \in {"numbers", "names", "image", "sort"}
  /\ NumberInit
  /\ used # "numbers" => conversion = "d" /\ number = 0
  /\ ImageInit
  /\ used # "image" => /\ order = Machine /\ meant.table["FreeMemoryOffset"] = 1 /\ meant.table["Crc"] = 1
                       /\ meant.table["NumberOfFiles"] = 0 /\ meant.fileHeader["InUse"] = 0
  /\ NamesInit /\ SortInit

RoutinesNext ==
  \/ used = "numbers" /\ NumberNext /\ UNCHANGED <<namesVars, imageVars, sortVars, used>>
  \/ used = "names" /\ NamesNext /\ UNCHANGED <<numberVars, imageVars, sortVars, used>>
  \/ used = "image" /\ ImageNext /\ UNCHANGED <<numberVars, namesVars, sortVars, used>>
  \/ used = "sort" /\ SortNext /\ UNCHANGED <<numberVars, namesVars, imageVars, used>>

RoutinesSpec == RoutinesInit /\ [][RoutinesNext]_routineVars
=============================================================================
