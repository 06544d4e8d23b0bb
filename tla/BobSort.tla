------------------------------- MODULE BobSort -------------------------------
(***************************************************************************)
(* The program bobsort (apps/bobsort.h): a bubble sort on a static array,  *)
(* one comparison a step.  Every run fills the cells it sorts.             *)
(***************************************************************************)
EXTENDS Integers, FiniteSets

CONSTANTS
  max_sort_size,
  Sizes,          \* what atoi() makes of the argument
  Runs            \* runs of the program at most

VARIABLES
  sortdata, size, i, sorted, swaps,
  pc,             \* "typing", "scan" or "end"
  ascending, runs

sortVars == <<sortdata, size, i, sorted, swaps, pc, ascending, runs>>

ASSUME SortAssumption == max_sort_size \in Nat /\ Sizes \subseteq Int /\ Runs \in Nat

Cells == 0 .. max_sort_size - 1
Used == 0 .. size - 1

SortInit ==
  /\ sortdata = [k \in Cells |-> 0]
  /\ size = 0 /\ i = 0 /\ sorted = FALSE /\ swaps = 0
  /\ pc = "typing" /\ ascending = FALSE /\ runs = 0

\* The program begins: it refuses a size over its array, else fills the array.
Begin(s, up) ==
  /\ pc = "typing" /\ runs < Runs
  /\ runs' = runs + 1
  /\ IF s > max_sort_size
     THEN UNCHANGED <<sortdata, size, i, sorted, swaps, pc, ascending>>
     ELSE /\ size' = s /\ ascending' = up
          /\ sortdata' = [k \in Cells |-> IF k >= s THEN sortdata[k] ELSE IF up THEN k ELSE s - k - 1]
          /\ i' = 0 /\ sorted' = TRUE /\ swaps' = 0
          /\ pc' = "scan"

OneShort == size - 2                \* seeded bug: the last pair is left out
LastPair == size - 1

OutOfOrder(a, b) == a > b

\* for (i=0; i < (size-1); i++)
Compare ==
  /\ pc = "scan" /\ i < LastPair
  /\ IF OutOfOrder(sortdata[i], sortdata[i + 1])
     THEN /\ sortdata' = [sortdata EXCEPT ![i] = sortdata[i + 1], ![i + 1] = sortdata[i]]
          /\ sorted' = FALSE /\ swaps' = swaps + 1
     ELSE UNCHANGED <<sortdata, sorted, swaps>>
  /\ i' = i + 1
  /\ UNCHANGED <<size, pc, ascending, runs>>

Again == TRUE

\* while (!sorted)
NextPass ==
  /\ pc = "scan" /\ i >= LastPair
  /\ IF sorted THEN pc' = "end" /\ UNCHANGED <<i, sorted>>
     ELSE i' = 0 /\ sorted' = Again /\ UNCHANGED pc
  /\ UNCHANGED <<sortdata, size, swaps, ascending, runs>>

Return ==
  /\ pc = "end"
  /\ pc' = "typing"
  /\ UNCHANGED <<sortdata, size, i, sorted, swaps, ascending, runs>>

Program == Compare \/ NextPass \/ Return
SortNext == Program \/ \E s \in Sizes, up \in BOOLEAN : Begin(s, up)
SortSpec == SortInit /\ [][SortNext]_sortVars

(***************************************************************************)
(* Properties                                                              *)
(***************************************************************************)
\* The program ends with the numbers it began with in order, up to a size that takes the
\* whole array, and reports as many swaps as pairs stood in the wrong order.
SortedAtTheEnd ==
  pc = "end" =>
    /\ \A k \in Used : sortdata[k] = k
    /\ swaps = (IF ascending \/ size < 2 THEN 0 ELSE (size * (size - 1)) \div 2)

=============================================================================
