------------------------------ MODULE FreshIds ------------------------------
(***************************************************************************)
(* What reserve_fill_id promises its callers: an identifier that was never *)
(* handed out before, in this process or in an earlier one.  The fill_id   *)
(* is the compare-and-swap fence of conditional purges, conditional        *)
(* poisons and metadata updates, so a second entry with the same fill_id   *)
(* would let a decision about the first one be applied to the second.      *)
(***************************************************************************)
EXTENDS Naturals

CONSTANT Ids           \* the identifiers there are

VARIABLES
  issued,              \* the identifiers handed out so far
  grants               \* how many times one was handed out

Init == issued = {} /\ grants = 0

\* A caller receives an identifier nobody received before.
Issue == /\ \E i \in Ids \ issued : issued' = issued \cup {i}
         /\ grants' = grants + 1

Next == Issue

Spec == Init /\ [][Next]_<<issued, grants>>
=============================================================================
