------------------------------ MODULE Ordered ------------------------------
(***************************************************************************)
(* Sequences in the order the code meets things: `sorted` with a key, the  *)
(* positions of a list that pass a test, and the items at them.            *)
(*                                                                         *)
(* An element comes at the place that counts those before it.  The order   *)
(* is a set of pairs, so that facts about it can be proved for any order;  *)
(* SortSeq and SelectSeq of the standard modules have no definition a      *)
(* proof could use.                                                        *)
(***************************************************************************)
EXTENDS Integers, Sequences, FiniteSets

\* The elements of S, of which x comes before y where <<x, y>> is in before.
SortedBy(S, before) ==
  [k \in 1..Cardinality(S) |->
     CHOOSE x \in S : Cardinality({y \in S : <<y, x>> \in before}) = k - 1]

\* Some integers, the least first.
Ascending(S) == SortedBy(S, {p \in S \X S : p[1] < p[2]})

\* What a comprehension keeps of a list: the items at the positions of S.
Selected(seq, S) == LET order == Ascending(S) IN [k \in DOMAIN order |-> seq[order[k]]]
=============================================================================
