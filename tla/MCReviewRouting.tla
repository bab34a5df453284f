-------------------------- MODULE MCReviewRouting --------------------------
(***************************************************************************)
(* ReviewRouting for TLC: workers and reviewers are interchangeable.       *)
(***************************************************************************)
EXTENDS ReviewRouting, TLC

Symmetry == Permutations(Workers) \cup Permutations(Reviewers)
=============================================================================
