-------------------------- MODULE MCDocumentStore --------------------------
(***************************************************************************)
(* DocumentStore for TLC: documents, contents and requests are             *)
(* interchangeable.                                                        *)
(***************************************************************************)
EXTENDS DocumentStore, TLC

Symmetry == Permutations(Documents) \cup Permutations(Shas) \cup Permutations(Requests)
=============================================================================
