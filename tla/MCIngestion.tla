---------------------------- MODULE MCIngestion ----------------------------
(***************************************************************************)
(* Ingestion for TLC: workers are interchangeable, and so are requests, as *)
(* long as no liveness property is checked.  Jobs are not: claims order    *)
(* them.                                                                   *)
(***************************************************************************)
EXTENDS Ingestion, TLC

Symmetry == Permutations(Workers) \cup Permutations(Clients)
=============================================================================
