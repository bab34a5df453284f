----------------------------- MODULE MCGateway -----------------------------
(* Small instances of Gateway.                                             *)
EXTENDS Gateway

CONSTANTS k, unknown, r1, r2, t1

Token(kid, valid, role, endpoint) ==
  [kid |-> kid, valid |-> valid, role |-> role, tenant |-> t1, endpoint |-> endpoint]

\* An admin and a reviewer at the endpoint that costs, a reader, a bad token.
MCTokens == {Token(k, TRUE, "admin", "enqueue"), Token(k, TRUE, "reviewer", "enqueue"),
             Token(k, TRUE, "reviewer", "review"), Token(unknown, FALSE, "reviewer", "read")}
=============================================================================
