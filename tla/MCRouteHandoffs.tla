-------------------------- MODULE MCRouteHandoffs --------------------------
(* A route whose brand is configured, which the router left to an owner the *)
(* brand does not know, and a route of a brand without a configuration;     *)
(* three concurrent requests, one idempotency key                           *)
EXTENDS RouteHandoffs, TLC

CONSTANTS o1, oBad, r1, s1, s2, s3

McFirstOwner == [r \in Routes |-> IF r = r1 THEN oBad ELSE o1]
AnySlot == Permutations({s1, s2, s3})
=============================================================================
