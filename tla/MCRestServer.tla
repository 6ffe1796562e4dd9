----------------------------- MODULE MCRestServer -----------------------------
(* Two controllers that both offer the key k1, one that is broken, an API   *)
(* spec with an operation for k2, and routes of the user's own.             *)
EXTENDS RestServer, TLC
CONSTANTS good, both, bad, k1, k2, r1
MCOffers == (good :> {k1}) @@ (both :> {k1, k2}) @@ (bad :> {})
MCWanted == r1 :> k1
=============================================================================
