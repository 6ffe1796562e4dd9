----------------------------- MODULE MCContextView -----------------------------
(* Instances of ContextView for TLC. *)
EXTENDS ContextView

CONSTANTS x, y, view, other

\* Two bindings that share a key.
OneKey == (x :> "k") @@ (y :> "k")

\* The observers belong to the child context.
Siblings == (view :> 2) @@ (other :> 2)

AllMatch == (view :> {x, y}) @@ (other :> {x, y})
OneMatches == (view :> {x}) @@ (other :> {x, y})
=============================================================================
