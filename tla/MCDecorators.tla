----------------------------- MODULE MCDecorators -----------------------------
(* Decorators for TLC, by itself: three decorators, each with a spec of its own. *)
EXTENDS Decorators

MCSpecOf == <<1, 2, 3>>
=============================================================================
