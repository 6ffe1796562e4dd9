------------------------------ MODULE Selection ------------------------------
(***************************************************************************)
(* Array.filter() of JavaScript, for the condition to be in a set, and the *)
(* elements of an array without those that it has already.                 *)
(***************************************************************************)
EXTENDS Naturals, Sequences

\* The elements of s that are in S, in the order they have in s.
Within(s, S) ==
    LET kept[n \in 0 .. Len(s)] ==
            IF n = 0 THEN <<>>
            ELSE IF s[n] \in S THEN Append(kept[n - 1], s[n]) ELSE kept[n - 1]
    IN  kept[Len(s)]

Positions(s) == [i \in DOMAIN s |-> i]

\* The elements of a sequence as a JavaScript Set: each where it is met first.
Distinct(s) ==
    LET first == {i \in DOMAIN s : \A k \in DOMAIN s : k < i => s[k] # s[i]}
        places == Within(Positions(s), first)
    IN  [n \in DOMAIN places |-> s[places[n]]]
=============================================================================
