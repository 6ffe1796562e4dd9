-------------------------- MODULE MCLifeCycleRegistry --------------------------
(* Instances of LifeCycleRegistry for TLC. *)
EXTENDS LifeCycleRegistry

CONSTANTS a, b, c, d

All == {"init", "start", "stop"}

\* Four observers: a and b in group 2, c in group 1, d in the unnamed group
\* and without an init method. Group 3 has no observer.
TagsByGroup == (a :> 2) @@ (b :> 2) @@ (c :> 1) @@ (d :> 0)
NoPlainTags == (a :> 0) @@ (b :> 0) @@ (c :> 0) @@ (d :> 0)
HandleMost == (a :> All) @@ (b :> All) @@ (c :> All) @@ (d :> {"start", "stop"})

\* Server c as app.server() binds it: no group tag, a plain tag names group 3;
\* a and b carry their groups explicitly.
TagsOfOthers == (a :> 2) @@ (b :> 1) @@ (c :> 0) @@ (d :> 0)
TagOfServer == (a :> 0) @@ (b :> 0) @@ (c :> 3) @@ (d :> 0)

Three == <<a, b, c>>
TwoOrders == {<<3, 2>>, <<2, 3>>}
ServerLast == {<<3>>}
NoGroup == {}
GroupOne == {1}
=============================================================================
