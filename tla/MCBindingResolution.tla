------------------------- MODULE MCBindingResolution -------------------------
(* An application and a request context. The singletons slow and lazy have *)
(* an asynchronous value(), in which lazy gets user, of the request scope, *)
(* with a getter. The key plain is bound in both contexts, transient in    *)
(* the first and as the singleton own in the second. left and right inject *)
(* each other.                                                             *)
EXTENDS BindingResolution, TLC
CONSTANTS slow, user, left, right, lazy, plain, own, k1, k2
MCLevel == <<"application", "request">>
MCBindings == {slow, user, left, right, lazy, plain, own}
MCKeyOf == [x \in MCBindings |-> IF x = own THEN plain ELSE x]
MCOwnerOf == [x \in MCBindings |-> IF x = own THEN 2 ELSE 1]
MCScopeOf == (user :> "request") @@ (right :> "transient") @@
             (plain :> "transient") @@
             [x \in MCBindings |-> "singleton"]
MCInjects == (slow :> <<plain>>) @@ (user :> <<plain, slow>>) @@
             (left :> <<slow, right>>) @@ (right :> <<left>>) @@
             [x \in MCBindings |-> <<>>]
MCAwaits == (lazy :> <<user>>) @@ [x \in MCBindings |-> <<>>]
=============================================================================
