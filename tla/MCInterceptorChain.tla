-------------------------- MODULE MCInterceptorChain --------------------------
(* A method and a chain of a view, both with the global interceptors log,   *)
(* which is asynchronous and may throw, and both, which calls next() twice  *)
(* at a time.  The method has a local interceptor, again, which calls       *)
(* next() once more when it fails.                                          *)
EXTENDS InterceptorChain, TLC
CONSTANTS again, log, both
MCRank == (log :> 1) @@ (both :> 2)
MCLocal == <<again>>
MCStyle == (again :> "retry") @@ (log :> "once") @@ (both :> "fork")
=============================================================================
