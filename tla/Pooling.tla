------------------------------- MODULE Pooling -------------------------------
(***************************************************************************)
(* PoolingService of extensions/pooling: callers borrow the resources of a  *)
(* pool, with hooks that set a resource up and clean it up and that may     *)
(* fail, while the application stops the pool.  Each caller borrows once,   *)
(* itself or with run(), and may call release() of its PooledValue once     *)
(* more when it has given the resource back.                                *)
(*                                                                          *)
(* The pool itself is of the library generic-pool: it lends what is idle or *)
(* makes a new resource, and refuses to take back, or to destroy, what is   *)
(* not lent.                                                                *)
(***************************************************************************)
EXTENDS Naturals, FiniteSets

CONSTANTS
    Borrowers,
    Resources,   \* those the factory can make
    MaxLive      \* poolOptions.max

ASSUME PoolAssumption == MaxLive \in Nat \ {0} /\ "nothing" \notin Resources

VARIABLES
    resource,  \* resource -> "none" until it is made, "idle", "lent" or "gone"
    loan,      \* borrower -> where its call stands, and the resource it got
    stopping,  \* "no", "draining", "clearing" or "stopped"
    \* history
    used,      \* resources that were set up, or given out, and not cleaned up since
    again      \* resources that were released a second time

poolVars == <<resource, loan, stopping, used, again>>

\* A resource is a borrower's while it is set up, used and given back.
HoldingAt == {"setup", "using", "cleanup", "returning", "discarding"}
LoanType == [at : {"new", "waiting", "done", "failed"} \cup HoldingAt,
             has : Resources \cup {"nothing"}, ends : {"done", "failed"}]

PoolInit ==
    /\ resource = [r \in Resources |-> "none"]
    /\ loan = [b \in Borrowers |-> [at |-> "new", has |-> "nothing", ends |-> "done"]]
    /\ stopping = "no"
    /\ used = {}
    /\ again = {}

Live == {r \in Resources : resource[r] \in {"idle", "lent"}}
LoanAt(b, at) == loan[b].at = at
Holds(b, r) == loan[b].at \in HoldingAt /\ loan[b].has = r
Moves(b, at) == loan' = [loan EXCEPT ![b].at = at]
\* To destroy the resource and end like this, unless that fails as well.
Discards(b, ends) == loan' = [loan EXCEPT ![b].at = "discarding", ![b].ends = ends]

---------------------------------------------------------------------------
(* acquire() *)

\* pool.acquire: a pool that drains accepts no more work.
Borrow(b) ==
    /\ LoanAt(b, "new")
    /\ Moves(b, IF stopping = "no" THEN "waiting" ELSE "failed")
    /\ UNCHANGED <<resource, stopping, used, again>>

\* The pool lends an idle resource, or a new one as long as it has fewer than max.
Lend(b) ==
    /\ LoanAt(b, "waiting")
    /\ \E r \in Resources :
        /\ resource[r] = "idle" \/ (resource[r] = "none" /\ Cardinality(Live) < MaxLive)
        /\ resource' = [resource EXCEPT ![r] = "lent"]
        /\ loan' = [loan EXCEPT ![b].at = "setup", ![b].has = r]
        /\ used' = used \cup {r}
    /\ UNCHANGED <<stopping, again>>

\* The acquire hook ends, or fails: the resource is destroyed and the call fails.
SetUp(b) ==
    /\ LoanAt(b, "setup")
    /\ Moves(b, "using") \/ Discards(b, "failed")
    /\ UNCHANGED <<resource, stopping, used, again>>

---------------------------------------------------------------------------
(* release(), destroy() and run() *)

\* The borrower is done: release(); or it destroys the resource; or its task has failed,
\* and run() destroys it and fails.
GiveBack(b) ==
    /\ LoanAt(b, "using")
    /\ Moves(b, "cleanup") \/ \E ends \in {"done", "failed"} : Discards(b, ends)
    /\ UNCHANGED <<resource, stopping, used, again>>

\* release() once more: nothing tells that the resource is not the borrower's any longer.
ReleaseAgain(b) ==
    /\ LoanAt(b, "done")
    /\ loan[b].has \notin again
    /\ Moves(b, "cleanup")
    /\ again' = again \cup {loan[b].has}
    /\ UNCHANGED <<resource, stopping, used>>

\* The release hook ends, or fails.
CleanUp(b) ==
    /\ LoanAt(b, "cleanup")
    /\ \/ Moves(b, "returning") /\ used' = used \ {loan[b].has}
       \/ Discards(b, "failed") /\ UNCHANGED used
    /\ UNCHANGED <<resource, stopping, again>>

\* pool.release, which fails where the resource is not lent: it is destroyed then.
Return(b) ==
    /\ LoanAt(b, "returning")
    /\ \/ /\ resource[loan[b].has] = "lent"
          /\ resource' = [resource EXCEPT ![loan[b].has] = "idle"]
          /\ Moves(b, "done")
       \/ /\ resource[loan[b].has] # "lent"
          /\ Discards(b, "failed")
          /\ UNCHANGED resource
    /\ UNCHANGED <<stopping, used, again>>

\* Mutant: the error of a hook is thrown, and the resource left as it is.
ThrowOnly(b) ==
    /\ LoanAt(b, "discarding")
    /\ Moves(b, loan[b].ends)
    /\ IF loan[b].ends = "done"
       THEN resource' = [resource EXCEPT ![loan[b].has] = "gone"]
       ELSE UNCHANGED resource
    /\ UNCHANGED <<stopping, used, again>>

\* pool.destroy, which fails where the resource is not lent.
Discard(b) ==
    /\ LoanAt(b, "discarding")
    /\ \/ /\ resource[loan[b].has] = "lent"
          /\ resource' = [resource EXCEPT ![loan[b].has] = "gone"]
          /\ Moves(b, loan[b].ends)
       \/ /\ resource[loan[b].has] # "lent"
          /\ Moves(b, "failed")
          /\ UNCHANGED resource
    /\ UNCHANGED <<stopping, used, again>>

---------------------------------------------------------------------------
(* stop() *)

StopPool ==
    /\ stopping = "no"
    /\ stopping' = "draining"
    /\ UNCHANGED <<resource, loan, used, again>>

\* pool.drain ends when those who wait have been served and what was lent is back ...
Drained ==
    /\ stopping = "draining"
    /\ \A b \in Borrowers : ~LoanAt(b, "waiting")
    /\ \A r \in Resources : resource[r] # "lent"
    /\ stopping' = "clearing"
    /\ UNCHANGED <<resource, loan, used, again>>

\* ... and pool.clear destroys what is idle.
Clear ==
    /\ stopping = "clearing"
    /\ resource' = [r \in Resources |-> IF resource[r] = "idle" THEN "gone" ELSE resource[r]]
    /\ stopping' = "stopped"
    /\ UNCHANGED <<loan, used, again>>

PoolNext ==
    \/ \E b \in Borrowers :
        \/ Borrow(b) \/ Lend(b) \/ SetUp(b) \/ GiveBack(b) \/ ReleaseAgain(b)
        \/ CleanUp(b) \/ Return(b) \/ Discard(b)
    \/ StopPool \/ Drained \/ Clear

PoolSpec == PoolInit /\ [][PoolNext]_poolVars

---------------------------------------------------------------------------
(* Properties. *)

\* The types of the variables.
PoolTypeOK ==
    /\ resource \in [Resources -> {"none", "idle", "lent", "gone"}]
    /\ loan \in [Borrowers -> LoanType]
    /\ stopping \in {"no", "draining", "clearing", "stopped"}
    /\ used \subseteq Resources
    /\ again \subseteq Resources

\* No resource is with two borrowers, and what a borrower uses is lent to it, as long as
\* nobody releases it a second time.
OneBorrower ==
    \A b \in Borrowers : \A r \in Resources \ again : Holds(b, r) =>
        /\ resource[r] = "lent"
        /\ \A d \in Borrowers \ {b} : ~Holds(d, r)

\* Whatever fails, a resource that is lent is with a borrower that will give it back or
\* destroy it: none is lost to the pool when all calls have ended.
LentIsHeld ==
    \A r \in Resources : resource[r] = "lent" => \E b \in Borrowers : Holds(b, r)

\* The pool only lends again what has been cleaned up: a resource whose hook fails never
\* comes back, as Poolable promises.
IdleIsClean ==
    \A r \in Resources \ again : resource[r] = "idle" => r \notin used

\* When stop() returns no resource is left, or in use.
StopLeavesNothing ==
    stopping = "stopped" =>
        /\ Live = {}
        /\ \A b \in Borrowers : loan[b].at \in HoldingAt => loan[b].has \in again

\* What PoolingService keeps, whichever hooks fail, whoever destroys a resource or releases
\* one twice, and whenever stop() is called.
PoolInv == PoolTypeOK /\ OneBorrower /\ LentIsHeld /\ IdleIsClean /\ StopLeavesNothing
=============================================================================
