-------------------------- MODULE AuthorizationVote --------------------------
(***************************************************************************)
(* AuthorizationInterceptor.intercept of packages/authorization/src: the    *)
(* authorizers are resolved, then asked one after the other, and their      *)
(* votes make one decision.  What an authorizer does is external: it votes, *)
(* returns nothing ("none") or throws; one that is given by the key of a    *)
(* binding may not be resolved.  The method has metadata or not ("skip" for *)
(* those that ask for no authorization).                                    *)
(***************************************************************************)
EXTENDS Naturals, SequencesExt

VARIABLES
    policy,         \* the options of the interceptor and the metadata of the method
    authorizers,    \* what each would vote: those of the metadata, then those of the context
    consulted,      \* how many have been asked
    finalDecision,
    verdict         \* "begun" or "asking"; at the end "next", "denied" or "error"

voteVars == <<policy, authorizers, consulted, finalDecision, verdict>>

Votes == {"allow", "deny", "abstain", "none", "throws", "unresolved"}
Policies ==
    [defaultDecision : {"allow", "deny"}, precedence : {"allow", "deny"},
     defaultMetadata : {"none", "given", "skip"}, metadata : {"none", "given", "skip"}]

\* For authorizers of the metadata and of the context from these sets.
VoteInit(voters, bound) ==
    /\ policy \in Policies
    /\ authorizers \in {v \o b : v \in voters, b \in bound}
    /\ consulted = 0
    /\ finalDecision = policy.defaultDecision
    /\ verdict = "begun"

Protected ==
    \/ policy.metadata = "given"
    \/ policy.metadata = "none" /\ policy.defaultMetadata = "given"

SkipAuthorization ==
    /\ verdict = "begun" /\ ~Protected
    /\ verdict' = "next"
    /\ UNCHANGED <<policy, authorizers, consulted, finalDecision>>

\* All of them are resolved before the first is asked.
LoadAuthorizers ==
    /\ verdict = "begun" /\ Protected
    /\ verdict' = IF Contains(authorizers, "unresolved") THEN "error" ELSE "asking"
    /\ UNCHANGED <<policy, authorizers, consulted, finalDecision>>

\* Mutant: an error counts as an abstention.
AskIgnoringErrors ==
    /\ verdict = "asking" /\ consulted < Len(authorizers)
    /\ consulted' = consulted + 1
    /\ LET decision == authorizers[consulted + 1]
       IN  /\ finalDecision' = IF decision \in {"allow", "deny"} THEN decision
                               ELSE finalDecision
           /\ verdict' = IF decision # policy.precedence THEN "asking"
                         ELSE IF decision = "deny" THEN "denied" ELSE "next"
    /\ UNCHANGED <<policy, authorizers>>

\* An authorizer is asked and answers.
Ask ==
    /\ verdict = "asking" /\ consulted < Len(authorizers)
    /\ consulted' = consulted + 1
    /\ LET decision == authorizers[consulted + 1]
       IN  /\ finalDecision' = IF decision \in {"allow", "deny"} THEN decision
                               ELSE finalDecision
           /\ verdict' = IF decision = "throws" THEN "error"
                         ELSE IF decision # policy.precedence THEN "asking"
                         ELSE IF decision = "deny" THEN "denied" ELSE "next"
    /\ UNCHANGED <<policy, authorizers>>

\* None has settled the matter.
Decide ==
    /\ verdict = "asking" /\ consulted = Len(authorizers)
    /\ verdict' = IF finalDecision = "deny" THEN "denied" ELSE "next"
    /\ UNCHANGED <<policy, authorizers, consulted, finalDecision>>

VoteNext == SkipAuthorization \/ LoadAuthorizers \/ Ask \/ Decide

VoteSpec(voters, bound) == VoteInit(voters, bound) /\ [][VoteNext]_voteVars

---------------------------------------------------------------------------
(* Properties *)

VoteTypeOK ==
    /\ policy \in Policies /\ authorizers \in Seq(Votes)
    /\ consulted \in 0 .. Len(authorizers) /\ finalDecision \in {"allow", "deny"}
    /\ verdict \in {"begun", "asking", "next", "denied", "error"}

Heard == {authorizers[i] : i \in 1 .. consulted}

\* What the documented precedence makes of votes in whatever order: the decision that has
\* it prevails if it is voted at all, then the other one, and the default if no one decides.
DecisionOf(votes) ==
    LET other == IF policy.precedence = "deny" THEN "allow" ELSE "deny"
    IN  IF policy.precedence \in votes THEN policy.precedence
        ELSE IF other \in votes THEN other ELSE policy.defaultDecision

\* The decision is that of all votes, also of those that nobody waited for; an error of an
\* authorizer that was asked, or that could not be resolved, never lets the call go on.
PrecedencePrevails ==
    verdict \in {"next", "denied", "error"} =>
        verdict = IF ~Protected THEN "next"
                  ELSE IF "unresolved" \in ToSet(authorizers) \/ "throws" \in Heard
                  THEN "error"
                  ELSE IF DecisionOf(ToSet(authorizers)) = "deny" THEN "denied" ELSE "next"

\* Nobody is asked before all are resolved, nor once the matter is settled, and no one is
\* passed over before.
AskedUntilSettled ==
    LET settling == {policy.precedence, "throws"}
    IN  /\ "unresolved" \in ToSet(authorizers) => consulted = 0
        /\ \A i \in 1 .. consulted : authorizers[i] \in settling => i = consulted
        /\ (verdict = "next" /\ Protected) \/ verdict = "denied" =>
               consulted = Len(authorizers) \/ authorizers[consulted] \in settling

\* The vote of the authorizers has the outcome that the documented precedence gives it, and
\* they are asked until it is settled (AuthorizationInterceptor.intercept).
VoteDecides == VoteTypeOK /\ PrecedencePrevails /\ AskedUntilSettled
=============================================================================
