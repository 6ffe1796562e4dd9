--------------------------- MODULE LifecycleContract ---------------------------
(***************************************************************************)
(* What docs/site/Life-cycle.md promises of an application, without the    *)
(* calls that bring it about: an operation leaves a stable state for the   *)
(* state of its own that is in process, one operation at a time, and ends  *)
(* in the stable state that belongs to it. Initialization happens once. Of *)
(* an operation whose observers reject it says nothing: the application is *)
(* left in process, here as in the code.                                   *)
(***************************************************************************)
VARIABLES
    state,        \* the state of the application
    initialized,  \* has it been initialized?
    stuck,        \* has an operation failed?
    dead          \* has its process ended?

cvars == <<state, initialized, stuck, dead>>

\* The documented transitions, from a stable state and into one.
Leaves == [created     |-> {"booting", "initializing"},
           booted      |-> {"initializing"},
           initialized |-> {"starting", "stopping"},
           started     |-> {"stopping"},
           stopped     |-> {"starting"}]
Reaches == [booting |-> "booted", initializing |-> "initialized",
            starting |-> "started", stopping |-> "stopped"]

CInit == state = "created" /\ initialized = FALSE /\ stuck = FALSE /\ dead = FALSE

BeginOp ==
    /\ ~dead
    /\ state \in DOMAIN Leaves
    /\ state' \in Leaves[state]
    /\ UNCHANGED <<initialized, stuck, dead>>

EndOp ==
    /\ ~dead /\ ~stuck
    /\ state \in DOMAIN Reaches
    /\ state' = Reaches[state]
    /\ initialized' = (initialized \/ state = "initializing")
    /\ UNCHANGED <<stuck, dead>>

FailOp ==
    /\ ~dead /\ ~stuck
    /\ state \in DOMAIN Reaches
    /\ stuck'
    /\ UNCHANGED <<state, initialized, dead>>

Die == ~dead /\ dead' /\ UNCHANGED <<state, initialized, stuck>>

CNext == BeginOp \/ EndOp \/ FailOp \/ Die

\* An operation that has begun ends, or fails.
CSpec == CInit /\ [][CNext]_cvars /\ WF_cvars(EndOp)
=============================================================================
