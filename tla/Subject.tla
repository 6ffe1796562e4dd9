------------------------------- MODULE Subject -------------------------------
(***************************************************************************)
(* What the parts of the system that are functions are asked: their modules *)
(* state what they find, for whatever they are given.                       *)
(***************************************************************************)
VARIABLES
    subject,  \* which of them is asked
    input     \* what it is given
=============================================================================
