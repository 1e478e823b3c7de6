---------------------------- MODULE MCSubmission ----------------------------
(* Instances of Submission for TLC. *)
EXTENDS Submission

CONSTANTS c1, c2, p1

(* Calls that say the same thing. *)
MCPayload == [c \in Calls |-> p1]
=============================================================================
