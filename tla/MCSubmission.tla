---------------------------- MODULE MCSubmission ----------------------------
(***************************************************************************)
(* Instances of Submission for TLC: three clients, two of which use the    *)
(* same event id.                                                          *)
(***************************************************************************)
EXTENDS Submission

CONSTANTS c1, c2, c3, e1, e2

TwoForOne == [c \in Clients |-> IF c = c3 THEN e2 ELSE e1]

AllTroubles == [k \in Troubles |-> 1]

OnlyExpiry == [k \in Troubles |-> IF k = "expiry" THEN 1 ELSE 0]
=============================================================================
