------------------------------- MODULE VoiceMC -------------------------------
(* Small classes for TLC: two processes of one user, and another user. *)
EXTENDS Voice

CONSTANTS a1, a2, b

MCUserId == [p \in Clients |-> IF p = a2 THEN a1 ELSE p]
=============================================================================
