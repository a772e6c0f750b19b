--------------------------- MODULE FloorControlMC ---------------------------
(***************************************************************************)
(* Small classes for TLC.                                                  *)
(***************************************************************************)
EXTENDS FloorControl, TLC

CONSTANTS
  t1, t2, s1, s2, s3,  \* clients
  u                    \* the user of two of them

(* Every client has a user id of its own. *)
OwnIds == [c \in Clients |-> c]

(* Two connections of the teacher's user: it may restart or retry. *)
RestartIds == [c \in Clients |-> IF c \in Teachers THEN t1 ELSE c]

(* And of a student's. *)
ComeBackIds == [c \in Clients |-> IF c \in {s1, s3} THEN u ELSE c]

StudentSymmetry == Permutations(Students)
ComeBackSymmetry == Permutations({s1, s3})
=============================================================================
