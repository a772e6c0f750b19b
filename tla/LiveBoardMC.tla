---------------------------- MODULE LiveBoardMC ----------------------------
(* A small class with its boards for TLC. *)
EXTENDS LiveBoard

CONSTANTS t, s1, s2, nobody, noclient

MCUserId == [c \in Clients |-> c]

(* Classes that turn pages while the floor moves, hand the board over on   *)
(* request while they edit, edit new pages, select pages, take the board   *)
(* back in the middle of edits, and redo what was undone.                  *)
MCUsages ==
  {{"apply", "take", "turn"},
   {"apply", "draw", "undo", "top", "bottom"},
   {"draw", "delete", "change", "new"},
   {"draw", "change", "new", "select"},
   {"apply", "take", "draw", "undo"},
   {"draw", "undo", "redo"}}
=============================================================================
