------------------------------ MODULE PlayerMC ------------------------------
(* Short lessons for TLC. *)
EXTENDS Player

CONSTANTS p1, p2, e1, e2, a, b

(* Lessons edited on one page and sought in, turned between two pages,     *)
(* filmed, and recorded anew.                                              *)
MCUsages ==
  {{"draw", "undo", "redo", "delete", "order", "goto"},
   {"draw", "undo", "turn", "goto"},
   {"draw", "change", "delete", "turn", "convert"},
   {"draw", "turn", "rerecord"}}

(* Pages, elements and looks are told apart by nothing but their names. *)
Symmetry == Permutations(PageIds) \cup Permutations(Uuids) \cup Permutations(Looks)
=============================================================================
