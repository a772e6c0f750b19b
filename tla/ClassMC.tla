------------------------------ MODULE ClassMC -------------------------------
(* An ordinary class, or a demo class, whose teacher does not come: of the *)
(* clients three are there.                                                *)
EXTENDS FloorControlMC, FiniteSets

VARIABLE present

Demo == INSTANCE FloorControl WITH AllTeachers <- TRUE

Class(c, ordinary, demo) ==
  /\ c \in present
  /\ IF present \cap Teachers = {} THEN demo ELSE ordinary
  /\ UNCHANGED present

MCInit == Init /\ present \in {S \in SUBSET Clients : Cardinality(S) = 3}

MCNext == \E c \in Clients :
  \/ Class(c, Handle(c), Demo!Handle(c))
  \/ Class(c, ReadEnds(c), Demo!ReadEnds(c))
  \/ Class(c, OnClose(c), Demo!OnClose(c))
  \/ Class(c, Receive(c), Demo!Receive(c))
  \/ Class(c, Input(c), Demo!Input(c))

MCSpec == MCInit /\ [][MCNext]_<<vars, present>>
=============================================================================
