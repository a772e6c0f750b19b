------------------------------ MODULE FramingMC ------------------------------
(* Both ends of a connection: the server's, as the configuration says, and  *)
(* a client's.  Of the packed commands one reads like a length.             *)
EXTENDS Framing

CONSTANT ClientConnections  \* MaxConnections of a client

VARIABLE atServer  \* which end reads

AtClient == INSTANCE Framing WITH AtServer <- FALSE, MaxConnections <- ClientConnections

SmallBodies == {<<1, 5>>, <<0, 0, 3>>}

Reader(server, client) == (IF atServer THEN server ELSE client) /\ UNCHANGED atServer

MCInit == atServer \in BOOLEAN /\ Init

MCNext ==
  \/ \E body \in Bodies : Reader(Write(body), AtClient!Write(body))
  \/ Reader(Arrive, AtClient!Arrive)
  \/ Reader(ParseCommand, AtClient!ParseCommand)
  \/ Reader(Loop, AtClient!Loop)
  \/ Reader(Reconnect, AtClient!Reconnect)

MCSpec ==
  /\ MCInit /\ [][MCNext]_<<vars, atServer>>
  /\ WF_vars(Reader(Arrive, AtClient!Arrive))
  /\ WF_vars(Reader(ParseCommand, AtClient!ParseCommand))
  /\ WF_vars(Reader(Loop, AtClient!Loop))
=============================================================================
