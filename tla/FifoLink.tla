------------------------------ MODULE FifoLink ------------------------------
(***************************************************************************)
(* What one direction of a connection promises to the two ends: the        *)
(* commands handed on are those written, whole, in order and none left     *)
(* out.  A new connection starts with nothing under way.  The queues       *)
(* toServer and toClient of FloorControl hold what a link has sent and not *)
(* yet delivered.                                                          *)
(***************************************************************************)
EXTENDS Naturals, Sequences

CONSTANT Bodies  \* what can be sent

VARIABLES sent, got

link == <<sent, got>>

Init == sent = <<>> /\ got = <<>>

Send(body) == sent' = Append(sent, body) /\ UNCHANGED got

Deliver ==
  /\ Len(got) < Len(sent)
  /\ got' = Append(got, sent[Len(got) + 1])
  /\ UNCHANGED sent

Renew == sent' = <<>> /\ got' = <<>>

Next == (\E body \in Bodies : Send(body)) \/ Deliver \/ Renew

Spec == Init /\ [][Next]_link
FairSpec == Spec /\ WF_link(Deliver)
=============================================================================
