------------------------------ MODULE MobileMC ------------------------------
(* A small site for TLC: the class and its lessons are model values. *)
EXTENDS Mobile, TLC

CONSTANTS c1, k1, k2

OneClass == c1 :> {k1, k2}
Positions == (k1 :> 1) @@ (k2 :> 2)

(* Error pages and deaths; two pages sliding and dismissed dialogs over a   *)
(* network that fails; a network that does not.                            *)
MCUsages == {
  {"back", "all", "page", "error", "death"},
  {"key", "all", "dismiss", "error"},
  {"back", "all", "dismiss"}}
=============================================================================
