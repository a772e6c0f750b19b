---------------------------- MODULE ReconnectMC ----------------------------
(* A client whose network fails a few times, for TLC. *)
EXTENDS Reconnect
=============================================================================
