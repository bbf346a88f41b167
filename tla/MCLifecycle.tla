---------------------------- MODULE MCLifecycle ----------------------------
(* Lifecycle, for TLC.  The module has no set to choose; the cfg bounds the *)
(* packets that wait in recvQueue.                                          *)
EXTENDS Lifecycle
=============================================================================
