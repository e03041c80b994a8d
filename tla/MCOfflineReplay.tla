---------------------------- MODULE MCOfflineReplay ----------------------------
(* TLC instances of OfflineReplay.                                           *)
EXTENDS OfflineReplay, TLC
=============================================================================
