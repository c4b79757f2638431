---------------------------- MODULE MCSyncOutbox ----------------------------
(* Instances of SyncOutbox for TLC: the cfg files give the bounds.          *)
EXTENDS SyncOutbox
=============================================================================
