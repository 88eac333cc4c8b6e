---------------------------- MODULE MCSyncDaemon ----------------------------
(* Instances of SyncDaemon for TLC. *)
EXTENDS SyncDaemon

\* two servers that tell the truth
HonestPair  == <<0, 0>>
PairStrata  == <<2, 2>>
\* three, the last of which is off by a second or so
OneLiar     == <<0, 0, 8>>
LiarStrata  == <<2, 2, 1>>
=============================================================================
