----------------------------- MODULE MCNtpServer ----------------------------
(* Instances of NtpServer for TLC. *)
EXTENDS NtpServer

\* All keys in one bucket.
OneBucket == {[k \in Keys |-> Size - 1]}
=============================================================================
