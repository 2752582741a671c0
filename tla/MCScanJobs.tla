----------------------------- MODULE MCScanJobs -----------------------------
(* ScanJobs for TLC: two connections of one address. *)
EXTENDS ScanJobs, TLC

CONSTANTS c1, c2, ip1

OneIp    == (c1 :> ip1) @@ (c2 :> ip1)
=============================================================================
