----------------------------- MODULE MCRateLimit -----------------------------
(* RateLimit for TLC: two connections of one address.                  *)
EXTENDS RateLimit, TLC

CONSTANTS c1, c2, ip1

OneIp == (c1 :> ip1) @@ (c2 :> ip1)
=============================================================================
