---------------------------- MODULE MCSearchKeys ----------------------------
(* SearchKeys for TLC: a provider no search asks, which has a key nobody    *)
(* has given yet, and one with a valid key, with one that fails its probes, *)
(* which the pool does not list yet, and a log line taken for a key.        *)
EXTENDS SearchKeys, TLC

CONSTANTS exa, tavily, t, n, fresh, noT

Of     == [k \in Keys |-> IF k = fresh THEN exa ELSE tavily]
NoKey  == tavily :> noT
ByHand == tavily :> {t}
Engine(kind, keys, off) == [block |-> kind, keys |-> keys, disabled |-> off]
AtFirst == {(exa :> Engine("bare", {}, TRUE)) @@ (tavily :> Engine("list", {t, n}, FALSE))}
Pool(keys) == [k \in Keys |-> IF k \in keys THEN "active" ELSE Unlisted]
\* A log line has been taken for a key before, and found out.
Seeded == {[Pool({t}) EXCEPT ![noT] = "burnt"]}

Probes == {[k \in Keys |-> IF k = t THEN "active" ELSE "burnt"]}
=============================================================================
