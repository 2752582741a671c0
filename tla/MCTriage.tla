------------------------------ MODULE MCTriage ------------------------------
(* Small instances of Triage for TLC.                                      *)
EXTENDS Triage, TLC

CONSTANTS u1, u2, l1, l2, b1, b2, s1, s2, a1, a2

\* Two badge URLs of one repository: one canonical link for both.
OneLink == [u \in Urls |-> l1]
\* A link of its own for each source.
OwnLink == [u \in Urls |-> IF u = u1 THEN l1 ELSE l2]

Symmetry == Permutations(Urls)
=============================================================================
