---------------------------- MODULE MCKeyIntake ----------------------------
(***************************************************************************)
(* KeyIntake for TLC.  A file with two keys of a provider whose endpoint   *)
(* is verified, a file with a key of a provider nobody knows, a file with  *)
(* no key, and two more files of the first provider with a key each.       *)
(***************************************************************************)
EXTENDS KeyIntake, TLC

CONSTANTS two, other, empty, more, late, known, unknown, k1, k2, k3, k4, k5, d1, d2

Providers == [f \in Files |-> IF f \in {two, more, late} THEN known ELSE unknown]
Contents  == [f \in Files |-> CASE f = two   -> <<k1, k2>>
                                [] f = other -> <<k3>>
                                [] f = empty -> << >>
                                [] f = more  -> <<k4>>
                                [] f = late  -> <<k5>>]

\* The keydrops are started alike.
Keydrops == Permutations(Droppers)
=============================================================================
