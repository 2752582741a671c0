------------------------------- MODULE MCStore -------------------------------
(* Store for TLC: two scans and the server, two providers, and the legacy  *)
(* files in every combination that makes a difference to the migration.     *)
EXTENDS Store, TLC

CONSTANTS s1, s2, server, config, raven, f1, k1

EitherScan == Permutations({s1, s2})

Claimed == config :> "claimed"

Rows(names) == [n \in Names |-> IF n \in names THEN "claimed" ELSE NoRow]

File(providers, names, findings, keyPool) ==
  [providers |-> providers, rows |-> Rows(names),
   findings |-> findings, prints |-> IF findings = "read" THEN {f1} ELSE {},
   keyPool |-> keyPool, keys |-> IF keyPool = "read" THEN {k1} ELSE {}]

SomeFiles == {File(Absent, {}, "read", "read"), File("broken", {}, "read", "read"),
              File("read", {raven}, "read", "read"),
              File("read", {raven}, Absent, "read"),
              File("read", {raven}, "read", "broken")}

\* With an empty list of providers, too.
EmptyFiles == {File("read", {}, "read", "read")}
=============================================================================
