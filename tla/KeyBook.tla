------------------------------- MODULE KeyBook -------------------------------
(***************************************************************************)
(* What the commands of SearchKeys promise together, without their files,  *)
(* copies and crashes: a book with one status per key, which each command  *)
(* changes in one step, and the search engines, which are brought in line  *)
(* with it one provider at a time.  It promises so until two commands      *)
(* have overlapped.                                                        *)
(***************************************************************************)
CONSTANTS Keys, Providers,
          ProviderOf \* the provider of each key

VARIABLES overlap, \* two commands have overlapped
          status,  \* the book
          engine,  \* of each provider: none, one without a list of keys, or with
          given,   \* the keys each engine has
          off,     \* the engines that are disabled
          due      \* the providers whose engines may not be in line

bookVars == <<overlap, status, engine, given, off, due>>

Init == /\ overlap = FALSE
        /\ status \in [Keys -> {"active", "suspended", "burnt", "unlisted"}]
        /\ given \in [Providers -> SUBSET Keys]
        /\ \A p \in Providers : \A k \in given[p] :
              ProviderOf[k] = p /\ status[k] \in {"active", "unlisted"}
        /\ engine \in [Providers -> {"none", "bare", "list"}]
        /\ \A p \in Providers : /\ given[p] # {} => engine[p] = "list"
                                /\ given[p] = {} /\ engine[p] # "none" => p \in off
        /\ off \subseteq Providers
        /\ due = {}

-----------------------------------------------------------------------------
(* What a command makes of the book, and for which providers.              *)

\* A search has met a key's quota; a burnt key stays burnt.
Suspends(old, new, ps) ==
  \E k \in Keys : /\ old[k] # "burnt" /\ new = [old EXCEPT ![k] = "suspended"]
                  /\ ProviderOf[k] \in ps

\* Someone has marked a key.
Burns(old, new, ps) ==
  \E k \in Keys : new = [old EXCEPT ![k] = "burnt"] /\ ProviderOf[k] \in ps

\* Someone has all burnt keys of some providers probed again.
Recovers(old, new, ps) ==
  new = [k \in Keys |-> IF old[k] = "burnt" /\ ProviderOf[k] \in ps
                          THEN "suspended" ELSE old[k]]

\* The healthcheck probes whatever is listed and not burnt, and unlists nothing.
Probes(old, new, ps) ==
  /\ \A k \in Keys : IF old[k] \in {"burnt", "unlisted"} THEN new[k] = old[k]
                                                         ELSE new[k] # "unlisted"
  /\ ps = Providers

\* Keys that an engine has and the book does not list are taken over.
Takes(old, new, has) ==
  \E S \in SUBSET {k \in Keys : old[k] = "unlisted" /\ k \in has[ProviderOf[k]]} :
     new = [k \in Keys |-> IF k \in S THEN "active" ELSE old[k]]

\* A command may also find nothing to change.
Turns(old, new, has, ps) ==
  \/ new = old \/ Takes(old, new, has)
  \/ Suspends(old, new, ps) \/ Burns(old, new, ps)
  \/ Recovers(old, new, ps) \/ Probes(old, new, ps)

-----------------------------------------------------------------------------

Turn == \E ps \in SUBSET Providers :
           /\ Turns(status, status', given, ps)
           /\ due' = due \cup ps
           /\ UNCHANGED <<engine, given, off>>

\* The engine of p, if it has a list, is given the keys that are active.  One
\* left without keys is disabled; none is enabled again.
Follow(p) ==
  LET active == {k \in Keys : ProviderOf[k] = p /\ status[k] = "active"}
  IN /\ given' = [given EXCEPT ![p] = IF engine[p] = "list" THEN active ELSE @]
     /\ off' = IF active = {} /\ engine[p] # "none" THEN off \cup {p} ELSE off
     /\ due' = due \ {p}
     /\ UNCHANGED <<status, engine>>

\* Someone gives the engine of p new keys instead of those it has, whatever the
\* book says of them ...
Add(p) ==
  /\ \E new \in SUBSET {k \in Keys : ProviderOf[k] = p} :
       new # {} /\ given' = [given EXCEPT ![p] = new]
  /\ engine' = [engine EXCEPT ![p] = "list"]
  /\ due' = due \cup {p}
  /\ UNCHANGED <<status, off>>

\* ... or dies at it, and no engine is left.
Wipe == /\ engine' = [p \in Providers |-> "none"]
        /\ given' = [p \in Providers |-> {}]
        /\ off' = {}
        /\ UNCHANGED <<status, due>>

Next == \/ overlap'
        \/ /\ UNCHANGED overlap
           /\ Turn \/ Wipe \/ \E p \in Providers : Follow(p) \/ Add(p)

Spec == Init /\ [][Next]_bookVars
=============================================================================
