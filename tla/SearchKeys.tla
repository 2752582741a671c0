----------------------------- MODULE SearchKeys -----------------------------
(***************************************************************************)
(* The pool of search keys: scripts/key_pool.py, its clients (the searches *)
(* of search-orchestrator.sh, the hourly healthcheck, people at a shell)   *)
(* and the files it keeps in step: settings.yml of SearXNG and             *)
(* search-keys.yaml.                                                       *)
(*                                                                         *)
(* Every command loads key_pool.json whole, edits its copy, writes it to   *)
(* key_pool.json.tmp and renames that.  Nothing is locked, and all of them *)
(* write the same temporary file: its opening, its filling and the rename  *)
(* are steps of their own.  Probes and edits of a copy belong to the load  *)
(* before them.  settings.yml is replaced the same way, in one step here,  *)
(* which may end otherwise when two programs cross; add-key truncates it   *)
(* and fills it, in two.                                                   *)
(***************************************************************************)
EXTENDS Integers, FiniteSets

CONSTANTS Searches,   \* search_tavily, search_firecrawl, search_tinyfish
          Checkers,   \* healthchecks
          People,     \* who call key_pool.py or add keys at a shell
          Providers,
          Searched,   \* those a search function of its own asks
          Keys,       \* what may stand in the pool as a key
          ProviderOf, \* the provider under which it stands
          Junk,       \* what a search takes for a key when it is told of none
          HandKeys,   \* the keys of a search-keys.yaml written by hand
          Verdicts,   \* what the probes of one healthcheck may make of the keys
          FirstPools, \* what key_pool.json may hold at first: without a file, no key
          FirstEngines, \* what settings.yml may hold at first
          MaxTries,   \* max_retries
          MaxRuns,    \* bound on searches and commands given by people
          MaxCrashes  \* bound on crashes

Procs == Searches \cup Checkers \cup People
Statuses == {"active", "suspended", "burnt"}
Unlisted == "unlisted"

\* A pool: the status of each key it lists.  The order of the keys and
\* active_idx are left out: "next" may return any active key.
Pools == [Keys -> Statuses \cup {Unlisted}]
NoKeys == [k \in Keys |-> Unlisted]

\* What a file may be: a whole pool; one whose bytes are still to be written;
\* one that two programs have written over one another; absent.  But for the
\* first, load_pool takes it for a pool without keys.
Contents == [is : {"whole", "empty", "torn", "absent"}, keys : Pools]
Whole(copy) == [is |-> "whole", keys |-> copy]
Empty  == [is |-> "empty", keys |-> NoKeys]
Torn   == [is |-> "torn", keys |-> NoKeys]
Absent == [is |-> "absent", keys |-> NoKeys]

KeysOf(p) == {k \in Keys : ProviderOf[k] = p}

\* What a person can give as keys of p.
Addable(p) == KeysOf(p) \ {Junk[q] : q \in Searched}

\* settings.yml: for each provider whether it has an engine, and that a line
\* "api_keys:", the keys under it and whether the engine is disabled.  A file
\* none of the programs makes anything of, empty or of two texts, has none.
Engines == [Providers -> [block : {"none", "bare", "list"}, keys : SUBSET Keys,
                          disabled : BOOLEAN]]
NoEngines == [p \in Providers |-> [block |-> "none", keys |-> {}, disabled |-> FALSE]]

ASSUME SearchType ==
  /\ Searches \cap Checkers = {} /\ People \cap (Searches \cup Checkers) = {}
  /\ "none" \notin Keys /\ ProviderOf \in [Keys -> Providers]
  /\ Searched \subseteq Providers
  /\ \A p \in Searched : Junk[p] \in KeysOf(p) /\ HandKeys[p] \in SUBSET KeysOf(p)
  /\ Verdicts \subseteq [Keys -> Statuses]
  /\ FirstPools \subseteq Pools
  /\ FirstEngines \subseteq Engines \ {NoEngines}
  /\ \A first \in FirstEngines, p \in Providers :
        /\ first[p].keys \subseteq Addable(p)
        /\ first[p].keys # {} => first[p].block = "list"
        /\ first[p].keys = {} /\ first[p].block # "none" => first[p].disabled
        /\ \A k \in first[p].keys, copy \in FirstPools : copy[k] \in {"active", Unlisted}
  /\ MaxTries \in Nat \ {0} /\ MaxRuns \in Nat /\ MaxCrashes \in Nat

VARIABLES
  pool,     \* key_pool.json
  tmp,      \* key_pool.json.tmp
  where,    \* the file a program has open: the temporary one, the pool,
            \* settings.yml ("engines"), one that has been replaced, or none
  settings, \* settings.yml
  dumped,   \* search-keys.yaml has been written by key_pool.py
  mem,      \* the programs' own memory
  since,    \* history: keys whose status changed since a program loaded
  met,      \* history: two programs have been at these files at once
  clash,    \* history: two programs have used the temporary file at once
  owed,     \* history: providers whose engines may not be in line with the pool:
            \* a command is to write them, or add-key has
  runs, crashes

files == <<pool, tmp, where>>
history == <<since, met, clash, owed>>
searchVars == <<files, settings, dumped, mem, history, runs, crashes>>

Jobs == {"none", "next", "suspend", "check", "mark", "recover", "sync", "init", "add"}

\* Inside a command, from its first access to a file to its last.
Writing == {"open", "fill", "replace"}
InCommand == Writing \cup {"sync", "write", "dump", "seed", "add", "list"}

Rest == [at |-> "idle", job |-> "none", prov |-> "none", key |-> "none",
         copy |-> NoKeys, spare |-> 0, tries |-> 0, due |-> {},
         text |-> NoEngines]

SearchInit ==
  /\ pool \in {Whole(first) : first \in FirstPools}
  /\ tmp = Absent
  /\ where = [x \in Procs |-> "none"]
  /\ settings \in FirstEngines
  /\ dumped = FALSE
  /\ mem = [x \in Procs |-> Rest]
  /\ since = [x \in Procs |-> {}]
  /\ met = FALSE /\ clash = FALSE /\ owed = {}
  /\ runs = 0 /\ crashes = 0

-----------------------------------------------------------------------------
(* Loading and saving the pool.                                            *)

Busy(x) == mem[x].at \in InCommand
Meets(x) == met' = (met \/ \E y \in Procs \ {x} : Busy(y))

\* Program x has loaded the pool.
Loads(x) == /\ since' = [since EXCEPT ![x] = {}]
            /\ Meets(x)
            /\ UNCHANGED <<files, settings, dumped, clash, owed, crashes>>

Goes(x, rec) == mem' = [mem EXCEPT ![x] = rec]

\* x has loaded the pool and is to save this copy, and then to sync.
Saves(x, job, copy, due) ==
  /\ Goes(x, [mem[x] EXCEPT !.at = "open", !.job = job, !.copy = copy, !.due = due])
  /\ Loads(x)

\* save_pool: open(tmp, "w") makes or truncates the file.
Open(x) == /\ mem[x].at = "open"
           /\ tmp' = Empty
           /\ where' = [where EXCEPT ![x] = "tmp"]
           /\ clash' = (clash \/ \E y \in Procs \ {x} : mem[y].at \in {"fill", "replace"})
           /\ Goes(x, [mem[x] EXCEPT !.at = "fill"])
           /\ UNCHANGED <<pool, settings, dumped, since, met, owed, runs, crashes>>

\* A file of one buffer is written when it is closed, from its beginning: over
\* what another program has written there the result may be of both.
Over(old, copy) == IF old = Empty THEN {Whole(copy)} ELSE {Whole(copy), Torn}

\* Whose copies are not what the pool holds any more, key by key.
Outdates(new) == since' = [x \in Procs |->
  IF mem'[x].at \in Writing \cup {"seed"}
    THEN since[x] \cup {k \in Keys : pool.keys[k] # new.keys[k]} ELSE {}]

\* Written after another program renamed the file, it changes the pool itself.
Fill(x) == /\ mem[x].at = "fill"
           /\ CASE where[x] = "tmp" -> /\ tmp' \in Over(tmp, mem[x].copy)
                                       /\ UNCHANGED pool
                [] where[x] = "pool" -> /\ pool' \in Over(pool, mem[x].copy)
                                        /\ UNCHANGED tmp
                [] OTHER -> UNCHANGED <<pool, tmp>>
           /\ where' = [where EXCEPT ![x] = "none"]
           /\ Goes(x, [mem[x] EXCEPT !.at = "replace"])
           /\ Outdates(pool')
           /\ UNCHANGED <<settings, dumped, met, clash, owed, runs, crashes>>

\* What a search remembers between two commands.
Keeps(m, at, spare) == [Rest EXCEPT !.at = at, !.prov = m.prov, !.key = m.key,
                                    !.tries = m.tries, !.spare = spare]

\* Mutant: one try too many.
Again_OneMore(m) ==
  IF m.tries <= MaxTries
    THEN [Keeps(m, "next", 0) EXCEPT !.tries = m.tries + 1, !.key = "none"] ELSE Rest

\* Its loop goes on with the next try, or gives up.
Again(m) == IF m.tries < MaxTries
              THEN [Keeps(m, "next", 0) EXCEPT !.tries = m.tries + 1, !.key = "none"]
              ELSE Rest

\* rotate_on_error asks for the next key twice, and key_pool_rotate throws both
\* answers away; the search asks for its own.
AfterNext(m) == CASE m.spare = 0 -> Keeps(m, "ask", 0)
                  [] m.spare = 1 -> Again(m)
                  [] m.spare = 2 -> Keeps(m, "next", 1)

AfterSync(m) == IF m.job = "suspend" THEN Keeps(m, "next", 2) ELSE Rest

\* os.replace: whatever the temporary file holds is the pool now.
Replace(x) == /\ mem[x].at = "replace" /\ tmp # Absent
              /\ pool' = tmp
              /\ tmp' = Absent
              /\ where' = [y \in Procs |-> CASE where[y] = "tmp"  -> "pool"
                                             [] where[y] = "pool" -> "gone"
                                             [] OTHER -> where[y]]
              /\ owed' = owed \cup mem[x].due
              /\ Goes(x, CASE mem[x].job = "next" -> AfterNext(mem[x])
                           [] mem[x].job = "init" -> Rest
                           [] OTHER -> [mem[x] EXCEPT !.at = "sync"])
              /\ Outdates(tmp)
              /\ UNCHANGED <<settings, dumped, met, clash, runs, crashes>>

\* A command ends with an exception.  A search then has an empty answer or none
\* to read, and goes on.
AfterError(m) == CASE m.job = "next" /\ m.spare = 0 -> Keeps(m, "fallback", 0)
                   [] m.job = "suspend" \/ m.spare > 0 -> Again(m)
                   [] OTHER -> Rest

\* Another program has renamed it: FileNotFoundError.
CannotReplace(x) ==
  /\ mem[x].at = "replace" /\ tmp = Absent
  /\ Goes(x, AfterError(mem[x]))
  /\ UNCHANGED <<files, settings, dumped, history, runs, crashes>>

-----------------------------------------------------------------------------
(* sync_consumers, for the providers that are due.                         *)

SyncRead(x) == /\ mem[x].at = "sync"
               /\ \E p \in mem[x].due :
                    Goes(x, [mem[x] EXCEPT !.at = "write", !.prov = p, !.text = settings])
               /\ UNCHANGED <<files, settings, dumped, history, runs, crashes>>

\* Mutant: only burnt keys are left out.
Active_NotBurnt(copy, p) == {k \in KeysOf(p) : copy[k] \in {"active", "suspended"}}

\* The keys that are neither burnt nor suspended.
Active(copy, p) == {k \in KeysOf(p) : copy[k] = "active"}

\* Mutant: an engine that has keys again is enabled again.
Synced_Enable(text, p, active) ==
  LET e == text[p]
  IN [text EXCEPT ![p] = IF e.block = "none" THEN e
                         ELSE [e EXCEPT !.keys = IF e.block = "list" THEN active ELSE @,
                                        !.disabled = active = {}]]

\* _set_api_keys_block and _set_disabled: an engine that has a list of keys is
\* given these; one left without keys is disabled, and none is ever enabled.
Synced(text, p, active) ==
  LET e == text[p]
  IN [text EXCEPT ![p] = IF e.block = "none" THEN e
                         ELSE [e EXCEPT !.keys = IF e.block = "list" THEN active ELSE @,
                                        !.disabled = @ \/ active = {}]]

Edited(x) == Synced(mem[x].text, mem[x].prov, Active(mem[x].copy, mem[x].prov))

\* settings.yml is another file now, if its text is another: whoever has the old
\* one open fills that.
Renames == where' = [y \in Procs |-> IF where[y] = "engines" /\ settings' # settings
                                      THEN "gone" ELSE where[y]]

\* _write_settings_api_keys writes the text and renames it, if it is another.
SyncSettings(x) == /\ mem[x].at = "write"
                   /\ settings' = Edited(x)
                   /\ Renames
                   /\ owed' = owed \ {mem[x].prov}
                   /\ Goes(x, [mem[x] EXCEPT !.at = "dump", !.text = NoEngines])
                   /\ UNCHANGED <<pool, tmp, dumped, since, met, clash, runs, crashes>>

\* The temporary file is the same for all, too.  Another program that has
\* written settings.yml since x read it, or is about to, may have truncated it,
\* filled it or renamed it in between: what becomes settings.yml is the text of
\* either, or nothing to make anything of, or the renaming fails.
Crossed(x) == settings # mem[x].text \/ \E y \in Procs \ {x} : mem[y].at = "write"
SyncCrossed(x) ==
  /\ mem[x].at = "write" /\ Crossed(x)
  /\ settings' \in {settings, NoEngines} \cup
                    {Edited(y) : y \in {z \in Procs : mem[z].at = "write"}}
  /\ Renames
  /\ \/ Goes(x, [mem[x] EXCEPT !.at = "dump", !.text = NoEngines])
     \/ Goes(x, AfterError(mem[x]))
  /\ UNCHANGED <<pool, tmp, dumped, history, runs, crashes>>

\* _write_search_keys: yaml.safe_dump does not indent lists, and get_next_key
\* looks for them four columns in.
SyncSearchKeys(x) ==
  LET due == mem[x].due \ {mem[x].prov}
  IN /\ mem[x].at = "dump"
     /\ dumped' = TRUE
     /\ Goes(x, IF due = {} THEN AfterSync(mem[x])
                ELSE [mem[x] EXCEPT !.at = "sync", !.due = due])
     /\ UNCHANGED <<files, settings, history, runs, crashes>>

-----------------------------------------------------------------------------
(* A search with the keys of one provider (search_tavily and the others).  *)

StartSearch(s) == /\ mem[s].at = "idle" /\ runs < MaxRuns
                  /\ \E p \in Searched :
                       Goes(s, [Rest EXCEPT !.at = "next", !.prov = p, !.tries = 1])
                  /\ runs' = runs + 1
                  /\ UNCHANGED <<files, settings, dumped, history, crashes>>

\* cmd_next finds a key, and saves where to look next time.
NextKey(s) ==
  /\ mem[s].at = "next"
  /\ \E k \in Active(pool.keys, mem[s].prov) :
       Goes(s, [mem[s] EXCEPT !.at = "open", !.job = "next", !.copy = pool.keys,
                              !.due = {}, !.key = k])
  /\ Loads(s) /\ UNCHANGED runs

\* It finds none and says so -- on the output that get_next_key takes for the
\* key.
NoNextKey(s) ==
  /\ mem[s].at = "next"
  /\ Active(pool.keys, mem[s].prov) = {}
  /\ Goes(s, AfterNext([mem[s] EXCEPT !.key = Junk[mem[s].prov]]))
  /\ Loads(s) /\ UNCHANGED runs

\* get_next_key without an answer of key_pool.py: the legacy rotation.
Fallback(s) ==
  LET p == mem[s].prov
      listed == IF dumped \/ HandKeys[p] = {} THEN {Junk[p]} ELSE HandKeys[p]
  IN /\ mem[s].at = "fallback"
     /\ \E k \in listed : Goes(s, [mem[s] EXCEPT !.at = "ask", !.key = k])
     /\ UNCHANGED <<files, settings, dumped, history, runs, crashes>>

\* The answer has results; or speaks of quota, or of a limit of any kind; or is
\* an error or nothing, and the search only goes on.
Ask(s) == /\ mem[s].at = "ask"
          /\ \/ Goes(s, Rest)
             \/ Goes(s, [mem[s] EXCEPT !.at = "quota"])
             \/ Goes(s, Again(mem[s]))
          /\ UNCHANGED <<files, settings, dumped, history, runs, crashes>>

\* Mutant: whatever its status was.
Suspend_Any(s) ==
  /\ mem[s].at = "quota"
  /\ Saves(s, "suspend", [pool.keys EXCEPT ![mem[s].key] = "suspended"], {mem[s].prov})
  /\ UNCHANGED runs

\* cmd_suspend: a burnt key stays burnt, a key the pool does not know is added.
Suspend(s) ==
  LET k == mem[s].key
      c == pool.keys
  IN /\ mem[s].at = "quota"
     /\ Saves(s, "suspend", IF c[k] = "burnt" THEN c ELSE [c EXCEPT ![k] = "suspended"],
              {mem[s].prov})
     /\ UNCHANGED runs

Search(s) == \/ StartSearch(s) \/ NextKey(s) \/ NoNextKey(s) \/ Fallback(s)
             \/ Ask(s) \/ Suspend(s)
-----------------------------------------------------------------------------
(* The healthcheck, and the commands people give.                          *)

\* Mutant: a suspended key is not probed.
Probed_Active(c, v) == [k \in Keys |-> IF c[k] = "active" THEN v[k] ELSE c[k]]

\* Burnt keys are not probed.
Probed(c, v) == [k \in Keys |-> IF c[k] \in {"burnt", Unlisted} THEN c[k] ELSE v[k]]

Check(h) == /\ mem[h].at = "idle"
            /\ \E v \in Verdicts : Saves(h, "check", Probed(pool.keys, v), Providers)
            /\ UNCHANGED runs

Gives(u) == /\ mem[u].at = "idle" /\ runs < MaxRuns
            /\ runs' = runs + 1

MarkBurnt(u) == /\ Gives(u)
                /\ \E k \in Keys :
                     Saves(u, "mark", [pool.keys EXCEPT ![k] = "burnt"], {ProviderOf[k]})

\* Of one provider, or of all: burnt keys are to be probed again.
Recover(u) ==
  LET c == pool.keys
  IN /\ Gives(u)
     /\ \E due \in {{p} : p \in Providers} \cup {Providers} :
          LET Back(k) == c[k] = "burnt" /\ ProviderOf[k] \in due
          IN /\ \E k \in Keys : Back(k)
             /\ Saves(u, "recover", [k \in Keys |-> IF Back(k) THEN "suspended" ELSE c[k]],
                      due)

Sync(u) == /\ Gives(u)
           /\ Goes(u, [mem[u] EXCEPT !.at = "sync", !.job = "sync", !.copy = pool.keys,
                                     !.due = Providers])
           /\ Loads(u)

\* cmd_init loads the pool, and then takes over the keys of settings.yml it
\* does not list.
Init(u) == /\ Gives(u)
           /\ Goes(u, [mem[u] EXCEPT !.at = "seed", !.job = "init", !.copy = pool.keys])
           /\ Loads(u)

Seed(u) ==
  LET c == mem[u].copy
      New(k) == c[k] = Unlisted /\ k \in settings[ProviderOf[k]].keys
  IN /\ mem[u].at = "seed"
     /\ Goes(u, IF \A k \in Keys : ~New(k) THEN Rest
                ELSE [mem[u] EXCEPT !.at = "open",
                        !.copy = [k \in Keys |-> IF New(k) THEN "active" ELSE c[k]]])
     /\ UNCHANGED <<files, settings, dumped, history, runs, crashes>>

\* lab-search-gateway-addkey.sh: settings.yml is read and written, the pool is
\* not.  An empty one ends the script.
ReadEngines(u) == /\ Gives(u)
                  /\ settings # NoEngines
                  /\ Goes(u, [mem[u] EXCEPT !.at = "add", !.job = "add", !.text = settings])
                  /\ Meets(u)
                  /\ UNCHANGED <<files, settings, dumped, since, clash, owed, crashes>>

\* open(path, "w") truncates the file itself ...
TruncateEngines(u) == /\ mem[u].at = "add"
                      /\ settings' = NoEngines
                      /\ where' = [where EXCEPT ![u] = "engines"]
                      /\ Goes(u, [mem[u] EXCEPT !.at = "list"])
                      /\ UNCHANGED <<pool, tmp, dumped, history, runs, crashes>>

\* One engine has these keys instead of those it had, or is a new one.
Listed(text, p, new) == [text EXCEPT ![p].block = "list", ![p].keys = new]

\* ... and the dump fills it.  Whatever keys are given to the script are put in,
\* those too that the pool lists as suspended or burnt.
AddKeys(u) ==
  /\ mem[u].at = "list"
  /\ \E p \in Providers : \E new \in SUBSET Addable(p) :
       /\ new # {}
       /\ IF where[u] = "gone" THEN UNCHANGED <<settings, owed>>
          ELSE /\ settings' \in IF settings = NoEngines
                                   THEN {Listed(mem[u].text, p, new)}
                                   ELSE {Listed(mem[u].text, p, new), NoEngines}
               /\ owed' = owed \cup {p}
  /\ where' = [where EXCEPT ![u] = "none"]
  /\ Goes(u, Rest)
  /\ UNCHANGED <<pool, tmp, dumped, since, met, clash, runs, crashes>>

Command(u) == \/ MarkBurnt(u) \/ Recover(u) \/ Sync(u) \/ Init(u) \/ Seed(u)
              \/ ReadEngines(u) \/ TruncateEngines(u) \/ AddKeys(u)

-----------------------------------------------------------------------------
(* The whole.                                                              *)

\* A program is killed.  Its part of a file stays where it is.
Crash(x) == /\ mem[x].at # "idle" /\ crashes < MaxCrashes
            /\ Goes(x, Rest)
            /\ where' = [where EXCEPT ![x] = "none"]
            /\ crashes' = crashes + 1
            /\ UNCHANGED <<pool, tmp, settings, dumped, history, runs>>

\* The steps all commands have.
Going(x) == \/ Open(x) \/ Fill(x) \/ Replace(x) \/ CannotReplace(x)
            \/ SyncRead(x) \/ SyncSettings(x) \/ SyncCrossed(x) \/ SyncSearchKeys(x)

SearchNext == \/ \E x \in Procs : Going(x) \/ Crash(x)
              \/ \E s \in Searches : Search(s)
              \/ \E h \in Checkers : Check(h)
              \/ \E u \in People : Command(u)

SearchSpec == SearchInit /\ [][SearchNext]_searchVars

\* The timer starts the healthcheck every hour, and it runs to its end: probes
\* have a time-out.  What has read settings.yml waits for nothing before it
\* writes.
SearchFairness ==
  /\ \A h \in Checkers : WF_searchVars(Check(h) \/ Going(h))
  /\ \A x \in Searches \cup People : WF_searchVars(SyncSettings(x) \/ SyncCrossed(x))

FairSearchSpec == SearchSpec /\ SearchFairness

-----------------------------------------------------------------------------
(* Properties.                                                             *)

\* Type invariant.
SearchTypeOK ==
  /\ pool \in Contents /\ tmp \in Contents
  /\ where \in [Procs -> {"none", "tmp", "pool", "engines", "gone"}]
  /\ settings \in Engines /\ dumped \in BOOLEAN
  /\ mem \in [Procs -> [at : InCommand \cup {"idle", "next", "fallback", "ask", "quota"},
                        job : Jobs, prov : Providers \cup {"none"},
                        key : Keys \cup {"none"}, copy : Pools, spare : 0..2,
                        tries : 0..MaxTries, due : SUBSET Providers, text : Engines]]
  /\ since \in [Procs -> SUBSET Keys]
  /\ met \in BOOLEAN /\ clash \in BOOLEAN /\ owed \subseteq Providers
  /\ runs \in 0..MaxRuns /\ crashes \in 0..MaxCrashes

\* What each command is for: a burnt key is left to "recover", and a suspended
\* one becomes active by a healthcheck alone.
MayTurn(job, old, new) ==
  CASE job = "check"   -> old \notin {"burnt", Unlisted} /\ new # Unlisted
    [] job = "suspend" -> old # "burnt" /\ new = "suspended"
    [] job = "mark"    -> new = "burnt"
    [] job = "recover" -> old = "burnt" /\ new = "suspended"
    [] job = "init"    -> old = Unlisted /\ new = "active"
    [] OTHER           -> FALSE

\* However commands overlap, and wherever they are killed: no key leaves the
\* pool and none changes its status but by a command made for it -- unless the
\* program that saves had loaded the pool before the key got that status, or
\* two of them have used the temporary file at once.
PoolStands ==
  [][\A k \in Keys : pool.keys[k] # pool'.keys[k] /\ ~clash =>
       \E x \in Procs : /\ mem[x].at = "replace" /\ mem'[x] # mem[x]
                        /\ \/ k \in since[x]
                           \/ MayTurn(mem[x].job, pool.keys[k], pool'.keys[k])]_searchVars

\* While commands do not overlap, the engines have no key the pool lists as
\* suspended or burnt, once the program that found it so has come to its engine
\* (a crash before leaves the provider owed to the next one), and unless add-key,
\* which does not look at the pool, has put it in since; and an engine without
\* keys is disabled.
EngineKeysRest ==
  \A p \in Providers :
    /\ ~met /\ p \notin owed =>
         \A k \in settings[p].keys : pool.keys[k] \in {"active", Unlisted}
    /\ settings[p].block # "none" /\ settings[p].keys = {} => settings[p].disabled

\* A key whose probes succeed, suspended by a search, is active in the pool
\* again, and its engine, if it still has a list of keys, has it again as well
\* -- be it an engine disabled when it ran out of keys, which stays disabled --
\* unless the key is burnt by hand or two programs tear the pool.
Sound == {k \in Keys : \A v \in Verdicts : v[k] = "active"}
QuotaReturns ==
  \A k \in Sound :
    pool.keys[k] = "suspended" ~>
      \/ pool.keys[k] \in {"burnt", Unlisted}
      \/ /\ pool.keys[k] = "active"
         /\ LET e == settings[ProviderOf[k]] IN k \in e.keys \/ e.block # "list"

\* The engines as they are when add-key does not die: while it fills the file,
\* what it has read.
Filling == {u \in People : mem[u].at = "list"}
Kept == IF Filling = {} THEN settings ELSE mem[CHOOSE u \in Filling : TRUE].text

\* The commands implement KeyBook.
Book == INSTANCE KeyBook
          WITH overlap <- met,
               status  <- pool.keys,
               engine  <- [p \in Providers |-> Kept[p].block],
               given   <- [p \in Providers |-> Kept[p].keys],
               off     <- {p \in Providers : Kept[p].disabled},
               due     <- owed
ImplementsBook == Book!Spec
=============================================================================
