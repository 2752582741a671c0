-------------------------- MODULE SearchKeysProofs --------------------------
(* Theorems about SearchKeys for any number of programs, providers and keys. *)
EXTENDS SearchKeys, TLAPS

Ats == InCommand \cup {"idle", "next", "fallback", "ask", "quota"}
Memory == [at : Ats, job : Jobs, prov : Providers \cup {"none"}, key : Keys \cup {"none"},
           copy : Pools, spare : 0..2, tries : 0..MaxTries, due : SUBSET Providers,
           text : Engines]

\* An engine without keys is disabled, and one with a list has keys of its own.
EnginesOK(e) == \A p \in Providers :
                  /\ e[p].keys = {} /\ e[p].block # "none" => e[p].disabled
                  /\ e[p].keys # {} => e[p].block = "list"
                  /\ e[p].keys \subseteq KeysOf(p)

\* A search knows its provider; the key it holds is of that provider; and
\* nobody else holds one.
Searching == {"next", "fallback", "ask", "quota"}
Placed(m) == /\ m.at \in Searching \/ m.job \in {"next", "suspend"} => m.prov \in Searched
             /\ m.spare > 0 => m.at = "next" \/ m.job = "next"
             /\ m.at \in Searching => m.job = "none"
             /\ m.at \in InCommand => m.job # "none"
             /\ m.job = "next" => m.at \in Writing
             /\ m.key \in Keys => ProviderOf[m.key] = m.prov
             /\ m.at = "idle" \/ m.job \notin {"none", "next", "suspend"} => m.key = "none"
             /\ m.job = "suspend" => m.due \subseteq {m.prov}
Fit(m) == m \in Memory /\ Placed(m) /\ EnginesOK(m.text)

Typed ==
  /\ pool \in Contents /\ tmp \in Contents
  /\ where \in [Procs -> {"none", "tmp", "pool", "engines", "gone"}]
  /\ settings \in Engines /\ EnginesOK(settings) /\ dumped \in BOOLEAN
  /\ since \in [Procs -> SUBSET Keys]
  /\ met \in BOOLEAN /\ clash \in BOOLEAN /\ owed \subseteq Providers
  /\ runs \in 0..MaxRuns /\ crashes \in 0..MaxCrashes

MemoryOK == mem \in [Procs -> Memory] /\ \A x \in Procs : Fit(mem[x])

TypeInv == Typed /\ MemoryOK

-----------------------------------------------------------------------------
(* Records.                                                                *)

LEMMA NoPools == NoKeys \in Pools /\ Unlisted \notin Statuses
BY DEF NoKeys, Pools, Statuses, Unlisted

LEMMA EnginesNone == NoEngines \in Engines /\ EnginesOK(NoEngines)
BY DEF NoEngines, Engines, EnginesOK

\* What a sync makes of an engine.
LEMMA SyncedFits ==
  ASSUME NEW text \in Engines, EnginesOK(text), NEW p, NEW active \in SUBSET KeysOf(p)
  PROVE  /\ Synced(text, p, active) \in Engines /\ EnginesOK(Synced(text, p, active))
         /\ \A q \in Providers : q # p => Synced(text, p, active)[q] = text[q]
         /\ p \in Providers =>
              /\ Synced(text, p, active)[p].block = text[p].block
              /\ Synced(text, p, active)[p].keys
                    = IF text[p].block = "list" THEN active ELSE text[p].keys
              /\ Synced(text, p, active)[p].disabled
                    = (text[p].disabled \/ (active = {} /\ text[p].block # "none"))
<1> DEFINE new == Synced(text, p, active)
<1>1. active \subseteq Keys
  BY DEF KeysOf
<1>2. \A q \in Providers : q # p => new[q] = text[q]
  BY DEF Synced, Engines
<1>3. ASSUME p \in Providers
      PROVE  /\ new[p].block = text[p].block
             /\ new[p].keys = IF text[p].block = "list" THEN active ELSE text[p].keys
             /\ new[p].disabled
                  = (text[p].disabled \/ (active = {} /\ text[p].block # "none"))
  <2>1. text[p] \in [block : {"none", "bare", "list"}, keys : SUBSET Keys,
                     disabled : BOOLEAN]
    BY <1>3 DEF Engines
  <2>2. new[p] = IF text[p].block = "none" THEN text[p]
                 ELSE [text[p] EXCEPT
                         !.keys = IF text[p].block = "list" THEN active ELSE @,
                         !.disabled = @ \/ active = {}]
    BY <1>3 DEF Synced, Engines
  <2> HIDE DEF new
  <2>3. CASE text[p].block = "none"
    BY <2>1, <2>2, <2>3
  <2>4. CASE text[p].block # "none"
    BY <2>1, <2>2, <2>4
  <2>5. QED
    BY <2>3, <2>4
<1>4. new \in Engines
  <2>1. new = [text EXCEPT ![p] = new[p]]
    BY DEF Synced, Engines
  <2>2. p \in Providers => new[p] \in [block : {"none", "bare", "list"},
                                      keys : SUBSET Keys, disabled : BOOLEAN]
    <3> DEFINE e == text[p]
               given == IF e.block = "list" THEN active ELSE e.keys
    <3>1. SUFFICES ASSUME p \in Providers
                   PROVE  new[p] \in [block : {"none", "bare", "list"},
                                      keys : SUBSET Keys, disabled : BOOLEAN]
      OBVIOUS
    <3>2. e \in [block : {"none", "bare", "list"}, keys : SUBSET Keys,
                  disabled : BOOLEAN]
      BY <3>1 DEF Engines
    <3>3. new[p] = IF e.block = "none" THEN e
                   ELSE [e EXCEPT !.keys = given, !.disabled = @ \/ active = {}]
      BY <3>1 DEF Synced, Engines
    <3>4. given \in SUBSET Keys
      BY <1>1, <3>2
    <3> HIDE DEF e, given, new
    <3>5. QED
      BY <3>2, <3>3, <3>4
  <2> HIDE DEF new
  <2>3. QED
    BY <2>1, <2>2 DEF Engines
<1> HIDE DEF new
<1>5. EnginesOK(new)
  BY <1>2, <1>3 DEF EnginesOK, Engines
<1>6. QED
  BY <1>2, <1>3, <1>4, <1>5 DEF new

LEMMA RestFits == Fit(Rest)
<1>1. Rest \in Memory
  BY NoPools, EnginesNone, SearchType DEF Rest, Memory, Ats, InCommand, Jobs
<1>2. Placed(Rest)
  BY SearchType DEF Rest, Placed, Searching, InCommand, Writing
<1>3. EnginesOK(Rest.text)
  BY EnginesNone DEF Rest
<1>4. QED
  BY <1>1, <1>2, <1>3 DEF Fit

LEMMA KeepsFits ==
  ASSUME NEW m, Fit(m), m.prov \in Searched,
         NEW at \in {"next", "fallback", "ask"}, NEW n \in 0..2, n = 0 \/ at = "next"
  PROVE  /\ Fit(Keeps(m, at, n)) /\ Keeps(m, at, n).at = at
         /\ Keeps(m, at, n).prov = m.prov
<1> DEFINE r == Keeps(m, at, n)
<1>1. Rest \in Memory /\ EnginesOK(Rest.text) /\ Rest.job = "none"
  BY RestFits DEF Fit, Rest
<1>2. /\ r \in Memory /\ r.at = at /\ r.prov = m.prov /\ r.key = m.key
      /\ r.job = "none" /\ r.text = Rest.text /\ r.spare = n
  <2> DEFINE base == Rest
  <2>1. base \in Memory /\ base.job = "none" /\ base.text = Rest.text
    BY <1>1
  <2>2. r = [base EXCEPT !.at = at, !.prov = m.prov, !.key = m.key,
                         !.tries = m.tries, !.spare = n]
    BY DEF Keeps
  <2>3. /\ at \in Ats /\ m.prov \in Providers \cup {"none"}
        /\ m.key \in Keys \cup {"none"} /\ m.tries \in 0..MaxTries /\ n \in 0..2
    BY DEF Fit, Memory, Ats
  <2> HIDE DEF base, r
  <2>4. QED
    BY <2>1, <2>2, <2>3 DEF Memory
<1>3. Placed(r)
  BY <1>2 DEF Fit, Placed, Searching, InCommand, Writing
<1>4. QED
  BY <1>1, <1>2, <1>3 DEF Fit

\* What a search may be at when a command of its has ended.
Ended == {"idle", "next", "fallback", "ask"}

LEMMA AgainFits ==
  ASSUME NEW m, Fit(m), m.prov \in Searched
  PROVE  Fit(Again(m)) /\ Again(m).at \in Ended
<1>1. CASE m.tries < MaxTries
  <2> DEFINE k == Keeps(m, "next", 0)
             r == [k EXCEPT !.tries = m.tries + 1, !.key = "none"]
  <2>1. Fit(k) /\ k.at = "next" /\ k.prov = m.prov
    BY KeepsFits
  <2>2. m.tries + 1 \in 0..MaxTries
    BY <1>1, SearchType DEF Fit, Memory
  <2>3. r \in Memory /\ r.at = "next" /\ r.text = k.text
    BY <2>1, <2>2 DEF Fit, Memory
  <2>4. Placed(r)
    BY <2>1, SearchType DEF Fit, Memory, Placed, Searching, InCommand, Writing
  <2>5. Again(m) = r
    BY <1>1 DEF Again
  <2>6. QED
    BY <2>1, <2>3, <2>4, <2>5 DEF Fit, Ended
<1>2. CASE ~(m.tries < MaxTries)
  BY <1>2, RestFits DEF Again, Ended, Rest
<1>3. QED
  BY <1>1, <1>2

LEMMA AfterNextFits ==
  ASSUME NEW m, Fit(m), m.prov \in Searched
  PROVE  Fit(AfterNext(m)) /\ AfterNext(m).at \in Ended
<1>1. m.spare \in {0, 1, 2}
  BY DEF Fit, Memory
<1>2. QED
  BY <1>1, KeepsFits, AgainFits DEF AfterNext, Ended

LEMMA AfterSyncFits ==
  ASSUME NEW m, Fit(m)
  PROVE  Fit(AfterSync(m)) /\ AfterSync(m).at \in Ended
<1>1. CASE m.job = "suspend"
  <2>1. m.prov \in Searched
    BY <1>1 DEF Fit, Placed
  <2>2. QED
    BY <1>1, <2>1, KeepsFits DEF AfterSync, Ended
<1>2. CASE m.job # "suspend"
  BY <1>2, RestFits DEF AfterSync, Ended, Rest
<1>3. QED
  BY <1>1, <1>2

LEMMA AfterErrorFits ==
  ASSUME NEW m, Fit(m)
  PROVE  Fit(AfterError(m)) /\ AfterError(m).at \in Ended
<1>1. CASE m.job = "next" /\ m.spare = 0
  <2>1. m.prov \in Searched
    BY <1>1 DEF Fit, Placed
  <2>2. QED
    BY <1>1, <2>1, KeepsFits DEF AfterError, Ended
<1>2. CASE ~(m.job = "next" /\ m.spare = 0) /\ (m.job = "suspend" \/ m.spare > 0)
  <2>1. m.prov \in Searched
    BY <1>2 DEF Fit, Placed, Searching
  <2>2. QED
    BY <1>2, <2>1, AgainFits DEF AfterError
<1>3. CASE ~(m.job = "next" /\ m.spare = 0) /\ ~(m.job = "suspend" \/ m.spare > 0)
  BY <1>3, RestFits DEF AfterError, Ended, Rest
<1>4. QED
  BY <1>1, <1>2, <1>3

\* Whoever begins a command that saves, with what it will save.
LEMMA SavesFits ==
  ASSUME NEW m, Fit(m), NEW job \in Jobs \ {"none", "next"}, NEW copy \in Pools,
         NEW due \in SUBSET Providers,
         \/ m.at = "quota" /\ job = "suspend" /\ due = {m.prov}
         \/ m.at = "idle" /\ job # "suspend"
  PROVE  Fit([m EXCEPT !.at = "open", !.job = job, !.copy = copy, !.due = due])
<1> DEFINE r == [m EXCEPT !.at = "open", !.job = job, !.copy = copy, !.due = due]
<1>1. r \in Memory /\ r.text = m.text
  BY DEF Fit, Memory, Ats, InCommand, Writing
<1>2. Placed(r)
  BY SearchType DEF Fit, Memory, Placed, Searching, InCommand, Writing
<1>3. QED
  BY <1>1, <1>2 DEF Fit

-----------------------------------------------------------------------------
(* Types.                                                                  *)

\* Program x goes on with memory r.
LEMMA Goes1 ==
  ASSUME MemoryOK, NEW x \in Procs, NEW r, Fit(r), Goes(x, r)
  PROVE  MemoryOK'
BY DEF MemoryOK, Goes, Fit

LEMMA ContentTypes ==
  /\ Empty \in Contents /\ Torn \in Contents /\ Absent \in Contents
  /\ \A copy \in Pools : Whole(copy) \in Contents
  /\ \A c \in Contents : c.keys \in Pools
BY NoPools DEF Contents, Empty, Torn, Absent, Whole

LEMMA OverTypes == \A old, copy : copy \in Pools => Over(old, copy) \subseteq Contents
BY ContentTypes DEF Over

LEMMA LoadTypes ==
  ASSUME Typed, NEW x \in Procs, Loads(x), runs' \in 0..MaxRuns
  PROVE  Typed'
BY DEF Typed, Loads, Meets, files

\* A search about to load the pool, with what it goes on with.
LEMMA SuspendFits ==
  ASSUME TypeInv, NEW s \in Searches, Suspend(s)
  PROVE  TypeInv'
<1> DEFINE c == pool.keys
           k == mem[s].key
           copy == IF c[k] = "burnt" THEN c ELSE [c EXCEPT ![k] = "suspended"]
<1>1. s \in Procs /\ Fit(mem[s]) /\ mem[s].at = "quota" /\ mem[s].prov \in Searched
  BY DEF Suspend, Procs, TypeInv, MemoryOK, Fit, Placed, Searching, InCommand, Writing
<1>2. copy \in Pools
  <2>1. c \in Pools
    BY ContentTypes DEF TypeInv, Typed
  <2>2. QED
    BY <2>1 DEF Pools, Statuses
<1>3. Saves(s, "suspend", copy, {mem[s].prov}) /\ runs' = runs
  BY DEF Suspend
<1>4. MemoryOK'
  <2> HIDE DEF copy
  <2> DEFINE r == [mem[s] EXCEPT !.at = "open", !.job = "suspend", !.copy = copy,
                                 !.due = {mem[s].prov}]
  <2>1. "suspend" \in Jobs \ {"none", "next"} /\ {mem[s].prov} \in SUBSET Providers
    BY <1>1, SearchType DEF Jobs
  <2>2. Fit(r)
    BY <1>1, <1>2, <2>1, SavesFits
  <2>3. Goes(s, r)
    BY <1>3 DEF Saves
  <2> HIDE DEF r
  <2>4. QED
    BY <1>1, <2>2, <2>3, Goes1 DEF TypeInv
<1>5. Typed'
  BY <1>1, <1>3, LoadTypes DEF Saves, TypeInv, Typed
<1>6. QED
  BY <1>4, <1>5 DEF TypeInv

LEMMA NextFits ==
  ASSUME TypeInv, NEW s \in Searches, NextKey(s)
  PROVE  TypeInv'
<1>1. s \in Procs /\ Fit(mem[s]) /\ mem[s].at = "next" /\ mem[s].prov \in Searched
  BY DEF NextKey, Procs, TypeInv, MemoryOK, Fit, Placed, Searching, InCommand, Writing
<1>2. PICK k \in Active(pool.keys, mem[s].prov) :
        Goes(s, [mem[s] EXCEPT !.at = "open", !.job = "next", !.copy = pool.keys,
                               !.due = {}, !.key = k])
  BY DEF NextKey
<1> DEFINE r == [mem[s] EXCEPT !.at = "open", !.job = "next", !.copy = pool.keys,
                               !.due = {}, !.key = k]
<1>3. k \in Keys /\ ProviderOf[k] = mem[s].prov
  BY <1>2 DEF Active, KeysOf
<1>4. r \in Memory /\ r.text = mem[s].text
  BY <1>1, <1>3, ContentTypes DEF TypeInv, Typed, Fit, Memory, Ats, InCommand, Writing, Jobs
<1>5. Placed(r)
  BY <1>1, <1>3 DEF Fit, Memory, Placed, Searching, InCommand, Writing
<1>6. MemoryOK'
  BY <1>1, <1>2, <1>4, <1>5, Goes1 DEF TypeInv, Fit
<1>7. Typed'
  BY <1>1, LoadTypes DEF NextKey, TypeInv, Typed
<1>8. QED
  BY <1>6, <1>7 DEF TypeInv

LEMMA NoNextFits ==
  ASSUME TypeInv, NEW s \in Searches, NoNextKey(s)
  PROVE  TypeInv'
<1>1. s \in Procs /\ Fit(mem[s]) /\ mem[s].at = "next" /\ mem[s].prov \in Searched
  BY DEF NoNextKey, Procs, TypeInv, MemoryOK, Fit, Placed, Searching, InCommand, Writing
<1> DEFINE r == [mem[s] EXCEPT !.key = Junk[mem[s].prov]]
<1>2. Junk[mem[s].prov] \in Keys /\ ProviderOf[Junk[mem[s].prov]] = mem[s].prov
  BY <1>1, SearchType DEF KeysOf
<1>3. r \in Memory /\ r.text = mem[s].text /\ r.prov = mem[s].prov
  BY <1>1, <1>2 DEF Fit, Memory
<1>4. Placed(r)
  BY <1>1, <1>2 DEF Fit, Memory, Placed, Searching, InCommand, Writing
<1>5. Fit(AfterNext(r))
  BY <1>1, <1>3, <1>4, AfterNextFits DEF Fit
<1>6. MemoryOK'
  BY <1>1, <1>5, Goes1 DEF NoNextKey, TypeInv
<1>7. Typed'
  BY <1>1, LoadTypes DEF NoNextKey, TypeInv, Typed
<1>8. QED
  BY <1>6, <1>7 DEF TypeInv

LEMMA SearchFits ==
  ASSUME TypeInv, NEW s \in Searches, Search(s)
  PROVE  TypeInv'
<1>1. s \in Procs /\ Fit(mem[s]) /\ mem[s] \in Memory /\ Placed(mem[s])
  BY DEF Procs, TypeInv, MemoryOK, Fit
<1>2. CASE StartSearch(s)
  <2>1. PICK p \in Searched :
          Goes(s, [Rest EXCEPT !.at = "next", !.prov = p, !.tries = 1])
    BY <1>2 DEF StartSearch
  <2> DEFINE r == [Rest EXCEPT !.at = "next", !.prov = p, !.tries = 1]
  <2>2. 1 \in 0..MaxTries /\ runs + 1 \in Int /\ (runs < MaxRuns => runs + 1 \in 0..MaxRuns)
    BY SearchType DEF TypeInv, Typed
  <2>3. Rest \in Memory /\ Rest.job = "none" /\ Rest.key = "none" /\ EnginesOK(Rest.text)
    BY RestFits DEF Fit, Rest
  <2>4. r \in Memory /\ r.text = Rest.text
    BY <2>2, <2>3, SearchType DEF Memory, Ats
  <2>5. Placed(r)
    BY <2>3, SearchType DEF Memory, Placed, Searching, InCommand, Writing
  <2>6. MemoryOK'
    BY <1>1, <2>1, <2>3, <2>4, <2>5, Goes1 DEF TypeInv, Fit
  <2>7. Typed'
    BY <1>2, <2>2 DEF StartSearch, TypeInv, Typed, files, history
  <2>8. QED
    BY <2>6, <2>7 DEF TypeInv
<1>3. CASE Fallback(s)
  <2>1. mem[s].at = "fallback" /\ mem[s].prov \in Searched
    BY <1>1, <1>3 DEF Fallback, Placed, Searching
  <2>2. PICK k \in KeysOf(mem[s].prov) : Goes(s, [mem[s] EXCEPT !.at = "ask", !.key = k])
    BY <1>3, <2>1, SearchType DEF Fallback
  <2> DEFINE r == [mem[s] EXCEPT !.at = "ask", !.key = k]
  <2>3. k \in Keys /\ ProviderOf[k] = mem[s].prov
    BY <2>2 DEF KeysOf
  <2>4. r \in Memory /\ r.text = mem[s].text
    BY <1>1, <2>3 DEF Memory, Ats
  <2>5. Placed(r)
    BY <1>1, <2>1, <2>3 DEF Memory, Placed, Searching, InCommand, Writing
  <2>6. MemoryOK'
    BY <1>1, <2>2, <2>4, <2>5, Goes1 DEF TypeInv, Fit
  <2>7. Typed'
    BY <1>3 DEF Fallback, TypeInv, Typed, files, history
  <2>8. QED
    BY <2>6, <2>7 DEF TypeInv
<1>4. CASE Ask(s)
  <2>1. mem[s].at = "ask" /\ mem[s].prov \in Searched
    BY <1>1, <1>4 DEF Ask, Placed, Searching
  <2> DEFINE r == [mem[s] EXCEPT !.at = "quota"]
  <2>2. r \in Memory /\ r.text = mem[s].text
    BY <1>1 DEF Memory, Ats
  <2>3. Placed(r)
    BY <1>1, <2>1 DEF Memory, Placed, Searching, InCommand, Writing
  <2>4. Fit(r) /\ Fit(Rest) /\ Fit(Again(mem[s]))
    BY <1>1, <2>1, <2>2, <2>3, RestFits, AgainFits DEF Fit
  <2>5. MemoryOK'
    BY <1>1, <1>4, <2>4, Goes1 DEF TypeInv, Ask
  <2>6. Typed'
    BY <1>4 DEF Ask, TypeInv, Typed, files, history
  <2>7. QED
    BY <2>5, <2>6 DEF TypeInv
<1>5. QED
  BY <1>2, <1>3, <1>4, NextFits, NoNextFits, SuspendFits DEF Search

LEMMA CheckFits ==
  ASSUME TypeInv, NEW h \in Checkers, Check(h)
  PROVE  TypeInv'
<1>1. h \in Procs /\ Fit(mem[h]) /\ mem[h].at = "idle" /\ pool.keys \in Pools
  BY ContentTypes DEF Check, Procs, TypeInv, MemoryOK, Typed
<1>2. PICK v \in Verdicts : Saves(h, "check", Probed(pool.keys, v), Providers)
  BY DEF Check
<1>3. Probed(pool.keys, v) \in Pools
  BY <1>1, SearchType DEF Probed, Pools
<1>4. MemoryOK'
  BY <1>1, <1>2, <1>3, SavesFits, Goes1 DEF Saves, TypeInv, Jobs
<1>5. Typed'
  BY <1>1, <1>2, LoadTypes DEF Check, Saves, TypeInv, Typed
<1>6. QED
  BY <1>4, <1>5 DEF TypeInv

LEMMA GivesTypes ==
  ASSUME Typed, NEW u, Gives(u)
  PROVE  runs' \in 0..MaxRuns
BY SearchType DEF Gives, Typed

\* A person's command that loads the pool and saves this copy of it.
LEMMA EditFits ==
  ASSUME TypeInv, NEW u \in People, Gives(u), NEW job \in Jobs \ {"none", "next", "suspend"},
         NEW copy \in Pools, NEW due \in SUBSET Providers, Saves(u, job, copy, due)
  PROVE  TypeInv'
<1>1. u \in Procs /\ Fit(mem[u]) /\ mem[u].at = "idle"
  BY DEF Gives, Procs, TypeInv, MemoryOK
<1>2. MemoryOK'
  BY <1>1, SavesFits, Goes1 DEF Saves, TypeInv
<1>3. Typed'
  BY <1>1, GivesTypes, LoadTypes DEF Saves, TypeInv
<1>4. QED
  BY <1>2, <1>3 DEF TypeInv

\* A step of program x that changes nothing in its memory but where it is.
LEMMA MovesFit ==
  ASSUME NEW m, Fit(m), m.at \in InCommand, NEW at \in InCommand,
         at \in Writing \/ m.job # "next"
  PROVE  Fit([m EXCEPT !.at = at])
<1> DEFINE r == [m EXCEPT !.at = at]
<1>1. r \in Memory /\ r.text = m.text
  BY DEF Fit, Memory, Ats
<1>2. Placed(r)
  BY DEF Fit, Memory, Placed, Searching, InCommand, Writing
<1>3. QED
  BY <1>1, <1>2 DEF Fit

LEMMA ListedFits ==
  ASSUME NEW text \in Engines, EnginesOK(text), NEW p \in Providers,
         NEW new \in SUBSET KeysOf(p), new # {}
  PROVE  /\ Listed(text, p, new) \in Engines /\ EnginesOK(Listed(text, p, new))
         /\ \A q \in Providers : q # p => Listed(text, p, new)[q] = text[q]
         /\ Listed(text, p, new)[p].block = "list" /\ Listed(text, p, new)[p].keys = new
         /\ Listed(text, p, new)[p].disabled = text[p].disabled
<1> DEFINE e == Listed(text, p, new)
<1>1. new \subseteq Keys
  BY DEF KeysOf
<1>2. /\ e \in Engines /\ \A q \in Providers : q # p => e[q] = text[q]
      /\ e[p].block = "list" /\ e[p].keys = new /\ e[p].disabled = text[p].disabled
  BY <1>1 DEF Listed, Engines
<1> HIDE DEF e
<1>3. EnginesOK(e)
  BY <1>2 DEF EnginesOK
<1>4. QED
  BY <1>2, <1>3 DEF e

LEMMA CommandFits ==
  ASSUME TypeInv, NEW u \in People, Command(u)
  PROVE  TypeInv'
<1> DEFINE m == mem[u]
<1>1. u \in Procs /\ Fit(m) /\ m \in Memory /\ Placed(m) /\ EnginesOK(m.text)
  BY DEF Procs, TypeInv, MemoryOK, Fit
<1>2. pool.keys \in Pools /\ settings \in Engines /\ EnginesOK(settings)
  BY ContentTypes DEF TypeInv, Typed
<1>3. CASE MarkBurnt(u)
  <2>1. PICK k \in Keys : Saves(u, "mark", [pool.keys EXCEPT ![k] = "burnt"], {ProviderOf[k]})
    BY <1>3 DEF MarkBurnt
  <2>2. [pool.keys EXCEPT ![k] = "burnt"] \in Pools
    BY <1>2 DEF Pools, Statuses
  <2>3. {ProviderOf[k]} \in SUBSET Providers
    BY SearchType
  <2>4. QED
    BY <1>3, <2>1, <2>2, <2>3, EditFits DEF MarkBurnt, Jobs
<1>4. CASE Recover(u)
  <2> DEFINE Back(k, due) == pool.keys[k] = "burnt" /\ ProviderOf[k] \in due
             Copy(due) == [k \in Keys |-> IF Back(k, due) THEN "suspended" ELSE pool.keys[k]]
  <2>1. PICK due \in SUBSET Providers : Saves(u, "recover", Copy(due), due)
    BY <1>4 DEF Recover
  <2>2. Copy(due) \in Pools
    BY <1>2 DEF Pools, Statuses
  <2>3. QED
    BY <1>4, <2>1, <2>2, EditFits DEF Recover, Jobs
<1>5. CASE Sync(u) \/ Init(u)
  <2>1. m.at = "idle" /\ Loads(u) /\ runs' \in 0..MaxRuns
    BY <1>5, GivesTypes DEF Sync, Init, Gives, TypeInv
  <2> DEFINE r == [m EXCEPT !.at = "sync", !.job = "sync", !.copy = pool.keys,
                            !.due = Providers]
             q == [m EXCEPT !.at = "seed", !.job = "init", !.copy = pool.keys]
  <2>2. r \in Memory /\ r.text = m.text /\ q \in Memory /\ q.text = m.text
    BY <1>1, <1>2 DEF Memory, Ats, InCommand, Jobs
  <2>3. Placed(r) /\ Placed(q)
    BY <1>1, <2>1, SearchType DEF Memory, Placed, Searching, InCommand, Writing
  <2>4. Fit(r) /\ Fit(q)
    BY <1>1, <2>2, <2>3 DEF Fit
  <2>5. MemoryOK'
    BY <1>1, <1>5, <2>4, Goes1 DEF Sync, Init, TypeInv
  <2>6. Typed'
    BY <1>1, <2>1, LoadTypes DEF TypeInv
  <2>7. QED
    BY <2>5, <2>6 DEF TypeInv
<1>6. CASE Seed(u)
  <2> DEFINE New(k) == m.copy[k] = Unlisted /\ k \in settings[ProviderOf[k]].keys
             copy == [k \in Keys |-> IF New(k) THEN "active" ELSE m.copy[k]]
             r == [m EXCEPT !.at = "open", !.copy = copy]
  <2>1. copy \in Pools
    BY <1>1 DEF Memory, Pools, Statuses
  <2>2. r \in Memory /\ r.text = m.text
    BY <1>1, <2>1 DEF Memory, Ats, InCommand, Writing
  <2>3. Placed(r)
    BY <1>1, <1>6 DEF Seed, Memory, Placed, Searching, InCommand, Writing
  <2>4. Fit(r) /\ Fit(Rest)
    BY <1>1, <2>2, <2>3, RestFits DEF Fit
  <2>5. Goes(u, Rest) \/ Goes(u, r)
    BY <1>6 DEF Seed
  <2>6. MemoryOK'
    BY <1>1, <2>4, <2>5, Goes1 DEF TypeInv
  <2>7. Typed'
    BY <1>6 DEF Seed, TypeInv, Typed, files, history
  <2>8. QED
    BY <2>6, <2>7 DEF TypeInv
<1>7. CASE ReadEngines(u)
  <2> DEFINE r == [m EXCEPT !.at = "add", !.job = "add", !.text = settings]
  <2>1. m.at = "idle" /\ runs' \in 0..MaxRuns
    BY <1>7, GivesTypes DEF ReadEngines, Gives, TypeInv
  <2>2. r \in Memory /\ r.text = settings
    BY <1>1, <1>2 DEF Memory, Ats, InCommand, Jobs
  <2>3. Placed(r)
    BY <1>1, <2>1, SearchType DEF Memory, Placed, Searching, InCommand, Writing
  <2>4. MemoryOK'
    BY <1>1, <1>2, <1>7, <2>2, <2>3, Goes1 DEF ReadEngines, TypeInv, Fit
  <2>5. Typed'
    BY <1>7, <2>1 DEF ReadEngines, Meets, TypeInv, Typed, files
  <2>6. QED
    BY <2>4, <2>5 DEF TypeInv
<1>8. CASE TruncateEngines(u)
  <2>1. m.at = "add" /\ m.job # "next" /\ "list" \in InCommand /\ "add" \in InCommand
    BY <1>1, <1>8 DEF TruncateEngines, Placed, InCommand, Writing
  <2>2. MemoryOK'
    BY <1>1, <1>8, <2>1, MovesFit, Goes1 DEF TruncateEngines, TypeInv
  <2>3. Typed'
    BY <1>8, EnginesNone DEF TruncateEngines, TypeInv, Typed, history
  <2>4. QED
    BY <2>2, <2>3 DEF TypeInv
<1>9. CASE AddKeys(u)
  <2>1. PICK p \in Providers, new \in SUBSET Keys :
          /\ new \subseteq Addable(p) /\ new # {}
          /\ settings' \in {settings, NoEngines, Listed(m.text, p, new)}
          /\ owed' \in {owed, owed \cup {p}}
    BY <1>9 DEF AddKeys, Addable, KeysOf
  <2>2. new \subseteq KeysOf(p) /\ new \subseteq Keys
    BY <2>1 DEF Addable, KeysOf
  <2>3. Listed(m.text, p, new) \in Engines /\ EnginesOK(Listed(m.text, p, new))
    BY <1>1, <2>1, <2>2, ListedFits DEF Memory
  <2>4. settings' \in Engines /\ EnginesOK(settings')
    BY <1>2, <2>1, <2>3, EnginesNone
  <2>5. MemoryOK'
    BY <1>1, <1>9, RestFits, Goes1 DEF AddKeys, TypeInv
  <2>6. Typed'
    BY <1>9, <2>1, <2>4 DEF AddKeys, TypeInv, Typed
  <2>7. QED
    BY <2>5, <2>6 DEF TypeInv
<1>10. QED
  BY <1>3, <1>4, <1>5, <1>6, <1>7, <1>8, <1>9 DEF Command

LEMMA OutdatesTypes ==
  ASSUME Typed, NEW new, Outdates(new)
  PROVE  since' \in [Procs -> SUBSET Keys]
BY DEF Typed, Outdates

LEMMA SavingFits ==
  ASSUME TypeInv, NEW x \in Procs,
         Open(x) \/ Fill(x) \/ Replace(x) \/ CannotReplace(x)
  PROVE  TypeInv'
<1> DEFINE m == mem[x]
<1>1. Fit(m) /\ m \in Memory /\ Placed(m) /\ m.copy \in Pools /\ m.due \subseteq Providers
  BY DEF TypeInv, MemoryOK, Fit, Memory
<1>2. CASE Open(x)
  <2>1. m.at \in InCommand /\ "fill" \in InCommand /\ "fill" \in Writing
    BY <1>2 DEF Open, InCommand, Writing
  <2>2. MemoryOK'
    BY <1>1, <1>2, <2>1, MovesFit, Goes1 DEF Open, TypeInv
  <2>3. Typed'
    BY <1>2, ContentTypes DEF Open, TypeInv, Typed
  <2>4. QED
    BY <2>2, <2>3 DEF TypeInv
<1>3. CASE Fill(x)
  <2>1. m.at \in InCommand /\ "replace" \in InCommand /\ "replace" \in Writing
    BY <1>3 DEF Fill, InCommand, Writing
  <2>2. MemoryOK'
    BY <1>1, <1>3, <2>1, MovesFit, Goes1 DEF Fill, TypeInv
  <2>3. pool' \in Contents /\ tmp' \in Contents
    BY <1>1, <1>3, OverTypes DEF Fill, TypeInv, Typed
  <2>4. since' \in [Procs -> SUBSET Keys]
    BY <1>3, OutdatesTypes DEF Fill, TypeInv
  <2>5. Typed'
    BY <1>3, <2>3, <2>4 DEF Fill, TypeInv, Typed
  <2>6. QED
    BY <2>2, <2>5 DEF TypeInv
<1>4. CASE Replace(x)
  <2>1. m.at \in InCommand /\ "sync" \in InCommand
    BY <1>4 DEF Replace, InCommand, Writing
  <2>2. m.job = "next" => m.prov \in Searched
    BY <1>1 DEF Placed
  <2>3. MemoryOK'
    BY <1>1, <1>4, <2>1, <2>2, MovesFit, RestFits, AfterNextFits, Goes1 DEF Replace, TypeInv
  <2>4. since' \in [Procs -> SUBSET Keys]
    BY <1>4, OutdatesTypes DEF Replace, TypeInv
  <2>5. where' \in [Procs -> {"none", "tmp", "pool", "engines", "gone"}]
    BY <1>4 DEF Replace, TypeInv, Typed
  <2>6. Typed'
    BY <1>1, <1>4, <2>4, <2>5, ContentTypes DEF Replace, TypeInv, Typed
  <2>7. QED
    BY <2>3, <2>6 DEF TypeInv
<1>5. CASE CannotReplace(x)
  <2>1. MemoryOK'
    BY <1>1, <1>5, AfterErrorFits, Goes1 DEF CannotReplace, TypeInv
  <2>2. Typed'
    BY <1>5 DEF CannotReplace, TypeInv, Typed, files, history
  <2>3. QED
    BY <2>1, <2>2 DEF TypeInv
<1>6. QED
  BY <1>2, <1>3, <1>4, <1>5

\* Whoever has written settings.yml keeps its text no longer.
LEMMA DumpFits ==
  ASSUME NEW m, Fit(m), m.at = "write"
  PROVE  Fit([m EXCEPT !.at = "dump", !.text = NoEngines])
<1> DEFINE r == [m EXCEPT !.at = "dump", !.text = NoEngines]
<1>1. r \in Memory /\ r.text = NoEngines
  BY EnginesNone DEF Fit, Memory, Ats, InCommand
<1>2. Placed(r)
  BY DEF Fit, Memory, Placed, Searching, InCommand, Writing
<1>3. QED
  BY <1>1, <1>2, EnginesNone DEF Fit

LEMMA SyncingFits ==
  ASSUME TypeInv, NEW x \in Procs,
         SyncRead(x) \/ SyncSettings(x) \/ SyncCrossed(x) \/ SyncSearchKeys(x)
  PROVE  TypeInv'
<1> DEFINE m == mem[x]
<1>1. Fit(m) /\ m \in Memory /\ Placed(m) /\ EnginesOK(m.text)
  BY DEF TypeInv, MemoryOK, Fit
<1>2. CASE SyncRead(x)
  <2>1. PICK p \in m.due :
          Goes(x, [m EXCEPT !.at = "write", !.prov = p, !.text = settings])
    BY <1>2 DEF SyncRead
  <2> DEFINE r == [m EXCEPT !.at = "write", !.prov = p, !.text = settings]
  <2>2. p \in Providers /\ settings \in Engines /\ EnginesOK(settings) /\ m.at = "sync"
    BY <1>1, <1>2 DEF SyncRead, Memory, TypeInv, Typed
  <2>3. r \in Memory /\ r.text = settings
    BY <1>1, <2>2 DEF Memory, Ats, InCommand
  <2>4. Placed(r)
    BY <1>1, <2>1, <2>2, SearchType DEF Memory, Placed, Searching, Jobs, InCommand, Writing
  <2>5. MemoryOK'
    BY <2>1, <2>2, <2>3, <2>4, Goes1 DEF TypeInv, Fit
  <2>6. Typed'
    BY <1>2 DEF SyncRead, TypeInv, Typed, files, history
  <2>7. QED
    BY <2>5, <2>6 DEF TypeInv
<1>3. ASSUME NEW y \in Procs PROVE Edited(y) \in Engines /\ EnginesOK(Edited(y))
  <2>1. mem[y].text \in Engines /\ EnginesOK(mem[y].text)
    BY DEF TypeInv, MemoryOK, Fit, Memory
  <2>2. Active(mem[y].copy, mem[y].prov) \subseteq KeysOf(mem[y].prov)
    BY DEF Active
  <2>3. QED
    BY <2>1, <2>2, SyncedFits DEF Edited
<1>4. CASE SyncSettings(x) \/ SyncCrossed(x)
  <2>1. settings' \in {settings, NoEngines} \cup {Edited(y) : y \in Procs}
    BY <1>4 DEF SyncSettings, SyncCrossed
  <2>2. settings' \in Engines /\ EnginesOK(settings')
    BY <1>3, <2>1, EnginesNone DEF TypeInv, Typed
  <2>3. Fit([m EXCEPT !.at = "dump", !.text = NoEngines]) /\ Fit(AfterError(m))
    BY <1>1, <1>4, DumpFits, AfterErrorFits DEF SyncSettings, SyncCrossed
  <2>4. MemoryOK'
    BY <1>4, <2>3, Goes1 DEF SyncSettings, SyncCrossed, TypeInv
  <2>5. where' \in [Procs -> {"none", "tmp", "pool", "engines", "gone"}]
    BY <1>4 DEF SyncSettings, SyncCrossed, Renames, TypeInv, Typed
  <2>6. Typed'
    BY <1>4, <2>2, <2>5 DEF SyncSettings, SyncCrossed, TypeInv, Typed, history
  <2>7. QED
    BY <2>4, <2>6 DEF TypeInv
<1>5. CASE SyncSearchKeys(x)
  <2> DEFINE due == m.due \ {m.prov}
             r == [m EXCEPT !.at = "sync", !.due = due]
  <2>1. r \in Memory /\ r.text = m.text
    BY <1>1 DEF Memory, Ats, InCommand
  <2>2. Placed(r)
    BY <1>1, <1>5 DEF SyncSearchKeys, Memory, Placed, Searching, InCommand, Writing
  <2>3. MemoryOK'
    BY <1>1, <1>5, <2>1, <2>2, AfterSyncFits, Goes1 DEF SyncSearchKeys, TypeInv, Fit
  <2>4. Typed'
    BY <1>5 DEF SyncSearchKeys, TypeInv, Typed, files, history
  <2>5. QED
    BY <2>3, <2>4 DEF TypeInv
<1>6. QED
  BY <1>2, <1>4, <1>5

LEMMA CrashFits ==
  ASSUME TypeInv, NEW x \in Procs, Crash(x)
  PROVE  TypeInv'
<1>1. MemoryOK'
  BY RestFits, Goes1 DEF Crash, TypeInv
<1>2. crashes' \in 0..MaxCrashes
  BY SearchType DEF Crash, TypeInv, Typed
<1>3. Typed'
  BY <1>2 DEF Crash, TypeInv, Typed, history
<1>4. QED
  BY <1>1, <1>3 DEF TypeInv

LEMMA TypeInit == SearchInit => TypeInv
<1> SUFFICES ASSUME SearchInit PROVE TypeInv
  OBVIOUS
<1>1. MemoryOK
  BY RestFits DEF SearchInit, MemoryOK, Fit
<1>2. settings \in Engines /\ EnginesOK(settings)
  BY SearchType DEF SearchInit, Engines, EnginesOK, Addable, KeysOf
<1>3. pool \in Contents /\ tmp \in Contents
  BY SearchType, ContentTypes DEF SearchInit
<1>4. /\ where \in [Procs -> {"none", "tmp", "pool", "engines", "gone"}]
      /\ since \in [Procs -> SUBSET Keys]
      /\ dumped \in BOOLEAN /\ met \in BOOLEAN /\ clash \in BOOLEAN /\ owed \subseteq Providers
  BY DEF SearchInit
<1>5. runs \in 0..MaxRuns /\ crashes \in 0..MaxCrashes
  BY SearchType DEF SearchInit
<1>6. QED
  BY <1>1, <1>2, <1>3, <1>4, <1>5 DEF TypeInv, Typed

LEMMA TypeStep == TypeInv /\ [SearchNext]_searchVars => TypeInv'
<1> SUFFICES ASSUME TypeInv, [SearchNext]_searchVars PROVE TypeInv'
  OBVIOUS
<1>1. CASE UNCHANGED searchVars
  BY <1>1 DEF searchVars, files, history, TypeInv, Typed, MemoryOK
<1>2. CASE SearchNext
  BY <1>2, SearchFits, CheckFits, CommandFits, SavingFits, SyncingFits, CrashFits
     DEF SearchNext, Going
<1>3. QED
  BY <1>1, <1>2

\* Type correctness: the tries of a search and the memory of every program stay
\* in their bounds.
THEOREM SearchTypes == SearchSpec => []SearchTypeOK
<1>1. TypeInv => SearchTypeOK
  BY DEF TypeInv, Typed, MemoryOK, SearchTypeOK, Memory, Ats
<1>2. QED
  BY <1>1, TypeInit, TypeStep, PTL DEF SearchSpec

-----------------------------------------------------------------------------
(* What keys were found to be stands.                                      *)

Handling(m) == m.at \in {"fill", "replace"}

\* The temporary file holds what the one program that uses it has written.
Alone == ~clash =>
  /\ \A x, y \in Procs : Handling(mem[x]) /\ Handling(mem[y]) => x = y
  /\ \A x \in Procs :
       /\ mem[x].at = "fill" => where[x] = "tmp" /\ tmp = Empty
       /\ mem[x].at = "replace" => tmp = Whole(mem[x].copy)

\* A copy differs from the pool by what the command is for, and by the keys
\* that others have changed since it was loaded.
Tracked(m, old, new) ==
  /\ m.at \in Writing => \A k \in Keys \ new :
        m.copy[k] = old[k] \/ MayTurn(m.job, old[k], m.copy[k])
  /\ m.at = "seed" => /\ m.job = "init"
                      /\ \A k \in Keys \ new : m.copy[k] = old[k]
Track == \A x \in Procs : Tracked(mem[x], pool.keys, since[x])

StandInv == TypeInv /\ Alone /\ Track

\* A program's step that leaves pool and temporary file alone.
LEMMA StandElsewhere ==
  ASSUME StandInv, NEW x \in Procs, NEW r, Goes(x, r), ~Handling(r),
         pool' = pool, tmp' = tmp, clash' = clash,
         \A y \in Procs \ {x} : where'[y] = where[y] /\ since'[y] = since[y],
         Tracked(r, pool.keys, since'[x])
  PROVE  Alone' /\ Track'
<1>1. mem'[x] = r /\ \A y \in Procs \ {x} : mem'[y] = mem[y]
  BY DEF Goes, StandInv, TypeInv, MemoryOK
<1>2. Track'
  BY <1>1 DEF StandInv, Track
<1>3. ASSUME ~clash' PROVE Alone'
  <2>1. ~Handling(mem'[x])
    BY <1>1
  <2>2. \A y \in Procs : Handling(mem'[y]) => y # x /\ Handling(mem[y]) /\ mem'[y] = mem[y]
    BY <1>1, <2>1
  <2>3. QED
    BY <1>3, <2>1, <2>2 DEF StandInv, Alone, Handling
<1>4. QED
  BY <1>2, <1>3 DEF Alone

LEMMA NotWriting ==
  ASSUME NEW r, r.at \notin Writing, r.at # "seed", NEW old, NEW new
  PROVE  Tracked(r, old, new)
BY DEF Tracked

LEMMA EndedIsQuiet ==
  \A at \in Ended \cup {"quota", "sync", "write", "dump", "add", "list"} :
     at \notin Writing /\ at # "seed" /\ at \notin {"fill", "replace"}
BY DEF Ended, Writing

\* A program's step to a place where it saves nothing.
LEMMA StandQuiet ==
  ASSUME StandInv, NEW x \in Procs, NEW r, Goes(x, r),
         r.at \in Ended \cup {"quota", "sync", "write", "dump", "add", "list"},
         pool' = pool, tmp' = tmp, clash' = clash,
         \A y \in Procs \ {x} : where'[y] = where[y] /\ since'[y] = since[y]
  PROVE  Alone' /\ Track'
<1>1. ~Handling(r) /\ Tracked(r, pool.keys, since'[x])
  BY EndedIsQuiet, NotWriting DEF Handling
<1>2. QED
  BY <1>1, StandElsewhere

\* Nor one that renames settings.yml under those who have it open.
LEMMA StandBeside ==
  ASSUME StandInv, NEW x \in Procs, NEW r, Goes(x, r),
         r.at \in Ended \cup {"dump"},
         pool' = pool, tmp' = tmp, clash' = clash, since' = since,
         \A y \in Procs : where[y] # "engines" => where'[y] = where[y]
  PROVE  Alone' /\ Track'
<1>1. ~Handling(r) /\ Tracked(r, pool.keys, since'[x])
  BY EndedIsQuiet, NotWriting DEF Handling
<1>2. mem'[x] = r /\ \A y \in Procs \ {x} : mem'[y] = mem[y]
  BY DEF Goes, StandInv, TypeInv, MemoryOK
<1>3. Track'
  BY <1>1, <1>2 DEF StandInv, Track
<1>4. ASSUME ~clash' PROVE Alone'
  <2>1. \A y \in Procs : Handling(mem'[y]) => y # x /\ Handling(mem[y]) /\ mem'[y] = mem[y]
    BY <1>1, <1>2
  <2>2. QED
    BY <1>4, <2>1 DEF StandInv, Alone, Handling
<1>5. QED
  BY <1>3, <1>4 DEF Alone

LEMMA LoadsLeaves ==
  ASSUME TypeInv, NEW x \in Procs, Loads(x)
  PROVE  /\ pool' = pool /\ tmp' = tmp /\ clash' = clash /\ since'[x] = {}
         /\ \A y \in Procs \ {x} : where'[y] = where[y] /\ since'[y] = since[y]
BY DEF TypeInv, Typed, Loads, files

\* A program that has loaded the pool and is to save what it may.
LEMMA StandSaves ==
  ASSUME StandInv, NEW x \in Procs, NEW job, NEW copy, NEW due,
         mem[x].at # "seed", Saves(x, job, copy, due),
         \A k \in Keys : copy[k] = pool.keys[k] \/ MayTurn(job, pool.keys[k], copy[k])
  PROVE  Alone' /\ Track'
<1> DEFINE r == [mem[x] EXCEPT !.at = "open", !.job = job, !.copy = copy, !.due = due]
<1>1. mem[x] \in Memory
  BY DEF StandInv, TypeInv, MemoryOK
<1>2. r.at = "open" /\ r.job = job /\ r.copy = copy
  BY <1>1 DEF Memory
<1>3. ~Handling(r) /\ Tracked(r, pool.keys, since'[x])
  BY <1>2 DEF Handling, Tracked
<1>4. Loads(x) /\ Goes(x, r)
  BY DEF Saves
<1> HIDE DEF r
<1>5. QED
  BY <1>3, <1>4, LoadsLeaves, StandElsewhere DEF StandInv

LEMMA StandSearch ==
  ASSUME StandInv, NEW s \in Searches, Search(s)
  PROVE  Alone' /\ Track'
<1> DEFINE m == mem[s]
<1>1. s \in Procs /\ Fit(m) /\ m \in Memory /\ Placed(m)
  BY DEF Procs, StandInv, TypeInv, MemoryOK, Fit
<1>2. CASE StartSearch(s)
  <2>1. PICK p : Goes(s, [Rest EXCEPT !.at = "next", !.prov = p, !.tries = 1])
    BY <1>2 DEF StartSearch
  <2>2. [Rest EXCEPT !.at = "next", !.prov = p, !.tries = 1].at \in Ended
    BY RestFits DEF Fit, Memory, Ended
  <2>3. QED
    BY <1>1, <1>2, <2>1, <2>2, StandQuiet DEF StartSearch, files, history
<1>3. CASE NextKey(s)
  <2>1. PICK k : Goes(s, [m EXCEPT !.at = "open", !.job = "next", !.copy = pool.keys,
                                   !.due = {}, !.key = k])
    BY <1>3 DEF NextKey
  <2> DEFINE r == [m EXCEPT !.at = "open", !.job = "next", !.copy = pool.keys,
                            !.due = {}, !.key = k]
  <2>2. r.at = "open" /\ r.copy = pool.keys
    BY <1>1 DEF Memory
  <2>3. ~Handling(r) /\ Tracked(r, pool.keys, since'[s])
    BY <2>2 DEF Handling, Tracked
  <2>4. Loads(s) /\ Goes(s, r)
    BY <1>3, <2>1 DEF NextKey
  <2> HIDE DEF r
  <2>5. QED
    BY <1>1, <2>3, <2>4, LoadsLeaves, StandElsewhere DEF StandInv
<1>4. CASE NoNextKey(s)
  <2> DEFINE q == [m EXCEPT !.key = Junk[m.prov]]
  <2>1. m.prov \in Searched /\ m.at = "next"
    BY <1>1, <1>4 DEF NoNextKey, Placed, Searching
  <2>2. Junk[m.prov] \in Keys /\ ProviderOf[Junk[m.prov]] = m.prov
    BY <2>1, SearchType DEF KeysOf
  <2>3. q \in Memory /\ q.text = m.text /\ q.prov = m.prov
    BY <1>1, <2>2 DEF Memory
  <2>4. Placed(q)
    BY <1>1, <2>1, <2>2 DEF Memory, Placed, Searching, InCommand, Writing
  <2>5. AfterNext(q).at \in Ended
    BY <1>1, <2>1, <2>3, <2>4, AfterNextFits DEF Fit
  <2>6. Goes(s, AfterNext(q)) /\ Loads(s)
    BY <1>4 DEF NoNextKey
  <2> HIDE DEF q
  <2>7. QED
    BY <1>1, <2>5, <2>6, LoadsLeaves, StandQuiet DEF StandInv
<1>5. CASE Fallback(s)
  <2>1. PICK k : Goes(s, [m EXCEPT !.at = "ask", !.key = k])
    BY <1>5 DEF Fallback
  <2>2. [m EXCEPT !.at = "ask", !.key = k].at \in Ended
    BY <1>1 DEF Memory, Ended
  <2>3. QED
    BY <1>1, <1>5, <2>1, <2>2, StandQuiet DEF Fallback, files, history
<1>6. CASE Ask(s)
  <2>1. m.prov \in Searched
    BY <1>1, <1>6 DEF Ask, Placed, Searching
  <2>2. Rest.at \in Ended /\ [m EXCEPT !.at = "quota"].at = "quota" /\ Again(m).at \in Ended
    BY <1>1, <2>1, AgainFits DEF Memory, Ended, Rest
  <2>3. PICK r : Goes(s, r) /\ r.at \in Ended \cup {"quota"}
    BY <1>6, <2>2 DEF Ask
  <2>4. QED
    BY <1>1, <1>6, <2>3, StandQuiet DEF Ask, files, history
<1>7. CASE Suspend(s)
  <2> DEFINE c == pool.keys
             copy == IF c[m.key] = "burnt" THEN c ELSE [c EXCEPT ![m.key] = "suspended"]
  <2>1. Saves(s, "suspend", copy, {m.prov}) /\ m.at # "seed"
    BY <1>7 DEF Suspend
  <2>2. c \in Pools
    BY ContentTypes DEF StandInv, TypeInv, Typed
  <2>3. \A k \in Keys : copy[k] = c[k] \/ MayTurn("suspend", c[k], copy[k])
    BY <2>2 DEF Pools, MayTurn
  <2> HIDE DEF copy
  <2>4. QED
    BY <1>1, <2>1, <2>3, StandSaves
<1>8. QED
  BY <1>2, <1>3, <1>4, <1>5, <1>6, <1>7 DEF Search

LEMMA StandCheck ==
  ASSUME StandInv, NEW h \in Checkers, Check(h)
  PROVE  Alone' /\ Track'
<1>1. h \in Procs /\ mem[h].at # "seed" /\ pool.keys \in Pools
  BY ContentTypes DEF Check, Procs, StandInv, TypeInv, Typed
<1>2. PICK v \in Verdicts : Saves(h, "check", Probed(pool.keys, v), Providers)
  BY DEF Check
<1>3. \A k \in Keys : \/ Probed(pool.keys, v)[k] = pool.keys[k]
                      \/ MayTurn("check", pool.keys[k], Probed(pool.keys, v)[k])
  BY <1>1, NoPools, SearchType DEF Probed, MayTurn
<1>4. QED
  BY <1>1, <1>2, <1>3, StandSaves

LEMMA StandCommand ==
  ASSUME StandInv, NEW u \in People, Command(u)
  PROVE  Alone' /\ Track'
<1> DEFINE m == mem[u]
<1>1. u \in Procs /\ m \in Memory /\ pool.keys \in Pools
  BY ContentTypes DEF Procs, StandInv, TypeInv, MemoryOK, Typed
<1>2. CASE MarkBurnt(u)
  <2>1. PICK k \in Keys : Saves(u, "mark", [pool.keys EXCEPT ![k] = "burnt"], {ProviderOf[k]})
    BY <1>2 DEF MarkBurnt
  <2>2. \A j \in Keys : \/ [pool.keys EXCEPT ![k] = "burnt"][j] = pool.keys[j]
                        \/ MayTurn("mark", pool.keys[j], [pool.keys EXCEPT ![k] = "burnt"][j])
    BY <1>1 DEF Pools, MayTurn
  <2>3. m.at # "seed"
    BY <1>2 DEF MarkBurnt, Gives
  <2>4. QED
    BY <1>1, <2>1, <2>2, <2>3, StandSaves
<1>3. CASE Recover(u)
  <2> DEFINE Back(k, due) == pool.keys[k] = "burnt" /\ ProviderOf[k] \in due
             Copy(due) == [k \in Keys |-> IF Back(k, due) THEN "suspended" ELSE pool.keys[k]]
  <2>1. PICK due : Saves(u, "recover", Copy(due), due)
    BY <1>3 DEF Recover
  <2>2. \A k \in Keys : \/ Copy(due)[k] = pool.keys[k]
                        \/ MayTurn("recover", pool.keys[k], Copy(due)[k])
    BY DEF MayTurn
  <2>3. m.at # "seed"
    BY <1>3 DEF Recover, Gives
  <2> HIDE DEF Copy
  <2>4. QED
    BY <1>1, <2>1, <2>2, <2>3, StandSaves
<1>4. CASE Sync(u)
  <2> DEFINE r == [m EXCEPT !.at = "sync", !.job = "sync", !.copy = pool.keys,
                            !.due = Providers]
  <2>1. r.at = "sync"
    BY <1>1 DEF Memory
  <2>2. Goes(u, r) /\ Loads(u)
    BY <1>4 DEF Sync
  <2> HIDE DEF r
  <2>3. QED
    BY <1>1, <2>1, <2>2, LoadsLeaves, StandQuiet DEF StandInv
<1>5. CASE Init(u)
  <2> DEFINE r == [m EXCEPT !.at = "seed", !.job = "init", !.copy = pool.keys]
  <2>1. r.at = "seed" /\ r.job = "init" /\ r.copy = pool.keys
    BY <1>1 DEF Memory
  <2>2. ~Handling(r) /\ Tracked(r, pool.keys, since'[u])
    BY <2>1 DEF Handling, Tracked, Writing
  <2>3. Goes(u, r) /\ Loads(u)
    BY <1>5 DEF Init
  <2> HIDE DEF r
  <2>4. QED
    BY <1>1, <2>2, <2>3, LoadsLeaves, StandElsewhere DEF StandInv
<1>6. CASE Seed(u)
  <2> DEFINE New(k) == m.copy[k] = Unlisted /\ k \in settings[ProviderOf[k]].keys
             copy == [k \in Keys |-> IF New(k) THEN "active" ELSE m.copy[k]]
             r == [m EXCEPT !.at = "open", !.copy = copy]
  <2>1. r.at = "open" /\ r.job = m.job /\ r.copy = copy
    BY <1>1 DEF Memory
  <2>2. m.job = "init" /\ \A k \in Keys \ since[u] : m.copy[k] = pool.keys[k]
    BY <1>1, <1>6 DEF Seed, StandInv, Track, Tracked
  <2>3. ~Handling(r) /\ Tracked(r, pool.keys, since[u])
    BY <2>1, <2>2 DEF Handling, Tracked, MayTurn
  <2>4. /\ pool' = pool /\ tmp' = tmp /\ clash' = clash /\ since' = since /\ where' = where
        /\ Goes(u, Rest) \/ Goes(u, r)
    BY <1>6 DEF Seed, files, history
  <2>5. Rest.at \in Ended
    BY DEF Rest, Ended
  <2> HIDE DEF r
  <2>6. CASE Goes(u, r)
    BY <1>1, <2>3, <2>4, <2>6, StandElsewhere
  <2>7. CASE Goes(u, Rest)
    BY <1>1, <2>4, <2>5, <2>7, StandQuiet
  <2>8. QED
    BY <2>4, <2>6, <2>7
<1>7. CASE ReadEngines(u)
  <2> DEFINE r == [m EXCEPT !.at = "add", !.job = "add", !.text = settings]
  <2>1. r.at = "add"
    BY <1>1 DEF Memory
  <2>2. Goes(u, r)
    BY <1>7 DEF ReadEngines
  <2> HIDE DEF r
  <2>3. QED
    BY <1>1, <1>7, <2>1, <2>2, StandQuiet DEF ReadEngines, files
<1>8. CASE TruncateEngines(u)
  <2>1. Goes(u, [m EXCEPT !.at = "list"]) /\ [m EXCEPT !.at = "list"].at = "list"
    BY <1>1, <1>8 DEF TruncateEngines, Memory
  <2>2. \A y \in Procs \ {u} : where'[y] = where[y] /\ since'[y] = since[y]
    BY <1>8 DEF TruncateEngines, history, StandInv, TypeInv, Typed
  <2>3. QED
    BY <1>1, <1>8, <2>1, <2>2, StandQuiet DEF TruncateEngines, history
<1>9. CASE AddKeys(u)
  <2>1. Goes(u, Rest) /\ Rest.at \in Ended
    BY <1>9 DEF AddKeys, Rest, Ended
  <2>2. \A y \in Procs \ {u} : where'[y] = where[y] /\ since'[y] = since[y]
    BY <1>9 DEF AddKeys, StandInv, TypeInv, Typed
  <2>3. QED
    BY <1>1, <1>9, <2>1, <2>2, StandQuiet DEF AddKeys
<1>10. QED
  BY <1>2, <1>3, <1>4, <1>5, <1>6, <1>7, <1>8, <1>9 DEF Command

\* The pool's keys change: whoever had loaded it has them listed as such.
LEMMA TrackOutdated ==
  ASSUME StandInv, NEW x \in Procs, NEW r, Goes(x, r), Outdates(pool'), pool' \in Contents,
         \/ r.at \notin Writing /\ r.at # "seed"
         \/ Tracked(r, pool.keys, since[x])
  PROVE  Track'
<1>1. mem'[x] = r /\ \A y \in Procs \ {x} : mem'[y] = mem[y]
  BY DEF Goes, StandInv, TypeInv, MemoryOK
<1>2. \A y \in Procs : mem'[y].at \in Writing \cup {"seed"} =>
        since'[y] = since[y] \cup {k \in Keys : pool.keys[k] # pool'.keys[k]}
  BY DEF Outdates
<1>3. ASSUME NEW y \in Procs, Tracked(mem'[y], pool.keys, since[y])
      PROVE  Tracked(mem'[y], pool'.keys, since'[y])
  <2>1. CASE mem'[y].at \in Writing \cup {"seed"}
    BY <1>2, <1>3, <2>1 DEF Tracked
  <2>2. CASE mem'[y].at \notin Writing \cup {"seed"}
    BY <2>2, NotWriting
  <2>3. QED
    BY <2>1, <2>2
<1>4. Tracked(mem'[x], pool'.keys, since'[x])
  <2>1. CASE r.at \notin Writing /\ r.at # "seed"
    BY <1>1, <2>1, NotWriting
  <2>2. CASE Tracked(r, pool.keys, since[x])
    BY <1>1, <1>3, <2>2
  <2>3. QED
    BY <2>1, <2>2
<1>5. QED
  BY <1>1, <1>3, <1>4 DEF StandInv, Track

LEMMA StandSaving ==
  ASSUME StandInv, TypeInv', NEW x \in Procs,
         Open(x) \/ Fill(x) \/ Replace(x) \/ CannotReplace(x)
  PROVE  Alone' /\ Track'
<1> DEFINE m == mem[x]
           to(at) == [m EXCEPT !.at = at]
<1>1. Fit(m) /\ m \in Memory /\ Placed(m) /\ m.copy \in Pools
  BY DEF StandInv, TypeInv, MemoryOK, Fit, Memory
<1>2. \A at : to(at).at = at /\ to(at).copy = m.copy /\ to(at).job = m.job
  BY <1>1 DEF Memory
<1>3. mem \in [Procs -> Memory] /\ where \in [Procs -> {"none", "tmp", "pool", "engines", "gone"}]
  BY DEF StandInv, TypeInv, MemoryOK, Typed
<1>4. ASSUME m.at \in Writing, NEW at \in Writing
      PROVE  Tracked(to(at), pool.keys, since[x])
  BY <1>2, <1>4 DEF StandInv, Track, Tracked, Writing
<1> HIDE DEF to
<1>5. CASE Open(x)
  <2>1. Goes(x, to("fill")) /\ m.at \in Writing /\ "fill" \in Writing
    BY <1>5 DEF Open, to, Writing
  <2>2. mem'[x] = to("fill") /\ \A y \in Procs \ {x} : mem'[y] = mem[y]
    BY <1>3, <2>1 DEF Goes
  <2>3. Track'
    BY <1>4, <1>5, <2>1, <2>2 DEF Open, StandInv, Track
  <2>4. ASSUME ~clash' PROVE Alone'
    <3>1. /\ tmp' = Empty /\ where'[x] = "tmp"
          /\ \A y \in Procs \ {x} : ~Handling(mem[y])
      BY <1>3, <1>5, <2>4 DEF Open, Handling
    <3>2. mem'[x].at = "fill"
      BY <1>2, <2>2
    <3>3. QED
      BY <2>2, <3>1, <3>2 DEF Alone, Handling
  <2>5. QED
    BY <2>3, <2>4 DEF Alone
<1>6. CASE Fill(x)
  <2>1. Goes(x, to("replace")) /\ m.at \in Writing /\ "replace" \in Writing
    BY <1>6 DEF Fill, to, Writing
  <2>2. mem'[x] = to("replace") /\ \A y \in Procs \ {x} : mem'[y] = mem[y]
    BY <1>3, <2>1 DEF Goes
  <2>3. pool' \in Contents /\ Outdates(pool')
    BY <1>6 DEF Fill, TypeInv, Typed
  <2>4. Track'
    BY <1>4, <2>1, <2>3, TrackOutdated
  <2>5. ASSUME ~clash' PROVE Alone'
    <3>1. ~clash /\ m.at = "fill"
      BY <1>6, <2>5 DEF Fill
    <3>2. where[x] = "tmp" /\ tmp = Empty /\ \A y \in Procs \ {x} : ~Handling(mem[y])
      BY <3>1 DEF StandInv, Alone, Handling
    <3>3. tmp' = Whole(m.copy)
      BY <1>6, <3>2 DEF Fill, Over
    <3>4. mem'[x].at = "replace" /\ mem'[x].copy = m.copy
      BY <1>2, <2>2
    <3>5. QED
      BY <2>2, <3>2, <3>3, <3>4 DEF Alone, Handling
  <2>6. QED
    BY <2>4, <2>5 DEF Alone
<1>7. CASE Replace(x)
  <2>1. m.job = "next" => m.prov \in Searched
    BY <1>1 DEF Placed
  <2>2. PICK r : Goes(x, r) /\ r.at \in Ended \cup {"sync"}
    <3>1. AfterNext(m).at \in Ended \/ m.job # "next"
      BY <1>1, <2>1, AfterNextFits
    <3>2. Rest.at \in Ended /\ to("sync").at = "sync"
      BY <1>2 DEF Rest, Ended
    <3>3. (Goes(x, AfterNext(m)) /\ m.job = "next") \/ Goes(x, Rest) \/ Goes(x, to("sync"))
      BY <1>7 DEF Replace, to
    <3>4. QED
      BY <3>1, <3>2, <3>3
  <2>3. r.at \notin Writing /\ r.at # "seed" /\ ~Handling(r)
    BY <2>2, EndedIsQuiet DEF Handling
  <2>4. pool' \in Contents /\ Outdates(pool')
    BY <1>7 DEF Replace, TypeInv, Typed
  <2>5. Track'
    BY <2>2, <2>3, <2>4, TrackOutdated
  <2>6. ASSUME ~clash' PROVE Alone'
    <3>1. \A y \in Procs \ {x} : ~Handling(mem[y])
      BY <1>7, <2>6 DEF Replace, StandInv, Alone, Handling
    <3>2. mem'[x] = r /\ \A y \in Procs \ {x} : mem'[y] = mem[y]
      BY <1>3, <2>2 DEF Goes
    <3>3. \A y \in Procs : ~Handling(mem'[y])
      BY <2>3, <3>1, <3>2
    <3>4. QED
      BY <3>3 DEF Alone, Handling
  <2>7. QED
    BY <2>5, <2>6 DEF Alone
<1>8. CASE CannotReplace(x)
  BY <1>1, <1>8, AfterErrorFits, StandQuiet DEF CannotReplace, files, history
<1>9. QED
  BY <1>5, <1>6, <1>7, <1>8

LEMMA StandSyncing ==
  ASSUME StandInv, NEW x \in Procs,
         SyncRead(x) \/ SyncSettings(x) \/ SyncCrossed(x) \/ SyncSearchKeys(x)
  PROVE  Alone' /\ Track'
<1> DEFINE m == mem[x]
<1>1. Fit(m) /\ m \in Memory
  BY DEF StandInv, TypeInv, MemoryOK, Fit
<1>2. CASE SyncRead(x)
  <2>1. PICK p : Goes(x, [m EXCEPT !.at = "write", !.prov = p, !.text = settings])
    BY <1>2 DEF SyncRead
  <2>2. [m EXCEPT !.at = "write", !.prov = p, !.text = settings].at = "write"
    BY <1>1 DEF Memory
  <2>3. QED
    BY <1>2, <2>1, <2>2, StandQuiet DEF SyncRead, files, history
<1>3. CASE SyncSettings(x) \/ SyncCrossed(x)
  <2> DEFINE r == [m EXCEPT !.at = "dump", !.text = NoEngines]
  <2>1. r.at = "dump" /\ AfterError(m).at \in Ended
    BY <1>1, AfterErrorFits DEF Memory
  <2>2. Goes(x, r) \/ Goes(x, AfterError(m))
    BY <1>3 DEF SyncSettings, SyncCrossed
  <2> HIDE DEF r
  <2>3. PICK q : Goes(x, q) /\ q.at \in Ended \cup {"dump"}
    BY <2>1, <2>2
  <2>4. /\ pool' = pool /\ tmp' = tmp /\ clash' = clash /\ since' = since
        /\ \A y \in Procs : where[y] # "engines" => where'[y] = where[y]
    BY <1>3 DEF SyncSettings, SyncCrossed, Renames, history
  <2>5. QED
    BY <2>3, <2>4, StandBeside
<1>4. CASE SyncSearchKeys(x)
  <2> DEFINE r == [m EXCEPT !.at = "sync", !.due = m.due \ {m.prov}]
  <2>1. r.at = "sync" /\ AfterSync(m).at \in Ended
    BY <1>1, AfterSyncFits DEF Memory
  <2>2. Goes(x, r) \/ Goes(x, AfterSync(m))
    BY <1>4 DEF SyncSearchKeys
  <2> HIDE DEF r
  <2>3. PICK q : Goes(x, q) /\ q.at \in Ended \cup {"sync"}
    BY <2>1, <2>2
  <2>4. QED
    BY <1>4, <2>3, StandQuiet DEF SyncSearchKeys, files, history
<1>5. QED
  BY <1>2, <1>3, <1>4

LEMMA StandCrash ==
  ASSUME StandInv, NEW x \in Procs, Crash(x)
  PROVE  Alone' /\ Track'
<1>1. Goes(x, Rest) /\ Rest.at \in Ended
  BY DEF Crash, Rest, Ended
<1>2. \A y \in Procs \ {x} : where'[y] = where[y] /\ since'[y] = since[y]
  BY DEF Crash, history, StandInv, TypeInv, Typed
<1>3. QED
  BY <1>1, <1>2, StandQuiet DEF Crash, history

LEMMA StandInit == SearchInit => StandInv
<1> SUFFICES ASSUME SearchInit PROVE StandInv
  OBVIOUS
<1>1. \A x \in Procs : mem[x].at = "idle"
  BY DEF SearchInit, Rest
<1>2. Alone /\ Track
  BY <1>1 DEF Alone, Track, Tracked, Handling, Writing
<1>3. QED
  BY <1>2, TypeInit DEF StandInv

LEMMA StandStep == StandInv /\ [SearchNext]_searchVars => StandInv'
<1> SUFFICES ASSUME StandInv, [SearchNext]_searchVars PROVE StandInv'
  OBVIOUS
<1>1. TypeInv'
  BY TypeStep DEF StandInv
<1>2. CASE UNCHANGED searchVars
  BY <1>1, <1>2 DEF searchVars, files, history, StandInv, Alone, Track
<1>3. CASE SearchNext
  BY <1>1, <1>3, StandSearch, StandCheck, StandCommand, StandSaving, StandSyncing, StandCrash
     DEF SearchNext, Going, StandInv
<1>4. QED
  BY <1>2, <1>3

\* Only a Fill or a Replace writes key_pool.json, and while the temporary file
\* is used by one program at a time only a Replace does.
LEMMA PoolKept ==
  ASSUME SearchNext, StandInv, ~clash, pool' # pool
  PROVE  \E x \in Procs : Replace(x)
<1>1. ASSUME NEW x \in Procs PROVE ~Fill(x)
  <2>1. mem[x].at = "fill" => where[x] = "tmp"
    BY DEF StandInv, Alone
  <2>2. QED
    BY <2>1 DEF Fill
<1>2. ASSUME NEW x \in Procs, Going(x) \/ Crash(x) PROVE Replace(x)
  BY <1>1, <1>2 DEF Going, Crash, Open, CannotReplace, SyncRead, SyncSettings, SyncCrossed,
     SyncSearchKeys, files
<1>3. ASSUME NEW s \in Searches PROVE ~Search(s)
  BY DEF Search, StartSearch, NextKey, NoNextKey, Fallback, Ask, Suspend, Saves, Loads, files
<1>4. ASSUME NEW h \in Checkers PROVE ~Check(h)
  BY DEF Check, Saves, Loads, files
<1>5. ASSUME NEW u \in People PROVE ~Command(u)
  BY DEF Command, MarkBurnt, Recover, Sync, Init, Seed, ReadEngines, TruncateEngines, AddKeys,
     Saves, Loads, files
<1>6. QED
  BY <1>2, <1>3, <1>4, <1>5 DEF SearchNext

LEMMA ClashStays == StandInv /\ clash /\ [SearchNext]_searchVars => clash'
<1> SUFFICES ASSUME clash, [SearchNext]_searchVars, StandInv PROVE clash'
  OBVIOUS
<1>1. ASSUME NEW x \in Procs, Going(x) \/ Crash(x) PROVE clash'
  BY <1>1 DEF Going, Crash, Open, Fill, Replace, CannotReplace, SyncRead, SyncSettings,
     SyncCrossed, SyncSearchKeys, history
<1>2. ASSUME NEW s \in Searches, Search(s) PROVE clash'
  BY <1>2 DEF Search, StartSearch, NextKey, NoNextKey, Fallback, Ask, Suspend, Saves, Loads,
     history
<1>3. ASSUME NEW h \in Checkers, Check(h) PROVE clash'
  BY <1>3 DEF Check, Saves, Loads
<1>4. ASSUME NEW u \in People, Command(u) PROVE clash'
  BY <1>4 DEF Command, MarkBurnt, Recover, Sync, Init, Seed, ReadEngines, TruncateEngines,
     AddKeys, Saves, Loads, history
<1>5. CASE UNCHANGED searchVars
  BY <1>5 DEF searchVars, history
<1>6. QED
  BY <1>1, <1>2, <1>3, <1>4, <1>5 DEF SearchNext

\* However many programs work on the pool at once, and wherever they are
\* killed: what a command has found a key to be is undone by no command that
\* had not loaded the pool before, unless the temporary file was torn.
THEOREM PoolStaysSound == SearchSpec => PoolStands
<1> DEFINE Stands == \A k \in Keys : pool.keys[k] # pool'.keys[k] /\ ~clash =>
             \E x \in Procs : /\ mem[x].at = "replace" /\ mem'[x] # mem[x]
                              /\ \/ k \in since[x]
                                 \/ MayTurn(mem[x].job, pool.keys[k], pool'.keys[k])
<1>1. ASSUME StandInv, SearchNext, NEW k \in Keys, pool.keys[k] # pool'.keys[k], ~clash
      PROVE  \E x \in Procs : /\ mem[x].at = "replace" /\ mem'[x] # mem[x]
                              /\ \/ k \in since[x]
                                 \/ MayTurn(mem[x].job, pool.keys[k], pool'.keys[k])
  <2>1. PICK x \in Procs : Replace(x)
    BY <1>1, PoolKept
  <2> DEFINE m == mem[x]
  <2>2. m.at = "replace" /\ pool' = tmp /\ m.at \in Writing
    BY <2>1 DEF Replace, Writing
  <2>3. pool'.keys = m.copy
    BY <1>1, <2>2 DEF StandInv, Alone, Whole
  <2>4. k \in since[x] \/ MayTurn(m.job, pool.keys[k], pool'.keys[k])
    BY <1>1, <2>2, <2>3 DEF StandInv, Track, Tracked
  <2>5. Fit(m) /\ m \in Memory /\ (m.job = "next" => m.prov \in Searched)
    BY <1>1 DEF StandInv, TypeInv, MemoryOK, Fit, Placed
  <2>6. mem'[x] # m
    <3>1. m.job = "next" => AfterNext(m).at \in Ended
      BY <2>5, AfterNextFits
    <3>2. "replace" \notin Ended /\ Rest.at # "replace" /\ [m EXCEPT !.at = "sync"].at = "sync"
      BY <2>5 DEF Ended, Rest, Memory
    <3>3. mem'[x] \in {AfterNext(m), Rest, [m EXCEPT !.at = "sync"]}
          /\ (mem'[x] = AfterNext(m) => m.job = "next" \/ mem'[x].at # "replace")
      BY <1>1, <2>1, <3>2 DEF Replace, Goes, StandInv, TypeInv, MemoryOK
    <3>4. QED
      BY <2>2, <3>1, <3>2, <3>3
  <2>7. QED
    BY <2>2, <2>4, <2>6
<1>2. StandInv /\ [SearchNext]_searchVars => [Stands]_searchVars
  BY <1>1 DEF searchVars
<1>3. QED
  BY <1>2, StandInit, StandStep, PTL DEF SearchSpec, PoolStands

\* key_pool.json can be read and parsed at any moment.
PoolWhole == ~clash => pool.is = "whole"

\* A reader never meets a missing, empty or torn key_pool.json, whenever it looks
\* and wherever a program that saves is killed: what os.replace puts in its place
\* is complete, unless two programs have used the temporary file at once.
THEOREM PoolAlwaysWhole == SearchSpec => []PoolWhole
<1>1. SearchInit => PoolWhole
  BY DEF PoolWhole, SearchInit, Whole
<1>2. ASSUME StandInv, PoolWhole, [SearchNext]_searchVars PROVE PoolWhole'
  <2>1. clash => clash'
    BY <1>2, ClashStays
  <2>2. CASE pool' = pool
    BY <1>2, <2>1, <2>2 DEF PoolWhole
  <2>3. CASE pool' # pool /\ ~clash
    <3>1. SearchNext
      BY <1>2, <2>3 DEF searchVars, files
    <3>2. PICK x \in Procs : Replace(x)
      BY <1>2, <2>3, <3>1, PoolKept
    <3>3. pool' = Whole(mem[x].copy)
      BY <1>2, <2>3, <3>2 DEF Replace, StandInv, Alone
    <3>4. QED BY <3>3 DEF PoolWhole, Whole
  <2>4. CASE clash
    BY <2>1, <2>4 DEF PoolWhole
  <2>5. QED BY <2>2, <2>3, <2>4
<1>3. QED
  BY <1>1, <1>2, StandInit, StandStep, PTL DEF SearchSpec

-----------------------------------------------------------------------------
(* SearXNG is given no resting key.                                        *)

\* But for these providers the engines have no key that rests.
Resting(engines, keys, debts) ==
  \A p \in Providers \ debts : \A k \in engines[p].keys : keys[k] \in {"active", Unlisted}

LEMMA NothingRests == \A keys, debts : Resting(NoEngines, keys, debts)
BY DEF Resting, NoEngines

\* What a program inside a command knows of the files, as long as commands do
\* not overlap.
Knows(m, keys, engines, debts) ==
  /\ m.at \in {"sync", "write", "dump", "seed"} => m.copy = keys
  /\ m.at \in {"write", "add"} => m.text = engines
  /\ m.at = "list" => engines = NoEngines /\ Resting(m.text, keys, debts)
  /\ m.at \in Writing => \A k \in Keys : ProviderOf[k] \notin m.due =>
        m.copy[k] = keys[k] \/ m.copy[k] = "active"

RestOK == Resting(settings, pool.keys, owed)

Calm == ~met => /\ ~clash
                /\ \A x, y \in Procs : Busy(x) /\ Busy(y) => x = y
                /\ \A x \in Procs : Knows(mem[x], pool.keys, settings, owed)
                /\ RestOK

EngineInv == StandInv /\ Calm

LEMMA IdleKnows ==
  ASSUME NEW m, m.at \notin InCommand, NEW keys, NEW engines, NEW debts
  PROVE  Knows(m, keys, engines, debts)
BY DEF Knows, InCommand, Writing

\* A step of program x while no other is in a command.
LEMMA CalmAlone ==
  ASSUME EngineInv, NEW x \in Procs, NEW r, Goes(x, r), ~clash',
         \A y \in Procs \ {x} : ~Busy(y),
         Knows(r, pool'.keys, settings', owed'), RestOK'
  PROVE  Calm'
<1>1. mem'[x] = r /\ \A y \in Procs \ {x} : mem'[y] = mem[y]
  BY DEF Goes, EngineInv, StandInv, TypeInv, MemoryOK
<1>2. \A y \in Procs \ {x} : mem'[y].at \notin InCommand
  BY <1>1 DEF Busy
<1>3. \A y \in Procs : Knows(mem'[y], pool'.keys, settings', owed')
  BY <1>1, <1>2, IdleKnows
<1>4. \A y, z \in Procs : Busy(y)' /\ Busy(z)' => y = z
  BY <1>2 DEF Busy
<1>5. QED
  BY <1>3, <1>4 DEF Calm

\* What keeps the files as they are.
Leaves == pool' = pool /\ settings' = settings /\ owed' = owed /\ clash' = clash

\* A step of a program to a place in no command.
LEMMA CalmOutside ==
  ASSUME EngineInv, NEW x \in Procs, NEW r, Goes(x, r), r.at \notin InCommand,
         Leaves, met => met'
  PROVE  Calm'
<1> SUFFICES ASSUME ~met' PROVE Calm'
  BY DEF Calm
<1>1. mem'[x] = r /\ \A y \in Procs \ {x} : mem'[y] = mem[y]
  BY DEF Goes, EngineInv, StandInv, TypeInv, MemoryOK
<1>2. ~clash' /\ RestOK'
  BY DEF EngineInv, Calm, RestOK, Leaves
<1>3. \A y \in Procs : Knows(mem'[y], pool'.keys, settings', owed')
  BY <1>1, IdleKnows DEF EngineInv, Calm, Leaves
<1>4. \A y, z \in Procs : Busy(y)' /\ Busy(z)' => y = z
  BY <1>1 DEF EngineInv, Calm, Busy
<1>5. QED
  BY <1>2, <1>3, <1>4 DEF Calm

\* A program begins a command.
LEMMA CalmEnters ==
  ASSUME EngineInv, NEW x \in Procs, NEW r, Goes(x, r), Meets(x), Leaves,
         Knows(r, pool.keys, settings, owed)
  PROVE  Calm'
<1> SUFFICES ASSUME ~met' PROVE Calm'
  BY DEF Calm
<1>1. ~met /\ \A y \in Procs \ {x} : ~Busy(y)
  BY DEF Meets, EngineInv, StandInv, TypeInv, Typed
<1>2. ~clash' /\ RestOK' /\ Knows(r, pool'.keys, settings', owed')
  BY <1>1 DEF EngineInv, Calm, RestOK, Leaves
<1>3. QED
  BY <1>1, <1>2, CalmAlone

\* A program goes on with its command.
LEMMA CalmInside ==
  ASSUME EngineInv, NEW x \in Procs, NEW r, Goes(x, r), Busy(x), met' = met,
         ~met => ~clash' /\ Knows(r, pool'.keys, settings', owed') /\ RestOK'
  PROVE  Calm'
<1> SUFFICES ASSUME ~met' PROVE Calm'
  BY DEF Calm
<1>1. \A y \in Procs \ {x} : ~Busy(y)
  BY DEF EngineInv, Calm
<1>2. QED
  BY <1>1, CalmAlone

\* A program has loaded the pool and is to save this copy.
LEMMA CalmSaves ==
  ASSUME EngineInv, NEW x \in Procs, NEW job, NEW copy, NEW due, Saves(x, job, copy, due),
         \A k \in Keys : ProviderOf[k] \notin due => copy[k] = pool.keys[k]
  PROVE  Calm'
<1> DEFINE r == [mem[x] EXCEPT !.at = "open", !.job = job, !.copy = copy, !.due = due]
<1>1. mem[x] \in Memory
  BY DEF EngineInv, StandInv, TypeInv, MemoryOK
<1>2. r.at = "open" /\ r.due = due /\ r.copy = copy
  BY <1>1 DEF Memory
<1>3. Knows(r, pool.keys, settings, owed)
  BY <1>2 DEF Knows
<1>4. Goes(x, r) /\ Meets(x) /\ Leaves
  BY DEF Saves, Loads, Leaves, files
<1> HIDE DEF r
<1>5. QED
  BY <1>3, <1>4, CalmEnters

LEMMA CalmSearch ==
  ASSUME EngineInv, NEW s \in Searches, Search(s)
  PROVE  Calm'
<1> DEFINE m == mem[s]
<1>1. s \in Procs /\ Fit(m) /\ m \in Memory /\ Placed(m)
  BY DEF Procs, EngineInv, StandInv, TypeInv, MemoryOK, Fit
<1>2. \A at \in Ended \cup {"quota"} : at \notin InCommand
  BY DEF Ended, InCommand, Writing
<1>3. CASE StartSearch(s)
  <2>1. PICK p : Goes(s, [Rest EXCEPT !.at = "next", !.prov = p, !.tries = 1])
    BY <1>3 DEF StartSearch
  <2>2. [Rest EXCEPT !.at = "next", !.prov = p, !.tries = 1].at \notin InCommand
    BY RestFits DEF Fit, Memory, InCommand, Writing
  <2>3. Leaves /\ met' = met
    BY <1>3 DEF StartSearch, Leaves, files, history
  <2>4. QED
    BY <1>1, <2>1, <2>2, <2>3, CalmOutside
<1>4. CASE NextKey(s)
  <2>1. PICK k : Goes(s, [m EXCEPT !.at = "open", !.job = "next", !.copy = pool.keys,
                                   !.due = {}, !.key = k])
    BY <1>4 DEF NextKey
  <2> DEFINE r == [m EXCEPT !.at = "open", !.job = "next", !.copy = pool.keys,
                            !.due = {}, !.key = k]
  <2>2. r.at = "open" /\ r.copy = pool.keys
    BY <1>1 DEF Memory
  <2>3. Knows(r, pool.keys, settings, owed)
    BY <2>2 DEF Knows
  <2>4. Goes(s, r) /\ Meets(s) /\ Leaves
    BY <1>4, <2>1 DEF NextKey, Loads, Leaves, files
  <2> HIDE DEF r
  <2>5. QED
    BY <1>1, <2>3, <2>4, CalmEnters
<1>5. CASE NoNextKey(s)
  <2> DEFINE q == [m EXCEPT !.key = Junk[m.prov]]
  <2>1. m.prov \in Searched /\ m.at = "next"
    BY <1>1, <1>5 DEF NoNextKey, Placed, Searching
  <2>2. Junk[m.prov] \in Keys /\ ProviderOf[Junk[m.prov]] = m.prov
    BY <2>1, SearchType DEF KeysOf
  <2>3. q \in Memory /\ q.text = m.text /\ q.prov = m.prov
    BY <1>1, <2>2 DEF Memory
  <2>4. Placed(q)
    BY <1>1, <2>1, <2>2 DEF Memory, Placed, Searching, InCommand, Writing
  <2>5. AfterNext(q).at \in Ended
    BY <1>1, <2>1, <2>3, <2>4, AfterNextFits DEF Fit
  <2>6. Goes(s, AfterNext(q)) /\ Leaves /\ (met => met')
    BY <1>5 DEF NoNextKey, Loads, Meets, Leaves, files
  <2> HIDE DEF q
  <2>7. QED
    BY <1>1, <1>2, <2>5, <2>6, CalmOutside
<1>6. CASE Fallback(s)
  <2>1. PICK k : Goes(s, [m EXCEPT !.at = "ask", !.key = k])
    BY <1>6 DEF Fallback
  <2>2. [m EXCEPT !.at = "ask", !.key = k].at \notin InCommand
    BY <1>1 DEF Memory, InCommand, Writing
  <2>3. Leaves /\ met' = met
    BY <1>6 DEF Fallback, Leaves, files, history
  <2>4. QED
    BY <1>1, <2>1, <2>2, <2>3, CalmOutside
<1>7. CASE Ask(s)
  <2>1. m.prov \in Searched
    BY <1>1, <1>7 DEF Ask, Placed, Searching
  <2>2. Rest.at \in Ended /\ [m EXCEPT !.at = "quota"].at = "quota" /\ Again(m).at \in Ended
    BY <1>1, <2>1, AgainFits DEF Memory, Ended, Rest
  <2>3. PICK r : Goes(s, r) /\ r.at \in Ended \cup {"quota"}
    BY <1>7, <2>2 DEF Ask
  <2>4. Leaves /\ met' = met
    BY <1>7 DEF Ask, Leaves, files, history
  <2>5. QED
    BY <1>1, <1>2, <2>3, <2>4, CalmOutside
<1>8. CASE Suspend(s)
  <2> DEFINE c == pool.keys
             copy == IF c[m.key] = "burnt" THEN c ELSE [c EXCEPT ![m.key] = "suspended"]
  <2>1. Saves(s, "suspend", copy, {m.prov})
    BY <1>8 DEF Suspend
  <2>2. c \in Pools
    BY ContentTypes DEF EngineInv, StandInv, TypeInv, Typed
  <2>3. \A k \in Keys : ProviderOf[k] \notin {m.prov} => copy[k] = c[k]
    BY <1>1, <2>2 DEF Placed, Pools
  <2> HIDE DEF copy
  <2>4. QED
    BY <1>1, <2>1, <2>3, CalmSaves
<1>9. QED
  BY <1>3, <1>4, <1>5, <1>6, <1>7, <1>8 DEF Search

LEMMA CalmCheck ==
  ASSUME EngineInv, NEW h \in Checkers, Check(h)
  PROVE  Calm'
<1>1. h \in Procs
  BY DEF Procs
<1>2. PICK v : Saves(h, "check", Probed(pool.keys, v), Providers)
  BY DEF Check
<1>3. QED
  BY <1>1, <1>2, SearchType, CalmSaves

LEMMA CalmCommand ==
  ASSUME EngineInv, NEW u \in People, Command(u)
  PROVE  Calm'
<1> DEFINE m == mem[u]
<1>1. u \in Procs /\ m \in Memory /\ pool.keys \in Pools /\ settings \in Engines
  BY ContentTypes DEF Procs, EngineInv, StandInv, TypeInv, MemoryOK, Typed
<1>2. CASE MarkBurnt(u)
  <2>1. PICK k \in Keys : Saves(u, "mark", [pool.keys EXCEPT ![k] = "burnt"], {ProviderOf[k]})
    BY <1>2 DEF MarkBurnt
  <2>2. \A j \in Keys : ProviderOf[j] \notin {ProviderOf[k]} =>
                        [pool.keys EXCEPT ![k] = "burnt"][j] = pool.keys[j]
    BY <1>1 DEF Pools
  <2>3. QED
    BY <1>1, <2>1, <2>2, CalmSaves
<1>3. CASE Recover(u)
  <2> DEFINE Back(k, due) == pool.keys[k] = "burnt" /\ ProviderOf[k] \in due
             Copy(due) == [k \in Keys |-> IF Back(k, due) THEN "suspended" ELSE pool.keys[k]]
  <2>1. PICK due : Saves(u, "recover", Copy(due), due)
    BY <1>3 DEF Recover
  <2>2. \A k \in Keys : ProviderOf[k] \notin due => Copy(due)[k] = pool.keys[k]
    OBVIOUS
  <2> HIDE DEF Copy
  <2>3. QED
    BY <1>1, <2>1, <2>2, CalmSaves
<1>4. CASE Sync(u)
  <2> DEFINE r == [m EXCEPT !.at = "sync", !.job = "sync", !.copy = pool.keys,
                            !.due = Providers]
  <2>1. r.at = "sync" /\ r.copy = pool.keys
    BY <1>1 DEF Memory
  <2>2. Knows(r, pool.keys, settings, owed)
    BY <2>1 DEF Knows, Writing
  <2>3. Goes(u, r) /\ Meets(u) /\ Leaves
    BY <1>4 DEF Sync, Loads, Leaves, files
  <2> HIDE DEF r
  <2>4. QED
    BY <1>1, <2>2, <2>3, CalmEnters
<1>5. CASE Init(u)
  <2> DEFINE r == [m EXCEPT !.at = "seed", !.job = "init", !.copy = pool.keys]
  <2>1. r.at = "seed" /\ r.copy = pool.keys
    BY <1>1 DEF Memory
  <2>2. Knows(r, pool.keys, settings, owed)
    BY <2>1 DEF Knows, Writing
  <2>3. Goes(u, r) /\ Meets(u) /\ Leaves
    BY <1>5 DEF Init, Loads, Leaves, files
  <2> HIDE DEF r
  <2>4. QED
    BY <1>1, <2>2, <2>3, CalmEnters
<1>6. CASE Seed(u)
  <2> DEFINE New(k) == m.copy[k] = Unlisted /\ k \in settings[ProviderOf[k]].keys
             copy == [k \in Keys |-> IF New(k) THEN "active" ELSE m.copy[k]]
             r == [m EXCEPT !.at = "open", !.copy = copy]
  <2>1. r.at = "open" /\ r.copy = copy /\ Busy(u)
    BY <1>1, <1>6 DEF Memory, Seed, Busy, InCommand
  <2>2. Leaves /\ met' = met /\ (Goes(u, Rest) \/ Goes(u, r))
    BY <1>6 DEF Seed, Leaves, files, history
  <2>3. Rest.at \notin InCommand
    BY DEF Rest, InCommand, Writing
  <2>4. ASSUME ~met PROVE ~clash' /\ Knows(r, pool'.keys, settings', owed') /\ RestOK'
    <3>1. m.copy = pool.keys
      BY <1>1, <1>6, <2>4 DEF Seed, EngineInv, Calm, Knows
    <3>2. Knows(r, pool.keys, settings, owed)
      BY <2>1, <3>1 DEF Knows
    <3>3. QED
      BY <2>2, <2>4, <3>2 DEF Leaves, EngineInv, Calm, RestOK
  <2> HIDE DEF r
  <2>5. CASE Goes(u, r)
    BY <1>1, <2>1, <2>2, <2>4, <2>5, CalmInside
  <2>6. CASE Goes(u, Rest)
    BY <1>1, <2>2, <2>3, <2>6, CalmOutside
  <2>7. QED
    BY <2>2, <2>5, <2>6
<1>7. CASE ReadEngines(u)
  <2> DEFINE r == [m EXCEPT !.at = "add", !.job = "add", !.text = settings]
  <2>1. r.at = "add" /\ r.text = settings
    BY <1>1 DEF Memory
  <2>2. Knows(r, pool.keys, settings, owed)
    BY <2>1 DEF Knows, Writing
  <2>3. Goes(u, r) /\ Meets(u) /\ Leaves
    BY <1>7 DEF ReadEngines, Leaves, files
  <2> HIDE DEF r
  <2>4. QED
    BY <1>1, <2>2, <2>3, CalmEnters
<1>8. CASE TruncateEngines(u)
  <2> DEFINE r == [m EXCEPT !.at = "list"]
  <2>1. r.at = "list" /\ r.text = m.text
    BY <1>1 DEF Memory
  <2>2. /\ Goes(u, r) /\ Busy(u) /\ m.at = "add" /\ settings' = NoEngines
        /\ met' = met /\ pool' = pool /\ owed' = owed /\ clash' = clash
    BY <1>8 DEF TruncateEngines, Busy, InCommand, history
  <2> HIDE DEF r
  <2>3. ASSUME ~met PROVE ~clash' /\ Knows(r, pool'.keys, settings', owed') /\ RestOK'
    <3>1. m.text = settings /\ RestOK /\ ~clash
      BY <1>1, <2>2, <2>3 DEF EngineInv, Calm, Knows
    <3>2. Resting(r.text, pool'.keys, owed')
      BY <2>1, <2>2, <3>1 DEF RestOK
    <3>3. Knows(r, pool'.keys, settings', owed')
      BY <2>1, <2>2, <3>2 DEF Knows, Writing
    <3>4. RestOK'
      BY <2>2, NothingRests DEF RestOK
    <3>5. QED
      BY <2>2, <3>1, <3>3, <3>4
  <2>4. QED
    BY <1>1, <2>2, <2>3, CalmInside
<1>9. CASE AddKeys(u)
  <2>1. PICK p \in Providers, new \in SUBSET Keys :
          /\ new \subseteq Addable(p) /\ new # {}
          /\ \/ settings' \in {settings, NoEngines}
             \/ settings' = Listed(m.text, p, new) /\ owed' = owed \cup {p}
          /\ owed' \in {owed, owed \cup {p}}
    BY <1>9 DEF AddKeys, Addable, KeysOf
  <2>2. /\ Goes(u, Rest) /\ Busy(u) /\ m.at = "list" /\ met' = met /\ pool' = pool
        /\ clash' = clash
    BY <1>9 DEF AddKeys, Busy, InCommand
  <2>3. Rest.at \notin InCommand
    BY DEF Rest, InCommand, Writing
  <2>4. ASSUME ~met PROVE RestOK' /\ ~clash'
    <3>1. settings = NoEngines /\ Resting(m.text, pool.keys, owed) /\ ~clash
      BY <1>1, <2>2, <2>4 DEF EngineInv, Calm, Knows
    <3>2. CASE settings' = NoEngines
      BY <2>2, <3>1, <3>2, NothingRests DEF RestOK
    <3>3. CASE settings' = Listed(m.text, p, new) /\ owed' = owed \cup {p}
      <4>1. \A q \in Providers : q # p => settings'[q] = m.text[q]
        BY <1>1, <3>3 DEF Memory, Engines, Listed
      <4>2. QED
        BY <2>2, <3>1, <3>3, <4>1 DEF RestOK, Resting
    <3>4. QED
      BY <2>1, <2>2, <3>1, <3>2, <3>3
  <2>5. QED
    BY <1>1, <2>2, <2>3, <2>4, IdleKnows, CalmInside
<1>10. QED
  BY <1>2, <1>3, <1>4, <1>5, <1>6, <1>7, <1>8, <1>9 DEF Command

LEMMA CalmSaving ==
  ASSUME EngineInv, NEW x \in Procs,
         Open(x) \/ Fill(x) \/ Replace(x) \/ CannotReplace(x)
  PROVE  Calm'
<1> DEFINE m == mem[x]
           to(at) == [m EXCEPT !.at = at]
<1>1. Fit(m) /\ m \in Memory /\ Placed(m) /\ m.copy \in Pools
  BY DEF EngineInv, StandInv, TypeInv, MemoryOK, Fit, Memory
<1>2. \A at : /\ to(at).at = at /\ to(at).copy = m.copy /\ to(at).due = m.due
              /\ to(at).text = m.text
  BY <1>1 DEF Memory
<1>3. \A at \in Ended : at \notin InCommand
  BY DEF Ended, InCommand, Writing
<1>4. ASSUME ~met, m.at \in Writing, NEW at \in Writing
      PROVE  Knows(to(at), pool.keys, settings, owed)
  <2>1. /\ Knows(m, pool.keys, settings, owed)
        /\ at \notin {"sync", "write", "dump", "seed", "add", "list"}
    BY <1>4 DEF EngineInv, Calm, Writing
  <2> HIDE DEF to
  <2>2. QED
    BY <1>2, <1>4, <2>1 DEF Knows
<1> HIDE DEF to
<1>5. CASE Open(x)
  <2>1. Goes(x, to("fill")) /\ Busy(x) /\ m.at \in Writing /\ "fill" \in Writing
    BY <1>5 DEF Open, to, Busy, InCommand, Writing
  <2>2. met' = met /\ pool' = pool /\ settings' = settings /\ owed' = owed
    BY <1>5 DEF Open
  <2>3. ASSUME ~met PROVE ~clash' /\ RestOK'
    <3>1. \A y \in Procs \ {x} : mem[y].at \notin {"fill", "replace"}
      BY <2>1, <2>3 DEF EngineInv, Calm, Busy, InCommand, Writing
    <3>2. QED
      BY <1>5, <2>2, <2>3, <3>1 DEF Open, EngineInv, Calm, RestOK
  <2>4. QED
    BY <1>4, <2>1, <2>2, <2>3, CalmInside
<1>6. CASE Fill(x)
  <2>1. Goes(x, to("replace")) /\ Busy(x) /\ m.at \in Writing /\ "replace" \in Writing
    BY <1>6 DEF Fill, to, Busy, InCommand, Writing
  <2>2. met' = met /\ settings' = settings /\ owed' = owed /\ clash' = clash
    BY <1>6 DEF Fill
  <2>3. ASSUME ~met PROVE pool' = pool /\ ~clash' /\ RestOK'
    <3>1. where[x] = "tmp"
      BY <1>6, <2>3 DEF Fill, EngineInv, Calm, StandInv, Alone
    <3>2. QED
      BY <1>6, <2>2, <2>3, <3>1 DEF Fill, EngineInv, Calm, RestOK
  <2>4. QED
    BY <1>4, <2>1, <2>2, <2>3, CalmInside
<1>7. CASE Replace(x)
  <2>1. m.job = "next" => m.prov \in Searched
    BY <1>1 DEF Placed
  <2>2. PICK r : Goes(x, r) /\ (r.at \in Ended \/ r = to("sync"))
    <3>1. AfterNext(m).at \in Ended \/ m.job # "next"
      BY <1>1, <2>1, AfterNextFits
    <3>2. Rest.at \in Ended
      BY DEF Rest, Ended
    <3>3. (Goes(x, AfterNext(m)) /\ m.job = "next") \/ Goes(x, Rest) \/ Goes(x, to("sync"))
      BY <1>7 DEF Replace, to
    <3>4. QED
      BY <3>1, <3>2, <3>3
  <2>3. /\ Busy(x) /\ met' = met /\ settings' = settings /\ clash' = clash
        /\ owed' = owed \cup m.due /\ pool' = tmp /\ m.at = "replace"
    BY <1>7 DEF Replace, Busy, InCommand, Writing
  <2>4. ASSUME ~met PROVE ~clash' /\ Knows(r, pool'.keys, settings', owed') /\ RestOK'
    <3>1. ~clash /\ pool'.keys = m.copy
      BY <2>3, <2>4 DEF EngineInv, Calm, StandInv, Alone, Whole
    <3>2. to("sync").at = "sync" /\ to("sync").copy = m.copy
      BY <1>2
    <3>3. Knows(to("sync"), pool'.keys, settings', owed')
      BY <3>1, <3>2 DEF Knows, Writing
    <3>4. \A k \in Keys : ProviderOf[k] \notin m.due =>
             m.copy[k] = pool.keys[k] \/ m.copy[k] = "active"
      BY <2>3, <2>4 DEF EngineInv, Calm, Knows, Writing
    <3>5. \A p \in Providers : \A k \in settings[p].keys : k \in Keys /\ ProviderOf[k] = p
      BY DEF EngineInv, StandInv, TypeInv, Typed, EnginesOK, KeysOf
    <3>6. RestOK'
      BY <2>3, <2>4, <3>1, <3>4, <3>5 DEF RestOK, Resting, EngineInv, Calm
    <3>7. QED
      BY <1>3, <2>2, <2>3, <3>1, <3>3, <3>6, IdleKnows
  <2>5. QED
    BY <2>2, <2>3, <2>4, CalmInside
<1>8. CASE CannotReplace(x)
  <2>1. Goes(x, AfterError(m)) /\ Leaves /\ met' = met
    BY <1>8 DEF CannotReplace, Leaves, files, history
  <2>2. QED
    BY <1>1, <1>3, <2>1, AfterErrorFits, CalmOutside
<1>9. QED
  BY <1>5, <1>6, <1>7, <1>8

\* While commands do not overlap, no two of them meet at settings.yml.
LEMMA NeverCrosses ==
  ASSUME EngineInv, NEW x \in Procs, SyncCrossed(x)
  PROVE  met
<1> SUFFICES ASSUME ~met PROVE FALSE
  OBVIOUS
<1>1. mem[x].at = "write" /\ Busy(x) /\ Crossed(x)
  BY DEF SyncCrossed, Busy, InCommand
<1>2. mem[x].text = settings /\ \A y \in Procs \ {x} : ~Busy(y)
  BY <1>1 DEF EngineInv, Calm, Knows
<1>3. QED
  BY <1>1, <1>2 DEF Crossed, Busy, InCommand

LEMMA CalmSyncing ==
  ASSUME EngineInv, NEW x \in Procs,
         SyncRead(x) \/ SyncSettings(x) \/ SyncCrossed(x) \/ SyncSearchKeys(x)
  PROVE  Calm'
<1> DEFINE m == mem[x]
<1>1. Fit(m) /\ m \in Memory
  BY DEF EngineInv, StandInv, TypeInv, MemoryOK, Fit
<1>2. m.at \in {"sync", "write", "dump"} /\ Busy(x)
  BY DEF SyncRead, SyncSettings, SyncCrossed, SyncSearchKeys, Busy, InCommand
<1>3. ~met => m.copy = pool.keys
  BY <1>2 DEF EngineInv, Calm, Knows
<1>4. CASE SyncRead(x)
  <2>1. PICK p : Goes(x, [m EXCEPT !.at = "write", !.prov = p, !.text = settings])
    BY <1>4 DEF SyncRead
  <2> DEFINE r == [m EXCEPT !.at = "write", !.prov = p, !.text = settings]
  <2>2. r.at = "write" /\ r.copy = m.copy /\ r.text = settings
    BY <1>1 DEF Memory
  <2>3. Leaves /\ met' = met /\ Goes(x, r)
    BY <1>4, <2>1 DEF SyncRead, Leaves, files, history
  <2>4. ~met => Knows(r, pool.keys, settings, owed)
    BY <1>3, <2>2 DEF Knows, Writing
  <2> HIDE DEF r
  <2>5. ~met => ~clash' /\ Knows(r, pool'.keys, settings', owed') /\ RestOK'
    BY <2>3, <2>4 DEF Leaves, EngineInv, Calm, RestOK
  <2>6. QED
    BY <1>2, <2>3, <2>5, CalmInside
<1>5. CASE SyncSettings(x)
  <2> DEFINE p == m.prov
             active == Active(m.copy, p)
             r == [m EXCEPT !.at = "dump", !.text = NoEngines]
  <2>1. /\ settings' = Synced(m.text, p, active)
        /\ Goes(x, r) /\ met' = met /\ clash' = clash /\ pool' = pool /\ owed' = owed \ {p}
        /\ m.at = "write"
    BY <1>5 DEF SyncSettings, Edited
  <2>2. r.at = "dump" /\ r.copy = m.copy
    BY <1>1 DEF Memory
  <2>3. ASSUME ~met PROVE ~clash' /\ Knows(r, pool'.keys, settings', owed') /\ RestOK'
    <3>1. m.text = settings
      BY <2>1, <2>3 DEF EngineInv, Calm, Knows
    <3>2. Knows(r, pool'.keys, settings', owed')
      BY <1>3, <2>1, <2>2, <2>3 DEF Knows, Writing
    <3>3. /\ \A q \in Providers : q # p => settings'[q] = settings[q]
          /\ p \in Providers => settings'[p].keys \subseteq active
      <4>1. active \in SUBSET KeysOf(p) /\ m.text \in Engines /\ EnginesOK(m.text)
        BY <1>1 DEF Active, Fit, Memory
      <4> HIDE DEF active, p
      <4>2. p \in Providers => m.text[p].block = "list" \/ m.text[p].keys = {}
        BY <4>1 DEF EnginesOK
      <4>3. QED
        BY <2>1, <3>1, <4>1, <4>2, SyncedFits
    <3>4. \A k \in active : pool.keys[k] = "active"
      BY <1>3, <2>3 DEF Active
    <3>5. RestOK'
      BY <2>1, <2>3, <3>3, <3>4 DEF RestOK, Resting, EngineInv, Calm
    <3>6. QED
      BY <2>1, <2>3, <3>2, <3>5 DEF EngineInv, Calm
  <2> HIDE DEF r
  <2>4. QED
    BY <1>2, <2>1, <2>3, CalmInside
<1>6. CASE SyncCrossed(x)
  <2>1. met
    BY <1>6, NeverCrosses
  <2>2. met' = met
    BY <1>6 DEF SyncCrossed, history
  <2>3. QED
    BY <2>1, <2>2 DEF Calm
<1>7. CASE SyncSearchKeys(x)
  <2> DEFINE r == [m EXCEPT !.at = "sync", !.due = m.due \ {m.prov}]
  <2>1. r.at = "sync" /\ r.copy = m.copy
    BY <1>1 DEF Memory
  <2>2. AfterSync(m).at \notin InCommand
    BY <1>1, AfterSyncFits DEF Ended, InCommand, Writing
  <2>3. Leaves /\ met' = met /\ (Goes(x, r) \/ Goes(x, AfterSync(m)))
    BY <1>7 DEF SyncSearchKeys, Leaves, files, history
  <2>4. ~met => Knows(r, pool.keys, settings, owed)
    BY <1>3, <2>1 DEF Knows, Writing
  <2> HIDE DEF r
  <2>5. ~met => ~clash' /\ Knows(r, pool'.keys, settings', owed') /\ RestOK'
    BY <2>3, <2>4 DEF Leaves, EngineInv, Calm, RestOK
  <2>6. CASE Goes(x, r)
    BY <1>2, <2>3, <2>5, <2>6, CalmInside
  <2>7. CASE Goes(x, AfterSync(m))
    BY <2>2, <2>3, <2>7, CalmOutside
  <2>8. QED
    BY <2>3, <2>6, <2>7
<1>8. QED
  BY <1>4, <1>5, <1>6, <1>7

LEMMA EngineInit == SearchInit => EngineInv
<1> SUFFICES ASSUME SearchInit PROVE EngineInv
  OBVIOUS
<1>1. \A x \in Procs : mem[x].at \notin InCommand
  BY DEF SearchInit, Rest, InCommand, Writing
<1>2. RestOK
  BY SearchType DEF SearchInit, RestOK, Resting, Whole
<1>3. ~clash
  BY DEF SearchInit
<1>4. Calm
  BY <1>1, <1>2, <1>3, IdleKnows DEF Calm, Busy
<1>5. QED
  BY <1>4, StandInit DEF EngineInv

LEMMA EngineStep == EngineInv /\ [SearchNext]_searchVars => EngineInv'
<1> SUFFICES ASSUME EngineInv, [SearchNext]_searchVars PROVE EngineInv'
  OBVIOUS
<1>1. StandInv'
  BY StandStep DEF EngineInv
<1>2. CASE UNCHANGED searchVars
  BY <1>1, <1>2 DEF searchVars, files, history, EngineInv, Calm, Busy, RestOK
<1>3. ASSUME NEW x \in Procs, Crash(x) PROVE Calm'
  <2>1. Goes(x, Rest) /\ Leaves /\ met' = met
    BY <1>3 DEF Crash, Leaves, history
  <2>2. Rest.at \notin InCommand
    BY DEF Rest, InCommand, Writing
  <2>3. QED
    BY <2>1, <2>2, CalmOutside
<1>4. CASE SearchNext
  BY <1>1, <1>3, <1>4, CalmSearch, CalmCheck, CalmCommand, CalmSaving, CalmSyncing
     DEF SearchNext, Going, EngineInv
<1>5. QED
  BY <1>2, <1>4

\* While commands do not overlap, and wherever they are killed, SearXNG is given
\* no key that rests by any command but add-key, once its engine has been come to;
\* and an engine without keys is always disabled.
THEOREM EnginesRest == SearchSpec => []EngineKeysRest
<1>1. EngineInv => EngineKeysRest
  BY DEF EngineInv, Calm, RestOK, Resting, StandInv, TypeInv, Typed, EnginesOK, EngineKeysRest
<1>2. QED
  BY <1>1, EngineInit, EngineStep, PTL DEF SearchSpec

-----------------------------------------------------------------------------
(* The refinement of KeyBook.  While commands do not overlap, the copy in  *)
(* a program's memory is the pool and what its command makes of it; so the *)
(* rename is the command's one step on the book.                           *)

Given == [p \in Providers |-> Kept[p].keys]

\* Where what the book is told of is about to change.
Moving == Writing \cup {"list"}

Prepared(m) == m.at \in Writing => Book!Turns(pool.keys, m.copy, Given, m.due)

BookInv == EngineInv /\ (~met => \A x \in Procs : Prepared(mem[x]))

\* What is kept of the engines is what settings.yml holds, unless add-key is to
\* fill it.
LEMMA KeptIs ==
  ASSUME BookInv, ~met, NEW x \in Procs, Busy(x)
  PROVE  /\ mem[x].at # "list" => Kept = settings
         /\ x \in People /\ mem[x].at = "list" => Kept = mem[x].text
<1>1. \A u \in Filling : u = x
  BY DEF BookInv, EngineInv, Calm, Filling, Busy, InCommand, Procs
<1>2. CASE mem[x].at # "list"
  <2>1. Filling = {}
    BY <1>1, <1>2 DEF Filling
  <2>2. QED
    BY <1>2, <2>1 DEF Kept
<1>3. CASE x \in People /\ mem[x].at = "list"
  <2>1. Filling = {x}
    BY <1>1, <1>3 DEF Filling
  <2>2. (CHOOSE u \in Filling : TRUE) = x
    BY <2>1
  <2>3. QED
    BY <1>3, <2>1, <2>2 DEF Kept
<1>4. QED
  BY <1>2, <1>3

LEMMA KeptBecomes ==
  ASSUME BookInv, ~met, NEW x \in Procs, Busy(x), NEW r, Goes(x, r)
  PROVE  /\ r.at # "list" => Kept' = settings'
         /\ x \in People /\ r.at = "list" => Kept' = r.text
<1>1. mem'[x] = r /\ \A y \in Procs \ {x} : mem'[y] = mem[y]
  BY DEF Goes, BookInv, EngineInv, StandInv, TypeInv, MemoryOK
<1>2. \A y \in People \ {x} : mem'[y].at # "list"
  BY <1>1 DEF BookInv, EngineInv, Calm, Busy, InCommand, Procs
<1>3. CASE r.at # "list"
  <2>1. Filling' = {}
    BY <1>1, <1>2, <1>3 DEF Filling
  <2>2. QED
    BY <1>3, <2>1 DEF Kept
<1>4. CASE x \in People /\ r.at = "list"
  <2>1. Filling' = {x}
    BY <1>1, <1>2, <1>4 DEF Filling
  <2>2. (CHOOSE u \in Filling' : TRUE) = x
    BY <2>1
  <2>3. Kept' = mem'[x].text
    BY <2>1, <2>2 DEF Kept
  <2>4. QED
    BY <1>1, <1>4, <2>3
<1>5. QED
  BY <1>3, <1>4

LEMMA KeptStays ==
  ASSUME BookInv, NEW x \in Procs, NEW r, Goes(x, r), mem[x].at # "list", r.at # "list",
         settings' = settings
  PROVE  Kept' = Kept
<1>1. mem'[x] = r /\ \A y \in Procs \ {x} : mem'[y] = mem[y]
  BY DEF Goes, BookInv, EngineInv, StandInv, TypeInv, MemoryOK
<1>2. Filling' = Filling /\ \A u \in Filling : mem'[u] = mem[u]
  BY <1>1 DEF Filling, Procs
<1>3. CASE Filling = {}
  BY <1>2, <1>3 DEF Kept
<1>4. CASE Filling # {}
  <2>1. PICK c : c = CHOOSE u \in Filling : TRUE
    OBVIOUS
  <2>2. c \in Filling /\ c = CHOOSE u \in Filling' : TRUE
    BY <1>2, <1>4, <2>1
  <2>3. Kept = mem[c].text /\ Kept' = mem'[c].text
    BY <1>2, <1>4, <2>1, <2>2 DEF Kept
  <2>4. QED
    BY <1>2, <2>2, <2>3
<1>5. QED
  BY <1>3, <1>4

\* What the book is told nothing of.
Quiet == Leaves /\ Kept' = Kept

\* A step of program x, which goes on with memory r.
LEMMA BookGoes ==
  ASSUME BookInv, NEW x \in Procs, NEW r, Goes(x, r), met => met', Quiet \/ Busy(x),
         ~met' => (r.at \in Writing => Book!Turns(pool'.keys, r.copy, Given', r.due))
  PROVE  ~met' => \A y \in Procs : Prepared(mem[y])'
<1> SUFFICES ASSUME ~met', NEW y \in Procs PROVE Prepared(mem[y])'
  OBVIOUS
<1>1. mem'[x] = r /\ \A z \in Procs \ {x} : mem'[z] = mem[z]
  BY DEF Goes, BookInv, EngineInv, StandInv, TypeInv, MemoryOK
<1>2. CASE y = x
  BY <1>1, <1>2 DEF Prepared
<1>3. CASE y # x /\ Quiet
  BY <1>1, <1>3 DEF BookInv, Prepared, Quiet, Leaves, Given
<1>4. CASE y # x /\ Busy(x)
  <2>1. ~Busy(y)
    BY <1>4 DEF BookInv, EngineInv, Calm
  <2>2. mem'[y].at \notin Writing
    BY <1>1, <1>4, <2>1 DEF Busy, InCommand
  <2>3. QED
    BY <2>2 DEF Prepared
<1>5. QED
  BY <1>2, <1>3, <1>4

\* A program that has loaded the pool and is to save what its command makes of it.
LEMMA BookSaves ==
  ASSUME BookInv, NEW x \in Procs, NEW job, NEW copy, NEW due, Saves(x, job, copy, due),
         mem[x].at # "list", Book!Turns(pool.keys, copy, Given, due)
  PROVE  Quiet /\ (~met' => \A y \in Procs : Prepared(mem[y])')
<1> DEFINE r == [mem[x] EXCEPT !.at = "open", !.job = job, !.copy = copy, !.due = due]
<1>1. mem[x] \in Memory
  BY DEF BookInv, EngineInv, StandInv, TypeInv, MemoryOK
<1>2. r.due = due /\ r.copy = copy /\ r.at = "open"
  BY <1>1 DEF Memory
<1>3. Goes(x, r) /\ Leaves /\ (met => met')
  BY DEF Saves, Loads, Meets, Leaves, files
<1> HIDE DEF r
<1>4. Quiet /\ pool' = pool /\ Given' = Given
  BY <1>2, <1>3, KeptStays DEF Quiet, Leaves, Given
<1>5. QED
  BY <1>2, <1>3, <1>4, BookGoes

\* Whoever is not to write to the pool next has nothing to prepare.
LEMMA BookLeaves ==
  ASSUME BookInv, NEW x \in Procs, NEW r, Goes(x, r), met => met', Leaves,
         mem[x].at # "list", r.at \notin Moving
  PROVE  Quiet /\ (~met' => \A y \in Procs : Prepared(mem[y])')
<1>1. r.at \notin Writing /\ r.at # "list"
  BY DEF Moving
<1>2. Quiet
  BY <1>1, KeptStays DEF Quiet, Leaves
<1>3. QED
  BY <1>1, <1>2, BookGoes

LEMMA BookSearch ==
  ASSUME BookInv, NEW s \in Searches, Search(s)
  PROVE  Quiet /\ (~met' => \A y \in Procs : Prepared(mem[y])')
<1> DEFINE m == mem[s]
<1>1. /\ s \in Procs /\ Fit(m) /\ m \in Memory /\ Placed(m)
      /\ pool.keys \in Pools /\ m.at # "list"
  BY ContentTypes
  DEF Search, StartSearch, NextKey, NoNextKey, Fallback, Ask, Suspend, Procs, BookInv,
      EngineInv, StandInv, TypeInv, MemoryOK, Fit, Typed
<1>2. \A at \in Ended \cup {"quota"} : at \notin Moving
  BY DEF Ended, Moving, Writing
<1>3. CASE StartSearch(s)
  <2>1. PICK p : Goes(s, [Rest EXCEPT !.at = "next", !.prov = p, !.tries = 1])
    BY <1>3 DEF StartSearch
  <2>2. [Rest EXCEPT !.at = "next", !.prov = p, !.tries = 1].at \notin Moving
    BY RestFits DEF Fit, Memory, Moving, Writing
  <2>3. Leaves /\ met' = met
    BY <1>3 DEF StartSearch, Leaves, files, history
  <2>4. QED
    BY <1>1, <2>1, <2>2, <2>3, BookLeaves
<1>4. CASE NextKey(s)
  <2>1. PICK k : Goes(s, [m EXCEPT !.at = "open", !.job = "next", !.copy = pool.keys,
                                   !.due = {}, !.key = k])
    BY <1>4 DEF NextKey
  <2> DEFINE r == [m EXCEPT !.at = "open", !.job = "next", !.copy = pool.keys,
                            !.due = {}, !.key = k]
  <2>2. r.copy = pool.keys /\ r.at = "open"
    BY <1>1 DEF Memory
  <2>3. Goes(s, r) /\ Leaves /\ (met => met')
    BY <1>4, <2>1 DEF NextKey, Loads, Meets, Leaves, files
  <2> HIDE DEF r
  <2>4. pool' = pool /\ Quiet
    BY <1>1, <2>2, <2>3, KeptStays DEF Leaves, Quiet
  <2>5. Book!Turns(pool'.keys, r.copy, Given', r.due)
    BY <2>2, <2>4 DEF Book!Turns
  <2>6. QED
    BY <1>1, <2>3, <2>4, <2>5, BookGoes
<1>5. CASE NoNextKey(s)
  <2> DEFINE q == [m EXCEPT !.key = Junk[m.prov]]
  <2>1. m.prov \in Searched /\ m.at = "next"
    BY <1>1, <1>5 DEF NoNextKey, Placed, Searching
  <2>2. Junk[m.prov] \in Keys /\ ProviderOf[Junk[m.prov]] = m.prov
    BY <2>1, SearchType DEF KeysOf
  <2>3. q \in Memory /\ q.text = m.text /\ q.prov = m.prov
    BY <1>1, <2>2 DEF Memory
  <2>4. Placed(q)
    BY <1>1, <2>1, <2>2 DEF Memory, Placed, Searching, InCommand, Moving, Writing
  <2>5. AfterNext(q).at \in Ended
    BY <1>1, <2>1, <2>3, <2>4, AfterNextFits DEF Fit
  <2>6. Goes(s, AfterNext(q)) /\ Leaves /\ (met => met')
    BY <1>5 DEF NoNextKey, Loads, Meets, Leaves, files
  <2> HIDE DEF q
  <2>7. QED
    BY <1>1, <1>2, <2>5, <2>6, BookLeaves
<1>6. CASE Fallback(s)
  <2>1. PICK k : Goes(s, [m EXCEPT !.at = "ask", !.key = k])
    BY <1>6 DEF Fallback
  <2>2. [m EXCEPT !.at = "ask", !.key = k].at \notin Moving
    BY <1>1 DEF Memory, Moving, Writing
  <2>3. Leaves /\ met' = met
    BY <1>6 DEF Fallback, Leaves, files, history
  <2>4. QED
    BY <1>1, <2>1, <2>2, <2>3, BookLeaves
<1>7. CASE Ask(s)
  <2>1. m.prov \in Searched
    BY <1>1, <1>7 DEF Ask, Placed, Searching
  <2>2. Rest.at \in Ended /\ [m EXCEPT !.at = "quota"].at = "quota" /\ Again(m).at \in Ended
    BY <1>1, <2>1, AgainFits DEF Memory, Ended, Rest
  <2>3. PICK r : Goes(s, r) /\ r.at \in Ended \cup {"quota"}
    BY <1>7, <2>2 DEF Ask
  <2>4. Leaves /\ met' = met
    BY <1>7 DEF Ask, Leaves, files, history
  <2>5. QED
    BY <1>1, <1>2, <2>3, <2>4, BookLeaves
<1>8. CASE Suspend(s)
  <2> DEFINE c == pool.keys
             copy == IF c[m.key] = "burnt" THEN c ELSE [c EXCEPT ![m.key] = "suspended"]
  <2>1. Saves(s, "suspend", copy, {m.prov})
    BY <1>8 DEF Suspend
  <2>2. CASE m.key \in Keys /\ c[m.key] # "burnt"
    <3>1. ProviderOf[m.key] \in {m.prov}
      BY <1>1, <2>2 DEF Placed
    <3>2. Book!Suspends(c, copy, {m.prov})
      BY <2>2, <3>1 DEF Book!Suspends
    <3>3. Book!Turns(pool.keys, copy, Given, {m.prov})
      BY <3>2 DEF Book!Turns
    <3> HIDE DEF copy
    <3>4. QED
      BY <1>1, <2>1, <3>3, BookSaves
  <2>3. CASE ~(m.key \in Keys /\ c[m.key] # "burnt")
    <3>1. copy = c
      BY <1>1, <2>3 DEF Pools
    <3>2. Book!Turns(pool.keys, copy, Given, {m.prov})
      BY <3>1 DEF Book!Turns
    <3> HIDE DEF copy
    <3>3. QED
      BY <1>1, <2>1, <3>2, BookSaves
  <2>4. QED
    BY <2>2, <2>3
<1>9. QED
  BY <1>3, <1>4, <1>5, <1>6, <1>7, <1>8 DEF Search

LEMMA BookCheck ==
  ASSUME BookInv, NEW h \in Checkers, Check(h)
  PROVE  Quiet /\ (~met' => \A y \in Procs : Prepared(mem[y])')
<1>1. h \in Procs /\ mem[h].at # "list"
  BY DEF Check, Procs
<1>2. PICK v \in Verdicts : Saves(h, "check", Probed(pool.keys, v), Providers)
  BY DEF Check
<1>3. Book!Probes(pool.keys, Probed(pool.keys, v), Providers)
  BY SearchType DEF Book!Probes, Probed, Statuses, Unlisted
<1>4. Book!Turns(pool.keys, Probed(pool.keys, v), Given, Providers)
  BY <1>3 DEF Book!Turns
<1>5. QED
  BY <1>1, <1>2, <1>4, BookSaves

\* A step that brings an engine in line, or gives it new keys.
BookMoves == met' = met /\ (~met => \/ Book!Turn \/ Book!Wipe
                                    \/ \E p \in Providers : Book!Follow(p) \/ Book!Add(p))

\* Whatever keeps status, engines and debts is a turn that finds nothing to change.
LEMMA BookIdles ==
  ASSUME pool'.keys = pool.keys, Kept' = Kept, owed' = owed
  PROVE  Book!Turn
<1>1. /\ {} \in SUBSET Providers /\ owed' = owed \cup {}
      /\ Book!Turns(pool.keys, pool'.keys, Given, {})
  BY DEF Book!Turns
<1>2. QED
  BY <1>1 DEF Book!Turn, Given

\* Nothing is left of the engines that were kept.
LEMMA BookWipes ==
  ASSUME pool' = pool, Kept' = NoEngines, owed' = owed
  PROVE  Book!Wipe
<1>1. \A p \in Providers : /\ Kept'[p].block = "none" /\ Kept'[p].keys = {}
                           /\ ~Kept'[p].disabled
  BY DEF NoEngines
<1>2. QED
  BY <1>1 DEF Book!Wipe

LEMMA BookCommand ==
  ASSUME BookInv, NEW u \in People, Command(u)
  PROVE  (Quiet \/ BookMoves) /\ (~met' => \A y \in Procs : Prepared(mem[y])')
<1> DEFINE m == mem[u]
<1>1. u \in Procs /\ m \in Memory /\ EnginesOK(m.text) /\ pool.keys \in Pools
  BY ContentTypes DEF Procs, BookInv, EngineInv, StandInv, TypeInv, MemoryOK, Fit, Typed
<1>2. CASE MarkBurnt(u)
  <2>1. PICK k \in Keys : Saves(u, "mark", [pool.keys EXCEPT ![k] = "burnt"], {ProviderOf[k]})
    BY <1>2 DEF MarkBurnt
  <2>2. Book!Burns(pool.keys, [pool.keys EXCEPT ![k] = "burnt"], {ProviderOf[k]})
    BY DEF Book!Burns
  <2>3. Book!Turns(pool.keys, [pool.keys EXCEPT ![k] = "burnt"], Given, {ProviderOf[k]})
    BY <2>2 DEF Book!Turns
  <2>4. m.at # "list"
    BY <1>2 DEF MarkBurnt, Recover, Gives
  <2>5. QED
    BY <1>1, <2>1, <2>3, <2>4, BookSaves
<1>3. CASE Recover(u)
  <2> DEFINE Back(k, due) == pool.keys[k] = "burnt" /\ ProviderOf[k] \in due
             Copy(due) == [k \in Keys |-> IF Back(k, due) THEN "suspended" ELSE pool.keys[k]]
  <2>1. PICK due : Saves(u, "recover", Copy(due), due)
    BY <1>3 DEF Recover
  <2>2. Book!Recovers(pool.keys, Copy(due), due)
    BY DEF Book!Recovers
  <2> HIDE DEF Copy
  <2>3. Book!Turns(pool.keys, Copy(due), Given, due)
    BY <2>2 DEF Book!Turns
  <2>4. m.at # "list"
    BY <1>3 DEF MarkBurnt, Recover, Gives
  <2>5. QED
    BY <1>1, <2>1, <2>3, <2>4, BookSaves
<1>4. CASE Sync(u) \/ Init(u) \/ ReadEngines(u)
  <2>1. /\ [m EXCEPT !.at = "sync", !.job = "sync", !.copy = pool.keys,
                     !.due = Providers].at = "sync"
        /\ [m EXCEPT !.at = "seed", !.job = "init", !.copy = pool.keys].at = "seed"
        /\ [m EXCEPT !.at = "add", !.job = "add", !.text = settings].at = "add"
    BY <1>1 DEF Memory
  <2>2. PICK r : Goes(u, r) /\ r.at \in {"sync", "seed", "add"}
    BY <1>4, <2>1 DEF Sync, Init, ReadEngines
  <2>3. Leaves /\ (met => met') /\ m.at # "list"
    BY <1>4 DEF Sync, Init, ReadEngines, Gives, Loads, Meets, Leaves, files
  <2>4. r.at \notin Moving
    BY <2>2 DEF Moving, Writing
  <2>5. QED
    BY <1>1, <2>2, <2>3, <2>4, BookLeaves
<1>5. CASE Seed(u)
  <2> DEFINE New(k) == m.copy[k] = Unlisted /\ k \in settings[ProviderOf[k]].keys
             copy == [k \in Keys |-> IF New(k) THEN "active" ELSE m.copy[k]]
             r == [m EXCEPT !.at = "open", !.copy = copy]
  <2>1. r.copy = copy /\ r.at = "open" /\ m.at = "seed" /\ Busy(u)
    BY <1>1, <1>5 DEF Memory, Seed, Busy, InCommand
  <2>2. Leaves /\ met' = met /\ (Goes(u, Rest) \/ Goes(u, r))
    BY <1>5 DEF Seed, Leaves, files, history
  <2>3. Rest.at \notin Moving
    BY DEF Rest, Moving, Writing
  <2>4. ASSUME ~met PROVE Book!Turns(pool'.keys, r.copy, Given', r.due)
    <3>1. m.copy = pool.keys
      BY <1>1, <1>5, <2>4 DEF Seed, BookInv, EngineInv, Calm, Knows
    <3>2. \A k \in Keys : Given[ProviderOf[k]] = settings[ProviderOf[k]].keys
      BY <1>1, <2>1, <2>4, SearchType, KeptIs DEF Given
    <3> DEFINE S == {k \in Keys : New(k)}
    <3>3. S \in SUBSET {k \in Keys : pool.keys[k] = "unlisted" /\ k \in Given[ProviderOf[k]]}
      BY <3>1, <3>2 DEF Unlisted
    <3>4. copy = [k \in Keys |-> IF k \in S THEN "active" ELSE pool.keys[k]]
      BY <3>1
    <3> HIDE DEF copy, S
    <3>5. Book!Takes(pool.keys, copy, Given)
      BY <3>3, <3>4 DEF Book!Takes
    <3>6. pool' = pool /\ Given' = Given
      <4>1. settings' = settings /\ pool' = pool
        BY <2>2 DEF Leaves
      <4> HIDE DEF r
      <4>2. Kept = settings
        BY <1>1, <2>1, <2>4, KeptIs
      <4>3. Kept' = settings'
        BY <1>1, <2>1, <2>2, <2>3, <2>4, KeptBecomes DEF Moving
      <4>4. QED
        BY <4>1, <4>2, <4>3 DEF Given
    <3> HIDE DEF r
    <3>7. QED
      BY <2>1, <3>5, <3>6 DEF Book!Turns
  <2> HIDE DEF r
  <2>5. CASE Goes(u, r)
    <3>1. Quiet
      BY <1>1, <2>1, <2>2, <2>5, KeptStays DEF Quiet, Leaves
    <3>2. QED
      BY <1>1, <2>2, <2>4, <2>5, <3>1, BookGoes
  <2>6. CASE Goes(u, Rest)
    BY <1>1, <2>1, <2>2, <2>3, <2>6, BookLeaves
  <2>7. QED
    BY <2>2, <2>5, <2>6
<1>6. CASE TruncateEngines(u)
  <2> DEFINE r == [m EXCEPT !.at = "list"]
  <2>1. r.at = "list" /\ r.text = m.text /\ "list" \notin Writing
    BY <1>1 DEF Memory, Writing
  <2>2. /\ Goes(u, r) /\ Busy(u) /\ m.at = "add"
        /\ met' = met /\ pool' = pool /\ owed' = owed
    BY <1>6 DEF TruncateEngines, Busy, InCommand, history
  <2> HIDE DEF r
  <2>3. ASSUME ~met PROVE Book!Turn
    <3>1. Kept = settings /\ Kept' = m.text
      BY <1>1, <2>1, <2>2, <2>3, KeptIs, KeptBecomes
    <3>2. m.text = settings
      BY <1>1, <2>2, <2>3 DEF BookInv, EngineInv, Calm, Knows
    <3>3. QED
      BY <2>2, <3>1, <3>2, BookIdles
  <2>4. BookMoves
    BY <2>2, <2>3 DEF BookMoves
  <2>5. QED
    BY <1>1, <2>1, <2>2, <2>4, BookGoes
<1>7. CASE AddKeys(u)
  <2>1. PICK p \in Providers, new \in SUBSET Keys :
          /\ new \subseteq Addable(p) /\ new # {}
          /\ IF where[u] = "gone" THEN UNCHANGED <<settings, owed>>
             ELSE /\ settings' \in IF settings = NoEngines
                                      THEN {Listed(m.text, p, new)}
                                      ELSE {Listed(m.text, p, new), NoEngines}
                  /\ owed' = owed \cup {p}
    BY <1>7 DEF AddKeys, Addable, KeysOf
  <2>2. Goes(u, Rest) /\ Busy(u) /\ m.at = "list" /\ met' = met /\ pool' = pool
    BY <1>7 DEF AddKeys, Busy, InCommand
  <2>3. Rest.at \notin Writing /\ Rest.at # "list"
    BY DEF Rest, Writing
  <2>4. ASSUME ~met PROVE Book!Wipe \/ Book!Add(p)
    <3>1. settings = NoEngines
      BY <1>1, <2>2, <2>4 DEF BookInv, EngineInv, Calm, Knows
    <3>2. Kept = m.text /\ Kept' = settings'
      BY <1>1, <2>2, <2>3, <2>4, KeptIs, KeptBecomes
    <3>3. CASE where[u] = "gone"
      BY <2>1, <2>2, <3>1, <3>2, <3>3, BookWipes
    <3>4. CASE where[u] # "gone"
      <4>1. Kept' = Listed(Kept, p, new) /\ owed' = owed \cup {p}
        BY <2>1, <3>1, <3>2, <3>4
      <4>2. new \subseteq KeysOf(p) /\ Kept \in Engines /\ EnginesOK(Kept)
        BY <1>1, <2>1, <3>2 DEF Addable, Memory
      <4>3. /\ \A q \in Providers : q # p => Kept'[q] = Kept[q]
            /\ Kept'[p].block = "list" /\ Kept'[p].keys = new
            /\ Kept'[p].disabled = Kept[p].disabled
        BY <2>1, <4>1, <4>2, ListedFits
      <4>4. /\ [q \in Providers |-> Kept'[q].keys]
                 = [[q \in Providers |-> Kept[q].keys] EXCEPT ![p] = new]
            /\ [q \in Providers |-> Kept'[q].block]
                 = [[q \in Providers |-> Kept[q].block] EXCEPT ![p] = "list"]
            /\ {q \in Providers : Kept'[q].disabled} = {q \in Providers : Kept[q].disabled}
        BY <4>3
      <4>5. new \in SUBSET {k \in Keys : ProviderOf[k] = p}
        BY <4>2 DEF KeysOf
      <4>6. QED
        BY <2>1, <2>2, <4>1, <4>4, <4>5 DEF Book!Add
    <3>5. QED
      BY <3>3, <3>4
  <2>5. BookMoves
    BY <2>2, <2>4 DEF BookMoves
  <2>6. QED
    BY <1>1, <2>2, <2>3, <2>5, BookGoes
<1>8. QED
  BY <1>2, <1>3, <1>4, <1>5, <1>6, <1>7 DEF Command

LEMMA BookSaving ==
  ASSUME BookInv, NEW x \in Procs,
         Open(x) \/ Fill(x) \/ Replace(x) \/ CannotReplace(x)
  PROVE  (Quiet \/ BookMoves) /\ (~met' => \A y \in Procs : Prepared(mem[y])')
<1> DEFINE m == mem[x]
           to(at) == [m EXCEPT !.at = at]
<1>1. Fit(m) /\ m \in Memory /\ Placed(m)
  BY DEF BookInv, EngineInv, StandInv, TypeInv, MemoryOK, Fit
<1>2. \A at : to(at).at = at /\ to(at).copy = m.copy /\ to(at).due = m.due
  BY <1>1 DEF Memory
<1>3. \A at \in Ended : at \notin Moving
  BY DEF Ended, Moving, Writing
<1>4. ~met /\ m.at \in Writing => Book!Turns(pool.keys, m.copy, Given, m.due)
  BY DEF BookInv, Prepared
<1>5. ASSUME NEW at \in {"fill", "replace"}, Goes(x, to(at)), m.at \in Writing, met' = met,
             settings' = settings /\ owed' = owed, ~met => pool' = pool
      PROVE  (Quiet \/ BookMoves) /\ (~met' => \A y \in Procs : Prepared(mem[y])')
  <2>1. Busy(x) /\ m.at # "list" /\ to(at).at # "list"
    BY <1>2, <1>5 DEF Busy, InCommand, Writing
  <2>2. Kept' = Kept
    BY <1>5, <2>1, KeptStays
  <2>3. ~met => Book!Turns(pool'.keys, to(at).copy, Given', to(at).due)
    BY <1>2, <1>4, <1>5, <2>2 DEF Given
  <2>4. ~met => Book!Turn
    BY <1>5, <2>2, BookIdles
  <2>5. BookMoves
    BY <1>5, <2>4 DEF BookMoves
  <2> HIDE DEF to
  <2>6. QED
    BY <1>5, <2>1, <2>3, <2>5, BookGoes
<1> HIDE DEF to
<1>6. CASE Open(x)
  BY <1>5, <1>6 DEF Open, to, Moving, Writing
<1>7. CASE Fill(x)
  <2>1. ~met => where[x] = "tmp"
    BY <1>7 DEF Fill, BookInv, EngineInv, Calm, StandInv, Alone
  <2>2. QED
    BY <1>5, <1>7, <2>1 DEF Fill, to, Moving, Writing
<1>8. CASE Replace(x)
  <2>1. m.job = "next" => m.prov \in Searched
    BY <1>1 DEF Placed
  <2>2. PICK r : Goes(x, r) /\ r.at \notin Moving
    <3>1. AfterNext(m).at \in Ended \/ m.job # "next"
      BY <1>1, <2>1, AfterNextFits
    <3>2. Rest.at \notin Moving /\ to("sync").at \notin Moving
      BY <1>2 DEF Rest, Moving, Writing
    <3>3. (Goes(x, AfterNext(m)) /\ m.job = "next") \/ Goes(x, Rest) \/ Goes(x, to("sync"))
      BY <1>8 DEF Replace, to
    <3>4. QED
      BY <1>3, <3>1, <3>2, <3>3
  <2>3. /\ Busy(x) /\ met' = met /\ settings' = settings
        /\ owed' = owed \cup m.due /\ pool' = tmp /\ m.at \in Writing /\ m.at = "replace"
    BY <1>8 DEF Replace, Busy, InCommand, Writing
  <2>4. ASSUME ~met PROVE Book!Turn
    <3>1. pool'.keys = m.copy
      BY <2>3, <2>4 DEF BookInv, EngineInv, Calm, StandInv, Alone, Whole
    <3>2. m.due \in SUBSET Providers
      BY <1>1 DEF Memory
    <3>3. Book!Turns(pool.keys, pool'.keys, Given, m.due)
      BY <1>4, <2>3, <2>4, <3>1
    <3>4. Kept' = Kept
      BY <2>2, <2>3, KeptStays DEF Moving
    <3>5. QED
      BY <2>3, <3>2, <3>3, <3>4 DEF Book!Turn, Given
  <2>5. BookMoves
    BY <2>3, <2>4 DEF BookMoves
  <2>6. r.at \notin Writing
    BY <2>2 DEF Moving
  <2>7. QED
    BY <2>2, <2>3, <2>5, <2>6, BookGoes
<1>9. CASE CannotReplace(x)
  <2>1. Goes(x, AfterError(m)) /\ Leaves /\ met' = met /\ m.at # "list"
    BY <1>9 DEF CannotReplace, Leaves, files, history
  <2>2. AfterError(m).at \notin Moving
    BY <1>1, <1>3, AfterErrorFits
  <2>3. QED
    BY <2>1, <2>2, BookLeaves
<1>10. QED
  BY <1>6, <1>7, <1>8, <1>9

LEMMA BookSyncing ==
  ASSUME BookInv, NEW x \in Procs,
         SyncRead(x) \/ SyncSettings(x) \/ SyncCrossed(x) \/ SyncSearchKeys(x)
  PROVE  (Quiet \/ BookMoves) /\ (~met' => \A y \in Procs : Prepared(mem[y])')
<1> DEFINE m == mem[x]
<1>1. Fit(m) /\ m \in Memory /\ owed \subseteq Providers
  BY DEF BookInv, EngineInv, StandInv, TypeInv, MemoryOK, Fit, Typed
<1>2. CASE SyncRead(x)
  <2>1. PICK p : Goes(x, [m EXCEPT !.at = "write", !.prov = p, !.text = settings])
    BY <1>2 DEF SyncRead
  <2>2. [m EXCEPT !.at = "write", !.prov = p, !.text = settings].at \notin Moving
    BY <1>1 DEF Memory, Moving, Writing
  <2>3. Leaves /\ met' = met /\ m.at # "list"
    BY <1>2 DEF SyncRead, Leaves, files, history
  <2>4. QED
    BY <2>1, <2>2, <2>3, BookLeaves
<1>3. CASE SyncSettings(x)
  <2> PICK p : p = m.prov
    OBVIOUS
  <2> PICK active : active = Active(m.copy, p)
    OBVIOUS
  <2> DEFINE r == [m EXCEPT !.at = "dump", !.text = NoEngines]
  <2>1. /\ settings' = Synced(m.text, p, active)
        /\ Goes(x, r) /\ met' = met /\ pool' = pool
        /\ owed' = owed \ {p} /\ m.at = "write" /\ Busy(x)
    BY <1>3 DEF SyncSettings, Edited, Busy, InCommand
  <2>2. r.at \notin Writing /\ r.at # "list"
    BY <1>1 DEF Memory, Writing
  <2> HIDE DEF r
  <2>3. ASSUME ~met
        PROVE  Book!Turn \/ \E q \in Providers : Book!Follow(q)
    <3>1. m.text = Kept /\ m.copy = pool.keys /\ Kept' = Synced(Kept, p, active)
      <4>1. m.text = settings /\ m.copy = pool.keys
        BY <2>1, <2>3 DEF BookInv, EngineInv, Calm, Knows
      <4>2. Kept = settings /\ Kept' = settings'
        BY <2>1, <2>2, <2>3, KeptIs, KeptBecomes
      <4>3. QED
        BY <2>1, <4>1, <4>2
    <3>2. Kept \in Engines /\ EnginesOK(Kept) /\ active \in SUBSET KeysOf(p)
      BY <1>1, <3>1 DEF Memory, Fit, Active
    <3>3. /\ Kept' \in Engines /\ \A q \in Providers : q # p => Kept'[q] = Kept[q]
          /\ p \in Providers =>
               /\ Kept'[p].block = Kept[p].block
               /\ Kept'[p].keys = IF Kept[p].block = "list" THEN active ELSE Kept[p].keys
               /\ Kept'[p].disabled
                    = (Kept[p].disabled \/ (active = {} /\ Kept[p].block # "none"))
      BY <3>1, <3>2, SyncedFits
    <3>4. CASE p \in Providers
      <4>1. active = {k \in Keys : ProviderOf[k] = p /\ pool.keys[k] = "active"}
        BY <3>1 DEF Active, KeysOf
      <4>2. [q \in Providers |-> Kept'[q].keys]
              = [[q \in Providers |-> Kept[q].keys] EXCEPT
                   ![p] = IF Kept[p].block = "list" THEN active ELSE Kept[p].keys]
        BY <3>3, <3>4
      <4>3. [q \in Providers |-> Kept'[q].block] = [q \in Providers |-> Kept[q].block]
        BY <3>3, <3>4
      <4>4. {q \in Providers : Kept'[q].disabled}
              = IF active = {} /\ Kept[p].block # "none"
                  THEN {q \in Providers : Kept[q].disabled} \cup {p}
                  ELSE {q \in Providers : Kept[q].disabled}
        BY <3>3, <3>4
      <4>5. Book!Follow(p)
        BY <2>1, <3>4, <4>1, <4>2, <4>3, <4>4 DEF Book!Follow
      <4>6. QED
        BY <3>4, <4>5
    \* Of no provider, nothing is written.
    <3>5. CASE p \notin Providers
      <4>1. Kept' = Kept
        BY <3>2, <3>3, <3>5 DEF Engines
      <4>2. owed' = owed
        BY <1>1, <2>1, <3>5
      <4>3. QED
        BY <2>1, <4>1, <4>2, BookIdles
    <3>6. QED
      BY <3>4, <3>5
  <2>4. BookMoves
    BY <2>1, <2>3 DEF BookMoves
  <2>5. QED
    BY <2>1, <2>2, <2>4, BookGoes
<1>4. CASE SyncCrossed(x)
  <2>1. met' = met
    BY <1>4 DEF SyncCrossed, history
  <2>2. met
    BY <1>4, NeverCrosses DEF BookInv
  <2>3. QED
    BY <2>1, <2>2 DEF BookMoves
<1>5. CASE SyncSearchKeys(x)
  <2> DEFINE r == [m EXCEPT !.at = "sync", !.due = m.due \ {m.prov}]
  <2>1. r.at \notin Moving /\ AfterSync(m).at \notin Moving
    BY <1>1, AfterSyncFits DEF Memory, Ended, Moving, Writing
  <2>2. Leaves /\ met' = met /\ m.at # "list" /\ (Goes(x, r) \/ Goes(x, AfterSync(m)))
    BY <1>5 DEF SyncSearchKeys, Leaves, files, history
  <2> HIDE DEF r
  <2>3. QED
    BY <2>1, <2>2, BookLeaves
<1>6. QED
  BY <1>2, <1>3, <1>4, <1>5

LEMMA BookCrash ==
  ASSUME BookInv, NEW x \in Procs, Crash(x)
  PROVE  (Quiet \/ BookMoves) /\ (~met' => \A y \in Procs : Prepared(mem[y])')
<1>1. Goes(x, Rest) /\ Leaves /\ met' = met
  BY DEF Crash, Leaves, history
<1>2. Rest.at \notin Moving /\ Rest.at \notin Writing /\ Rest.at # "list"
  BY DEF Rest, Moving, Writing
<1>3. CASE mem[x].at # "list"
  BY <1>1, <1>2, <1>3, BookLeaves
\* add-key dies at what it is to fill.
<1>4. CASE mem[x].at = "list"
  <2>1. Busy(x)
    BY <1>4 DEF Busy, InCommand
  <2>2. ASSUME ~met PROVE Book!Wipe
    <3>1. settings = NoEngines
      BY <1>4, <2>2 DEF BookInv, EngineInv, Calm, Knows
    <3>2. Kept' = settings'
      BY <1>1, <1>2, <2>1, <2>2, KeptBecomes
    <3>3. QED
      BY <1>1, <3>1, <3>2, BookWipes DEF Leaves
  <2>3. BookMoves
    BY <1>1, <2>2 DEF BookMoves
  <2>4. QED
    BY <1>1, <1>2, <2>1, <2>3, BookGoes
<1>5. QED
  BY <1>3, <1>4

LEMMA MetStays == TypeInv /\ SearchNext => met' \in {met, TRUE}
<1> SUFFICES ASSUME TypeInv, SearchNext PROVE met' \in {met, TRUE}
  OBVIOUS
<1>1. \A x : Meets(x) => met' \in {met, TRUE}
  BY DEF TypeInv, Typed, Meets
<1>2. ASSUME NEW x PROVE Going(x) \/ Crash(x) => met' = met
  BY DEF Going, Open, Fill, Replace, CannotReplace, SyncRead, SyncSettings,
         SyncCrossed, SyncSearchKeys, Crash, history
<1>3. ASSUME NEW s PROVE Search(s) => met' \in {met, TRUE}
  BY <1>1 DEF Search, StartSearch, NextKey, NoNextKey, Fallback, Ask, Suspend, Saves,
              Loads, history
<1>4. ASSUME NEW h PROVE Check(h) => met' \in {met, TRUE}
  BY <1>1 DEF Check, Saves, Loads
<1>5. ASSUME NEW u PROVE Command(u) => met' \in {met, TRUE}
  BY <1>1 DEF Command, MarkBurnt, Recover, Sync, Init, Seed, ReadEngines,
              TruncateEngines, AddKeys, Saves, Loads, history
<1>6. QED
  BY <1>2, <1>3, <1>4, <1>5 DEF SearchNext

LEMMA BookInit == SearchInit => BookInv /\ Book!Init
<1> SUFFICES ASSUME SearchInit PROVE BookInv /\ Book!Init
  OBVIOUS
<1>1. \A x \in Procs : Prepared(mem[x])
  BY DEF SearchInit, Prepared, Rest, Writing
<1>2. PICK first \in FirstPools : pool.keys = first
  BY DEF SearchInit, Whole
<1>3. pool.keys \in [Keys -> {"active", "suspended", "burnt", "unlisted"}]
  BY <1>2, SearchType DEF Pools, Statuses, Unlisted
<1>4. Kept = settings /\ settings \in FirstEngines /\ settings \in Engines
  <2>1. Filling = {}
    BY DEF SearchInit, Filling, Rest, Procs
  <2>2. QED
    BY <2>1, SearchType DEF SearchInit, Kept
<1>5. \A p \in Providers :
        /\ settings[p].keys \subseteq Keys
        /\ \A k \in settings[p].keys :
             ProviderOf[k] = p /\ pool.keys[k] \in {"active", "unlisted"}
        /\ settings[p].keys # {} => settings[p].block = "list"
        /\ settings[p].keys = {} /\ settings[p].block # "none" => settings[p].disabled
        /\ settings[p].block \in {"none", "bare", "list"}
  BY <1>2, <1>4, SearchType DEF Addable, KeysOf, Unlisted, Engines
<1>6. /\ [p \in Providers |-> Kept[p].keys] \in [Providers -> SUBSET Keys]
      /\ [p \in Providers |-> Kept[p].block] \in [Providers -> {"none", "bare", "list"}]
  BY <1>4, <1>5
<1>7. ~met /\ owed = {}
  BY DEF SearchInit
<1>8. Book!Init
  BY <1>3, <1>4, <1>5, <1>6, <1>7 DEF Book!Init
<1>9. QED
  BY <1>1, <1>8, EngineInit DEF BookInv

LEMMA BookStep ==
  BookInv /\ [SearchNext]_searchVars => BookInv' /\ [Book!Next]_Book!bookVars
<1> SUFFICES ASSUME BookInv, [SearchNext]_searchVars
             PROVE  BookInv' /\ [Book!Next]_Book!bookVars
  OBVIOUS
<1>1. EngineInv'
  BY EngineStep DEF BookInv
<1>2. CASE UNCHANGED searchVars
  <2>1. UNCHANGED Book!bookVars
    BY <1>2 DEF searchVars, files, history, Book!bookVars, Kept, Filling
  <2>2. ~met' => \A x \in Procs : Prepared(mem[x])'
    BY <1>2 DEF searchVars, files, history, BookInv, Prepared, Given, Kept, Filling
  <2>3. QED
    BY <1>1, <2>1, <2>2 DEF BookInv
<1>3. CASE SearchNext
  <2>1. met' \in {met, TRUE}
    BY <1>3, MetStays DEF BookInv, EngineInv, StandInv
  <2>2. (Quiet \/ BookMoves) /\ (~met' => \A y \in Procs : Prepared(mem[y])')
    BY <1>3, BookSearch, BookCheck, BookCommand, BookSaving, BookSyncing, BookCrash
       DEF SearchNext, Going
  <2>3. CASE met'
    BY <1>1, <2>3 DEF Book!Next, BookInv
  <2>4. CASE ~met' /\ Quiet
    <3>1. met' = met
      BY <2>1, <2>4
    <3>2. UNCHANGED Book!bookVars
      BY <2>4, <3>1 DEF Quiet, Leaves, Book!bookVars
    <3>3. QED
      BY <1>1, <2>2, <2>4, <3>2 DEF BookInv
  <2>5. CASE ~met' /\ BookMoves
    <3>1. Book!Next
      BY <2>5 DEF BookMoves, Book!Next
    <3>2. QED
      BY <1>1, <2>2, <2>5, <3>1 DEF BookInv
  <2>6. QED
    BY <2>2, <2>3, <2>4, <2>5
<1>4. QED
  BY <1>2, <1>3

\* The commands implement the book: until two of them overlap, the renames of the
\* pool and the writes of settings.yml are, one by one, the whole commands on one
\* status per key and on engines brought in line.  A command killed anywhere has
\* taken its step or has not -- but add-key, which may leave no engine at all.
THEOREM PoolIsABook == SearchSpec => ImplementsBook
<1>1. SearchInit => BookInv /\ Book!Init
  BY BookInit
<1>2. BookInv /\ [SearchNext]_searchVars => BookInv' /\ [Book!Next]_Book!bookVars
  BY BookStep
<1>3. QED
  BY <1>1, <1>2, PTL DEF SearchSpec, ImplementsBook, Book!Spec
=============================================================================
