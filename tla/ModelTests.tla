------------------------------ MODULE ModelTests ------------------------------
(***************************************************************************)
(* TestAllModels of internal/pollinations: the models the API lists are    *)
(* sorted by name, and those that may be free are tested by a pool of      *)
(* workers that share a channel of jobs and, behind a mutex, three lists.  *)
(*                                                                         *)
(* An entry is a place in the API's list, so a model listed twice is two   *)
(* entries.  The channel and the lists are sets of entries: which worker   *)
(* takes what, and in which order results arrive, is left open.  A         *)
(* critical section of the mutex is one step.                              *)
(***************************************************************************)
EXTENDS Integers, FiniteSets

CONSTANTS Entries,   \* what GET /models may list
          PaidOnly,  \* entries whose name isPaidOnlyModel knows
          NonText,   \* entries whose name isNonTextModel knows
          Workers,
          NoEntry

ASSUME ModelsType == /\ PaidOnly \subseteq Entries /\ NonText \subseteq Entries
                     /\ NoEntry \notin Entries
                     /\ Workers # {}

VARIABLES
  phase,   \* where the goroutine that called TestAllModels is
  listed,  \* allModels
  toTest,  \* the entries of testList not yet in the channel
  jobs,    \* the buffered channel
  closed,  \* it has been closed
  worker,  \* per worker: what it does
  hand,    \* per worker: the entry it took from the channel
  free,    \* freeModels
  paid,    \* paidModels
  failed   \* tested, and neither free nor paid

poolVars == <<toTest, jobs, closed, worker, hand>>
listVars == <<free, paid, failed>>
modelVars == <<phase, listed, poolVars, listVars>>

Phases == {"idle", "fetch", "push", "wait", "known"}

Clean == [w \in Workers |-> "ready"]

ModelsInit == /\ phase = "idle"
              /\ listed = {} /\ toTest = {} /\ jobs = {}
              /\ closed = FALSE
              /\ worker = Clean
              /\ hand = [w \in Workers |-> NoEntry]
              /\ free = {} /\ paid = {} /\ failed = {}

BeginModels == /\ phase = "idle"
               /\ phase' = "fetch"
               /\ UNCHANGED <<listed, poolVars, listVars>>

\* GetModels fails: a provider with the status "verified" and without models.
FetchFails == /\ phase = "fetch"
              /\ phase' = "known"
              /\ UNCHANGED <<listed, poolVars, listVars>>

Testable(entries) == (entries \ PaidOnly) \ NonText

\* GetModels answers; the list is sorted, and the workers are started.
Fetch(entries) ==
  /\ phase = "fetch"
  /\ listed' = entries
  /\ paid' = entries \cap PaidOnly
  /\ toTest' = Testable(entries)
  /\ phase' = "push"
  /\ UNCHANGED <<jobs, closed, worker, hand, free, failed>>

\* The channel has room for the whole list: a push never waits.
Push(e) == /\ phase = "push" /\ e \in toTest
           /\ toTest' = toTest \ {e}
           /\ jobs' = jobs \cup {e}
           /\ UNCHANGED <<phase, listed, closed, worker, hand, listVars>>

\* Mutant: the channel is not closed.
Close_Never == /\ phase = "push" /\ toTest = {}
               /\ phase' = "wait"
               /\ UNCHANGED <<listed, poolVars, listVars>>

Close == /\ phase = "push" /\ toTest = {}
         /\ closed' = TRUE
         /\ phase' = "wait"
         /\ UNCHANGED <<listed, toTest, jobs, worker, hand, listVars>>

Running == phase \in {"push", "wait"}

Take(w) == /\ Running /\ worker[w] = "ready"
           /\ \E e \in jobs : /\ jobs' = jobs \ {e}
                              /\ hand' = [hand EXCEPT ![w] = e]
           /\ worker' = [worker EXCEPT ![w] = "testing"]
           /\ UNCHANGED <<phase, listed, toTest, closed, listVars>>

\* TestModel answers, errors and time-outs included.
Answers(w, outcome) ==
  /\ worker[w] = "testing"
  /\ worker' = [worker EXCEPT ![w] = outcome]
  /\ UNCHANGED <<phase, listed, toTest, jobs, closed, hand, listVars>>

Outcomes == {"free", "paid", "failed"}

\* The critical section: the result joins one of the lists.
Note(w) == /\ worker[w] \in Outcomes
           /\ free' = IF worker[w] = "free" THEN free \cup {hand[w]} ELSE free
           /\ paid' = IF worker[w] = "paid" THEN paid \cup {hand[w]} ELSE paid
           /\ failed' = IF worker[w] = "failed" THEN failed \cup {hand[w]} ELSE failed
           /\ worker' = [worker EXCEPT ![w] = "ready"]
           /\ hand' = [hand EXCEPT ![w] = NoEntry]
           /\ UNCHANGED <<phase, listed, toTest, jobs, closed>>

\* Mutant: a worker ends as soon as it finds the channel empty.
Ends_Empty(w) == /\ Running /\ worker[w] = "ready" /\ jobs = {}
                 /\ worker' = [worker EXCEPT ![w] = "ended"]
                 /\ UNCHANGED <<phase, listed, toTest, jobs, closed, hand, listVars>>

\* The range over the channel ends.
Ends(w) == /\ Running /\ worker[w] = "ready" /\ closed /\ jobs = {}
           /\ worker' = [worker EXCEPT ![w] = "ended"]
           /\ UNCHANGED <<phase, listed, toTest, jobs, closed, hand, listVars>>

\* wg.Wait returns, and the lists are read.
Collect == /\ phase = "wait"
           /\ \A w \in Workers : worker[w] = "ended"
           /\ phase' = "known"
           /\ UNCHANGED <<listed, poolVars, listVars>>

\* The provider has been saved; what is left is garbage.
ForgetModels == /\ phase' = "idle" /\ listed' = {}
                /\ toTest' = {} /\ jobs' = {} /\ closed' = FALSE
                /\ worker' = Clean
                /\ hand' = [w \in Workers |-> NoEntry]
                /\ free' = {} /\ paid' = {} /\ failed' = {}

Test(w) == \/ Take(w) \/ Note(w) \/ Ends(w)
           \/ \E outcome \in Outcomes : Answers(w, outcome)

-----------------------------------------------------------------------------
(* Properties.                                                             *)

ModelsTypeOK == /\ phase \in Phases
                /\ listed \subseteq Entries /\ toTest \subseteq Entries
                /\ jobs \subseteq Entries /\ closed \in BOOLEAN
                /\ worker \in [Workers -> {"ready", "testing", "ended"} \cup Outcomes]
                /\ hand \in [Workers -> Entries \cup {NoEntry}]
                /\ free \subseteq Entries /\ paid \subseteq Entries
                /\ failed \subseteq Entries

\* When the lists are read, every entry the API listed has been dealt with once:
\* what may be free has been tested by one worker and is in one list, what is
\* known to cost is in the list of paid models untested, and nobody still
\* holds an entry.
EachModelOnce ==
  phase = "known" =>
    /\ toTest = {} /\ jobs = {} /\ \A w \in Workers : hand[w] = NoEntry
    /\ free \cap paid = {} /\ free \cap failed = {} /\ paid \cap failed = {}
    /\ free \cup failed \cup (paid \ PaidOnly) = Testable(listed)
    /\ paid \cap PaidOnly = listed \cap PaidOnly
=============================================================================
