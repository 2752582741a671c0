------------------------------ MODULE SpeechKeys ------------------------------
(***************************************************************************)
(* The pool of TTS keys of internal/tts and the loop of runTTSPipeline     *)
(* that verifies one source after the other with a key of the pool.  The   *)
(* pool lives for one scan: the file SaveState writes is not read back.    *)
(*                                                                         *)
(* Characters are counted in units of one test request (50 characters).    *)
(***************************************************************************)
EXTENDS Integers, Sequences

CONSTANTS Speakers,    \* ids of TTS providers
          SpeechKeys,  \* keys
          SpeechPlans  \* the configurations: sources and the keys they have

\* A source of config/tts_sources.json: the id its keys are loaded under, the
\* name (normalized) a key is asked for under, its keys in the vault and in the
\* config, and its limit; 0 is no limit.
Sources == [id : Speakers, name : Speakers, vault : Seq(SpeechKeys),
            config : Seq(SpeechKeys), limit : Nat]

Entry == [key : SpeechKeys, speaker : Speakers, used : Nat, limit : Nat,
          active : BOOLEAN]

ASSUME SpeechType == SpeechPlans \subseteq Seq(Sources)

VARIABLES
  plan,    \* config/tts_sources.json and the vault
  pool,    \* KeyPool.keys
  current, \* KeyPool.current, the index of an entry
  source,  \* the source being loaded or verified
  call,    \* where its verification is
  held,    \* the entry it was given; 0 is none
  refused, \* history: keys the API refused, be it the subscription or the test
  reported, \* history: those refused in a test
  charged  \* history: the test requests made with each key

told == <<refused, reported>>
speechVars == <<plan, pool, current, source, call, held, told, charged>>

Calls == {"config", "load", "next", "subscription", "test", "usage", "over"}

SpeechInit == /\ plan = << >>
              /\ pool = << >> /\ current = 1 /\ source = 1
              /\ call = "config" /\ held = 0
              /\ refused = {} /\ reported = {}
              /\ charged = [k \in SpeechKeys |-> 0]

\* The config is read, and the keys of the vault.
ReadConfig == /\ call = "config"
              /\ plan' \in SpeechPlans
              /\ call' = "load"
              /\ UNCHANGED <<pool, current, source, held, told, charged>>

\* It cannot be read: the whole pipeline is skipped.
NoConfig == /\ call = "config"
            /\ call' = "over"
            /\ UNCHANGED <<plan, pool, current, source, held, told, charged>>

\* load: for every source first the keys of the vault, then those of the config.
EntriesOf(src) ==
  [i \in 1..(Len(src.vault) + Len(src.config)) |->
     [key |-> (src.vault \o src.config)[i], speaker |-> src.id, used |-> 0,
      limit |-> src.limit, active |-> TRUE]]

\* The loop of load: one source after the other.
LoadSource == /\ call = "load" /\ source <= Len(plan)
              /\ pool' = pool \o EntriesOf(plan[source])
              /\ source' = source + 1
              /\ UNCHANGED <<plan, current, call, held, told, charged>>

Loaded == /\ call = "load" /\ source > Len(plan)
          /\ source' = 1
          /\ call' = IF plan = << >> THEN "over" ELSE "next"
          /\ UNCHANGED <<plan, pool, current, held, told, charged>>

NextSource == /\ source' = source + 1
              /\ held' = 0
              /\ call' = IF source = Len(plan) THEN "over" ELSE "next"

\* The places of the pool, in the order of a round that starts at current.
Round(n) == ((current + n - 2) % Len(pool)) + 1

\* Mutant: an entry is given out whether or not it is active.
Fits_AnyState(e) == e.speaker = plan[source].name

Fits(e) == e.speaker = plan[source].name /\ e.active

\* How often a key is in the pool, and whether its budget is spent.
Places(k) == {i \in DOMAIN pool : pool[i].key = k}
Spent(e) == e.limit > 0 /\ charged[e.key] >= e.limit

\* Mutant: the index does not wrap.
NextKey_NoWrap ==
  /\ call = "next"
  /\ \E n \in 1..Len(pool) :
       /\ Fits(pool[Round(n)])
       /\ \A m \in 1..(n - 1) : ~Fits(pool[Round(m)])
       /\ held' = Round(n)
       /\ current' = Round(n) + 1
  /\ call' = "subscription"
  /\ UNCHANGED <<plan, pool, source, told, charged>>

\* NextForProvider: the first entry that fits, from current on.
NextKey ==
  /\ call = "next"
  /\ \E n \in 1..Len(pool) :
       /\ Fits(pool[Round(n)])
       /\ \A m \in 1..(n - 1) : ~Fits(pool[Round(m)])
       /\ held' = Round(n)
       /\ current' = (Round(n) % Len(pool)) + 1
  /\ call' = "subscription"
  /\ UNCHANGED <<plan, pool, source, told, charged>>

NoKey == /\ call = "next"
         /\ \A i \in DOMAIN pool : ~Fits(pool[i])
         /\ NextSource
         /\ UNCHANGED <<plan, pool, current, told, charged>>

Key == pool[held].key

\* checkSubscription fails, or has an answer that does not speak of the key: it
\* is neither reported nor charged.
NoSubscription == /\ call = "subscription"
                  /\ NextSource
                  /\ UNCHANGED <<plan, pool, current, told, charged>>

\* The answer is 401, 402 or 403.  This is not reported either.
SubscriptionRefused == /\ call = "subscription"
                       /\ refused' = refused \cup {Key}
                       /\ NextSource
                       /\ UNCHANGED <<plan, pool, current, reported, charged>>

Subscribed == /\ call = "subscription"
              /\ call' = "test"
              /\ UNCHANGED <<plan, pool, current, source, held, told, charged>>

\* The entry ReportError and ReportUsage find: the first one with the key.
FirstPlace(k) == CHOOSE i \in Places(k) : \A j \in Places(k) : i <= j

\* testTTS answers 200, or fails without saying anything about the key.
TestEnds == /\ call = "test"
            /\ call' = "usage"
            /\ UNCHANGED <<plan, pool, current, source, held, told, charged>>

\* testTTS answers 401, 402 or 403: ReportError.
TestRefused == /\ call = "test"
               /\ pool' = [pool EXCEPT ![FirstPlace(Key)].active = FALSE]
               /\ refused' = refused \cup {Key}
               /\ reported' = reported \cup {Key}
               /\ call' = "usage"
               /\ UNCHANGED <<plan, current, source, held, charged>>

\* ReportUsage: the test is charged, successful or not.
ReportUsage ==
  /\ call = "usage"
  /\ LET e == pool[FirstPlace(Key)]
     IN  pool' = [pool EXCEPT ![FirstPlace(Key)] =
           [e EXCEPT !.used = e.used + 1,
                     !.active = e.active /\ ~(e.limit > 0 /\ e.used + 1 >= e.limit)]]
  /\ charged' = [charged EXCEPT ![Key] = charged[Key] + 1]
  /\ NextSource
  /\ UNCHANGED <<plan, current, told>>

Speak == \/ ReadConfig \/ NoConfig \/ LoadSource \/ Loaded
         \/ NextKey \/ NoKey \/ NoSubscription \/ SubscriptionRefused \/ Subscribed
         \/ TestEnds \/ TestRefused \/ ReportUsage

-----------------------------------------------------------------------------
(* Properties.                                                             *)

SpeechTypeOK == /\ plan \in SpeechPlans \cup {<< >>}
                /\ pool \in Seq(Entry) /\ current \in 1..Len(pool) \cup {1}
                /\ source \in 1..(Len(plan) + 1) /\ call \in Calls
                /\ held \in 0..Len(pool)
                /\ refused \subseteq SpeechKeys /\ reported \subseteq refused
                /\ charged \in [SpeechKeys -> Nat]

\* A key the API refused, or whose budget is spent, is given out again only if
\* the pool holds it more than once, since only the first entry is switched off
\* and charged; or if it has been refused when its subscription was asked for and
\* in no test: VerifyTTSKey reports only the latter.
RestsOnceOut ==
  [][call = "next" /\ call' = "subscription" =>
       LET e == pool[held']
       IN  e.key \in refused \/ Spent(e) =>
             \/ e.key \notin reported /\ ~Spent(e)
             \/ \E i, j \in Places(e.key) : i # j]_speechVars
=============================================================================
