--------------------------- MODULE PipelineProofs ---------------------------
(***************************************************************************)
(* Proofs about Pipeline: which findings the filter keeps, however many    *)
(* there are and whatever sources they come from; that the workers deal    *)
(* with every model once; that a TTS key rests once it is reported or      *)
(* spent; and that a run of the pipeline is a run of Store.                *)
(***************************************************************************)
EXTENDS Pipeline, StoreProofs, WellFoundedInduction

-----------------------------------------------------------------------------
(* Findings.                                                               *)

\* What has been seen, told by the findings filtered so far.
PrintsSeen == seenPrints = {raw[i].print : i \in DOMAIN reason}
UrlsSeen == seenURLs = {u \in Links : UrlsUnique /\
  \E i \in DOMAIN reason : Reaches(i) /\ Url(raw[i]) = u}

EngineInv == /\ raw \in Seq(Findings)
             /\ reason \in Seq(Reasons) /\ Len(reason) <= Len(raw)
             /\ PrintsSeen /\ UrlsSeen /\ FirstDecides

\* The filter forgets what it saw when a scan forgets its findings.
LEMMA EngineFresh ==
  ASSUME raw \in Seq(Findings), reason = << >>, seenPrints = {}, seenURLs = {}
  PROVE  EngineInv
BY DEF EngineInv, PrintsSeen, UrlsSeen, FirstDecides

\* A finding that is added leaves the earlier ones, and what they decide.
LEMMA EngineFound ==
  ASSUME EngineInv, NEW f \in Findings, raw' = Append(raw, f), UNCHANGED engineVars
  PROVE  EngineInv'
<1>1. /\ raw' \in Seq(Findings) /\ Len(raw') = Len(raw) + 1
      /\ \A i \in 1..Len(raw) : raw'[i] = raw[i]
  BY DEF EngineInv
<1>2. reason' = reason /\ DOMAIN reason = 1..Len(reason) /\ Len(reason) \in Nat
  BY DEF engineVars, EngineInv
<1>3. \A i \in DOMAIN reason : i \in 1..Len(raw) /\ raw'[i] = raw[i]
  BY <1>1, <1>2 DEF EngineInv
<1>4. \A i \in DOMAIN reason : First(i)' = First(i)
  BY <1>2, <1>3 DEF First
<1>5. \A i \in DOMAIN reason : Reaches(i)' = Reaches(i)
  BY <1>3, <1>4 DEF Reaches
<1>6. \A i \in DOMAIN reason : FirstOfUrl(i)' = FirstOfUrl(i)
  BY SMTT(60), <1>2, <1>3, <1>5 DEF FirstOfUrl, Url
<1>7. PrintsSeen' /\ UrlsSeen'
  BY <1>2, <1>3, <1>5 DEF EngineInv, PrintsSeen, UrlsSeen, Url, engineVars
<1>8. FirstDecides'
  BY <1>2, <1>3, <1>4, <1>5, <1>6 DEF EngineInv, FirstDecides
<1>9. QED BY <1>1, <1>2, <1>7, <1>8 DEF EngineInv

\* A pass of the filter decides by what it has seen, which is what the earlier
\* findings say.
LEMMA EngineApplies ==
  ASSUME EngineInv, ApplyFilters
  PROVE  EngineInv'
<1> DEFINE n == Len(reason) + 1
           f == raw[n]
<1>1. /\ n \in 1..Len(raw) /\ f \in Findings /\ n \notin DOMAIN reason
      /\ DOMAIN reason = 1..(n - 1)
      /\ raw' = raw
  BY DEF ApplyFilters, EngineInv, scraperVars
<1>2. Verdict(f) \in Reasons
  BY <1>1 DEF Verdict, Reasons, Passes, Findings, Flaws
<1>3. /\ reason' \in Seq(Reasons) /\ Len(reason') = n /\ DOMAIN reason' = 1..n
      /\ reason'[n] = Verdict(f)
      /\ \A i \in DOMAIN reason : reason'[i] = reason[i]
  BY <1>2 DEF ApplyFilters, EngineInv
<1>4. f.print \in seenPrints <=> ~First(n)
  BY <1>1 DEF EngineInv, PrintsSeen, First
<1>5. Passes(f) <=> Reaches(n)
  BY <1>4 DEF Passes, Reaches
<1>6. UrlSeen(f) <=> ~FirstOfUrl(n)
  <2>1. Url(f) \in Links
    BY <1>1 DEF Findings, Fingerprints, Url
  <2>2. QED BY <1>1, <2>1 DEF EngineInv, UrlsSeen, UrlSeen, FirstOfUrl
<1>7. /\ Verdict(f) = "duplicate" <=> ~First(n)
      /\ Verdict(f) = "duplicate_url" <=> Reaches(n) /\ ~FirstOfUrl(n)
      /\ Verdict(f) = "kept" <=> Reaches(n) /\ FirstOfUrl(n) /\ f.flaw = "none"
  BY <1>1, <1>4, <1>5, <1>6 DEF Verdict, Passes, Findings, Flaws, Reaches
<1>8. \A i \in 1..n : /\ First(i)' = First(i) /\ Reaches(i)' = Reaches(i)
                      /\ FirstOfUrl(i)' = FirstOfUrl(i)
  BY <1>1 DEF First, Reaches, FirstOfUrl, Url
<1>9. FirstDecides'
  <2>1. ASSUME NEW i \in 1..n
        PROVE  /\ reason'[i] = "duplicate" <=> ~First(i)
               /\ reason'[i] = "duplicate_url" <=> Reaches(i) /\ ~FirstOfUrl(i)
               /\ reason'[i] = "kept" <=> Reaches(i) /\ FirstOfUrl(i) /\ raw[i].flaw = "none"
    <3>1. CASE i = n
      BY <1>3, <1>7, <3>1
    <3>2. CASE i # n
      BY <1>1, <1>3, <3>2 DEF EngineInv, FirstDecides
    <3>3. QED BY <3>1, <3>2
  <2>2. QED BY <1>1, <1>3, <1>8, <2>1 DEF FirstDecides
<1>10. PrintsSeen'
  <2>1. seenPrints' = seenPrints \cup {f.print}
    BY DEF ApplyFilters
  <2>2. QED BY <1>1, <1>3, <2>1 DEF EngineInv, PrintsSeen
<1>11. UrlsSeen'
  <2>1. seenURLs' = IF UrlsUnique /\ Reaches(n) THEN seenURLs \cup {Url(f)} ELSE seenURLs
    BY <1>5 DEF ApplyFilters
  <2>2. Url(f) \in Links
    BY <1>1 DEF Findings, Fingerprints, Url
  <2>3. \A u \in Links :
          (\E i \in DOMAIN reason' : Reaches(i)' /\ Url(raw'[i]) = u) <=>
            \/ \E i \in DOMAIN reason : Reaches(i) /\ Url(raw[i]) = u
            \/ Reaches(n) /\ Url(f) = u
    BY <1>1, <1>3, <1>8
  <2>4. seenURLs' = {u \in Links : UrlsUnique /\
          \E i \in DOMAIN reason' : Reaches(i)' /\ Url(raw'[i]) = u}
    BY <2>1, <2>2, <2>3 DEF EngineInv, UrlsSeen
  <2>5. QED BY <2>4 DEF UrlsSeen, Url
<1>12. QED BY <1>1, <1>3, <1>9, <1>10, <1>11 DEF EngineInv

\* What a step of the pipeline does to the findings.
FindStep == \/ /\ UNCHANGED engineVars
               /\ raw' = raw \/ \E f \in Findings : raw' = Append(raw, f)
            \/ ApplyFilters
            \/ raw' = << >> /\ reason' = << >> /\ seenPrints' = {} /\ seenURLs' = {}

\* A step asks a source, filters a finding, forgets the findings, or does
\* nothing to them.
LEMMA FindSteps ==
  ASSUME [Next]_pipeVars
  PROVE  FindStep
<1>1. CASE ReadConfigs
  BY <1>1 DEF ReadConfigs, ReadSources, FindStep
<1>2. CASE Scrape
  BY <1>2 DEF Scrape, NextFeed, Found, FindStep
<1>3. CASE FilterOne
  BY <1>3 DEF FilterOne, FindStep
<1>4. CASE FilterAll
  BY <1>4 DEF FilterAll, ForgetFindings, FindStep
<1>5. ASSUME NEW p \in Programs, Dies(p)
      PROVE  FindStep
  BY <1>5 DEF Dies, ForgetFindings, FindStep, memVars, findVars, scraperVars
<1>6. CASE \/ NoConfigs \/ Scraped \/ LoadAll \/ CheckAll \/ TestModels \/ ModelsTested
           \/ Save \/ Speaks \/ Sets
           \/ \E w \in Workers : TestOne(w)
           \/ \E p \in Programs : Opens(p)
  BY <1>6 DEF NoConfigs, Scraped, LoadAll, CheckAll, TestModels, ModelsTested, Save,
     Speaks, Sets, TestOne, Opens, StoreOnly, FindStep, memVars, findVars, scraperVars
<1>7. CASE UNCHANGED pipeVars
  BY <1>7 DEF pipeVars, memVars, findVars, scraperVars, FindStep
<1>. QED BY <1>1, <1>2, <1>3, <1>4, <1>5, <1>6, <1>7 DEF Next, Main

\* Every step keeps what the filter has seen to what the findings say.
LEMMA EngineStep ==
  ASSUME EngineInv, [Next]_pipeVars
  PROVE  EngineInv'
<1>1. CASE raw' = raw /\ UNCHANGED engineVars
  BY <1>1 DEF engineVars, EngineInv, PrintsSeen, UrlsSeen, FirstDecides,
     First, Reaches, FirstOfUrl, Url
<1>2. CASE (\E f \in Findings : raw' = Append(raw, f)) /\ UNCHANGED engineVars
  BY <1>2, EngineFound
<1>3. CASE ApplyFilters
  BY <1>3, EngineApplies
<1>4. CASE raw' = << >> /\ reason' = << >> /\ seenPrints' = {} /\ seenURLs' = {}
  BY <1>4 DEF EngineInv, PrintsSeen, UrlsSeen, FirstDecides
<1>5. QED BY <1>1, <1>2, <1>3, <1>4, FindSteps DEF FindStep

\* What decides about a finding is told by the findings alone, however many
\* there are: the first of its fingerprint counts, and of the first ones without
\* an early flaw the first with its URL.
THEOREM FirstOnesDecide == Spec => []FirstDecides
<1>1. Init => EngineInv
  BY EngineFresh DEF Init, ScraperInit, EngineInit
<1>2. EngineInv /\ [Next]_pipeVars => EngineInv'
  BY EngineStep
<1>3. EngineInv => FirstDecides
  BY DEF EngineInv
<1>4. QED BY <1>1, <1>2, <1>3, PTL DEF Spec

-----------------------------------------------------------------------------
(* Models.                                                                 *)

\* The entries workers hold.
InHand == {e \in Entries : \E w \in Workers : hand[w] = e}

\* Nothing is left of the tests of another scan.
Cleared == /\ listed = {} /\ toTest = {} /\ jobs = {} /\ closed = FALSE
           /\ free = {} /\ paid = {} /\ failed = {}
           /\ worker = Clean /\ hand = [w \in Workers |-> NoEntry]

\* A worker holds an entry from the channel until it has noted the result, and
\* no other holds the same.
Hands == /\ \A w \in Workers : hand[w] = NoEntry <=> worker[w] \in {"ready", "ended"}
         /\ \A v, w \in Workers : hand[v] = hand[w] => v = w \/ hand[v] = NoEntry

\* A worker ends when the channel is closed and empty, and it is closed when
\* every entry has gone through it.
Ending == /\ phase = "wait" => closed
          /\ closed => toTest = {}
          /\ \A w \in Workers : worker[w] = "ended" => closed /\ jobs = {}

\* Every entry that may be free is in one place.
OnePlace ==
  /\ toTest \cup jobs \cup InHand \cup free \cup failed \cup (paid \ PaidOnly)
       = Testable(listed)
  /\ paid \cap PaidOnly = listed \cap PaidOnly
  /\ toTest \cap (jobs \cup InHand \cup free \cup failed \cup paid) = {}
  /\ jobs \cap (InHand \cup free \cup failed \cup paid) = {}
  /\ InHand \cap (free \cup failed \cup paid) = {}
  /\ free \cap paid = {} /\ free \cap failed = {} /\ paid \cap failed = {}

ModelsInv == /\ ModelsTypeOK
             /\ phase \in {"idle", "fetch"} => Cleared
             /\ phase = "known" => toTest = {} /\ jobs = {} /\
                                   \A w \in Workers : hand[w] = NoEntry
             /\ Hands /\ Ending /\ OnePlace

\* What a step of the pipeline does to the tests of the models.
ModelStep == \/ BeginModels \/ FetchFails \/ Close \/ Collect \/ ForgetModels
             \/ \E entries \in SUBSET Entries : Fetch(entries)
             \/ \E e \in Entries : Push(e)
             \/ \E w \in Workers : Test(w)
             \/ UNCHANGED modelVars

\* A step is one of the tests, ends them, or leaves them alone.
LEMMA ModelSteps ==
  ASSUME [Next]_pipeVars
  PROVE  ModelStep
<1>1. CASE TestModels \/ ModelsTested \/ \E w \in Workers : TestOne(w)
  BY <1>1 DEF TestModels, ModelsTested, TestOne, ModelStep
<1>2. ASSUME NEW p \in Programs, Dies(p)
      PROVE  ModelStep
  BY <1>2 DEF Dies, ModelStep, memVars
<1>3. CASE \/ ReadConfigs \/ NoConfigs \/ Scrape \/ Scraped \/ FilterOne \/ FilterAll
           \/ LoadAll \/ CheckAll \/ Save \/ Speaks \/ Sets
           \/ \E p \in Programs : Opens(p)
  BY <1>3 DEF ReadConfigs, NoConfigs, Scrape, Scraped, FilterOne, FilterAll, LoadAll,
     CheckAll, Save, Speaks, Sets, Opens, StoreOnly, ModelStep, memVars
<1>4. CASE UNCHANGED pipeVars
  BY <1>4 DEF pipeVars, memVars, ModelStep
<1>. QED BY <1>1, <1>2, <1>3, <1>4 DEF Next, Main

\* When there is nothing of the tests, all is well with them.
LEMMA ModelsCleared == Cleared /\ phase \in {"idle", "fetch", "known"} => ModelsInv
<1>1. SUFFICES ASSUME Cleared, phase \in {"idle", "fetch", "known"}
               PROVE  ModelsInv
  OBVIOUS
<1>2. \A w \in Workers : worker[w] = "ready" /\ hand[w] = NoEntry
  BY <1>1 DEF Cleared, Clean
<1>3. InHand = {}
  BY <1>2, ModelsType DEF InHand
<1>4. ModelsTypeOK
  BY <1>1 DEF Cleared, Clean, ModelsTypeOK, Phases
<1>5. Hands /\ Ending
  BY <1>1, <1>2 DEF Cleared, Hands, Ending
<1>6. OnePlace
  BY <1>1, <1>3 DEF Cleared, OnePlace, Testable
<1>7. QED BY <1>1, <1>2, <1>4, <1>5, <1>6 DEF Cleared, ModelsInv

\* So it is after a step.
LEMMA ModelsClearedNext ==
  Cleared' /\ phase' \in {"idle", "fetch", "known"} => ModelsInv'
<1>1. (Cleared /\ phase \in {"idle", "fetch", "known"})' => ModelsInv'
  BY ModelsCleared, PTL
<1>2. QED BY <1>1

\* The API answers: what may be free is to be tested.
LEMMA ModelsFetched ==
  ASSUME ModelsInv, NEW entries \in SUBSET Entries, Fetch(entries)
  PROVE  ModelsInv'
<1>1. Cleared /\ hand' = hand /\ worker' = worker /\ phase' = "push"
  BY DEF Fetch, ModelsInv
<1>2. \A w \in Workers : worker[w] = "ready" /\ hand[w] = NoEntry
  BY <1>1 DEF Cleared, Clean
<1>3. InHand' = {}
  BY <1>1, <1>2, ModelsType DEF InHand
<1>4. ModelsTypeOK'
  BY ModelsType DEF Fetch, ModelsInv, ModelsTypeOK, Phases, Testable
<1>5. Hands' /\ Ending'
  BY <1>1, <1>2 DEF Fetch, Cleared, Hands, Ending
<1>6. OnePlace'
  BY <1>1, <1>3 DEF Fetch, Cleared, OnePlace, Testable
<1>7. QED BY <1>1, <1>4, <1>5, <1>6 DEF ModelsInv

\* An entry is put into the channel.
LEMMA ModelsPushed ==
  ASSUME ModelsInv, NEW e \in Entries, Push(e)
  PROVE  ModelsInv'
<1>1. /\ phase = "push" /\ e \in toTest
      /\ toTest' = toTest \ {e} /\ jobs' = jobs \cup {e}
      /\ UNCHANGED <<phase, listed, closed, worker, hand, free, paid, failed>>
  BY DEF Push, listVars
<1>2. InHand' = InHand
  BY <1>1 DEF InHand
<1>3. ModelsTypeOK' /\ Hands' /\ Ending'
  BY <1>1 DEF ModelsInv, ModelsTypeOK, Hands, Ending
<1>4. OnePlace'
  BY <1>1, <1>2 DEF ModelsInv, OnePlace
<1>5. QED BY <1>1, <1>3, <1>4 DEF ModelsInv

\* The channel is closed; the workers have ended; a worker ends or has an
\* answer: no entry moves.
LEMMA ModelsRest ==
  ASSUME ModelsInv,
         \/ Close \/ Collect
         \/ \E w \in Workers : Ends(w) \/ \E outcome \in Outcomes : Answers(w, outcome)
  PROVE  ModelsInv'
<1>1. /\ phase' \in Phases /\ closed' \in BOOLEAN
      /\ UNCHANGED <<listed, toTest, jobs, hand, free, paid, failed>>
  BY DEF ModelsInv, ModelsTypeOK, Phases, Close, Collect, Ends, Answers, listVars, poolVars
<1>2. InHand' = InHand
  BY <1>1 DEF InHand
<1>3. OnePlace'
  BY <1>1, <1>2 DEF ModelsInv, OnePlace
<1>4. CASE Close
  BY <1>1, <1>3, <1>4 DEF Close, ModelsInv, ModelsTypeOK, Hands, Ending, listVars
<1>5. CASE Collect
  <2>1. closed /\ toTest = {} /\ jobs = {} /\ \A w \in Workers : hand[w] = NoEntry
    BY <1>5, ModelsType DEF Collect, ModelsInv, Hands, Ending
  <2>2. phase' = "known" /\ closed' = closed /\ worker' = worker
    BY <1>5 DEF Collect, poolVars
  <2>3. QED BY <1>1, <1>3, <2>1, <2>2 DEF ModelsInv, ModelsTypeOK, Hands, Ending
<1>6. ASSUME NEW w \in Workers, Ends(w)
      PROVE  ModelsInv'
  <2>1. phase' = phase /\ closed' = closed /\ Running
    BY <1>6 DEF Ends
  <2>2. /\ worker' = [worker EXCEPT ![w] = "ended"]
        /\ worker[w] = "ready" /\ closed /\ jobs = {}
    BY <1>6 DEF Ends
  <2>3. ModelsTypeOK' /\ Hands' /\ Ending'
    BY <1>1, <2>1, <2>2 DEF ModelsInv, ModelsTypeOK, Hands, Ending
  <2>4. QED BY <1>1, <1>3, <2>1, <2>3 DEF ModelsInv, Running
<1>7. ASSUME NEW w \in Workers, NEW outcome \in Outcomes, Answers(w, outcome)
      PROVE  ModelsInv'
  <2>1. /\ phase' = phase /\ closed' = closed
        /\ worker[w] = "testing" /\ worker' = [worker EXCEPT ![w] = outcome]
    BY <1>7 DEF Answers
  <2>2. worker[w] # "ready" /\ outcome \notin {"ready", "ended"}
    BY <2>1 DEF Outcomes
  <2>3. ModelsTypeOK' /\ Hands' /\ Ending'
    BY <1>1, <2>1, <2>2 DEF ModelsInv, ModelsTypeOK, Hands, Ending
  <2>4. phase \notin {"idle", "fetch"}
    BY <2>2 DEF ModelsInv, Cleared, Clean
  <2>5. QED BY <1>1, <1>3, <2>1, <2>3, <2>4 DEF ModelsInv
<1>8. QED BY <1>4, <1>5, <1>6, <1>7

\* A worker takes an entry.
LEMMA ModelsTaken ==
  ASSUME ModelsInv, NEW w \in Workers, Take(w)
  PROVE  ModelsInv'
<1>1. PICK e \in jobs : jobs' = jobs \ {e} /\ hand' = [hand EXCEPT ![w] = e]
  BY DEF Take
<1>2. /\ Running /\ worker[w] = "ready"
      /\ worker' = [worker EXCEPT ![w] = "testing"]
      /\ UNCHANGED <<phase, listed, toTest, closed, free, paid, failed>>
  BY DEF Take, listVars
<1>3. e \in Entries /\ e # NoEntry /\ e \notin InHand
  BY ModelsType DEF ModelsInv, ModelsTypeOK, OnePlace
<1>4. hand[w] = NoEntry
  BY <1>2 DEF ModelsInv, Hands
<1>5. InHand' = InHand \cup {e}
  BY <1>1, <1>3, <1>4, ModelsType DEF InHand, ModelsInv, ModelsTypeOK
<1>6. ModelsTypeOK'
  BY <1>1, <1>2, <1>3 DEF ModelsInv, ModelsTypeOK
<1>7. Hands'
  BY <1>1, <1>2, <1>3 DEF ModelsInv, ModelsTypeOK, Hands, InHand
<1>8. Ending'
  BY <1>1, <1>2 DEF ModelsInv, ModelsTypeOK, Ending
<1>9. OnePlace'
  BY <1>1, <1>2, <1>5 DEF ModelsInv, OnePlace
<1>10. QED BY <1>2, <1>6, <1>7, <1>8, <1>9 DEF ModelsInv, Running

\* A worker notes the result: the entry joins one of the lists.
LEMMA ModelsNoted ==
  ASSUME ModelsInv, NEW w \in Workers, Note(w)
  PROVE  ModelsInv'
<1> DEFINE e == hand[w]
<1>1. /\ worker[w] \in Outcomes
      /\ worker' = [worker EXCEPT ![w] = "ready"]
      /\ hand' = [hand EXCEPT ![w] = NoEntry]
      /\ UNCHANGED <<phase, listed, toTest, jobs, closed>>
  BY DEF Note
<1>2. \/ free' = free \cup {e} /\ paid' = paid /\ failed' = failed
      \/ free' = free /\ paid' = paid \cup {e} /\ failed' = failed
      \/ free' = free /\ paid' = paid /\ failed' = failed \cup {e}
  BY DEF Note, Outcomes
<1>3. e \in InHand /\ e \in Entries /\ e # NoEntry
  BY <1>1 DEF ModelsInv, ModelsTypeOK, Hands, Outcomes, InHand
<1>4. e \in Testable(listed) /\ e \notin PaidOnly
  BY <1>3 DEF ModelsInv, OnePlace, Testable
<1>5. InHand' = InHand \ {e}
  BY <1>1, <1>3, ModelsType DEF InHand, ModelsInv, ModelsTypeOK, Hands
<1>6. ModelsTypeOK'
  BY <1>1, <1>2, <1>3 DEF ModelsInv, ModelsTypeOK
<1>7. Hands' /\ Ending'
  BY <1>1 DEF ModelsInv, ModelsTypeOK, Hands, Ending
<1>8. OnePlace'
  BY <1>1, <1>2, <1>3, <1>4, <1>5 DEF ModelsInv, OnePlace
<1>9. phase \notin {"idle", "fetch", "known"}
  BY <1>1, <1>3 DEF ModelsInv, Cleared, Clean, Outcomes
<1>10. QED BY <1>1, <1>6, <1>7, <1>8, <1>9 DEF ModelsInv

\* Every step keeps the entries apart.
LEMMA ModelsStep ==
  ASSUME ModelsInv, [Next]_pipeVars
  PROVE  ModelsInv'
<1>1. CASE BeginModels \/ FetchFails
  <2>1. Cleared' /\ phase' \in {"fetch", "known"}
    BY <1>1 DEF BeginModels, FetchFails, poolVars, listVars, ModelsInv, Cleared
  <2>2. QED BY <2>1, ModelsClearedNext
<1>2. CASE ForgetModels
  <2>1. Cleared' /\ phase' = "idle"
    BY <1>2 DEF ForgetModels, Cleared
  <2>2. QED BY <2>1, ModelsClearedNext
<1>3. CASE UNCHANGED modelVars
  BY <1>3 DEF modelVars, poolVars, listVars, ModelsInv, ModelsTypeOK, Cleared, Hands,
     Ending, OnePlace, InHand
<1>4. QED BY <1>1, <1>2, <1>3, ModelSteps, ModelsFetched, ModelsPushed, ModelsRest,
     ModelsTaken, ModelsNoted DEF ModelStep, Test

LEMMA ModelsCorrect == Spec => []ModelsInv
<1>1. Init => ModelsInv
  <2>1. Init => Cleared /\ phase = "idle"
    BY DEF Init, ModelsInit, Cleared
  <2>2. QED BY <2>1, ModelsCleared
<1>2. ModelsInv /\ [Next]_pipeVars => ModelsInv'
  BY ModelsStep
<1>3. QED BY <1>1, <1>2, PTL DEF Spec

\* When the lists of models are read, every entry the API listed has been dealt
\* with once, however many entries and workers there are.
THEOREM ModelsOnce == Spec => []EachModelOnce
<1>1. ModelsInv => EachModelOnce
  <2>1. SUFFICES ASSUME ModelsInv, phase = "known"
                 PROVE  EachModelOnce
    BY DEF EachModelOnce
  <2>2. InHand = {} /\ toTest = {} /\ jobs = {}
    BY <2>1, ModelsType DEF ModelsInv, InHand
  <2>3. QED BY <2>1, <2>2 DEF ModelsInv, OnePlace, EachModelOnce
<1>2. QED BY <1>1, ModelsCorrect, PTL

-----------------------------------------------------------------------------
(* TTS keys.                                                               *)

\* A set of natural numbers has a least one.
LEMMA LeastOf ==
  ASSUME NEW S \in SUBSET Nat, S # {}
  PROVE  \E i \in S : \A j \in S : i <= j
<1> DEFINE R == OpToRel(<, Nat)
<1>1. IsWellFoundedOn(R, Nat)
  BY NatLessThanWellFounded
<1>2. \A x, y \in Nat : <<y, x>> \in R <=> y < x
  BY DEF OpToRel
<1> HIDE DEF R
<1>3. PICK x \in S : \A y \in S : ~(<<y, x>> \in R)
  BY <1>1, WFMin
<1>4. \A y \in S : ~(y < x)
  <2>1. TAKE y \in S
  <2>2. x \in Nat /\ y \in Nat /\ ~(<<y, x>> \in R)
    BY <1>3
  <2>3. QED BY <1>2, <2>2
<1>5. \A y \in S : x <= y
  BY <1>4
<1>6. QED BY <1>5

\* What is in the pool is there for good, in its type.
PoolTyped == /\ plan \in SpeechPlans \cup {<< >>} /\ source \in Nat \ {0}
             /\ pool \in Seq(Entry) /\ current \in Nat
             /\ refused \subseteq SpeechKeys /\ reported \subseteq refused
             /\ charged \in [SpeechKeys -> Nat]
             /\ call \in {"subscription", "test", "usage"} => held \in DOMAIN pool

\* While keys are loaded none has been used.
Unused == call \in {"config", "load"} =>
  /\ reported = {}
  /\ \A k \in SpeechKeys : charged[k] = 0
  /\ \A i \in DOMAIN pool : pool[i].used = 0

\* The entry is the only one with its key.
Alone(i) == \A j \in DOMAIN pool : pool[j].key = pool[i].key => j = i

\* Such an entry knows what was reported of its key.
Informed == \A i \in DOMAIN pool : Alone(i) =>
  /\ pool[i].used = charged[pool[i].key]
  /\ pool[i].key \in reported \/ Spent(pool[i]) => ~pool[i].active

SpeechInv == PoolTyped /\ Unused /\ Informed

\* ReportError and ReportUsage find an entry with the key they were given.
LEMMA FirstPlaceFound ==
  ASSUME PoolTyped, held \in DOMAIN pool
  PROVE  /\ FirstPlace(Key) \in DOMAIN pool
         /\ pool[FirstPlace(Key)].key = Key
         /\ Key \in SpeechKeys
<1>1. Places(Key) \in SUBSET Nat /\ held \in Places(Key)
  BY DEF Places, Key, PoolTyped
<1>2. \E i \in Places(Key) : \A j \in Places(Key) : i <= j
  BY <1>1, LeastOf
<1>3. FirstPlace(Key) \in Places(Key)
  BY <1>2 DEF FirstPlace
<1>4. FirstPlace(Key) \in DOMAIN pool /\ pool[FirstPlace(Key)].key = Key
  BY <1>3 DEF Places
<1>5. pool[held] \in Entry
  BY DEF PoolTyped
<1>6. QED BY <1>4, <1>5 DEF Entry, Key

\* The entries of a source have not been used.
LEMMA NewEntries ==
  ASSUME NEW src \in Sources
  PROVE  /\ EntriesOf(src) \in Seq(Entry)
         /\ \A i \in DOMAIN EntriesOf(src) : EntriesOf(src)[i].used = 0
<1>1. ASSUME NEW all \in Seq(SpeechKeys), NEW id \in Speakers, NEW limit \in Nat,
             NEW entries,
             entries = [i \in 1..Len(all) |->
                         [key |-> all[i], speaker |-> id, used |-> 0,
                          limit |-> limit, active |-> TRUE]]
      PROVE  /\ entries \in Seq(Entry)
             /\ \A i \in DOMAIN entries : entries[i].used = 0
  <2>1. \A i \in 1..Len(all) : entries[i] \in Entry /\ entries[i].used = 0
    BY <1>1 DEF Entry
  <2>2. QED BY <1>1, <2>1
<1>2. /\ src.vault \in Seq(SpeechKeys) /\ src.config \in Seq(SpeechKeys)
      /\ src.id \in Speakers /\ src.limit \in Nat
  BY DEF Sources
<1>3. /\ src.vault \o src.config \in Seq(SpeechKeys)
      /\ Len(src.vault \o src.config) = Len(src.vault) + Len(src.config)
  BY <1>2
<1>4. QED BY <1>1, <1>2, <1>3 DEF EntriesOf

\* A new source adds keys nobody has used.
LEMMA SpeechLoads ==
  ASSUME SpeechInv, LoadSource
  PROVE  SpeechInv'
<1> DEFINE new == EntriesOf(plan[source])
<1>1. /\ call = "load" /\ source \in 1..Len(plan) /\ pool' = pool \o new
      /\ source' = source + 1
      /\ UNCHANGED <<plan, current, call, held, refused, reported, charged>>
  BY DEF LoadSource, told, SpeechInv, PoolTyped
<1>2. plan[source] \in Sources
  BY <1>1, SpeechType DEF SpeechInv, PoolTyped
<1>3. /\ new \in Seq(Entry)
      /\ \A i \in DOMAIN new : new[i].used = 0
  BY <1>2, NewEntries
<1> HIDE DEF new
<1>4. /\ pool' \in Seq(Entry)
      /\ \A i \in DOMAIN pool' : pool'[i].used = 0 /\ pool'[i] \in Entry
  BY <1>1, <1>3 DEF SpeechInv, PoolTyped, Unused
<1>5. PoolTyped' /\ Unused'
  BY <1>1, <1>4 DEF SpeechInv, PoolTyped, Unused
<1>6. Informed'
  <2>1. SUFFICES ASSUME NEW i \in DOMAIN pool'
                 PROVE  /\ pool'[i].used = charged'[pool'[i].key]
                        /\ pool'[i].key \notin reported'
                        /\ pool'[i].limit > 0 =>
                             ~(charged'[pool'[i].key] >= pool'[i].limit)
    BY DEF Informed, Spent
  <2>2. pool'[i].used = 0 /\ pool'[i].key \in SpeechKeys /\ pool'[i].limit \in Nat
    BY <1>4 DEF Entry
  <2>3. charged' = charged /\ charged[pool'[i].key] = 0 /\ reported' = {}
    BY <1>1, <2>2 DEF SpeechInv, Unused
  <2>4. QED BY <2>2, <2>3
<1>7. QED BY <1>5, <1>6 DEF SpeechInv

\* A round goes over the places of the pool, and so does the index after it.
LEMMA RoundInPool ==
  ASSUME PoolTyped, NEW n \in 1..Len(pool)
  PROVE  /\ Round(n) \in 1..Len(pool)
         /\ (Round(n) % Len(pool)) + 1 \in 1..Len(pool)
<1>1. Len(pool) \in Nat \ {0} /\ n \in Nat \ {0} /\ current \in Nat
  BY DEF PoolTyped
<1>2. \A a \in Int, b \in Nat \ {0} : a % b \in 0..(b - 1)
  OBVIOUS
<1>3. current + n - 2 \in Int
  BY <1>1
<1>4. (current + n - 2) % Len(pool) \in 0..(Len(pool) - 1)
  BY <1>1, <1>2, <1>3
<1>5. Round(n) \in 1..Len(pool) /\ Round(n) \in Int
  BY <1>1, <1>4 DEF Round
<1>6. Round(n) % Len(pool) \in 0..(Len(pool) - 1)
  BY <1>1, <1>2, <1>5
<1>7. QED BY <1>1, <1>5, <1>6

\* The entry a key is given out from is one of the pool, and active.
LEMMA SpeechGives ==
  ASSUME SpeechInv, NextKey
  PROVE  /\ SpeechInv'
         /\ held' \in DOMAIN pool /\ pool[held'].active
<1>1. PICK n \in 1..Len(pool) :
        /\ Fits(pool[Round(n)])
        /\ held' = Round(n)
        /\ current' = (Round(n) % Len(pool)) + 1
  BY DEF NextKey
<1> DEFINE i == Round(n)
<1>2. /\ call = "next" /\ call' = "subscription"
      /\ UNCHANGED <<plan, pool, source, refused, reported, charged>>
  BY DEF NextKey, told
<1>3. i \in DOMAIN pool /\ current' \in Nat
  <2>1. PoolTyped /\ Len(pool) \in Nat
    BY DEF SpeechInv, PoolTyped
  <2>2. Round(n) \in 1..Len(pool) /\ (Round(n) % Len(pool)) + 1 \in 1..Len(pool)
    BY <2>1, RoundInPool
  <2>3. DOMAIN pool = 1..Len(pool)
    BY <2>1 DEF PoolTyped
  <2>4. current' \in 1..Len(pool)
    BY <1>1, <2>2
  <2>5. QED BY <2>1, <2>2, <2>3, <2>4
<1>4. pool[i].active
  BY <1>1 DEF Fits
<1>5. held' = i
  BY <1>1
<1> HIDE DEF i
<1>6. PoolTyped' /\ Unused'
  BY <1>2, <1>3, <1>5 DEF SpeechInv, PoolTyped, Unused
<1>7. Informed'
  BY <1>2 DEF SpeechInv, Informed, Alone, Spent
<1>8. QED BY <1>3, <1>4, <1>5, <1>6, <1>7 DEF SpeechInv

\* A refusal switches an entry with the key off.
LEMMA SpeechRefused ==
  ASSUME SpeechInv, TestRefused
  PROVE  SpeechInv'
<1> DEFINE i == FirstPlace(Key)
           k == Key
<1>1. /\ call = "test" /\ call' = "usage"
      /\ pool' = [pool EXCEPT ![i].active = FALSE]
      /\ refused' = refused \cup {k} /\ reported' = reported \cup {k}
      /\ UNCHANGED <<plan, current, source, held, charged>>
  BY DEF TestRefused
<1>2. i \in DOMAIN pool /\ pool[i].key = k /\ k \in SpeechKeys
  BY <1>1, FirstPlaceFound DEF SpeechInv, PoolTyped
<1> HIDE DEF i, k
<1>3. /\ pool' \in Seq(Entry) /\ DOMAIN pool' = DOMAIN pool
      /\ \A j \in DOMAIN pool : /\ pool'[j].key = pool[j].key
                                /\ pool'[j].used = pool[j].used
                                /\ pool'[j].limit = pool[j].limit
                                /\ pool'[j].active => pool[j].active /\ j # i
  <2>1. pool \in Seq(Entry) /\ \A j \in DOMAIN pool : pool[j] \in Entry
    BY DEF SpeechInv, PoolTyped
  <2>2. pool' = [pool EXCEPT ![i] = [pool[i] EXCEPT !.active = FALSE]]
    BY <1>1
  <2>3. [pool[i] EXCEPT !.active = FALSE] \in Entry
    BY <1>2, <2>1 DEF Entry
  <2>4. QED BY <1>2, <2>1, <2>2, <2>3 DEF Entry
<1>4. PoolTyped' /\ Unused'
  BY <1>1, <1>2, <1>3 DEF SpeechInv, PoolTyped, Unused
<1>5. Informed'
  <2>1. SUFFICES ASSUME NEW j \in DOMAIN pool, Alone(j)
                 PROVE  /\ pool'[j].used = charged'[pool'[j].key]
                        /\ \/ pool'[j].key \in reported'
                           \/ pool'[j].limit > 0 /\ charged'[pool'[j].key] >= pool'[j].limit
                           => ~pool'[j].active
    BY <1>3 DEF Informed, Spent, Alone
  <2>2. /\ pool[j].used = charged[pool[j].key]
        /\ \/ pool[j].key \in reported
           \/ pool[j].limit > 0 /\ charged[pool[j].key] >= pool[j].limit
           => ~pool[j].active
    BY <2>1 DEF SpeechInv, Informed, Spent
  <2>3. pool[j].key = k => j = i
    BY <1>2, <2>1 DEF Alone
  <2>4. QED BY <1>1, <1>3, <2>2, <2>3
<1>6. QED BY <1>4, <1>5 DEF SpeechInv

\* The test is charged to an entry with the key, which is switched off when its
\* limit is reached.
LEMMA SpeechCharged ==
  ASSUME SpeechInv, ReportUsage
  PROVE  SpeechInv'
<1> DEFINE i == FirstPlace(Key)
           k == Key
           e == pool[i]
<1>1. /\ call = "usage"
      /\ pool' = [pool EXCEPT ![i] =
           [e EXCEPT !.used = e.used + 1,
                     !.active = e.active /\ ~(e.limit > 0 /\ e.used + 1 >= e.limit)]]
      /\ charged' = [charged EXCEPT ![k] = charged[k] + 1]
      /\ call' \in {"over", "next"} /\ source' = source + 1
      /\ UNCHANGED <<plan, current, refused, reported>>
  BY DEF ReportUsage, NextSource, told
<1>2. i \in DOMAIN pool /\ pool[i].key = k /\ k \in SpeechKeys
  BY <1>1, FirstPlaceFound DEF SpeechInv, PoolTyped
<1> HIDE DEF i, k
<1>3. /\ pool' \in Seq(Entry) /\ DOMAIN pool' = DOMAIN pool
      /\ \A j \in DOMAIN pool : /\ pool'[j].key = pool[j].key
                                /\ pool'[j].limit = pool[j].limit
                                /\ pool'[j].active => pool[j].active
                                /\ j # i => pool'[j] = pool[j]
      /\ pool'[i].used = pool[i].used + 1
      /\ pool[i].limit > 0 /\ pool[i].used + 1 >= pool[i].limit => ~pool'[i].active
  <2>1. pool \in Seq(Entry) /\ \A j \in DOMAIN pool : pool[j] \in Entry
    BY DEF SpeechInv, PoolTyped
  <2>2. e \in Entry
    BY <1>2, <2>1
  <2> HIDE DEF e
  <2>3. PICK on \in BOOLEAN : on = (e.active /\ ~(e.limit > 0 /\ e.used + 1 >= e.limit))
    OBVIOUS
  <2>4. ASSUME NEW n \in Nat, NEW b \in BOOLEAN
        PROVE  /\ [e EXCEPT !.used = n, !.active = b] \in Entry
               /\ [e EXCEPT !.used = n, !.active = b].key = e.key
               /\ [e EXCEPT !.used = n, !.active = b].limit = e.limit
               /\ [e EXCEPT !.used = n, !.active = b].used = n
               /\ [e EXCEPT !.used = n, !.active = b].active = b
    BY <2>2 DEF Entry
  <2>5. e.used + 1 \in Nat
    BY <2>2 DEF Entry
  <2> DEFINE r == [e EXCEPT !.used = e.used + 1, !.active = on]
  <2>6. pool' = [pool EXCEPT ![i] = r]
    BY <1>1, <2>3
  <2>7. r \in Entry /\ r.key = e.key /\ r.limit = e.limit /\ r.used = e.used + 1 /\ r.active = on
    BY <2>4, <2>5
  <2> HIDE DEF r
  <2>8. pool' \in Seq(Entry) /\ DOMAIN pool' = DOMAIN pool
        /\ pool'[i] = r /\ \A j \in DOMAIN pool : j # i => pool'[j] = pool[j]
    BY <1>2, <2>1, <2>7, <2>6
  <2>9. /\ r.active => e.active
        /\ e.limit > 0 /\ e.used + 1 >= e.limit => ~r.active
    BY <2>3, <2>7
  <2>10. QED BY <2>7, <2>8, <2>9 DEF e
<1>4. PoolTyped' /\ Unused'
  <2>1. charged' \in [SpeechKeys -> Nat]
    BY <1>1, <1>2 DEF SpeechInv, PoolTyped
  <2>2. PoolTyped'
    BY <1>1, <1>3, <2>1 DEF SpeechInv, PoolTyped
  <2>3. Unused'
    BY <1>1 DEF Unused
  <2>4. QED BY <2>2, <2>3
<1>5. Informed'
  <2>1. SUFFICES ASSUME NEW j \in DOMAIN pool, Alone(j)
                 PROVE  /\ pool'[j].used = charged'[pool'[j].key]
                        /\ \/ pool'[j].key \in reported'
                           \/ pool'[j].limit > 0 /\ charged'[pool'[j].key] >= pool'[j].limit
                           => ~pool'[j].active
    BY <1>3 DEF Informed, Spent, Alone
  <2>2. /\ pool[j].used = charged[pool[j].key]
        /\ \/ pool[j].key \in reported
           \/ pool[j].limit > 0 /\ charged[pool[j].key] >= pool[j].limit
           => ~pool[j].active
    BY <2>1 DEF SpeechInv, Informed, Spent
  <2>3. pool[j].key = k => j = i
    BY <1>2, <2>1 DEF Alone
  <2>4. charged \in [SpeechKeys -> Nat] /\ pool[j].key \in SpeechKeys
    <3>1. charged \in [SpeechKeys -> Nat] /\ pool[j] \in Entry
      BY DEF SpeechInv, PoolTyped
    <3>2. QED BY <3>1 DEF Entry
  <2>5. CASE j = i
    <3>1. charged'[k] = charged[k] + 1 /\ reported' = reported
      BY <1>1, <1>2, <2>4
    <3>2. pool'[i].used = charged'[k] /\ pool'[i].key = k
      BY <1>2, <1>3, <2>2, <2>5, <3>1
    <3>3. k \in reported => ~pool'[i].active
      BY <1>2, <1>3, <2>2, <2>5
    <3>4. pool'[i].limit > 0 /\ charged'[k] >= pool'[i].limit => ~pool'[i].active
      BY <1>2, <1>3, <2>2, <2>5, <3>1
    <3>5. QED BY <2>5, <3>1, <3>2, <3>3, <3>4
  <2>6. CASE j # i
    BY <1>1, <1>2, <1>3, <2>2, <2>3, <2>4, <2>6
  <2>7. QED BY <2>5, <2>6
<1>6. QED BY <1>4, <1>5 DEF SpeechInv

\* The other steps leave the pool alone, and report nothing.
LEMMA SpeechRests ==
  ASSUME SpeechInv,
         \/ ReadConfig \/ NoConfig \/ Loaded \/ NoKey \/ NoSubscription
         \/ SubscriptionRefused \/ Subscribed \/ TestEnds \/ UNCHANGED speechVars
  PROVE  SpeechInv'
<1>1. UNCHANGED <<pool, reported, charged>>
  BY DEF ReadConfig, NoConfig, Loaded, NoKey, NoSubscription, SubscriptionRefused,
     Subscribed, TestEnds, speechVars, told
<1>2. PoolTyped'
  <2>1. CASE SubscriptionRefused
    <3>1. held \in DOMAIN pool /\ PoolTyped
      BY <2>1 DEF SubscriptionRefused, SpeechInv, PoolTyped
    <3>2. Key \in SpeechKeys
      BY <3>1, FirstPlaceFound
    <3>3. QED BY <2>1, <3>1, <3>2 DEF SubscriptionRefused, NextSource, PoolTyped
  <2>2. CASE ~SubscriptionRefused
    BY <2>2 DEF ReadConfig, NoConfig, Loaded, NoKey, NoSubscription, Subscribed, TestEnds,
       NextSource, speechVars, told, SpeechInv, PoolTyped
  <2>3. QED BY <2>1, <2>2
<1>3. Unused'
  BY <1>1 DEF ReadConfig, NoConfig, Loaded, NoKey, NoSubscription, SubscriptionRefused,
     Subscribed, TestEnds, NextSource, speechVars, SpeechInv, Unused
<1>4. Informed'
  BY <1>1 DEF SpeechInv, Informed, Alone, Spent
<1>5. QED BY <1>2, <1>3, <1>4 DEF SpeechInv

\* A step of the pipeline is one of the pool's, or leaves the pool alone.
LEMMA SpeechSteps ==
  ASSUME [Next]_pipeVars
  PROVE  Speak \/ UNCHANGED speechVars
BY DEF Next, Main, ReadConfigs, NoConfigs, Scrape, Scraped, FilterOne, FilterAll,
   LoadAll, CheckAll, TestModels, TestOne, ModelsTested, Save, Speaks, Opens, Sets, Dies,
   StoreOnly, pipeVars

LEMMA SpeechCorrect == Spec => []SpeechInv
<1>1. Init => SpeechInv
  BY DEF Init, SpeechInit, SpeechInv, PoolTyped, Unused, Informed
<1>2. SpeechInv /\ [Next]_pipeVars => SpeechInv'
  BY SpeechSteps, SpeechLoads, SpeechGives, SpeechRefused, SpeechCharged, SpeechRests
     DEF Speak
<1>3. QED BY <1>1, <1>2, PTL DEF Spec

\* A key the API refused, or whose budget is spent, is given out again only if
\* the pool holds it more than once, or if it was refused only when its
\* subscription was asked for: whatever keys and sources there are.
THEOREM KeysRest == Spec => RestsOnceOut
<1> DEFINE Again(e) == /\ e.key \in refused \/ Spent(e)
                       /\ e.key \in reported \/ Spent(e)
                       /\ \A i, j \in Places(e.key) : i = j
<1>1. ASSUME SpeechInv, [Next]_pipeVars, call = "next", call' = "subscription"
      PROVE  ~Again(pool[held'])
  <2>1. NextKey
    BY <1>1, SpeechSteps
    DEF Speak, ReadConfig, NoConfig, LoadSource, Loaded, NoKey, NoSubscription,
        SubscriptionRefused, Subscribed, TestEnds, TestRefused, ReportUsage, NextSource,
        speechVars
  <2>2. held' \in DOMAIN pool /\ pool[held'].active
    BY <1>1, <2>1, SpeechGives
  <2>3. (\A i, j \in Places(pool[held'].key) : i = j) => Alone(held')
    BY <2>2 DEF Places, Alone
  <2>4. Alone(held') => ~(pool[held'].key \in reported \/ Spent(pool[held']))
    BY <1>1, <2>2 DEF SpeechInv, Informed
  <2>5. QED BY <2>3, <2>4
<1>2. SpeechInv /\ [Next]_pipeVars =>
        [call = "next" /\ call' = "subscription" =>
           LET e == pool[held']
           IN  e.key \in refused \/ Spent(e) =>
                 \/ e.key \notin reported /\ ~Spent(e)
                 \/ \E i, j \in Places(e.key) : i # j]_speechVars
  BY <1>1
<1>3. QED BY <1>2, SpeechCorrect, PTL DEF Spec, RestsOnceOut

-----------------------------------------------------------------------------
(* The pipeline and the database.                                          *)

\* What a scan keeps are fingerprints of findings.
KeptInv == EngineInv /\ kept \subseteq Prints

\* What the filter keeps are fingerprints of what was found.
LEMMA KeptTyped ==
  ASSUME KeptInv, [Next]_pipeVars, EngineInv'
  PROVE  KeptInv'
<1>1. Kept \subseteq Prints
  <2>1. \A i \in DOMAIN reason : raw[i] \in Findings
    BY DEF KeptInv, EngineInv
  <2>2. \A i \in DOMAIN reason : raw[i].print \in Fingerprints
    BY <2>1 DEF Findings
  <2>3. QED BY <2>2, PipelineType DEF Kept
<1>2. kept' \in {kept, Kept, {}}
  BY DEF Next, Main, ReadConfigs, NoConfigs, Scrape, Scraped, FilterOne, FilterAll,
     LoadAll, CheckAll, TestModels, TestOne, ModelsTested, Save, Speaks, Opens, Sets, Dies,
     StoreOnly, pipeVars, memVars
<1>3. QED BY <1>1, <1>2 DEF KeptInv

\* What the pages say is a status a check may give.
LEMMA PageStatusesChecked == PageStatuses \subseteq Checked
BY DEF PageStatuses

\* A step of the pipeline is a step of Store, or does not touch it.
LEMMA PipelineStep ==
  ASSUME KeptInv, [Next]_pipeVars
  PROVE  [StoreNext]_storeVars
<1>1. CASE \/ ReadConfigs \/ Scrape \/ Scraped \/ FilterOne \/ FilterAll \/ TestModels \/ Speaks
           \/ \E w \in Workers : TestOne(w)
  BY <1>1 DEF ReadConfigs, Scrape, Scraped, FilterOne, FilterAll, TestModels, Speaks, TestOne
<1>2. Hunter \in Scans
  BY PipelineType
<1>3. CASE NoConfigs \/ LoadAll \/ ModelsTested
  BY <1>2, <1>3 DEF NoConfigs, LoadAll, ModelsTested, StoreNext, Scan
<1>4. CASE CheckAll
  <2>1. PICK new \in [Present(list[Hunter]) -> PageStatuses] : CheckProviders(Hunter, new)
    BY <1>4 DEF CheckAll
  <2>2. new \in [Present(list[Hunter]) -> Checked]
    BY PageStatusesChecked
  <2>3. QED BY <1>2, <2>1, <2>2 DEF StoreNext, Scan
<1>5. CASE Save
  BY <1>2, <1>5 DEF Save, KeptInv, StoreNext, Scan
<1>6. CASE Sets \/ \E p \in Programs : Opens(p) \/ Dies(p)
  BY <1>6 DEF Sets, Opens, Dies, StoreNext
<1>7. CASE UNCHANGED pipeVars
  BY <1>7 DEF pipeVars
<1>. QED BY <1>1, <1>3, <1>4, <1>5, <1>6, <1>7 DEF Next, Main

LEMMA KeptCorrect == Spec => []KeptInv
<1>1. Init => KeptInv
  BY EngineFresh DEF Init, ScraperInit, EngineInit, KeptInv
<1>2. KeptInv /\ [Next]_pipeVars => KeptInv'
  BY EngineStep, KeptTyped DEF KeptInv
<1>3. QED BY <1>1, <1>2, PTL DEF Spec

\* A run of the pipeline is a run of Store: what is proved of the database there
\* is true of the pipeline in full.
THEOREM PipelineIsStore == Spec => StoreSpec
<1>1. Init => StoreInit
  BY DEF Init
<1>2. KeptInv /\ [Next]_pipeVars => [StoreNext]_storeVars
  BY PipelineStep
<1>3. QED BY <1>1, <1>2, KeptCorrect, PTL DEF Spec, StoreSpec

\* So what Store says of the database is true beside a full scan, too, under the
\* conditions it is said under.  While no program opens the database during
\* another's migration, and providers.json is not an empty list, no key has been
\* put in twice and no migration replaces what a scan has found.  If no opening
\* failed or was killed, and there is a providers.json, a database that is open
\* and that nobody migrates holds what the legacy files held.  And a status is
\* changed only by a request from the web, by a scan that verified, because the
\* config says so, or by a program that had looked before the row was written.
THEOREM DatabaseKept ==
  Spec => /\ []KeysOnce /\ []OpenedIsWhole
          /\ StatusStands /\ FoundStays
BY PipelineIsStore, KeysComeOnce, OpeningMigrates, StatusesStand, FindingsSurvive, PTL

-----------------------------------------------------------------------------
(* Types.                                                                  *)

\* The sources of a scan are those of the config, and it asks them in order.
FeedsTyped == ScraperTypeOK /\ (stage = "config" => feed = 1)

LEMMA FeedsStep ==
  ASSUME FeedsTyped, EngineInv', [Next]_pipeVars
  PROVE  FeedsTyped'
<1>1. /\ feeds \in Seq([kind : Kinds, page : Urls, enabled : BOOLEAN])
      /\ feed \in 1..(Len(feeds) + 1) /\ Len(raw) <= MaxRaw
      /\ Len(feeds) \in Nat
  BY DEF FeedsTyped, ScraperTypeOK
<1>2. raw' \in Seq(Findings)
  BY DEF EngineInv
<1>3. CASE ReadConfigs
  <2>1. \A i \in DOMAIN Feeds : <<Feeds[i]>> \in Seq([kind : Kinds, page : Urls, enabled : BOOLEAN])
    <3> DEFINE Feed == [kind : Kinds, page : Urls, enabled : BOOLEAN]
    <3>1. Feeds \in Seq(Feed)
      BY ScraperType
    <3> HIDE DEF Feed
    <3>2. \A i \in DOMAIN Feeds : Feeds[i] \in Feed
      BY <3>1
    <3>3. \A i \in DOMAIN Feeds : <<Feeds[i]>> \in Seq(Feed)
      BY <3>2
    <3>4. QED BY <3>3 DEF Feed
  <2>2. /\ feeds' \in Seq([kind : Kinds, page : Urls, enabled : BOOLEAN])
        /\ feed' = 1 /\ raw' = raw /\ stage' = "scrape"
    BY <1>3, <2>1, ScraperType DEF ReadConfigs, ReadSources, FeedsTyped
  <2>3. Len(feeds') \in Nat
    BY <2>2
  <2>4. QED BY <1>1, <1>2, <2>2, <2>3 DEF FeedsTyped, ScraperTypeOK
<1>4. CASE Scrape
  <2>1. feeds' = feeds /\ stage' = stage /\ stage = "scrape"
    BY <1>4 DEF Scrape, NextFeed, Found
  <2>2. CASE NextFeed
    BY <1>1, <1>2, <2>1, <2>2 DEF NextFeed, Asking, FeedsTyped, ScraperTypeOK
  <2>3. ASSUME NEW f \in Findings, Found(f)
        PROVE  FeedsTyped'
    <3>1. Len(raw') = Len(raw) + 1 /\ Len(raw) < MaxRaw /\ feed' = feed
      BY <2>3 DEF Found, FeedsTyped, ScraperTypeOK
    <3>2. Len(raw) \in Nat
      BY DEF FeedsTyped, ScraperTypeOK
    <3>3. QED BY <1>1, <1>2, <2>1, <3>1, <3>2, ScraperType DEF FeedsTyped, ScraperTypeOK
  <2>4. QED BY <1>4, <2>2, <2>3 DEF Scrape
<1>5. CASE ForgetFindings
  BY <1>2, <1>5, ScraperType DEF ForgetFindings, FeedsTyped, ScraperTypeOK
<1>6. CASE UNCHANGED scraperVars /\ (stage' = stage \/ stage' # "config")
  BY <1>6 DEF scraperVars, FeedsTyped, ScraperTypeOK
<1>7. CASE \E p \in Programs : Dies(p)
  BY <1>5, <1>6, <1>7 DEF Dies, memVars, findVars
<1>8. CASE \/ NoConfigs \/ Scraped \/ FilterOne \/ LoadAll \/ CheckAll \/ TestModels
           \/ ModelsTested \/ Save \/ Speaks \/ Sets
           \/ \E w \in Workers : TestOne(w)
           \/ \E p \in Programs : Opens(p)
  <2>1. UNCHANGED scraperVars
    BY <1>8 DEF NoConfigs, Scraped, FilterOne, ApplyFilters, LoadAll, CheckAll, TestModels,
       ModelsTested, Save, Speaks, Sets, TestOne, Opens, StoreOnly, memVars, findVars
  <2>2. stage' \in {stage, "filter"}
    BY <1>8 DEF NoConfigs, Scraped, FilterOne, LoadAll, CheckAll, TestModels,
       ModelsTested, Save, Speaks, Sets, TestOne, Opens, StoreOnly, memVars
  <2>3. QED BY <1>6, <2>1, <2>2
<1>9. CASE FilterAll
  BY <1>5, <1>9 DEF FilterAll
<1>10. CASE UNCHANGED pipeVars
  BY <1>6, <1>10 DEF pipeVars, memVars, findVars
<1>11. QED BY <1>3, <1>4, <1>7, <1>8, <1>9, <1>10 DEF Next, Main

\* What the filter has seen are fingerprints and links.
LEMMA EngineTyped == EngineInv => EngineTypeOK
<1>1. SUFFICES ASSUME EngineInv PROVE EngineTypeOK
  OBVIOUS
<1>2. \A i \in DOMAIN reason : raw[i] \in Findings
  BY <1>1 DEF EngineInv
<1>3. \A i \in DOMAIN reason : raw[i].print \in Fingerprints
  BY <1>2 DEF Findings
<1>4. seenPrints \subseteq Fingerprints
  BY <1>1, <1>3 DEF EngineInv, PrintsSeen
<1>5. seenURLs \subseteq Links
  BY <1>1 DEF EngineInv, UrlsSeen
<1>6. QED BY <1>1, <1>4, <1>5 DEF EngineInv, EngineTypeOK

\* A source is being loaded or verified, and the pool's index is one of its own.
Verifying == {"next", "subscription", "test", "usage"}
SpeechTyped == /\ SpeechTypeOK
               /\ call = "config" => source = 1
               /\ call \in Verifying => source <= Len(plan)

LEMMA SpeechTypes ==
  ASSUME SpeechInv, SpeechInv', SpeechTyped, Speak \/ UNCHANGED speechVars
  PROVE  SpeechTyped'
<1>1. /\ plan' \in SpeechPlans \cup {<< >>} /\ pool' \in Seq(Entry)
      /\ refused' \subseteq SpeechKeys /\ reported' \subseteq refused'
      /\ charged' \in [SpeechKeys -> Nat]
  BY DEF SpeechInv, PoolTyped
<1>2. /\ \A p \in SpeechPlans \cup {<< >>} : Len(p) \in Nat /\ (Len(p) = 0 => p = << >>)
      /\ plan \in SpeechPlans \cup {<< >>}
      /\ Len(pool) \in Nat /\ Len(pool') \in Nat
  BY <1>1, SpeechType DEF SpeechInv, PoolTyped
<1>3. /\ current \in 1..Len(pool) \cup {1} /\ source \in 1..(Len(plan) + 1)
      /\ call \in Calls /\ held \in 0..Len(pool)
  BY DEF SpeechTyped, SpeechTypeOK
<1>4. SUFFICES /\ current' \in 1..Len(pool') \cup {1}
               /\ source' \in 1..(Len(plan') + 1) /\ call' \in Calls
               /\ held' \in 0..Len(pool')
               /\ call' = "config" => source' = 1
               /\ call' \in Verifying => source' <= Len(plan')
  BY <1>1 DEF SpeechTyped, SpeechTypeOK
<1>5. CASE UNCHANGED speechVars
  BY <1>5 DEF speechVars, SpeechTyped, SpeechTypeOK
<1>6. CASE ReadConfig \/ NoConfig
  <2>1. /\ source' = source /\ source = 1 /\ call' \in {"load", "over"}
        /\ UNCHANGED <<pool, current, held>>
    BY <1>6 DEF ReadConfig, NoConfig, SpeechTyped
  <2>2. Len(plan') \in Nat
    BY <1>1, <1>2
  <2>3. QED BY <1>3, <2>1, <2>2 DEF Calls, Verifying
<1>7. CASE LoadSource
  <2>1. /\ source <= Len(plan) /\ source' = source + 1 /\ call' = "load"
        /\ UNCHANGED <<plan, current, held>>
    BY <1>7 DEF LoadSource
  <2>2. Len(pool') >= Len(pool)
    <3>1. plan[source] \in Sources
      BY <1>2, <1>3, <2>1, SpeechType
    <3>2. EntriesOf(plan[source]) \in Seq(Entry)
      BY <3>1, NewEntries
    <3>3. pool \in Seq(Entry) /\ pool' = pool \o EntriesOf(plan[source])
      BY <1>7 DEF LoadSource, SpeechInv, PoolTyped
    <3>4. QED BY <3>2, <3>3
  <2>3. QED BY <1>2, <1>3, <2>1, <2>2 DEF Calls, Verifying
<1>8. CASE Loaded
  BY <1>2, <1>3, <1>8 DEF Loaded, Calls, Verifying
<1>9. CASE NextKey
  <2>1. PICK n \in 1..Len(pool) :
          /\ held' = Round(n) /\ current' = (Round(n) % Len(pool)) + 1
    BY <1>9 DEF NextKey
  <2>2. Round(n) \in 1..Len(pool) /\ current' \in 1..Len(pool)
    BY <2>1, RoundInPool DEF SpeechInv
  <2>3. UNCHANGED <<plan, pool, source>> /\ call = "next" /\ call' = "subscription"
    BY <1>9 DEF NextKey
  <2>4. source <= Len(plan)
    BY <2>3 DEF SpeechTyped, Verifying
  <2>5. QED BY <1>2, <1>3, <2>1, <2>2, <2>3, <2>4 DEF Calls
<1>10. CASE NoKey \/ NoSubscription \/ SubscriptionRefused \/ ReportUsage
  <2>1. /\ call \in Verifying /\ NextSource
        /\ UNCHANGED <<plan, current>>
    BY <1>10 DEF NoKey, NoSubscription, SubscriptionRefused, ReportUsage, Verifying
  <2>2. Len(pool') = Len(pool)
    BY <1>10 DEF NoKey, NoSubscription, SubscriptionRefused, ReportUsage, SpeechInv,
       PoolTyped
  <2>3. source \in 1..Len(plan)
    BY <1>2, <1>3, <2>1 DEF SpeechTyped
  <2>4. source' = source + 1 /\ held' = 0
        /\ call' = IF source = Len(plan) THEN "over" ELSE "next"
    BY <2>1 DEF NextSource
  <2>5. QED BY <1>2, <1>3, <2>1, <2>2, <2>3, <2>4 DEF Calls, Verifying
<1>11. CASE Subscribed \/ TestEnds \/ TestRefused
  <2>1. /\ call \in Verifying /\ call' \in {"test", "usage"}
        /\ UNCHANGED <<plan, current, source, held>>
    BY <1>11 DEF Subscribed, TestEnds, TestRefused, Verifying
  <2>2. Len(pool') = Len(pool)
    BY <1>11 DEF Subscribed, TestEnds, TestRefused, SpeechInv, PoolTyped
  <2>3. QED BY <1>3, <2>1, <2>2 DEF Calls, SpeechTyped
<1>12. QED BY <1>5, <1>6, <1>7, <1>8, <1>9, <1>10, <1>11 DEF Speak

LEMMA SpeechIsTyped == Spec => []SpeechTyped
<1>1. Init => SpeechTyped
  BY DEF Init, SpeechInit, SpeechTyped, SpeechTypeOK, Calls, Verifying
<1>2. SpeechInv /\ SpeechInv' /\ SpeechTyped /\ [Next]_pipeVars => SpeechTyped'
  BY SpeechSteps, SpeechTypes
<1>3. QED BY <1>1, <1>2, SpeechCorrect, PTL DEF Spec

LEMMA FeedsAreTyped == Spec => []FeedsTyped
<1>1. Init => FeedsTyped
  BY ScraperType DEF Init, ScraperInit, FeedsTyped, ScraperTypeOK
<1>2. FeedsTyped /\ KeptInv' /\ [Next]_pipeVars => FeedsTyped'
  BY FeedsStep DEF KeptInv
<1>3. QED BY <1>1, <1>2, KeptCorrect, PTL DEF Spec

\* How far a scan is.
StageTyped == verify \in BOOLEAN /\ stage \in Progress

LEMMA StagesAreTyped == Spec => []StageTyped
<1>1. Init => StageTyped
  BY DEF Init, StageTyped, Progress
<1>2. StageTyped /\ [Next]_pipeVars => StageTyped'
  <2>1. ASSUME [Next]_pipeVars
        PROVE  verify' = verify /\ stage' \in {stage} \cup Progress
    BY <2>1 DEF Next, Main, ReadConfigs, NoConfigs, Scrape, Scraped, FilterOne, FilterAll,
       LoadAll, CheckAll, TestModels, TestOne, ModelsTested, Save, Speaks, Opens, Sets,
       Dies, StoreOnly, pipeVars, memVars, Progress
  <2>2. QED BY <2>1 DEF StageTyped
<1>3. QED BY <1>1, <1>2, PTL DEF Spec

\* Every variable of the pipeline has its type, those of the scraper, of the
\* filter, of the two pools and of the database included.
THEOREM PipelineTypes == Spec => []PipelineTypeOK
<1>1. StoreTypeOK /\ FeedsTyped /\ KeptInv /\ ModelsInv /\ SpeechTyped /\ StageTyped
        => PipelineTypeOK
  BY EngineTyped DEF FeedsTyped, KeptInv, ModelsInv, SpeechTyped, StageTyped, PipelineTypeOK
<1>2. QED BY <1>1, PipelineIsStore, StoreTypes, FeedsAreTyped, KeptCorrect, ModelsCorrect,
             SpeechIsTyped, StagesAreTyped, PTL
=============================================================================
