--------------------------- MODULE ScanJobsProofs ---------------------------
(***************************************************************************)
(* Whatever the gap, the length of a scan and the number of clients: the   *)
(* scan endpoint keeps the discipline of RateLimit, runs at most one scan  *)
(* at a time, and starts them at least ScanGap apart.                      *)
(*                                                                         *)
(* One scan at a time is inductive together with the types: a scan at work *)
(* is the limiter's current one and marked running, so tryStart refuses.   *)
(* The distance between starts needs that lastScanAt is the last of them,  *)
(* which no panic and no reset disturbs.                                   *)
(***************************************************************************)
EXTENDS ScanJobs, RateLimitProofs

\* Every step of the scan endpoint is one of the middleware, or none.
LEMMA ScanStepLimits == [ScanNext]_scanVars => [Next]_limitVars
<1> SUFFICES ASSUME [ScanNext]_scanVars PROVE [Next]_limitVars
  OBVIOUS
<1>1. CASE STick
  BY <1>1 DEF STick, Next
<1>2. ASSUME NEW c \in Clients, SArrive(c) \/ SEnter(c) \/ SRefuse(c) \/ SLeave(c)
      PROVE  Next
  BY <1>2 DEF SArrive, SEnter, SRefuse, SLeave, Next
<1>3. ASSUME NEW c \in Clients, Handle(c)
      PROVE  UNCHANGED limitVars
  BY <1>3 DEF Handle, Start, TurnAway, ReadCurrent, ReadStatus, ReadState, ReadNext
<1>4. ASSUME NEW r \in working, Finish(r) \/ Panic(r)
      PROVE  UNCHANGED limitVars
  BY <1>4 DEF Finish, Panic
<1>5. CASE UNCHANGED scanVars
  BY <1>5 DEF scanVars
<1>6. QED
  BY <1>1, <1>2, <1>3, <1>4, <1>5 DEF ScanNext

\* The endpoint implements the middleware's specification.
THEOREM ScanImplementsLimit == ScanSpec => LimitSpec
<1>1. ScanInit => Init
  BY DEF ScanInit
<1>2. QED
  BY <1>1, ScanStepLimits, PTL DEF ScanSpec, LimitSpec

\* So behind the scan endpoint too no address gets more than MaxRequests requests
\* through within Window, and a refusal means what it means there.
THEOREM EndpointIsLimited == ScanSpec => []WindowBound /\ RefusedJustIfCrowded
  BY ScanImplementsLimit, WindowsHold, RefusalsExplained, PTL

-----------------------------------------------------------------------------

\* What the limiter knows of the scans started so far.
JobsOK ==
  /\ now \in Nat
  /\ runs \in Seq({"running", "completed"})
  /\ current \in 0..Len(runs)
  /\ working \subseteq 1..Len(runs)
  /\ startedAt \in Seq(Nat) /\ Len(startedAt) = Len(runs)
  /\ lastScanAt \in Nat \cup {Never}
  /\ Len(runs) > 0 => lastScanAt # Never /\ startedAt[Len(runs)] = lastScanAt
  /\ \A i, j \in 1..Len(runs) : i <= j => startedAt[i] <= startedAt[j]
  /\ OneScan
  /\ \A i, j \in 1..Len(runs) : i < j => startedAt[j] - startedAt[i] >= ScanGap

LEMMA JobsInit == ScanInit => JobsOK
<1>1. Len(<< >>) = 0
  BY EmptySeq
<1>2. QED
  BY <1>1, EmptySeq DEF ScanInit, Init, JobsOK, OneScan, Never

LEMMA JobsStep == JobsOK /\ [ScanNext]_scanVars => JobsOK'
<1> SUFFICES ASSUME JobsOK, [ScanNext]_scanVars PROVE JobsOK'
  OBVIOUS
<1> USE ScanType
<1> DEFINE n == Len(runs)
<1>0. n \in Nat
  BY LenProperties DEF JobsOK
<1>1. ASSUME UNCHANGED jobVars, now' \in Nat
      PROVE  JobsOK'
  BY <1>1 DEF JobsOK, OneScan, jobVars
<1>2. CASE STick
  <2>1. now' \in Nat /\ UNCHANGED jobVars
    BY <1>2 DEF STick, Tick, JobsOK
  <2>2. QED
    BY <1>1, <2>1
<1>3. ASSUME NEW c \in Clients, SArrive(c) \/ SEnter(c) \/ SRefuse(c) \/ SLeave(c)
      PROVE  JobsOK'
  <2>1. now' = now /\ UNCHANGED jobVars
    BY <1>3 DEF SArrive, SEnter, SRefuse, SLeave, Arrive, Enter, Refuse, Leave
  <2>2. QED
    BY <1>1, <2>1 DEF JobsOK
<1>4. ASSUME NEW c \in Clients, Start(c)
      PROVE  JobsOK'
  <2>1. /\ now' = now /\ runs' = Append(runs, "running") /\ current' = n + 1
        /\ lastScanAt' = now /\ working' = working \cup {n + 1}
        /\ startedAt' = Append(startedAt, now)
        /\ CanStart
    BY <1>4 DEF Start, limitVars
  <2>2. /\ runs' \in Seq({"running", "completed"}) /\ Len(runs') = n + 1
        /\ runs'[n + 1] = "running"
    BY <2>1, AppendProperties DEF JobsOK
  <2>3. /\ startedAt' \in Seq(Nat) /\ Len(startedAt') = n + 1
        /\ startedAt'[n + 1] = now
        /\ \A i \in 1..n : startedAt'[i] = startedAt[i]
    BY <2>1, AppendProperties DEF JobsOK
  <2>4. working = {}
    BY <2>1 DEF CanStart, Running, JobsOK, OneScan
  <2>5. \A i \in 1..n : /\ startedAt[i] \in Nat /\ now - startedAt[i] >= ScanGap
                        /\ startedAt[i] <= now
    <3> SUFFICES ASSUME NEW i \in 1..n
                 PROVE  /\ startedAt[i] \in Nat /\ now - startedAt[i] >= ScanGap
                        /\ startedAt[i] <= now
      OBVIOUS
    <3>1. startedAt[i] \in Nat /\ n > 0
      BY <1>0, ElementOfSeq DEF JobsOK
    <3>2. lastScanAt \in Nat /\ startedAt[i] <= lastScanAt
      BY <1>0, <3>1 DEF JobsOK, Never
    <3>3. now - lastScanAt >= ScanGap
      BY <2>1, <3>1, <3>2 DEF CanStart, GapOver, JobsOK, Never
    <3>4. QED
      BY <3>1, <3>2, <3>3 DEF JobsOK
  <2> HIDE DEF n
  <2>a. \A i, j \in 1..n : /\ i <= j => startedAt[i] <= startedAt[j]
                           /\ i < j => startedAt[j] - startedAt[i] >= ScanGap
    BY DEF JobsOK, n
  <2>6. ASSUME NEW i \in 1..(n + 1), NEW j \in 1..(n + 1)
        PROVE  /\ i <= j => startedAt'[i] <= startedAt'[j]
               /\ i < j => startedAt'[j] - startedAt'[i] >= ScanGap
    <3>1. now \in Nat
      BY DEF JobsOK
    <3>2. CASE j \in 1..n
      <4>1. i <= j => i \in 1..n
        BY <1>0, <3>2
      <4>2. QED
        BY <2>3, <2>a, <3>2, <4>1
    <3>3. CASE j = n + 1
      <4>1. i \in 1..n \/ i = n + 1
        BY <1>0
      <4>2. QED
        BY <1>0, <2>3, <2>5, <3>1, <3>3, <4>1
    <3>4. QED
      BY <1>0, <3>2, <3>3
  <2>8. OneScan'
    BY <2>1, <2>2, <2>4 DEF OneScan
  <2>9. now' \in Nat /\ lastScanAt' \in Nat /\ lastScanAt' # Never
    BY <2>1 DEF JobsOK, Never
  <2>10. current' \in 0..(n + 1) /\ working' \subseteq 1..(n + 1)
    BY <1>0, <2>1, <2>4
  <2>11. QED
    BY <1>0, <2>1, <2>2, <2>3, <2>6, <2>8, <2>9, <2>10 DEF JobsOK
<1>5. ASSUME NEW c \in Clients,
             TurnAway(c) \/ ReadCurrent(c) \/ ReadStatus(c) \/ ReadState(c) \/ ReadNext(c)
      PROVE  JobsOK'
  <2>1. now' = now /\ UNCHANGED jobVars
    BY <1>5 DEF TurnAway, ReadCurrent, ReadStatus, ReadState, ReadNext, limitVars
  <2>2. QED
    BY <1>1, <2>1 DEF JobsOK
<1>6. ASSUME NEW r \in working, Finish(r)
      PROVE  JobsOK'
  <2>1. /\ runs' \in Seq({"running", "completed"}) /\ Len(runs') = n
        /\ now' = now /\ current' = current /\ startedAt' = startedAt
        /\ lastScanAt' = lastScanAt
    <3>1. /\ now' = now /\ current' = current /\ startedAt' = startedAt
          /\ lastScanAt' = lastScanAt
      BY <1>6 DEF Finish, limitVars
    <3>2. runs' = runs \/ runs' = [runs EXCEPT ![r] = "completed"]
      BY <1>6 DEF Finish
    <3>3. r \in 1..Len(runs)
      BY DEF JobsOK
    <3>4. [runs EXCEPT ![r] = "completed"] \in Seq({"running", "completed"})
          /\ Len([runs EXCEPT ![r] = "completed"]) = Len(runs)
      BY <3>3, ExceptSeq DEF JobsOK
    <3>5. QED
      BY <3>1, <3>2, <3>4 DEF JobsOK
  <2>2. working' = {}
    <3>1. working = {r}
      BY DEF JobsOK, OneScan
    <3>2. QED
      BY <1>6, <3>1 DEF Finish
  <2>3. QED
    BY <2>1, <2>2 DEF JobsOK, OneScan
<1>7. ASSUME NEW r \in working, Panic(r)
      PROVE  JobsOK'
  <2>1. /\ now' = now /\ runs' = runs /\ startedAt' = startedAt
        /\ lastScanAt' = lastScanAt /\ current' = 0
    BY <1>7 DEF Panic, limitVars
  <2>2. working' = {}
    <3>1. working = {r}
      BY DEF JobsOK, OneScan
    <3>2. QED
      BY <1>7, <3>1 DEF Panic
  <2>3. QED
    BY <1>0, <2>1, <2>2 DEF JobsOK, OneScan
<1>8. CASE UNCHANGED scanVars
  BY <1>1, <1>8 DEF scanVars, limitVars, JobsOK
<1>9. QED
  BY <1>2, <1>3, <1>4, <1>5, <1>6, <1>7, <1>8 DEF ScanNext, Handle

\* The invariant the two results below are read off.
THEOREM JobsCorrect == ScanSpec => []JobsOK
  BY JobsInit, JobsStep, PTL DEF ScanSpec

\* At most one scan is at work at any time, and the limiter shows it.
THEOREM OneScanAtATime == ScanSpec => []OneScan
<1>1. JobsOK => OneScan
  BY DEF JobsOK
<1>2. QED
  BY <1>1, JobsCorrect, PTL

\* Scans start at least ScanGap apart, panics and resets included.
THEOREM ScansStartApart == ScanSpec => []StartsApart
<1>1. JobsOK => StartsApart
  BY LenProperties DEF JobsOK, StartsApart
<1>2. QED
  BY <1>1, JobsCorrect, PTL

-----------------------------------------------------------------------------
(* Handlers.                                                               *)

\* What a handler knows: it is at a step, and has an answer, only while it is
\* served; and nobody starts a scan between its two readings.
HandsOK ==
  /\ ask \in [Clients -> {"GET", "POST"}]
  /\ step \in [Clients -> {"none", "begun", "lost", "seen", "stopped", "answered"}]
  /\ answer \in [Clients -> {"none", "accepted", "conflict", "limited", "panic",
                             "running", "free", "wait"}]
  /\ seen \in [Clients -> 0..Len(runs)]
  /\ panics \in 0..MaxPanics
  /\ \A c \in Clients : pc[c] # "serving" => step[c] = "none" /\ answer[c] = "none"
  /\ \A c \in Clients : step[c] = "stopped" => ~Running
  /\ OfferKept

\* The limiter, the scans and the handlers together.
EndpointOK == LimitTypeOK /\ JobsOK /\ HandsOK

\* The clock keeps an offer: the gap, once over, stays over.
LEMMA OfferAges ==
  ASSUME JobsOK, NEW t \in Nat, t >= now, GapOver
  PROVE  lastScanAt = Never \/ t - lastScanAt >= ScanGap
BY ScanType DEF JobsOK, GapOver, Never

\* What the middleware does concerns one client's handler.
LEMMA HandsMiddle ==
  ASSUME EndpointOK,
         \/ STick
         \/ \E c \in Clients : SArrive(c) \/ SEnter(c) \/ SRefuse(c) \/ SLeave(c)
  PROVE  HandsOK'
<1>1. CASE STick
  <2>1. /\ now' = now + 1 /\ pc' = pc /\ now \in Nat
        /\ UNCHANGED <<ask, step, seen, answer, runs, current, lastScanAt, panics>>
    BY <1>1 DEF STick, Tick, handVars, jobVars, EndpointOK, JobsOK
  <2>2. OfferKept'
    BY <2>1, OfferAges DEF EndpointOK, HandsOK, OfferKept, CanStart, Running, GapOver
  <2>3. QED
    BY <2>1, <2>2 DEF EndpointOK, HandsOK, Running
<1>2. ASSUME NEW c \in Clients, SArrive(c) \/ SEnter(c) \/ SRefuse(c) \/ SLeave(c)
      PROVE  HandsOK'
  <2>1. /\ UNCHANGED <<now, runs, current, lastScanAt, panics>>
        /\ \A d \in Clients : d # c => pc'[d] = pc[d]
    BY <1>2 DEF SArrive, SEnter, SRefuse, SLeave, Arrive, Enter, Refuse, Leave, jobVars,
       EndpointOK, LimitTypeOK
  <2>2. Running' = Running /\ CanStart' = CanStart
    BY <2>1 DEF Running, CanStart, GapOver
  <2>3. CASE SArrive(c) \/ SRefuse(c)
    <3>1. /\ pc[c] = "waiting" \/ pc[c] = "idle"
          /\ UNCHANGED <<step, answer, seen>>
          /\ ask' \in [Clients -> {"GET", "POST"}]
      BY <2>3 DEF SArrive, SRefuse, Arrive, Refuse, handVars, EndpointOK, HandsOK
    <3>2. step[c] = "none" /\ answer[c] = "none"
      BY <3>1 DEF EndpointOK, HandsOK
    <3>3. QED
      BY <2>1, <2>2, <3>1, <3>2 DEF EndpointOK, HandsOK, OfferKept
  <2>4. CASE SEnter(c)
    <3>1. /\ UNCHANGED <<ask, answer, seen>> /\ step' = [step EXCEPT ![c] = "begun"]
          /\ pc[c] = "waiting" /\ pc' = [pc EXCEPT ![c] = "serving"]
      BY <2>4 DEF SEnter, Enter
    <3>2. pc'[c] = "serving"
      BY <3>1 DEF EndpointOK, LimitTypeOK
    <3>3. QED
      BY <2>1, <2>2, <3>1, <3>2 DEF EndpointOK, HandsOK, OfferKept
  <2>5. CASE SLeave(c)
    <3>1. /\ ask' = [ask EXCEPT ![c] = "GET"] /\ step' = [step EXCEPT ![c] = "none"]
          /\ seen' = [seen EXCEPT ![c] = 0] /\ answer' = [answer EXCEPT ![c] = "none"]
      BY <2>5 DEF SLeave
    <3>2. Len(runs) \in Nat
      BY LenProperties DEF EndpointOK, JobsOK
    <3>3. QED
      BY <2>1, <2>2, <3>1, <3>2 DEF EndpointOK, HandsOK, OfferKept
  <2>6. QED
    BY <1>2, <2>3, <2>4, <2>5
<1>3. QED
  BY <1>1, <1>2

\* A handler that starts a scan is the only one at work: no offer is out.
LEMMA HandsStart ==
  ASSUME EndpointOK, NEW c \in Clients, Start(c)
  PROVE  HandsOK'
<1>1. /\ pc[c] = "serving" /\ pc' = pc
      /\ answer' = [answer EXCEPT ![c] = "accepted"]
      /\ step' = [step EXCEPT ![c] = "answered"]
      /\ UNCHANGED <<ask, seen, panics>>
      /\ runs' = Append(runs, "running")
  BY DEF Start, Serving, Answer, limitVars
<1>2. Len(runs') = Len(runs) + 1 /\ Len(runs) \in Nat
  BY <1>1, AppendProperties, LenProperties DEF EndpointOK, JobsOK
<1>3. \A d \in Clients : d # c => pc[d] # "serving"
  BY <1>1 DEF EndpointOK, LimitTypeOK
<1>4. \A d \in Clients : step'[d] # "stopped" /\ answer'[d] # "free"
  BY <1>1, <1>3 DEF EndpointOK, HandsOK
<1>5. OfferKept'
  BY <1>4 DEF OfferKept
<1>6. seen' \in [Clients -> 0..Len(runs')]
  BY <1>1, <1>2 DEF EndpointOK, HandsOK
<1>7. QED
  BY <1>1, <1>4, <1>5, <1>6 DEF EndpointOK, HandsOK

\* A reading goes into one handler's answer.
LEMMA HandsRead ==
  ASSUME EndpointOK, NEW c \in Clients,
         TurnAway(c) \/ ReadCurrent(c) \/ ReadStatus(c) \/ ReadState(c) \/ ReadNext(c)
  PROVE  HandsOK'
<1>1. /\ pc[c] = "serving"
      /\ UNCHANGED <<now, pc, ask, runs, current, lastScanAt, panics>>
  BY DEF TurnAway, ReadCurrent, ReadStatus, ReadState, ReadNext, Serving, limitVars, jobVars
<1>2. Running' = Running /\ CanStart' = CanStart
  BY <1>1 DEF Running, CanStart, GapOver
<1>3. /\ \/ step' = step
         \/ \E st \in {"lost", "seen", "stopped", "answered"} : step' = [step EXCEPT ![c] = st]
      /\ \/ answer' = answer
         \/ \E a \in {"conflict", "limited", "panic", "running", "free", "wait"} :
              answer' = [answer EXCEPT ![c] = a]
      /\ seen' = seen \/ seen' = [seen EXCEPT ![c] = current]
  <2>1. CASE TurnAway(c)
    BY <2>1 DEF TurnAway
  <2>2. CASE ReadCurrent(c)
    BY <2>2 DEF ReadCurrent, Answer
  <2>3. CASE ReadStatus(c)
    BY <2>3 DEF ReadStatus, Answer
  <2>4. CASE ReadState(c)
    BY <2>4 DEF ReadState, Answer
  <2>5. CASE ReadNext(c)
    BY <2>5 DEF ReadNext, Answer
  <2>6. QED
    BY <2>1, <2>2, <2>3, <2>4, <2>5
<1>4. /\ \A d \in Clients : d # c => step'[d] = step[d] /\ answer'[d] = answer[d]
      /\ step' \in [Clients -> {"none", "begun", "lost", "seen", "stopped", "answered"}]
      /\ answer' \in [Clients -> {"none", "accepted", "conflict", "limited", "panic",
                                  "running", "free", "wait"}]
      /\ seen' \in [Clients -> 0..Len(runs)]
  <2>1. /\ \A d \in Clients : d # c => step'[d] = step[d]
        /\ step' \in [Clients -> {"none", "begun", "lost", "seen", "stopped", "answered"}]
    <3>1. step \in [Clients -> {"none", "begun", "lost", "seen", "stopped", "answered"}]
      BY DEF EndpointOK, HandsOK
    <3>2. CASE step' = step
      BY <3>1, <3>2
    <3>3. ASSUME NEW st \in {"lost", "seen", "stopped", "answered"},
                 step' = [step EXCEPT ![c] = st]
          PROVE  /\ \A d \in Clients : d # c => step'[d] = step[d]
                 /\ step' \in [Clients -> {"none", "begun", "lost", "seen", "stopped",
                                           "answered"}]
      BY <3>1, <3>3
    <3>4. QED
      BY <1>3, <3>2, <3>3
  <2>2. /\ \A d \in Clients : d # c => answer'[d] = answer[d]
        /\ answer' \in [Clients -> {"none", "accepted", "conflict", "limited", "panic",
                                    "running", "free", "wait"}]
    BY SMTT(60), <1>3 DEF EndpointOK, HandsOK
  <2>3. seen' \in [Clients -> 0..Len(runs)]
    BY <1>3 DEF EndpointOK, HandsOK, JobsOK
  <2>4. QED
    BY <2>1, <2>2, <2>3
<1>5. step'[c] = "stopped" => ~Running
  BY <1>1 DEF TurnAway, ReadCurrent, ReadStatus, ReadState, ReadNext, Answer,
     EndpointOK, HandsOK
<1>6. answer'[c] = "free" => CanStart
  <2>1. CASE ReadNext(c)
    <3>1. ~Running
      BY <2>1 DEF ReadNext, Serving, EndpointOK, HandsOK
    <3>2. NoneToWaitFor => GapOver
      BY ScanType DEF NoneToWaitFor, GapOver, EndpointOK, JobsOK, Never
    <3>3. QED
      BY <2>1, <3>1, <3>2 DEF ReadNext, Answer, CanStart, EndpointOK, HandsOK
  <2>2. CASE TurnAway(c) \/ ReadCurrent(c) \/ ReadStatus(c) \/ ReadState(c)
    BY <2>2 DEF TurnAway, ReadCurrent, ReadStatus, ReadState, Answer,
       EndpointOK, HandsOK, OfferKept
  <2>3. QED
    BY <2>1, <2>2
<1>7. OfferKept'
  BY <1>2, <1>4, <1>6 DEF EndpointOK, HandsOK, OfferKept
<1>8. QED
  BY <1>1, <1>2, <1>4, <1>5, <1>7 DEF EndpointOK, HandsOK

\* The end of a scan makes nobody's answer false.
LEMMA HandsEnd ==
  ASSUME EndpointOK, NEW r \in working, Finish(r) \/ Panic(r)
  PROVE  HandsOK'
<1>1. UNCHANGED <<now, pc, ask, step, seen, answer, lastScanAt>>
  BY DEF Finish, Panic, limitVars, handVars
<1>2. Len(runs') = Len(runs) /\ panics' \in 0..MaxPanics
  BY SMTT(60), ExceptSeq, ScanType DEF Finish, Panic, EndpointOK, JobsOK, HandsOK
<1>3. ~Running'
  BY ExceptSeq DEF Finish, Panic, EndpointOK, JobsOK, OneScan, Running
<1>4. OfferKept'
  BY <1>1, <1>3 DEF EndpointOK, HandsOK, OfferKept, CanStart, GapOver
<1>5. QED
  BY <1>1, <1>2, <1>3, <1>4 DEF EndpointOK, HandsOK

\* No step makes an answer false before it is given.
LEMMA HandsStep ==
  ASSUME EndpointOK, [ScanNext]_scanVars
  PROVE  HandsOK'
<1>1. CASE UNCHANGED scanVars
  BY <1>1 DEF scanVars, limitVars, handVars, jobVars, EndpointOK, HandsOK, OfferKept,
     CanStart, Running, GapOver
<1>2. QED
  BY <1>1, HandsMiddle, HandsStart, HandsRead, HandsEnd DEF ScanNext, Handle

LEMMA HandsInit == ScanInit => HandsOK
BY ScanType DEF ScanInit, Init, HandsOK, OfferKept, Running

\* The types hold, and so does every offer, however many clients ask and however
\* scans end.
THEOREM EndpointCorrect == ScanSpec => []EndpointOK
<1>1. ScanInit => HandsOK
  BY HandsInit
<1>2. LimitTypeOK /\ JobsOK /\ HandsOK /\ [ScanNext]_scanVars => HandsOK'
  BY HandsStep DEF EndpointOK
<1>3. LimitTypeOK /\ JobsOK /\ HandsOK => EndpointOK
  BY DEF EndpointOK
<1>4. QED
  BY <1>1, <1>2, <1>3, ScanImplementsLimit, LimitTypes, JobsCorrect, PTL DEF ScanSpec

\* Every state of the scan endpoint is type correct.
THEOREM ScanTypes == ScanSpec => []ScanTypeOK
<1>1. EndpointOK => ScanTypeOK
  BY DEF EndpointOK, JobsOK, HandsOK, ScanTypeOK
<1>2. QED
  BY <1>1, EndpointCorrect, PTL

\* A status that shows neither a running scan nor a time to wait for is an offer
\* the limiter keeps until the answer is given.
THEOREM OffersAreKept == ScanSpec => []OfferKept
<1>1. EndpointOK => OfferKept
  BY DEF EndpointOK, HandsOK
<1>2. QED
  BY <1>1, EndpointCorrect, PTL

-----------------------------------------------------------------------------
(* Refusals.                                                               *)

\* The scan shown as running is at work, no scan is at work for longer than
\* ScanTime, and there is no last start without a scan.
WorkOK == /\ Running => current \in working
          /\ \A r \in working : now - startedAt[r] <= ScanTime
          /\ lastScanAt # Never => Len(runs) > 0

\* What TurnedAwaySoonAfterStart says of a state with a request to turn away.
LateEnough == ~CanStart => \E i \in DOMAIN startedAt : \/ now - startedAt[i] < ScanGap
                                                       \/ now - startedAt[i] <= ScanTime

\* A start makes the limiter show a scan that has just begun; its end, whatever
\* it is, makes the limiter show none.
LEMMA WorkStep ==
  ASSUME JobsOK, WorkOK, [ScanNext]_scanVars
  PROVE  WorkOK'
<1>1. CASE STick
  <2>1. /\ now' = now + 1 /\ now \in Nat
        /\ UNCHANGED <<runs, current, lastScanAt, working, startedAt>>
        /\ \A r \in working : now - startedAt[r] < ScanTime
    BY <1>1 DEF STick, Tick, jobVars, JobsOK
  <2>2. \A r \in working : startedAt[r] \in Nat
    BY ElementOfSeq DEF JobsOK
  <2>3. QED
    BY <2>1, <2>2, ScanType DEF WorkOK, Running
<1>2. ASSUME NEW c \in Clients, Start(c)
      PROVE  WorkOK'
  <2>1. /\ now' = now /\ now \in Nat /\ runs' = Append(runs, "running")
        /\ current' = Len(runs) + 1 /\ lastScanAt' = now
        /\ working' = working \cup {Len(runs) + 1}
        /\ startedAt' = Append(startedAt, now) /\ CanStart
    BY <1>2 DEF Start, limitVars, JobsOK
  <2>2. /\ Len(runs) \in Nat /\ Len(runs') = Len(runs) + 1
        /\ startedAt'[Len(runs) + 1] = now
    BY <2>1, LenProperties, AppendProperties DEF JobsOK
  <2>3. working = {}
    BY <2>1 DEF CanStart, Running, JobsOK, OneScan
  <2>4. current' \in working' /\ Len(runs') > 0
    BY <2>1, <2>2
  <2>5. \A r \in working' : now' - startedAt'[r] = 0
    <3>1. TAKE r \in working'
    <3>2. r = Len(runs) + 1
      BY <2>1, <2>3
    <3>3. startedAt'[r] = now
      BY <2>2, <3>2
    <3>4. now' = now /\ now \in Nat
      BY <2>1
    <3>5. QED
      BY <3>3, <3>4
  <2>6. QED
    BY <2>4, <2>5, ScanType DEF WorkOK
<1>3. ASSUME NEW r \in working, Finish(r) \/ Panic(r)
      PROVE  WorkOK'
  <2>1. /\ now' = now /\ startedAt' = startedAt /\ lastScanAt' = lastScanAt
        /\ Len(runs') = Len(runs) /\ working' \subseteq working
    BY <1>3, ExceptSeq DEF Finish, Panic, limitVars, JobsOK
  <2>2. ~Running'
    BY <1>3, ExceptSeq DEF Finish, Panic, JobsOK, OneScan, Running
  <2>3. QED
    BY <2>1, <2>2 DEF WorkOK
<1>4. ASSUME now' = now, UNCHANGED jobVars
      PROVE  WorkOK'
  BY <1>4 DEF jobVars, WorkOK, Running
<1>5. ASSUME NEW c \in Clients,
             \/ SArrive(c) \/ SEnter(c) \/ SRefuse(c) \/ SLeave(c) \/ TurnAway(c)
             \/ ReadCurrent(c) \/ ReadStatus(c) \/ ReadState(c) \/ ReadNext(c)
      PROVE  WorkOK'
  <2>1. now' = now /\ UNCHANGED jobVars
    BY <1>5 DEF SArrive, SEnter, SRefuse, SLeave, Arrive, Enter, Refuse, Leave, TurnAway,
       ReadCurrent, ReadStatus, ReadState, ReadNext, limitVars
  <2>2. QED
    BY <1>4, <2>1
<1>6. CASE UNCHANGED scanVars
  BY <1>4, <1>6 DEF scanVars, limitVars
<1>7. QED
  BY <1>1, <1>2, <1>3, <1>5, <1>6 DEF ScanNext, Handle

\* So a request that is turned away comes soon after a start.
LEMMA TurnedAwayLate ==
  ASSUME JobsOK, WorkOK
  PROVE  LateEnough
<1>1. DOMAIN startedAt = 1..Len(runs) /\ Len(runs) \in Nat
  BY LenProperties DEF JobsOK
<1>2. CASE Running
  BY <1>1, <1>2 DEF JobsOK, WorkOK, LateEnough
<1>3. CASE ~GapOver
  <2>1. /\ lastScanAt # Never /\ ~(now - lastScanAt >= ScanGap)
        /\ Len(runs) \in DOMAIN startedAt /\ startedAt[Len(runs)] = lastScanAt
    BY <1>1, <1>3 DEF GapOver, JobsOK, WorkOK
  <2>2. now - lastScanAt < ScanGap
    BY <2>1, ScanType DEF JobsOK, Never
  <2>3. QED
    BY <2>1, <2>2 DEF LateEnough
<1>4. QED
  BY <1>2, <1>3 DEF LateEnough, CanStart

\* A client is turned away only within ScanGap of a start, or within the time a
\* scan takes, whether that scan runs, has finished or has panicked.
THEOREM TurnedAwayOnlySoon == ScanSpec => TurnedAwaySoonAfterStart
<1>1. ScanInit => WorkOK
  BY DEF ScanInit, WorkOK, Running
<1>2. JobsOK /\ WorkOK /\ [ScanNext]_scanVars => WorkOK'
  BY WorkStep
<1>3. JobsOK /\ WorkOK =>
        [\A c \in Clients : TurnAway(c) =>
           \E i \in DOMAIN startedAt : \/ now - startedAt[i] < ScanGap
                                       \/ now - startedAt[i] <= ScanTime]_scanVars
  <2>1. JobsOK /\ WorkOK => LateEnough
    BY TurnedAwayLate
  <2>2. \A c \in Clients : TurnAway(c) => ~CanStart
    BY DEF TurnAway
  <2>3. QED
    BY <2>1, <2>2 DEF LateEnough
<1>4. QED
  BY <1>1, <1>2, <1>3, JobsCorrect, PTL DEF ScanSpec, TurnedAwaySoonAfterStart
=============================================================================
