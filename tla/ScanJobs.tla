------------------------------ MODULE ScanJobs ------------------------------
(***************************************************************************)
(* POST and GET /api/v1/scan: the scanLimiter of internal/api/server.go,   *)
(* its background goroutine, and the handlers behind RateLimitMiddleware.  *)
(*                                                                         *)
(* RateLimit's mutex is held while a handler runs, so two handlers never   *)
(* overlap; the background scan takes no part in it, and shares only the   *)
(* scanLimiter's own mutex with the handler.  Each critical section of     *)
(* that mutex is one step.  handleScan also reads the limiter's current    *)
(* pointer without the mutex: that read, and the read through it, are      *)
(* steps of their own.                                                     *)
(***************************************************************************)
EXTENDS RateLimit

CONSTANTS ScanGap,      \* scanRateLimit
          ScanTime,     \* the longest a background scan takes
          MaxPanics     \* bound on the scans that panic

ASSUME ScanType == /\ ScanGap \in Nat \ {0} /\ ScanTime \in Nat
                   /\ MaxPanics \in Nat

Never == -1  \* the zero time

VARIABLES
  ask,        \* the method a request was made with
  step,       \* where its handler is
  seen,       \* handleScan's reading of scan_limiter.current; 0 is nil
  answer,     \* what the handler answers
  runs,       \* the sync.Map of every scanState stored, by start; its Status
  current,    \* scan_limiter.current: an index of runs; 0 is nil
  lastScanAt, \* scan_limiter.lastScanAt
  working,    \* the scans whose goroutine has not ended
  startedAt,  \* history: when each scan was started
  panics      \* number of scans that panicked

jobVars  == <<runs, current, lastScanAt, working, startedAt, panics>>
handVars == <<ask, step, seen, answer>>
scanVars == <<limitVars, handVars, jobVars>>

ScanInit == /\ Init
            /\ ask = [c \in Clients |-> "GET"]
            /\ step = [c \in Clients |-> "none"]
            /\ seen = [c \in Clients |-> 0]
            /\ answer = [c \in Clients |-> "none"]
            /\ runs = << >>
            /\ current = 0
            /\ lastScanAt = Never
            /\ working = {}
            /\ startedAt = << >>
            /\ panics = 0

-----------------------------------------------------------------------------
(* The scanLimiter.                                                        *)

\* current != nil && current.Status == "running"
Running == current # 0 /\ runs[current] = "running"

\* The gap since the last start is over, or there was none.
GapOver == lastScanAt = Never \/ now - lastScanAt >= ScanGap

\* nextAvailable returns "": strictly after the gap.
NoneToWaitFor == lastScanAt = Never \/ now - lastScanAt > ScanGap

\* Mutant: only the gap is checked.
CanStart_GapOnly == GapOver

CanStart == ~Running /\ GapOver

-----------------------------------------------------------------------------
(* The middleware around the handlers, and the clock.                      *)

\* No scan takes longer than ScanTime.
STick == /\ Tick
         /\ \A r \in working : now - startedAt[r] < ScanTime
         /\ UNCHANGED <<handVars, jobVars>>

SArrive(c) == /\ Arrive(c)
              /\ \E m \in {"GET", "POST"} : ask' = [ask EXCEPT ![c] = m]
              /\ UNCHANGED <<step, seen, answer, jobVars>>

SEnter(c) == /\ Enter(c)
             /\ step' = [step EXCEPT ![c] = "begun"]
             /\ UNCHANGED <<ask, seen, answer, jobVars>>

SRefuse(c) == Refuse(c) /\ UNCHANGED <<handVars, jobVars>>

SLeave(c) == /\ step[c] = "answered"
             /\ Leave(c)
             /\ ask' = [ask EXCEPT ![c] = "GET"]
             /\ step' = [step EXCEPT ![c] = "none"]
             /\ seen' = [seen EXCEPT ![c] = 0]
             /\ answer' = [answer EXCEPT ![c] = "none"]
             /\ UNCHANGED jobVars

-----------------------------------------------------------------------------
(* handleScan.                                                             *)

Serving(c, method, s) == pc[c] = "serving" /\ ask[c] = method /\ step[c] = s

Answer(c, a) == /\ answer' = [answer EXCEPT ![c] = a]
                /\ step' = [step EXCEPT ![c] = "answered"]

\* tryStart succeeds: 202, and the scan runs in a goroutine of its own.
Start(c) ==
  /\ Serving(c, "POST", "begun")
  /\ CanStart
  /\ runs' = Append(runs, "running")
  /\ current' = Len(runs) + 1
  /\ lastScanAt' = now
  /\ working' = working \cup {Len(runs) + 1}
  /\ startedAt' = Append(startedAt, now)
  /\ Answer(c, "accepted")
  /\ UNCHANGED <<limitVars, ask, seen, panics>>

\* tryStart fails: a scan is running, or the last start is too recent.
TurnAway(c) ==
  /\ Serving(c, "POST", "begun")
  /\ ~CanStart
  /\ step' = [step EXCEPT ![c] = "lost"]
  /\ UNCHANGED <<limitVars, ask, seen, answer, jobVars>>

\* Which status to answer with: scan_limiter.current is read unlocked.
ReadCurrent(c) ==
  /\ Serving(c, "POST", "lost")
  /\ seen' = [seen EXCEPT ![c] = current]
  /\ IF current = 0
       THEN Answer(c, "limited")
       ELSE step' = [step EXCEPT ![c] = "seen"] /\ UNCHANGED answer
  /\ UNCHANGED <<limitVars, ask, jobVars>>

\* The status read through it.  The second mention of current in the condition
\* may be a second load, which finds nil after a reset: a panic in the handler.
ReadStatus(c) ==
  /\ Serving(c, "POST", "seen")
  /\ \/ Answer(c, IF runs[seen[c]] = "running" THEN "conflict" ELSE "limited")
     \/ current = 0 /\ Answer(c, "panic")
  /\ UNCHANGED <<limitVars, ask, seen, jobVars>>

-----------------------------------------------------------------------------
(* handleScanStatus: getStatus, then nextAvailable.                        *)

ReadState(c) ==
  /\ Serving(c, "GET", "begun")
  /\ IF Running THEN Answer(c, "running")
                ELSE step' = [step EXCEPT ![c] = "stopped"] /\ UNCHANGED answer
  /\ UNCHANGED <<limitVars, ask, seen, jobVars>>

ReadNext(c) ==
  /\ Serving(c, "GET", "stopped")
  /\ Answer(c, IF NoneToWaitFor THEN "free" ELSE "wait")
  /\ UNCHANGED <<limitVars, ask, seen, jobVars>>

-----------------------------------------------------------------------------
(* runBackgroundScan.  Its row of scan_history may fail to be written; it  *)
(* goes on all the same.                                                   *)

Finish(r) ==
  /\ r \in working
  /\ runs' = IF current = r THEN [runs EXCEPT ![r] = "completed"] ELSE runs
  /\ working' = working \ {r}
  /\ UNCHANGED <<limitVars, handVars, current, lastScanAt, startedAt, panics>>

\* Mutant: the recover only logs.
Panic_NoReset(r) ==
  /\ r \in working /\ panics < MaxPanics
  /\ working' = working \ {r}
  /\ panics' = panics + 1
  /\ UNCHANGED <<limitVars, handVars, runs, current, lastScanAt, startedAt>>

\* Mutant: the reset forgets the last start too.
Panic_Forget(r) ==
  /\ r \in working /\ panics < MaxPanics
  /\ current' = 0
  /\ lastScanAt' = Never
  /\ working' = working \ {r}
  /\ panics' = panics + 1
  /\ UNCHANGED <<limitVars, handVars, runs, startedAt>>

\* The scan panics; the deferred recover resets the limiter.
Panic(r) ==
  /\ r \in working /\ panics < MaxPanics
  /\ current' = 0
  /\ working' = working \ {r}
  /\ panics' = panics + 1
  /\ UNCHANGED <<limitVars, handVars, runs, lastScanAt, startedAt>>

Handle(c) == \/ Start(c) \/ TurnAway(c) \/ ReadCurrent(c) \/ ReadStatus(c)
             \/ ReadState(c) \/ ReadNext(c)

ScanNext == \/ STick
            \/ \E c \in Clients : \/ SArrive(c) \/ SEnter(c) \/ SRefuse(c)
                                  \/ SLeave(c) \/ Handle(c)
            \/ \E r \in working : Finish(r) \/ Panic(r)

ScanSpec == ScanInit /\ [][ScanNext]_scanVars

\* The goroutine is scheduled, handlers go on, and the mutex of the middleware
\* starves nobody.  The clock's bound leaves room for MaxTime + 1 scans.
ScanFairness == /\ \A r \in 1..(MaxTime + 1) : WF_scanVars(Finish(r) \/ Panic(r))
                /\ \A c \in Clients : /\ WF_scanVars(Handle(c) \/ SLeave(c))
                                      /\ SF_scanVars(SEnter(c) \/ SRefuse(c))

FairScanSpec == ScanSpec /\ ScanFairness

-----------------------------------------------------------------------------
(* Properties.                                                             *)

\* Type invariant.
ScanTypeOK ==
  /\ LimitTypeOK
  /\ ask \in [Clients -> {"GET", "POST"}]
  /\ step \in [Clients -> {"none", "begun", "lost", "seen", "stopped", "answered"}]
  /\ answer \in [Clients -> {"none", "accepted", "conflict", "limited", "panic",
                             "running", "free", "wait"}]
  /\ runs \in Seq({"running", "completed"})
  /\ seen \in [Clients -> 0..Len(runs)]
  /\ current \in 0..Len(runs)
  /\ lastScanAt \in Nat \cup {Never}
  /\ working \subseteq 1..Len(runs)
  /\ startedAt \in Seq(Nat) /\ Len(startedAt) = Len(runs)
  /\ panics \in 0..MaxPanics

\* At most one background scan is at work, however long scans take and however
\* they end, and it is the one the limiter shows as running.
OneScan == \A r \in working : working = {r} /\ current = r /\ runs[r] = "running"

\* Any two scans start at least scanRateLimit apart, also when the first one
\* panicked and the limiter was reset.
StartsApart == \A i, j \in DOMAIN startedAt :
                 i < j => startedAt[j] - startedAt[i] >= ScanGap

\* A client is turned away only soon after a start: within scanRateLimit, or
\* within the time a scan takes, whether the scan is running, has finished or
\* has panicked.
TurnedAwaySoonAfterStart ==
  [][\A c \in Clients : TurnAway(c) =>
       \E i \in DOMAIN startedAt : \/ now - startedAt[i] < ScanGap
                                   \/ now - startedAt[i] <= ScanTime]_scanVars

\* A status that shows neither a running scan nor a time to wait for is an
\* offer the limiter keeps: while the answer is on its way nobody else starts
\* a scan.  The two readings it is made of are two critical sections; it is
\* the middleware's mutex that keeps other handlers out.
OfferKept == \A c \in Clients : answer[c] = "free" => CanStart
=============================================================================
