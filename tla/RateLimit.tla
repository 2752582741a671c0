------------------------------ MODULE RateLimit ------------------------------
(***************************************************************************)
(* The per-address request limit of the HTTP API: RateLimitMiddleware in   *)
(* internal/api/middleware.go.                                             *)
(*                                                                         *)
(* One mutex guards the table of counts, and the middleware holds it while *)
(* the handler behind it runs: requests are served one at a time.  The     *)
(* clock is read after the mutex is taken, so waiting does not age it.     *)
(***************************************************************************)
EXTENDS Integers, Sequences, FiniteSets

CONSTANTS Clients,      \* connections, each with at most one request in flight
          Ips,          \* client addresses, as realIP reports them
          IpOf,         \* the address of each connection
          Window,       \* windowDuration
          MaxRequests,  \* maxRequestsPerWindow
          MaxTime,      \* bound on the clock
          Free          \* the holder of a mutex nobody holds

ASSUME LimitType == /\ IpOf \in [Clients -> Ips]
                    /\ Window \in Nat
                    /\ MaxRequests \in Nat \ {0}
                    /\ MaxTime \in Nat
                    /\ Free \notin Clients

VARIABLES
  now,      \* the clock
  counts,   \* requestCounts: per address the time of the last request let
            \* through and the count; count 0 is an address without an entry
  lock,     \* who holds the limiter's mutex
  pc,       \* where each request is: idle, waiting for the mutex, serving
  accepted  \* history: per address, when its requests were let through

limitVars == <<now, counts, lock, pc, accepted>>

Init == /\ now = 0
        /\ counts = [ip \in Ips |-> [last |-> 0, count |-> 0]]
        /\ lock = Free
        /\ pc = [c \in Clients |-> "idle"]
        /\ accepted = [ip \in Ips |-> << >>]

Tick == /\ now < MaxTime
        /\ now' = now + 1
        /\ UNCHANGED <<counts, lock, pc, accepted>>

Arrive(c) == /\ pc[c] = "idle"
             /\ pc' = [pc EXCEPT ![c] = "waiting"]
             /\ UNCHANGED <<now, counts, lock, accepted>>

\* Mutant: a window that has just ended counts as over.
Standing_Early(ip) == IF now - counts[ip].last >= Window THEN 0 ELSE counts[ip].count

\* The count that applies: a pause longer than the window starts a new one.
Standing(ip) == IF now - counts[ip].last > Window THEN 0 ELSE counts[ip].count

\* Mutant: the mutex guards the table only, and is released before the handler.
Enter_Unlocked(c) ==
  LET ip == IpOf[c] IN
  /\ pc[c] = "waiting" /\ lock = Free
  /\ Standing(ip) < MaxRequests
  /\ counts' = [counts EXCEPT ![ip] = [last |-> now, count |-> Standing(ip) + 1]]
  /\ accepted' = [accepted EXCEPT ![ip] = Append(@, now)]
  /\ pc' = [pc EXCEPT ![c] = "serving"]
  /\ UNCHANGED <<now, lock>>

\* The request is let through: its handler runs with the mutex held.
Enter(c) ==
  LET ip == IpOf[c] IN
  /\ pc[c] = "waiting" /\ lock = Free
  /\ Standing(ip) < MaxRequests
  /\ counts' = [counts EXCEPT ![ip] = [last |-> now, count |-> Standing(ip) + 1]]
  /\ accepted' = [accepted EXCEPT ![ip] = Append(@, now)]
  /\ lock' = c
  /\ pc' = [pc EXCEPT ![c] = "serving"]
  /\ UNCHANGED now

\* 429: the entry is left as it is.
Refuse(c) == /\ pc[c] = "waiting" /\ lock = Free
             /\ Standing(IpOf[c]) >= MaxRequests
             /\ pc' = [pc EXCEPT ![c] = "idle"]
             /\ UNCHANGED <<now, counts, lock, accepted>>

\* Mutant: the unlock is not deferred, and a handler that panics skips it.
Leave_Locked(c) == /\ pc[c] = "serving"
                   /\ pc' = [pc EXCEPT ![c] = "idle"]
                   /\ UNCHANGED <<now, counts, lock, accepted>>

\* The handler returns, or panics: the unlock is deferred.
Leave(c) == /\ pc[c] = "serving"
            /\ lock' = Free
            /\ pc' = [pc EXCEPT ![c] = "idle"]
            /\ UNCHANGED <<now, counts, accepted>>

Next == \/ Tick
        \/ \E c \in Clients : Arrive(c) \/ Enter(c) \/ Refuse(c) \/ Leave(c)

LimitSpec == Init /\ [][Next]_limitVars

-----------------------------------------------------------------------------
(* Properties.                                                             *)

\* Type invariant; the mutex is held by whoever is being served.
LimitTypeOK ==
  /\ now \in Nat
  /\ counts \in [Ips -> [last : Nat, count : 0..MaxRequests]]
  /\ lock \in Clients \cup {Free}
  /\ pc \in [Clients -> {"idle", "waiting", "serving"}]
  /\ \A c \in Clients : pc[c] = "serving" <=> lock = c
  /\ accepted \in [Ips -> Seq(Nat)]

\* No window is overrun: whichever MaxRequests + 1 requests of one address are
\* let through, the first and the last are more than Window apart, wherever
\* the window is laid (the middleware restarts its count only after a pause).
WindowBound ==
  \A ip \in Ips : \A i, j \in DOMAIN accepted[ip] :
     j >= i + MaxRequests => accepted[ip][j] - accepted[ip][i] > Window

\* Every request ends: the mutex is released whatever the handler does, and
\* no request waits for it for ever.
EveryRequestEnds == \A c \in Clients : pc[c] # "idle" ~> pc[c] = "idle"

\* "RateLimitMiddleware enforces 100 requests per minute per IP": a request is
\* refused only to an address that had its share let through within the last
\* Window.  The code renews the stored time at every request, so the window of
\* a steady client never ends.
RefusedOnlyOverLimit ==
  [][\A c \in Clients : Refuse(c) =>
       Cardinality({i \in DOMAIN accepted[IpOf[c]] :
                      now - accepted[IpOf[c]][i] <= Window}) >= MaxRequests]_limitVars
=============================================================================
