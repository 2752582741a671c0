--------------------------- MODULE RateLimitProofs ---------------------------
(***************************************************************************)
(* RateLimit never lets more than MaxRequests requests of one address      *)
(* through within Window, for every limit, window and number of clients.   *)
(*                                                                         *)
(* The count alone does not say so: it is about the requests since the     *)
(* last pause.  The invariant ties it to the history: every request before *)
(* the last count ones is more than Window older than the first of those.  *)
(***************************************************************************)
EXTENDS RateLimit, SequenceTheorems, TLAPS

\* What a count says of the requests let through so far.
Fits(acc, last, count) ==
  /\ count <= Len(acc)
  /\ Len(acc) > 0 => count >= 1 /\ acc[Len(acc)] = last
  /\ \A i, j \in 1..Len(acc) : i <= j => acc[i] <= acc[j]
  /\ count < Len(acc) =>
       \A i \in 1..(Len(acc) - count) : acc[Len(acc) - count + 1] - acc[i] > Window
  /\ \A i, j \in 1..Len(acc) : j >= i + MaxRequests => acc[j] - acc[i] > Window

\* Letting a request through at time t keeps that relation.
LEMMA FitsStep ==
  ASSUME NEW acc \in Seq(Nat), NEW last \in Nat, NEW count \in Nat, NEW t \in Nat,
         Fits(acc, last, count), last <= t,
         NEW s \in Nat, s = (IF t - last > Window THEN 0 ELSE count), s < MaxRequests
  PROVE  Fits(Append(acc, t), t, s + 1)
<1> DEFINE n == Len(acc)
           new == Append(acc, t)
<1>1. n \in Nat /\ \A i \in 1..n : acc[i] \in Nat
  BY LenProperties, ElementOfSeq
<1>2. /\ Len(new) = n + 1 /\ new[n + 1] = t
      /\ \A i \in 1..n : new[i] = acc[i]
  BY <1>1, AppendProperties
<1>3. Window \in Nat /\ MaxRequests \in Nat
  BY LimitType
<1>4. \A i \in 1..n : acc[i] <= last
  <2> SUFFICES ASSUME NEW i \in 1..n PROVE acc[i] <= last
    OBVIOUS
  <2>1. n \in 1..n /\ i <= n /\ n > 0
    BY <1>1
  <2>2. QED
    BY <2>1 DEF Fits
<1> HIDE DEF n, new
<1>5. /\ count <= n
      /\ n > 0 => count >= 1
      /\ n > 0 => acc[n] = last
      /\ \A i, j \in 1..n : i <= j => acc[i] <= acc[j]
      /\ count < n => \A i \in 1..(n - count) : acc[n - count + 1] - acc[i] > Window
      /\ \A i, j \in 1..n : j >= i + MaxRequests => acc[j] - acc[i] > Window
  BY DEF Fits, n
<1>6. \A i, j \in 1..(n + 1) : i <= j => new[i] <= new[j]
  <2> SUFFICES ASSUME NEW i \in 1..(n + 1), NEW j \in 1..(n + 1), i <= j
               PROVE  new[i] <= new[j]
    OBVIOUS
  <2>1. CASE j = n + 1
    BY <1>1, <1>2, <1>4, <2>1
  <2>2. CASE j \in 1..n
    BY <1>1, <1>2, <1>5, <2>2
  <2>3. QED
    BY <1>1, <2>1, <2>2
<1>7. ASSUME NEW i \in 1..(n + 1 - (s + 1))
      PROVE  new[n + 1 - (s + 1) + 1] - new[i] > Window
  <2>1. CASE t - last > Window
    BY <1>1, <1>2, <1>3, <1>4, <2>1
  <2>2. CASE ~(t - last > Window)
    <3>1. s = count /\ i \in 1..(n - count) /\ count >= 1
      BY <1>1, <1>5, <2>2
    <3>2. acc[n - count + 1] - acc[i] > Window
      BY <1>1, <1>5, <3>1
    <3>3. /\ n + 1 - (s + 1) + 1 = n - count + 1
          /\ n - count + 1 \in 1..n /\ i \in 1..n
      BY <1>1, <1>5, <3>1
    <3>4. new[n - count + 1] = acc[n - count + 1] /\ new[i] = acc[i]
      BY <1>2, <3>3
    <3>5. QED
      BY <3>2, <3>3, <3>4
  <2>3. QED
    BY <2>1, <2>2
<1>8. ASSUME NEW i \in 1..(n + 1), NEW j \in 1..(n + 1), j >= i + MaxRequests
      PROVE  new[j] - new[i] > Window
  <2>1. CASE j \in 1..n
    BY <1>1, <1>2, <1>3, <1>5, <1>8, <2>1
  <2>2. CASE j = n + 1
    <3>1. i \in 1..(n + 1 - (s + 1))
      BY <1>1, <1>3, <1>8, <2>2
    <3>2. new[n + 1 - (s + 1) + 1] - new[i] > Window
      BY <1>7, <3>1
    <3>3. PICK k \in 1..(n + 1) : k = n + 1 - (s + 1) + 1
      BY <1>1, <1>5, <3>1
    <3>4. new[k] - new[i] > Window /\ new[k] <= new[n + 1]
      BY <1>1, <1>6, <3>2, <3>3
    <3>5. new[i] \in Nat /\ new[n + 1] \in Nat /\ new[k] \in Nat
      BY <1>1, <1>2
    <3>6. QED
      BY <1>3, <2>2, <3>4, <3>5
  <2>3. QED
    BY <1>1, <2>1, <2>2
<1>9. s + 1 <= n + 1
  BY <1>1, <1>5
<1>10. Fits(new, t, s + 1)
  <2>1. Len(new) = n + 1
    BY <1>2
  <2>2. s + 1 <= Len(new)
    BY <1>9, <2>1
  <2>3. Len(new) > 0 => s + 1 >= 1 /\ new[Len(new)] = t
    BY <1>2, <2>1
  <2>4. \A i, j \in 1..Len(new) : i <= j => new[i] <= new[j]
    BY <1>6, <2>1
  <2>5. ASSUME NEW i \in 1..(Len(new) - (s + 1))
        PROVE  new[Len(new) - (s + 1) + 1] - new[i] > Window
    <3>1. i \in 1..(n + 1 - (s + 1))
      BY <1>1, <2>1
    <3>2. Len(new) - (s + 1) + 1 = n + 1 - (s + 1) + 1
      BY <1>1, <2>1
    <3>3. QED
      BY <1>7, <3>1, <3>2
  <2>6. \A i, j \in 1..Len(new) : j >= i + MaxRequests => new[j] - new[i] > Window
    BY <1>8, <2>1
  <2>7. QED
    BY <2>2, <2>3, <2>4, <2>5, <2>6 DEF Fits
<1>11. QED
  BY <1>10 DEF new

-----------------------------------------------------------------------------

LimitInv ==
  /\ LimitTypeOK
  /\ \A ip \in Ips : /\ counts[ip].last <= now
                     /\ Fits(accepted[ip], counts[ip].last, counts[ip].count)

LEMMA LimitInit == Init => LimitInv
<1> SUFFICES ASSUME Init PROVE LimitInv
  OBVIOUS
<1>1. LimitTypeOK
  BY LimitType, EmptySeq DEF Init, LimitTypeOK
<1>2. Len(<< >>) = 0
  BY EmptySeq
<1>3. Fits(<< >>, 0, 0)
  BY <1>2 DEF Fits
<1>4. QED
  BY <1>1, <1>3 DEF Init, LimitInv

LEMMA LimitStep == LimitInv /\ [Next]_limitVars => LimitInv'
<1> SUFFICES ASSUME LimitInv, [Next]_limitVars PROVE LimitInv'
  OBVIOUS
<1> USE LimitType DEF LimitInv, LimitTypeOK
<1>1. CASE Tick
  BY <1>1 DEF Tick
<1>2. ASSUME NEW c \in Clients, Arrive(c)
      PROVE  LimitInv'
  BY <1>2 DEF Arrive
<1>3. ASSUME NEW c \in Clients, Enter(c)
      PROVE  LimitInv'
  <2> DEFINE ip == IpOf[c]
             s == Standing(ip)
  <2>1. /\ ip \in Ips /\ accepted[ip] \in Seq(Nat) /\ now \in Nat
        /\ counts[ip].last \in Nat /\ counts[ip].count \in 0..MaxRequests
        /\ counts[ip].last <= now
        /\ Fits(accepted[ip], counts[ip].last, counts[ip].count)
    OBVIOUS
  <2>2. /\ s \in Nat /\ s < MaxRequests
        /\ s = IF now - counts[ip].last > Window THEN 0 ELSE counts[ip].count
    BY <1>3, <2>1 DEF Enter, Standing
  <2>3. /\ now' = now
        /\ counts'[ip] = [last |-> now, count |-> s + 1]
        /\ accepted'[ip] = Append(accepted[ip], now)
        /\ \A q \in Ips : q # ip => /\ counts'[q] = counts[q]
                                    /\ accepted'[q] = accepted[q]
    BY <1>3, <2>1 DEF Enter
  <2>4. Fits(accepted'[ip], now, s + 1)
    <3>1. Fits(Append(accepted[ip], now), now, s + 1)
      <4>1. counts[ip].count \in Nat
        BY <2>1
      <4> HIDE DEF s, ip, LimitInv, LimitTypeOK
      <4>2. QED
        BY <2>1, <2>2, <4>1, FitsStep
    <3>2. QED
      BY <2>3, <3>1
  <2>5. LimitTypeOK'
    <3>1. counts' \in [Ips -> [last : Nat, count : 0..MaxRequests]]
      BY <1>3, <2>1, <2>2 DEF Enter
    <3>2. accepted' \in [Ips -> Seq(Nat)]
      BY <1>3, <2>1, AppendProperties DEF Enter
    <3>3. /\ now' \in Nat /\ lock' \in Clients \cup {Free}
          /\ pc' \in [Clients -> {"idle", "waiting", "serving"}]
          /\ \A d \in Clients : pc'[d] = "serving" <=> lock' = d
      BY <1>3 DEF Enter
    <3>4. QED
      BY <3>1, <3>2, <3>3
  <2>6. counts'[ip].last <= now'
        /\ Fits(accepted'[ip], counts'[ip].last, counts'[ip].count)
    BY <2>1, <2>3, <2>4
  <2>7. ASSUME NEW q \in Ips, q # ip
        PROVE  counts'[q].last <= now' /\ Fits(accepted'[q], counts'[q].last, counts'[q].count)
    BY <2>3, <2>7
  <2>8. QED
    BY <2>5, <2>6, <2>7
<1>4. ASSUME NEW c \in Clients, Refuse(c)
      PROVE  LimitInv'
  BY <1>4 DEF Refuse
<1>5. ASSUME NEW c \in Clients, Leave(c)
      PROVE  LimitInv'
  BY <1>5 DEF Leave
<1>6. CASE UNCHANGED limitVars
  BY <1>6 DEF limitVars
<1>7. QED
  BY <1>1, <1>2, <1>3, <1>4, <1>5, <1>6 DEF Next

\* The inductive invariant holds throughout; the results below are read off it.
THEOREM LimitCorrect == LimitSpec => []LimitInv
  BY LimitInit, LimitStep, PTL DEF LimitSpec

\* The types hold, and the mutex is with the request being served.
THEOREM LimitTypes == LimitSpec => []LimitTypeOK
<1>1. LimitInv => LimitTypeOK
  BY DEF LimitInv
<1>2. QED
  BY <1>1, LimitCorrect, PTL

\* No window of length Window ever sees more than MaxRequests requests of one
\* address, whatever the clients, addresses, limits and time.
THEOREM WindowsHold == LimitSpec => []WindowBound
<1>1. LimitInv => WindowBound
  <2> SUFFICES ASSUME LimitInv, NEW ip \in Ips,
                      NEW i \in DOMAIN accepted[ip], NEW j \in DOMAIN accepted[ip],
                      j >= i + MaxRequests
               PROVE  accepted[ip][j] - accepted[ip][i] > Window
    BY DEF WindowBound
  <2>1. accepted[ip] \in Seq(Nat) /\ Fits(accepted[ip], counts[ip].last, counts[ip].count)
    BY DEF LimitInv, LimitTypeOK
  <2>2. QED
    BY <2>1, LenProperties DEF Fits
<1>2. QED
  BY <1>1, LimitCorrect, PTL

-----------------------------------------------------------------------------
(* What a refusal means.  The code keeps the time of the last request, so  *)
(* its window is a chain: it goes on as long as no two requests that       *)
(* follow each other are more than Window apart.                           *)

\* The requests the count speaks of are such a chain.
Chain(acc, count) ==
  \A i \in 1..Len(acc) : i > Len(acc) - count /\ i + 1 <= Len(acc) =>
     acc[i + 1] - acc[i] <= Window

\* The last MaxRequests requests of an address are one, and it still goes on.
Crowded(ip) ==
  LET acc == accepted[ip]
  IN /\ Len(acc) >= MaxRequests
     /\ now - acc[Len(acc)] <= Window
     /\ \A i \in 1..Len(acc) : i > Len(acc) - MaxRequests /\ i + 1 <= Len(acc) =>
          acc[i + 1] - acc[i] <= Window

ChainInv == LimitInv /\ \A ip \in Ips : Chain(accepted[ip], counts[ip].count)

\* A request let through goes on with the chain or begins one.
LEMMA ChainStep ==
  ASSUME NEW acc \in Seq(Nat), NEW last \in Nat, NEW count \in Nat, NEW t \in Nat,
         Fits(acc, last, count), Chain(acc, count),
         NEW s \in Nat, s = (IF t - last > Window THEN 0 ELSE count)
  PROVE  Chain(Append(acc, t), s + 1)
<1> DEFINE n == Len(acc)
           new == Append(acc, t)
<1>1. n \in Nat /\ \A i \in 1..n : acc[i] \in Nat
  BY LenProperties, ElementOfSeq
<1>2. /\ Len(new) = n + 1 /\ new[n + 1] = t
      /\ \A i \in 1..n : new[i] = acc[i]
  BY <1>1, AppendProperties
<1>3. /\ n > 0 => acc[n] = last
      /\ \A i \in 1..n : i > n - count /\ i + 1 <= n => acc[i + 1] - acc[i] <= Window
  BY DEF Fits, Chain
<1>4. SUFFICES ASSUME NEW i \in 1..(n + 1), i > (n + 1) - (s + 1), i + 1 <= n + 1
               PROVE  new[i + 1] - new[i] <= Window
  BY <1>2 DEF Chain
<1> HIDE DEF n, new
<1>5. i \in 1..n /\ i > n - s /\ s = count /\ t - last <= Window
  BY <1>1, <1>4, LimitType
<1>6. CASE i = n
  BY <1>1, <1>2, <1>3, <1>5, <1>6
<1>7. CASE i < n
  <2>1. i + 1 \in 1..n /\ i + 1 <= n
    BY <1>1, <1>5, <1>7
  <2>2. new[i + 1] = acc[i + 1] /\ new[i] = acc[i]
    BY <1>2, <1>5, <2>1
  <2>3. QED
    BY <1>3, <1>5, <2>1, <2>2
<1>8. QED
  BY <1>1, <1>5, <1>6, <1>7

LEMMA ChainKept == ChainInv /\ [Next]_limitVars => ChainInv'
<1> SUFFICES ASSUME ChainInv, [Next]_limitVars PROVE ChainInv'
  OBVIOUS
<1>1. LimitInv'
  BY LimitStep DEF ChainInv
<1>2. CASE UNCHANGED <<counts, accepted>>
  BY <1>1, <1>2 DEF ChainInv, Chain
<1>3. ASSUME NEW c \in Clients, Enter(c)
      PROVE  ChainInv'
  <2> DEFINE ip == IpOf[c]
             s == Standing(ip)
  <2>1. /\ ip \in Ips /\ accepted[ip] \in Seq(Nat) /\ now \in Nat
        /\ counts[ip].last \in Nat /\ counts[ip].count \in Nat
        /\ Fits(accepted[ip], counts[ip].last, counts[ip].count)
        /\ Chain(accepted[ip], counts[ip].count)
    BY LimitType DEF ChainInv, LimitInv, LimitTypeOK
  <2>2. s \in Nat /\ s = IF now - counts[ip].last > Window THEN 0 ELSE counts[ip].count
    BY <2>1 DEF Standing
  <2>3. /\ counts'[ip].count = s + 1 /\ accepted'[ip] = Append(accepted[ip], now)
        /\ \A q \in Ips : q # ip => counts'[q] = counts[q] /\ accepted'[q] = accepted[q]
    BY <1>3, <2>1 DEF Enter, ChainInv, LimitInv, LimitTypeOK
  <2> HIDE DEF s, ip
  <2>4. Chain(Append(accepted[ip], now), s + 1)
    BY <2>1, <2>2, ChainStep
  <2>5. ASSUME NEW q \in Ips PROVE Chain(accepted'[q], counts'[q].count)
    BY <2>3, <2>4 DEF ChainInv
  <2>6. QED
    BY <1>1, <2>5 DEF ChainInv, Chain
<1>4. QED
  BY <1>2, <1>3 DEF Next, Tick, Arrive, Refuse, Leave, limitVars

\* The count that applies has reached the limit just when the last MaxRequests
\* requests are such a chain and it still goes on.
LEMMA CrowdedIsFull ==
  ASSUME ChainInv, NEW ip \in Ips
  PROVE  Crowded(ip) <=> Standing(ip) >= MaxRequests
<1> DEFINE acc == accepted[ip]
           n == Len(acc)
           count == counts[ip].count
           last == counts[ip].last
<1>1. /\ n \in Nat /\ \A i \in 1..n : acc[i] \in Nat
      /\ count \in 0..MaxRequests /\ last \in Nat /\ now \in Nat
  BY LenProperties, ElementOfSeq DEF ChainInv, LimitInv, LimitTypeOK
<1>2. /\ count <= n
      /\ n > 0 => count >= 1 /\ acc[n] = last
      /\ count < n => \A i \in 1..(n - count) : acc[n - count + 1] - acc[i] > Window
      /\ \A i \in 1..n : i > n - count /\ i + 1 <= n => acc[i + 1] - acc[i] <= Window
  BY DEF ChainInv, LimitInv, Fits, Chain
<1>3. Crowded(ip) <=> /\ n >= MaxRequests
                      /\ now - acc[n] <= Window
                      /\ \A i \in 1..n : i > n - MaxRequests /\ i + 1 <= n =>
                           acc[i + 1] - acc[i] <= Window
  BY DEF Crowded
<1>4. Standing(ip) = IF now - last > Window THEN 0 ELSE count
  BY DEF Standing
<1>5. Window \in Nat /\ MaxRequests \in Nat \ {0}
  BY LimitType
<1> HIDE DEF acc, n, count, last
<1>6. ASSUME Standing(ip) >= MaxRequests PROVE Crowded(ip)
  <2>1. count = MaxRequests /\ now - last <= Window
    BY <1>1, <1>4, <1>5, <1>6
  <2>2. QED
    BY <1>1, <1>2, <1>3, <1>5, <2>1
<1>7. ASSUME Crowded(ip) PROVE Standing(ip) >= MaxRequests
  <2>1. n > 0 /\ acc[n] = last /\ count >= 1 /\ Standing(ip) = count
    BY <1>1, <1>2, <1>3, <1>4, <1>5, <1>7
  <2>2. ASSUME count < MaxRequests PROVE FALSE
    <3>1. /\ n - count \in 1..n /\ n - count > n - MaxRequests
          /\ (n - count) + 1 <= n /\ count < n
      BY <1>1, <1>3, <1>5, <1>7, <2>1, <2>2
    <3>2. acc[n - count + 1] - acc[n - count] > Window
      BY <1>1, <1>2, <3>1
    <3>3. acc[(n - count) + 1] - acc[n - count] <= Window
      BY <1>3, <1>7, <3>1
    <3>4. n - count + 1 \in 1..n
      BY <1>1, <3>1
    <3>5. QED
      BY <1>1, <1>5, <3>1, <3>2, <3>3, <3>4
  <2>3. QED
    BY <1>1, <1>5, <2>1, <2>2
<1>8. QED
  BY <1>6, <1>7

\* A request is refused when, and only when, the last MaxRequests requests of
\* its address that were let through followed each other within Window and the
\* last is not older than that.  However slowly they came: the limit is one on
\* chains, not on a rate; and it ends with the first pause longer than Window.
RefusedJustIfCrowded ==
  [][\A c \in Clients : /\ Refuse(c) => Crowded(IpOf[c])
                        /\ Enter(c) => ~Crowded(IpOf[c])]_limitVars

THEOREM RefusalsExplained == LimitSpec => RefusedJustIfCrowded
<1> DEFINE Just == \A c \in Clients : /\ Refuse(c) => Crowded(IpOf[c])
                                      /\ Enter(c) => ~Crowded(IpOf[c])
<1>1. ASSUME ChainInv, NEW c \in Clients
      PROVE  /\ Refuse(c) => Crowded(IpOf[c])
             /\ Enter(c) => ~Crowded(IpOf[c])
  <2>1. IpOf[c] \in Ips /\ MaxRequests \in Nat
    BY LimitType
  <2>2. Standing(IpOf[c]) \in Nat
    BY <1>1, <2>1 DEF Standing, ChainInv, LimitInv, LimitTypeOK
  <2>3. Crowded(IpOf[c]) <=> Standing(IpOf[c]) >= MaxRequests
    BY <1>1, <2>1, CrowdedIsFull
  <2>4. QED
    BY <2>1, <2>2, <2>3 DEF Refuse, Enter
<1>2. ChainInv /\ [Next]_limitVars => [Just]_limitVars
  BY <1>1
<1>3. Init => ChainInv
  <2>1. Len(<< >>) = 0
    BY EmptySeq
  <2>2. QED
    BY <2>1, LimitInit DEF Init, ChainInv, Chain
<1>4. QED
  BY <1>2, <1>3, ChainKept, PTL DEF LimitSpec, RefusedJustIfCrowded

=============================================================================
