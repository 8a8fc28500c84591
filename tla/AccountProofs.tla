---------------------------- MODULE AccountProofs ----------------------------
(***************************************************************************)
(* Theorems about the limiters, signing in, API tokens and the command     *)
(* line's login, for any number of clients, addresses, tokens, tabs and    *)
(* goroutines and any limits.                                              *)
(***************************************************************************)
EXTENDS SignIn, Login, FiniteSetTheorems, TLAPS

----------------------------------------------------------------------------
(* The limiters: types *)

\* Buckets were last filled in the past and hold at most a full level.
BucketsOK ==
    /\ now \in Nat
    /\ buckets \in [Clients -> Bucket \cup {NoBucket}]
    /\ \A c \in Clients : buckets[c].last <= now
    /\ answer \in [Clients -> {"none", "passed", "refused"}]

\* Windows began in the past and have counted at most their limit.
WindowsOK ==
    /\ now \in Nat
    /\ attempts \in [Keys -> Window]
    /\ \A k \in Keys : attempts[k].start <= now /\ attempts[k].count <= MaxPerHour[k]
    /\ allowed \in [Keys -> Seq(Nat)]

----------------------------------------------------------------------------
(* Arithmetic of the bucket *)

LEMMA MonotoneProduct ==
    ASSUME NEW a \in Nat, NEW b \in Nat, NEW d \in Nat, a <= b
    PROVE  a * d <= b * d
  <1>1. PICK e \in Nat : b = a + e BY b - a \in Nat
  <1>2. b * d = a * d + e * d BY <1>1
  <1>3. e * d \in Nat /\ a * d \in Nat OBVIOUS
  <1> QED BY <1>2, <1>3

\* A full bucket pays for a request.
LEMMA FullFacts == Full \in Nat /\ Cost \in Nat /\ Cost <= Full /\ Full <= Idle * Refill
                   /\ Refill \in Nat /\ Idle \in Nat
  <1>1. 1 * Cost <= Capacity * Cost BY BucketAssumption, MonotoneProduct
  <1>2. Capacity * Cost \in Nat BY BucketAssumption
  <1> QED BY <1>1, <1>2, BucketAssumption DEF Full

\* The refill for one tick more is a tick's more.
LEMMA OneTickMore ==
    ASSUME NEW d \in Nat, NEW r \in Nat PROVE (d + 1) * r = d * r + r
  OBVIOUS

LEMMA RefilledType ==
    ASSUME BucketsOK, NEW c \in Clients, buckets[c] # NoBucket
    PROVE  /\ buckets[c].tokens \in 0 .. Full
           /\ (now - buckets[c].last) * Refill \in Nat
           /\ Refilled(c) \in 0 .. Full
  <1>1. buckets[c] \in Bucket BY DEF BucketsOK
  <1>2. now - buckets[c].last \in Nat BY <1>1 DEF BucketsOK, Bucket
  <1>3. (now - buckets[c].last) * Refill \in Nat BY <1>2, FullFacts
  <1> QED BY <1>1, <1>3, FullFacts DEF Refilled, AtMost, Bucket

LEMMA LevelType == ASSUME BucketsOK, NEW c \in Clients PROVE Level(c) \in 0 .. Full
  BY RefilledType, FullFacts DEF Level

\* A bucket that is forgotten has filled up.
LEMMA IdleIsFull ==
    ASSUME BucketsOK, NEW c \in Clients, buckets[c] # NoBucket, buckets[c].last < now - Idle
    PROVE  Refilled(c) = Full
  <1>1. buckets[c] \in Bucket BY DEF BucketsOK
  <1>2. now - buckets[c].last \in Nat /\ Idle <= now - buckets[c].last
    BY <1>1, FullFacts DEF BucketsOK, Bucket
  <1>3. Idle * Refill <= (now - buckets[c].last) * Refill
    BY <1>2, FullFacts, MonotoneProduct
  <1>4. Idle * Refill \in Nat BY FullFacts
  <1> QED BY <1>3, <1>4, RefilledType, FullFacts DEF Refilled, AtMost

----------------------------------------------------------------------------
LEMMA NewBucket ==
    ASSUME BucketsOK, NEW n \in 0 .. Full, NEW c \in Clients,
           NEW b, b = [tokens |-> n, last |-> now]
    PROVE  b \in Bucket /\ b # NoBucket /\ b.last = now /\ b.tokens = n
  BY DEF BucketsOK, Bucket, NoBucket, Never

\* The level of a client depends on the time and on the client's bucket.
LEMMA SameLevel ==
    ASSUME NEW c \in Clients, now' = now, buckets'[c] = buckets[c]
    PROVE  Level(c)' = Level(c)
  BY DEF Level, Refilled

\* A bucket just written holds what was left in it.
LEMMA FreshLevel ==
    ASSUME BucketsOK, NEW n \in 0 .. Full, NEW c \in Clients, now' = now,
           buckets'[c] = [tokens |-> n, last |-> now]
    PROVE  Level(c)' = n
  <1>1. buckets'[c] # NoBucket /\ buckets'[c].tokens = n /\ now' - buckets'[c].last = 0
    BY NewBucket DEF BucketsOK
  <1>2. 0 * Refill = 0 BY FullFacts
  <1>3. Refilled(c)' = AtMost(Full, n)
    <2>1. (buckets[c].tokens)' + ((now - buckets[c].last) * Refill)' = n
      BY <1>1, <1>2
    <2> QED BY <2>1 DEF Refilled
  <1> QED BY <1>1, <1>3, FullFacts DEF Level, AtMost

LEMMA FirstUseStep ==
    ASSUME BucketsOK, NEW c \in Clients, FirstUse(c), now' = now
    PROVE  BucketsOK' /\ ReferenceQuota!Ask(c)
  <1>1. Full - Cost \in 0 .. Full /\ Level(c) = Full /\ Cost <= Full
    BY FullFacts DEF FirstUse, Level
  <1> DEFINE b == [tokens |-> Full - Cost, last |-> now]
  <1>2. b \in Bucket /\ b.last = now BY <1>1, NewBucket
  <1>3. buckets' = [buckets EXCEPT ![c] = b] BY DEF FirstUse
  <1>4. BucketsOK' BY <1>2, <1>3 DEF BucketsOK, FirstUse
  <1>5. Level(c)' = Full - Cost BY <1>1, <1>3, FreshLevel DEF BucketsOK
  <1>6. \A d \in Clients \ {c} : Level(d)' = Level(d) BY <1>3, SameLevel DEF BucketsOK
  <1> QED BY <1>1, <1>4, <1>5, <1>6 DEF FirstUse, ReferenceQuota!Ask

LEMMA ReuseStep ==
    ASSUME BucketsOK, NEW c \in Clients, Reuse(c), now' = now
    PROVE  BucketsOK' /\ ReferenceQuota!Ask(c)
  <1> DEFINE n == IF Refilled(c) >= Cost THEN Refilled(c) - Cost ELSE Refilled(c)
  <1>1. Level(c) = Refilled(c) /\ Refilled(c) \in 0 .. Full /\ n \in 0 .. Full
    BY RefilledType, FullFacts DEF Reuse, Level
  <1> DEFINE b == [tokens |-> n, last |-> now]
  <1>2. b \in Bucket /\ b.last = now BY <1>1, NewBucket
  <1>3. buckets' = [buckets EXCEPT ![c] = b] BY DEF Reuse
  <1>4. answer' = [answer EXCEPT ![c] = IF Refilled(c) >= Cost THEN "passed" ELSE "refused"]
    BY DEF Reuse
  <1> HIDE DEF b
  <1>5. BucketsOK' BY <1>2, <1>3, <1>4 DEF BucketsOK
  <1>6. Level(c)' = n
    <2>1. buckets'[c] = [tokens |-> n, last |-> now] BY <1>3 DEF BucketsOK, b
    <2> HIDE DEF n
    <2> QED BY <1>1, <2>1, FreshLevel
  <1>7. \A d \in Clients \ {c} : Level(d)' = Level(d) BY <1>3, SameLevel DEF BucketsOK
  <1>8. CASE Refilled(c) >= Cost
    BY <1>1, <1>4, <1>5, <1>6, <1>7, <1>8 DEF ReferenceQuota!Ask
  <1>9. CASE ~(Refilled(c) >= Cost)
    BY <1>1, <1>4, <1>5, <1>6, <1>7, <1>9, FullFacts DEF ReferenceQuota!Ask
  <1> QED BY <1>8, <1>9

\* Forgetting leaves every level where it is.
LEMMA CleanupBucketsStep ==
    ASSUME BucketsOK, CleanupBuckets
    PROVE  BucketsOK' /\ UNCHANGED ReferenceQuota!quotaVars
  <1>1. now' = now /\ answer' = answer BY DEF CleanupBuckets
  <1>2. \A c \in Clients : buckets'[c] \in {buckets[c], NoBucket} BY DEF CleanupBuckets
  <1>3. BucketsOK'
    BY <1>1, <1>2 DEF BucketsOK, CleanupBuckets, NoBucket
  <1>4. ASSUME NEW c \in Clients PROVE Level(c)' = Level(c)
    <2>1. CASE buckets'[c] = buckets[c] BY <1>1, <2>1, SameLevel
    <2>2. CASE buckets'[c] # buckets[c]
      <3>1. buckets'[c] = NoBucket /\ buckets[c] # NoBucket BY <1>2, <2>2
      <3>2. buckets[c].last < now - Idle BY <2>2 DEF CleanupBuckets
      <3>3. Level(c) = Full BY <3>1, <3>2, IdleIsFull DEF Level
      <3> QED BY <3>1, <3>3 DEF Level
    <2> QED BY <2>1, <2>2
  <1> QED BY <1>1, <1>3, <1>4 DEF ReferenceQuota!quotaVars

LEMMA TickStep ==
    ASSUME BucketsOK, Tick, UNCHANGED bucketVars
    PROVE  BucketsOK' /\ ReferenceQuota!Rise
  <1>1. now' = now + 1 /\ buckets' = buckets /\ answer' = answer BY DEF Tick, bucketVars
  <1>2. ASSUME NEW c \in Clients PROVE buckets[c].last \in Nat /\ buckets[c].last <= now
    BY DEF BucketsOK, Bucket, NoBucket
  <1>3. BucketsOK' BY <1>1, <1>2 DEF BucketsOK
  <1>4. ASSUME NEW c \in Clients
        PROVE  Level(c)' = ReferenceQuota!AtMost(Full, Level(c) + Refill)
    <2>1. CASE buckets[c] = NoBucket
      BY <1>1, <2>1, FullFacts DEF Level, ReferenceQuota!AtMost
    <2>2. CASE buckets[c] # NoBucket
      <3> DEFINE d == now - buckets[c].last
      <3>1. d \in Nat /\ now' - buckets'[c].last = d + 1
        BY <1>1, <1>2 DEF BucketsOK
      <3>2. (d + 1) * Refill = d * Refill + Refill /\ d * Refill \in Nat
        BY <3>1, FullFacts, OneTickMore
      <3>3. Refilled(c) = AtMost(Full, buckets[c].tokens + d * Refill) BY DEF Refilled
      <3>4. Refilled(c)' = AtMost(Full, buckets[c].tokens + (d + 1) * Refill)
        BY <1>1, <3>1 DEF Refilled
      <3>5. Level(c) = Refilled(c) /\ Level(c)' = Refilled(c)' BY <1>1, <2>2 DEF Level
      <3>6. buckets[c].tokens \in Nat BY <2>2, RefilledType, FullFacts
      <3> HIDE DEF d
      <3> QED BY <3>2, <3>3, <3>4, <3>5, <3>6, FullFacts DEF AtMost, ReferenceQuota!AtMost
    <2> QED BY <2>1, <2>2
  <1> QED BY <1>1, <1>3, <1>4 DEF ReferenceQuota!Rise

\* The steps that touch no bucket.
LEMMA BucketsStay ==
    ASSUME BucketsOK, UNCHANGED <<now, bucketVars>>
    PROVE  BucketsOK' /\ UNCHANGED ReferenceQuota!quotaVars
  BY DEF BucketsOK, bucketVars, ReferenceQuota!quotaVars, Level, Refilled

LEMMA BucketsNext ==
    ASSUME BucketsOK, [LimitsNext]_limitsVars
    PROVE  BucketsOK' /\ [ReferenceQuota!Next]_(ReferenceQuota!quotaVars)
  <1>1. ASSUME NEW c \in Clients, Allow(c)
        PROVE  BucketsOK' /\ ReferenceQuota!Next
    BY <1>1, FirstUseStep, ReuseStep DEF Allow, ReferenceQuota!Next
  <1>2. CASE CleanupBuckets BY <1>2, CleanupBucketsStep
  <1>3. CASE Tick /\ UNCHANGED <<bucketVars, windowVars>>
    BY <1>3, TickStep DEF ReferenceQuota!Next
  <1>4. CASE UNCHANGED <<now, bucketVars>> BY <1>4, BucketsStay
  <1> QED BY <1>1, <1>2, <1>3, <1>4 DEF LimitsNext, CleanupWindows, limitsVars

LEMMA BucketsInit == LimitsInit => BucketsOK /\ ReferenceQuota!Init
  BY FullFacts DEF LimitsInit, BucketsOK, NoBucket, ReferenceQuota!Init, Level

\* Whatever the limiter stores and forgets, it answers like an ideal bucket.
THEOREM QuotaRefinement == LimitsSpec => ImplementsQuota
  <1>1. LimitsInit => BucketsOK /\ ReferenceQuota!Init BY BucketsInit
  <1>2. BucketsOK /\ [LimitsNext]_limitsVars
        => BucketsOK' /\ [ReferenceQuota!Next]_(ReferenceQuota!quotaVars)
    BY BucketsNext
  <1> QED BY <1>1, <1>2, PTL DEF LimitsSpec, ImplementsQuota, ReferenceQuota!Spec

----------------------------------------------------------------------------
(* Fixed windows *)

\* What a counter w with limit m says at time t of the requests h allowed so far.
Fits(h, m, w, t) ==
    LET n == Len(h)
        p == n - w.count + 1
    IN  /\ \A i, j \in 1 .. n : i <= j => h[i] <= h[j]
        /\ \A i \in 1 .. n : h[i] <= t
        /\ \A i, j \in 1 .. n : i + 2 * m - 1 = j => h[j] > h[i] + Hour
        /\ w.count > 0 => /\ p >= 1
                          /\ h[p] = w.start
                          /\ \A i \in 1 .. n : i + m = p => h[p] > h[i] + Hour
        /\ w.count = 0 => \A i \in 1 .. n : i + m = n + 1 => h[i] + Hour < t

\* The m-th request back is over an hour old when the counter starts again.
LEMMA OldEnough ==
    ASSUME NEW h \in Seq(Nat), NEW m \in Nat \ {0}, NEW w \in Window, NEW t \in Nat,
           w.count <= m, w.count = 0 \/ t - w.start > Hour,
           Fits(h, m, w, t)
    PROVE  \A i \in 1 .. Len(h) : i + m = Len(h) + 1 => h[i] + Hour < t
  <1>1. Len(h) \in Nat /\ (\A i \in 1 .. Len(h) : h[i] \in Nat) /\ Hour \in Nat
    BY WindowAssumption
  <1>2. w.count \in Nat /\ w.start \in Nat BY DEF Window
  <1>3. CASE w.count = 0 BY <1>3 DEF Fits
  <1>4. CASE w.count > 0
    <2> SUFFICES ASSUME NEW i \in 1 .. Len(h), i + m = Len(h) + 1 PROVE h[i] + Hour < t
      OBVIOUS
    <2>1. PICK n \in Nat, c \in Nat : n = Len(h) /\ c = w.count BY <1>1, <1>2
    <2>2. PICK p \in Int : p = n - c + 1 BY <1>1, <1>2
    <2>3. p >= 1 /\ h[p] = w.start BY <1>4, <2>1, <2>2 DEF Fits
    <2>4. i \in 1 .. n /\ i + m = n + 1 /\ c <= m /\ c >= 1 BY <1>4, <2>1
    <2>5. p \in 1 .. n /\ i <= p BY <2>2, <2>3, <2>4
    <2>6. h[i] <= h[p] BY <2>1, <2>5 DEF Fits
    <2>7. t - w.start > Hour BY <1>2, <1>4
    <2>8. h[i] \in Nat /\ h[i] <= w.start BY <1>1, <2>3, <2>6
    <2>9. PICK a \in Nat, s \in Nat, o \in Nat : a = h[i] /\ s = w.start /\ o = Hour
      BY <1>2, <2>8, WindowAssumption
    <2>10. a <= s /\ t - s > o BY <2>7, <2>8, <2>9
    <2>11. a + o < t BY <2>10
    <2> QED BY <2>9, <2>11
  <1> QED BY <1>2, <1>3, <1>4

LEMMA Appended ==
    ASSUME NEW h \in Seq(Nat), NEW t \in Nat
    PROVE  /\ Append(h, t) \in Seq(Nat)
           /\ Len(h) \in Nat /\ Len(Append(h, t)) = Len(h) + 1
           /\ \A i \in 1 .. Len(h) : h[i] \in Nat /\ Append(h, t)[i] = h[i]
           /\ Append(h, t)[Len(h) + 1] = t
  OBVIOUS

\* Fits of a counter that is not zero, whose window begins with request p of n.
LEMMA FitsFrom ==
    ASSUME NEW h, NEW m, NEW w, NEW t, NEW n, NEW p,
           n = Len(h), p = n - w.count + 1, w.count # 0,
           \A i, j \in 1 .. n : i <= j => h[i] <= h[j],
           \A i \in 1 .. n : h[i] <= t,
           \A i, j \in 1 .. n : i + 2 * m - 1 = j => h[j] > h[i] + Hour,
           p >= 1, h[p] = w.start,
           \A i \in 1 .. n : i + m = p => h[p] > h[i] + Hour
    PROVE  Fits(h, m, w, t)
  BY DEF Fits

\* The first of a window: it is over an hour after the m-th request back.
LEMMA FirstOfWindow ==
    ASSUME NEW h \in Seq(Nat), NEW m \in Nat \ {0}, NEW w \in Window, NEW t \in Nat,
           w.count <= m, w.count = 0 \/ t - w.start > Hour,
           Fits(h, m, w, t)
    PROVE  Fits(Append(h, t), m, [count |-> 1, start |-> t], t)
  <1>1. PICK g : g = Append(h, t) OBVIOUS
  <1>2. PICK n \in Nat : n = Len(h) BY Appended
  <1>3. Len(g) = n + 1 /\ g[n + 1] = t
        /\ \A i \in 1 .. n : h[i] \in Nat /\ g[i] = h[i]
    BY <1>1, <1>2, Appended
  <1>4. Hour \in Nat BY WindowAssumption
  <1>5. /\ \A i, j \in 1 .. n : i <= j => h[i] <= h[j]
        /\ \A i \in 1 .. n : h[i] <= t
        /\ \A i, j \in 1 .. n : i + 2 * m - 1 = j => h[j] > h[i] + Hour
    BY <1>2 DEF Fits
  <1>6. \A i \in 1 .. n : i + m = n + 1 => h[i] + Hour < t BY <1>2, OldEnough
  <1>7. \A i, j \in 1 .. n + 1 : i <= j => g[i] <= g[j] BY <1>3, <1>5
  <1>8. \A i \in 1 .. n + 1 : g[i] <= t BY <1>3, <1>5
  <1>9. ASSUME NEW i \in 1 .. n + 1, NEW j \in 1 .. n + 1, i + 2 * m - 1 = j
        PROVE  g[j] > g[i] + Hour
    <2>1. CASE j <= n
      <3>1. i \in 1 .. n /\ j \in 1 .. n BY <1>9, <2>1
      <3>2. h[j] > h[i] + Hour BY <1>5, <1>9, <3>1
      <3> QED BY <1>3, <3>1, <3>2
    <2>2. CASE j = n + 1
      <3>1. PICK k \in Int : k + m = n + 1 BY <1>2
      <3>2. k \in 1 .. n /\ i \in 1 .. n /\ i <= k BY <1>9, <2>2, <3>1
      <3>3. h[i] <= h[k] /\ h[k] + Hour < t BY <1>5, <1>6, <3>1, <3>2
      <3> QED BY <1>3, <1>4, <2>2, <3>2, <3>3
    <2> QED BY <2>1, <2>2
  <1>10. \A i \in 1 .. n + 1 : i + m = n + 1 => g[n + 1] > g[i] + Hour
    <2> SUFFICES ASSUME NEW i \in 1 .. n + 1, i + m = n + 1 PROVE g[n + 1] > g[i] + Hour
      OBVIOUS
    <2>1. i \in 1 .. n OBVIOUS
    <2>2. h[i] + Hour < t /\ g[i] = h[i] /\ h[i] \in Nat BY <1>3, <1>6, <2>1
    <2> QED BY <1>3, <1>4, <2>2
  <1>11. PICK v : v = [count |-> 1, start |-> t] OBVIOUS
  <1>12. v.count = 1 /\ v.start = t /\ (n + 1) - 1 + 1 = n + 1 BY <1>11
  <1>13. PICK q \in Nat : q = n + 1 BY <1>2
  <1>14. q = q - v.count + 1 /\ v.count # 0 /\ q = Len(g) /\ q >= 1
    BY <1>3, <1>12, <1>13
  <1>15. \A i, j \in 1 .. q : i + 2 * m - 1 = j => g[j] > g[i] + Hour BY <1>9, <1>13
  <1>16. g[q] = v.start BY <1>3, <1>12, <1>13
  <1>17. Fits(g, m, v, t) BY <1>7, <1>8, <1>10, <1>13, <1>14, <1>15, <1>16, FitsFrom
  <1> QED BY <1>1, <1>11, <1>17

\* One more in a window that is not full: the 2m-th request back was there m
\* before the window began.
LEMMA NextOfWindow ==
    ASSUME NEW h \in Seq(Nat), NEW m \in Nat \ {0}, NEW w \in Window, NEW t \in Nat,
           NEW v \in Window, v.count = w.count + 1, v.start = w.start,
           w.count > 0, w.count < m, Fits(h, m, w, t)
    PROVE  Fits(Append(h, t), m, v, t)
  <1>1. PICK g : g = Append(h, t) OBVIOUS
  <1>2. PICK n \in Nat : n = Len(h) BY Appended
  <1>3. Len(g) = n + 1 /\ g[n + 1] = t
        /\ \A i \in 1 .. n : h[i] \in Nat /\ g[i] = h[i]
    BY <1>1, <1>2, Appended
  <1>4. Hour \in Nat /\ w.count \in Nat BY WindowAssumption DEF Window
  <1>5. /\ \A i, j \in 1 .. n : i <= j => h[i] <= h[j]
        /\ \A i \in 1 .. n : h[i] <= t
        /\ \A i, j \in 1 .. n : i + 2 * m - 1 = j => h[j] > h[i] + Hour
    BY <1>2 DEF Fits
  <1>6. PICK p \in Int : p = n - w.count + 1 BY <1>4
  <1>7. p >= 1 /\ h[p] = w.start /\ \A i \in 1 .. n : i + m = p => h[p] > h[i] + Hour
    BY <1>2, <1>6 DEF Fits
  <1>8. p \in 1 .. n BY <1>4, <1>6, <1>7
  <1>9. \A i, j \in 1 .. n + 1 : i <= j => g[i] <= g[j] BY <1>3, <1>5
  <1>10. \A i \in 1 .. n + 1 : g[i] <= t BY <1>3, <1>5
  <1>11. ASSUME NEW i \in 1 .. n + 1, NEW j \in 1 .. n + 1, i + 2 * m - 1 = j
         PROVE  g[j] > g[i] + Hour
    <2>1. CASE j <= n
      <3>1. i \in 1 .. n /\ j \in 1 .. n BY <1>11, <2>1
      <3>2. h[j] > h[i] + Hour BY <1>5, <1>11, <3>1
      <3> QED BY <1>3, <3>1, <3>2
    <2>2. CASE j = n + 1
      <3>1. PICK k \in Int : k + m = p OBVIOUS
      <3>2. k \in 1 .. n /\ i \in 1 .. n /\ i <= k BY <1>4, <1>6, <1>8, <1>11, <2>2, <3>1
      <3>3. h[i] <= h[k] /\ h[p] > h[k] + Hour /\ h[p] <= t BY <1>5, <1>7, <1>8, <3>1, <3>2
      <3>4. g[j] = t /\ g[i] = h[i] /\ h[i] \in Nat /\ h[k] \in Nat /\ h[p] \in Nat
        BY <1>3, <1>8, <2>2, <3>2
      <3>5. PICK x \in Nat, y \in Nat, z \in Nat : x = h[i] /\ y = h[k] /\ z = h[p] BY <3>4
      <3>6. x <= y /\ z > y + Hour /\ z <= t BY <3>3, <3>5
      <3>7. t > x + Hour BY <1>4, <3>6
      <3> QED BY <3>4, <3>5, <3>7
    <2> QED BY <2>1, <2>2
  <1>12. g[p] = w.start /\ \A i \in 1 .. n + 1 : i + m = p => g[p] > g[i] + Hour
    BY <1>3, <1>7, <1>8
  <1>13. PICK q \in Nat : q = n + 1 BY <1>2
  <1>14. p = q - v.count + 1 /\ v.count # 0 /\ q = Len(g) BY <1>3, <1>4, <1>6, <1>13
  <1>15. \A i, j \in 1 .. q : i + 2 * m - 1 = j => g[j] > g[i] + Hour BY <1>11, <1>13
  <1>16. Fits(g, m, v, t)
    BY <1>7, <1>9, <1>10, <1>12, <1>13, <1>14, <1>15, FitsFrom
  <1> QED BY <1>1, <1>16

\* Time passes, and nothing else.
LEMMA FitsLater ==
    ASSUME NEW h \in Seq(Nat), NEW m \in Nat \ {0}, NEW w \in Window, NEW t \in Nat,
           Fits(h, m, w, t)
    PROVE  Fits(h, m, w, t + 1)
  <1>1. Len(h) \in Nat /\ (\A i \in 1 .. Len(h) : h[i] \in Nat) /\ Hour \in Nat
    BY WindowAssumption
  <1>2. \A i \in 1 .. Len(h) : h[i] <= t + 1 BY <1>1 DEF Fits
  <1>3. w.count = 0 => \A i \in 1 .. Len(h) : i + m = Len(h) + 1 => h[i] + Hour < t + 1
    BY <1>1 DEF Fits
  <1> QED BY <1>2, <1>3 DEF Fits

\* The counter is forgotten when its hour is over.
LEMMA FitsForgotten ==
    ASSUME NEW h \in Seq(Nat), NEW m \in Nat \ {0}, NEW w \in Window, NEW t \in Nat,
           w.count <= m, w.start < t - Hour, Fits(h, m, w, t)
    PROVE  Fits(h, m, NoWindow, t)
  <1>1. t - w.start > Hour BY WindowAssumption DEF Window
  <1>2. \A i \in 1 .. Len(h) : i + m = Len(h) + 1 => h[i] + Hour < t BY <1>1, OldEnough
  <1>3. NoWindow.count = 0 BY DEF NoWindow
  <1> QED BY <1>2, <1>3 DEF Fits

\* A set of positions has a least one.
LEMMA LeastPosition ==
    ASSUME NEW S, S \subseteq Nat, S # {} PROVE \E a \in S : \A i \in S : a <= i
  <1>1. PICK R : R = OpToRel(<, Nat) OBVIOUS
  <1>2. IsWellFoundedOn(R, Nat) BY <1>1, NatLessThanWellFounded
  <1>3. PICK a \in S : \A i \in S : ~(<<i, a>> \in R) BY <1>2, WFMin
  <1>4. ASSUME NEW i \in S PROVE a <= i
    <2>1. a \in Nat /\ i \in Nat OBVIOUS
    <2>2. i < a => <<i, a>> \in R BY <1>1, <2>1 DEF OpToRel
    <2> QED BY <1>3, <2>1, <2>2
  <1> QED BY <1>4

\* Less than 2m of the requests fall into any hour.
LEMMA FewInAnHour ==
    ASSUME NEW h \in Seq(Nat), NEW m \in Nat \ {0}, NEW w, NEW t, NEW s \in Nat,
           Fits(h, m, w, t)
    PROVE  Cardinality({i \in DOMAIN h : h[i] \in s .. s + Hour}) < 2 * m
  <1>1. PICK n \in Nat : n = Len(h) BY Appended
  <1>2. DOMAIN h = 1 .. n /\ (\A i \in 1 .. n : h[i] \in Nat) /\ Hour \in Nat
    BY <1>1, WindowAssumption
  <1>3. /\ \A i, j \in 1 .. n : i <= j => h[i] <= h[j]
        /\ \A i, j \in 1 .. n : i + 2 * m - 1 = j => h[j] > h[i] + Hour
    BY <1>1 DEF Fits
  <1>4. PICK S : S = {i \in DOMAIN h : h[i] \in s .. s + Hour} OBVIOUS
  <1>5. S \subseteq Nat /\ \A i \in S : i \in 1 .. n /\ s <= h[i] /\ h[i] <= s + Hour
    BY <1>2, <1>4
  <1>6. CASE S = {}
    <2>1. Cardinality(S) = 0 BY <1>6, FS_EmptySet
    <2> QED BY <1>4, <2>1
  <1>7. CASE S # {}
    <2>1. PICK a \in S : \A i \in S : a <= i BY <1>5, <1>7, LeastPosition
    <2>2. a \in 1 .. n /\ s <= h[a] BY <1>5
    <2>3. PICK b \in Int : b = a + 2 * m - 2 BY <2>2
    <2>4. S \subseteq a .. b
      <3> SUFFICES ASSUME NEW i \in S, i > b PROVE FALSE BY <1>5, <2>1, <2>2, <2>3
      <3>1. i \in 1 .. n /\ h[i] <= s + Hour BY <1>5
      <3>2. b + 1 \in 1 .. n /\ a + 2 * m - 1 = b + 1 /\ b + 1 <= i BY <2>2, <2>3, <3>1
      <3>3. h[b + 1] > h[a] + Hour /\ h[b + 1] <= h[i] BY <1>3, <2>2, <3>1, <3>2
      <3> QED BY <1>2, <2>2, <3>1, <3>2, <3>3
    <2>5. a \in Int /\ ~(a > b) BY <2>2, <2>3
    <2>6. IsFiniteSet(a .. b) /\ Cardinality(a .. b) = b - a + 1 BY <2>5, FS_Interval
    <2>7. Cardinality(S) <= Cardinality(a .. b) /\ IsFiniteSet(S) BY <2>4, <2>6, FS_Subset
    <2>8. Cardinality(S) \in Nat BY <2>7, FS_CardinalityType
    <2> QED BY <1>4, <2>2, <2>3, <2>6, <2>7, <2>8
  <1> QED BY <1>6, <1>7

----------------------------------------------------------------------------
(* The window of a key *)

\* Every window fits the requests it has let through.
WindowsInv ==
    /\ WindowsOK
    /\ \A k \in Keys : Fits(allowed[k], MaxPerHour[k], attempts[k], now)

LEMMA KeyFacts ==
    ASSUME WindowsInv, NEW k \in Keys
    PROVE  /\ now \in Nat /\ MaxPerHour[k] \in Nat \ {0}
           /\ allowed[k] \in Seq(Nat)
           /\ attempts[k] \in Window
           /\ attempts[k].count <= MaxPerHour[k] /\ attempts[k].start <= now
           /\ Fits(allowed[k], MaxPerHour[k], attempts[k], now)
  BY WindowAssumption DEF WindowsInv, WindowsOK

LEMMA AllowKeyStep ==
    ASSUME WindowsInv, NEW k \in Keys, AllowKey(k), now' = now
    PROVE  WindowsInv'
  <1> DEFINE w == attempts[k]
  <1>1. PICK v : v = IF Restarts(w) THEN [count |-> 1, start |-> now]
                     ELSE [w EXCEPT !.count = @ + 1]
    OBVIOUS
  <1>2. /\ attempts' = [attempts EXCEPT ![k] = v]
        /\ allowed' = [allowed EXCEPT ![k] = Append(@, now)]
    BY <1>1 DEF AllowKey
  <1>3. attempts'[k] = v /\ allowed'[k] = Append(allowed[k], now)
    BY <1>2 DEF WindowsInv, WindowsOK
  <1>4. /\ v \in Window /\ v.start <= now /\ v.count <= MaxPerHour[k]
        /\ Fits(Append(allowed[k], now), MaxPerHour[k], v, now)
    <2>1. CASE Restarts(w)
      <3>1. v = [count |-> 1, start |-> now] BY <1>1, <2>1
      <3>2. w.count = 0 \/ now - w.start > Hour BY <2>1 DEF Restarts
      <3>3. Fits(Append(allowed[k], now), MaxPerHour[k], v, now)
        BY <3>1, <3>2, KeyFacts, FirstOfWindow
      <3> QED BY <3>1, <3>3, KeyFacts DEF Window
    <2>2. CASE ~Restarts(w)
      <3>1. v = [w EXCEPT !.count = @ + 1] BY <1>1, <2>2
      <3>2. w.count < MaxPerHour[k] /\ w.count # 0 BY <2>2 DEF AllowKey, Restarts
      <3>3. w.count \in Nat /\ w.count > 0 BY <3>2, KeyFacts DEF Window
      <3>4. v \in Window /\ v.count = w.count + 1 /\ v.start = w.start
        BY <3>1, KeyFacts DEF Window
      <3>5. Fits(Append(allowed[k], now), MaxPerHour[k], v, now)
        BY <3>2, <3>3, <3>4, KeyFacts, NextOfWindow
      <3> QED BY <3>2, <3>3, <3>4, <3>5, KeyFacts
    <2> QED BY <2>1, <2>2
  <1>5. WindowsOK'
    <2>1. Append(allowed[k], now) \in Seq(Nat) BY KeyFacts
    <2> QED BY <1>2, <1>4, <2>1 DEF WindowsInv, WindowsOK
  <1>6. ASSUME NEW j \in Keys PROVE Fits(allowed'[j], MaxPerHour[j], attempts'[j], now')
    <2>1. CASE j = k BY <1>3, <1>4, <2>1
    <2>2. CASE j # k
      <3>1. attempts'[j] = attempts[j] /\ allowed'[j] = allowed[j]
        BY <1>2, <2>2 DEF WindowsInv, WindowsOK
      <3> QED BY <3>1, KeyFacts
    <2> QED BY <2>1, <2>2
  <1> QED BY <1>5, <1>6 DEF WindowsInv

LEMMA CleanupWindowsStep == ASSUME WindowsInv, CleanupWindows PROVE WindowsInv'
  <1>1. now' = now /\ allowed' = allowed
        /\ attempts' = [k \in Keys |->
              IF attempts[k].start < now - Hour THEN NoWindow ELSE attempts[k]]
    BY DEF CleanupWindows
  <1>2. ASSUME NEW k \in Keys
        PROVE  /\ attempts'[k] \in Window /\ attempts'[k].start <= now
               /\ attempts'[k].count <= MaxPerHour[k]
               /\ Fits(allowed[k], MaxPerHour[k], attempts'[k], now)
    <2>1. CASE attempts[k].start < now - Hour
      <3>1. attempts'[k] = NoWindow BY <1>1, <2>1
      <3>2. Fits(allowed[k], MaxPerHour[k], NoWindow, now) BY <2>1, KeyFacts, FitsForgotten
      <3>3. NoWindow \in Window /\ NoWindow.start <= now /\ NoWindow.count <= MaxPerHour[k]
        BY KeyFacts DEF NoWindow, Window
      <3> QED BY <3>1, <3>2, <3>3
    <2>2. CASE ~(attempts[k].start < now - Hour)
      <3>1. attempts'[k] = attempts[k] BY <1>1, <2>2
      <3> QED BY <3>1, KeyFacts
    <2> QED BY <2>1, <2>2
  <1>3. WindowsOK' BY <1>1, <1>2 DEF WindowsInv, WindowsOK
  <1> QED BY <1>1, <1>2, <1>3 DEF WindowsInv

LEMMA WindowsTick ==
    ASSUME WindowsInv, now' = now + 1, UNCHANGED windowVars PROVE WindowsInv'
  <1>1. attempts' = attempts /\ allowed' = allowed BY DEF windowVars
  <1>2. ASSUME NEW k \in Keys PROVE attempts[k].start <= now + 1 BY KeyFacts DEF Window
  <1>3. WindowsOK' BY <1>1, <1>2 DEF WindowsInv, WindowsOK
  <1>4. ASSUME NEW k \in Keys PROVE Fits(allowed[k], MaxPerHour[k], attempts[k], now + 1)
    BY KeyFacts, FitsLater
  <1> QED BY <1>1, <1>3, <1>4 DEF WindowsInv

LEMMA WindowsStay ==
    ASSUME WindowsInv, now' = now, UNCHANGED windowVars PROVE WindowsInv'
  BY DEF WindowsInv, WindowsOK, windowVars

LEMMA WindowsInit == LimitsInit => WindowsInv
  <1> SUFFICES ASSUME LimitsInit PROVE WindowsInv OBVIOUS
  <1>1. <<>> \in Seq(Nat) /\ Len(<<>>) = 0 /\ 1 .. 0 = {} OBVIOUS
  <1>2. NoWindow \in Window /\ NoWindow.count = 0 /\ NoWindow.start = 0
    BY DEF NoWindow, Window
  <1>3. WindowsOK BY <1>1, <1>2, WindowAssumption DEF LimitsInit, WindowsOK
  <1>4. ASSUME NEW k \in Keys PROVE Fits(allowed[k], MaxPerHour[k], attempts[k], now)
    <2>1. allowed[k] = <<>> /\ attempts[k] = NoWindow BY DEF LimitsInit
    <2> QED BY <1>1, <1>2, <2>1 DEF Fits
  <1> QED BY <1>3, <1>4 DEF WindowsInv

LEMMA WindowsNext == ASSUME WindowsInv, [LimitsNext]_limitsVars PROVE WindowsInv'
  <1>1. ASSUME NEW k \in Keys, AllowKey(k), UNCHANGED <<now, bucketVars>> PROVE WindowsInv'
    BY <1>1, AllowKeyStep
  <1>2. CASE CleanupWindows BY <1>2, CleanupWindowsStep
  <1>3. CASE Tick /\ UNCHANGED <<bucketVars, windowVars>> BY <1>3, WindowsTick DEF Tick
  <1>4. CASE now' = now /\ UNCHANGED windowVars BY <1>4, WindowsStay
  <1> QED BY <1>1, <1>2, <1>3, <1>4 DEF LimitsNext, Allow, CleanupBuckets, limitsVars

LEMMA HourBoundHolds == WindowsInv => HourBound
  <1> SUFFICES ASSUME WindowsInv, NEW k \in Keys, NEW t \in 0 .. now
               PROVE  Cardinality({i \in DOMAIN allowed[k] : allowed[k][i] \in t .. t + Hour})
                          < 2 * MaxPerHour[k]
    BY DEF HourBound
  <1>1. t \in Nat BY KeyFacts
  <1> QED BY <1>1, KeyFacts, FewInAnHour

\* No hour, wherever it begins, sees more than twice the limit less one of the
\* requests AllowKey lets through, whatever entries the cleanup has forgotten.
THEOREM HourBoundSafe == LimitsSpec => []HourBound
  <1>1. LimitsInit => WindowsInv BY WindowsInit
  <1>2. WindowsInv /\ [LimitsNext]_limitsVars => WindowsInv' BY WindowsNext
  <1>3. WindowsInv => HourBound BY HourBoundHolds
  <1> QED BY <1>1, <1>2, <1>3, PTL DEF LimitsSpec

\* The maps of both limiters keep their types.
THEOREM LimitsTypeCorrect == LimitsSpec => []LimitsTypeOK
  <1>1. LimitsInit => BucketsOK /\ WindowsInv BY BucketsInit, WindowsInit
  <1>2. BucketsOK /\ WindowsInv /\ [LimitsNext]_limitsVars => (BucketsOK /\ WindowsInv)'
    BY BucketsNext, WindowsNext
  <1>3. BucketsOK /\ WindowsInv => LimitsTypeOK
    BY DEF BucketsOK, WindowsInv, WindowsOK, LimitsTypeOK
  <1> QED BY <1>1, <1>2, <1>3, PTL DEF LimitsSpec

----------------------------------------------------------------------------
(* Signing in *)

\* The account id belongs to the address e.
Holds(id, e) == [id |-> id, email |-> e] \in users

\* One account to an address: the column is unique.
UsersAgree == \A u, v \in users : u.email = v.email <=> u.id = v.id

\* A request on its way to a link has found or made the account of its address.
RequestOK(r) ==
    /\ linkReq[r].pc # "idle" => linkReq[r].email \in Emails
    /\ linkReq[r].pc \in {"retire", "link", "mail"} =>
          linkReq[r].user \in Accounts /\ Holds(linkReq[r].user, linkReq[r].email)
    /\ linkReq[r].pc = "mail" =>
          /\ linkReq[r].link \in DOMAIN links
          /\ links[linkReq[r].link].user = linkReq[r].user

\* The address a link was mailed to is its account's.
MailOK == \A m \in mailed : Holds(links[m.link].user, m.email)

\* A used link is not taken up again, so nobody who is under way came late.
ClickOK(v) ==
    /\ ~click[v].late
    /\ click[v].pc = "consume" => click[v].link \in DOMAIN links

\* Whoever was signed in used up the link.
SignedOK == \A s \in signIns : links[s.link].used /\ ~s.late

\* NewestLinkIsOpen is inductive next to the other conjuncts.
SignInInv ==
    /\ now \in Nat
    /\ SignInTypeOK
    /\ UsersAgree
    /\ \A r \in Requesters : RequestOK(r)
    /\ MailOK
    /\ \A v \in Clickers : ClickOK(v)
    /\ SignedOK
    /\ NewestLinkIsOpen

LEMMA RequestFacts ==
    ASSUME SignInInv, NEW r \in Requesters
    PROVE  /\ linkReq[r] \in LinkRequest
           /\ linkReq[r].email \in Emails \cup {Nobody}
           /\ linkReq[r].user \in Accounts \cup {Nobody}
           /\ linkReq[r].link \in Nat
           /\ RequestOK(r)
  BY DEF SignInInv, SignInTypeOK, LinkRequest

LEMMA LinkFacts ==
    ASSUME SignInInv
    PROVE  /\ Len(links) \in Nat
           /\ DOMAIN links = 1 .. Len(links)
           /\ \A i \in DOMAIN links :
                 links[i] \in Link /\ links[i].user \in Accounts /\ links[i].used \in BOOLEAN
                 /\ links[i].expires \in Nat
  <1>1. links \in Seq(Link) BY DEF SignInInv, SignInTypeOK
  <1>2. Len(links) \in Nat /\ DOMAIN links = 1 .. Len(links)
        /\ \A i \in 1 .. Len(links) : links[i] \in Link
    BY <1>1
  <1> QED BY <1>2 DEF Link

LEMMA StoreInjective ==
    ASSUME SignInInv, NEW id1, NEW e1, NEW id2, NEW e2, Holds(id1, e1), Holds(id2, e2)
    PROVE  e1 = e2 <=> id1 = id2
  <1>1. PICK u \in users, v \in users :
            u = [id |-> id1, email |-> e1] /\ v = [id |-> id2, email |-> e2]
    BY DEF Holds
  <1>2. u.email = e1 /\ u.id = id1 /\ v.email = e2 /\ v.id = id2 BY <1>1
  <1> QED BY <1>2 DEF SignInInv, UsersAgree

\* Only the request of r moves.
LEMMA RequestMoves ==
    ASSUME SignInInv, now' = now, UNCHANGED <<users, links, mailed, click, signIns>>,
           NEW r \in Requesters, NEW q \in LinkRequest,
           linkReq' = [linkReq EXCEPT ![r] = q], RequestOK(r)',
           stranded' \subseteq Accounts, stranded \subseteq stranded',
           linkReq[r].pc = "link" => linkReq[r].user \in stranded'
    PROVE  SignInInv'
  <1>1. SignInTypeOK' BY DEF SignInInv, SignInTypeOK
  <1>2. \A s \in Requesters \ {r} : linkReq'[s] = linkReq[s] BY DEF SignInInv, SignInTypeOK
  <1>3. ASSUME NEW s \in Requesters PROVE RequestOK(s)'
    <2>1. CASE s = r BY <2>1
    <2>2. CASE s # r
      <3>1. RequestOK(s) /\ linkReq'[s] = linkReq[s] BY <1>2, <2>2, RequestFacts
      <3> QED BY <3>1 DEF RequestOK, Holds
    <2> QED BY <2>1, <2>2
  <1>4. NewestLinkIsOpen'
    <2> SUFFICES ASSUME NEW i \in DOMAIN links, IsNewest(i), links[i].used
                 PROVE  \/ \E s \in signIns : s.link = i
                        \/ \E s \in Requesters :
                              linkReq'[s].pc = "link" /\ linkReq'[s].user = links[i].user
                        \/ links[i].user \in stranded'
      BY DEF NewestLinkIsOpen, IsNewest
    <2>1. \/ \E s \in signIns : s.link = i
          \/ \E s \in Requesters : linkReq[s].pc = "link" /\ linkReq[s].user = links[i].user
          \/ links[i].user \in stranded
      BY DEF SignInInv, NewestLinkIsOpen
    <2> QED BY <1>2, <2>1
  <1> QED BY <1>1, <1>3, <1>4
       DEF SignInInv, UsersAgree, MailOK, Holds, ClickOK, SignedOK

LEMMA IdleRequestFacts ==
    IdleRequest \in LinkRequest /\ IdleRequest.pc = "idle"
  BY DEF IdleRequest, LinkRequest

LEMMA MovedRequest ==
    ASSUME SignInInv, NEW r \in Requesters, NEW q, linkReq' = [linkReq EXCEPT ![r] = q]
    PROVE  linkReq'[r] = q
  BY DEF SignInInv, SignInTypeOK

LEMMA RequestLinkStep ==
    ASSUME SignInInv, NEW r \in Requesters, NEW e \in Emails, RequestLink(r, e), now' = now
    PROVE  SignInInv'
  <1>1. PICK q : q = [IdleRequest EXCEPT !.pc = "find", !.email = e] OBVIOUS
  <1>2. q \in LinkRequest /\ q.pc = "find" /\ q.email = e
    BY <1>1 DEF IdleRequest, LinkRequest
  <1>3. linkReq' = [linkReq EXCEPT ![r] = q] BY <1>1 DEF RequestLink
  <1>4. RequestOK(r)' BY <1>2, <1>3, MovedRequest DEF RequestOK
  <1> QED BY <1>2, <1>3, <1>4, RequestMoves DEF RequestLink, SignInInv, SignInTypeOK

LEMMA FindUserStep ==
    ASSUME SignInInv, NEW r \in Requesters, FindUser(r), now' = now
    PROVE  SignInInv'
  <1>1. linkReq[r] \in LinkRequest /\ linkReq[r].email \in Emails /\ linkReq[r].pc = "find"
    BY RequestFacts DEF FindUser, RequestOK
  <1>2. CASE linkReq' = [linkReq EXCEPT ![r].pc = "insert"]
    <2>1. PICK q : q = [linkReq[r] EXCEPT !.pc = "insert"] OBVIOUS
    <2>2. q \in LinkRequest /\ q.pc = "insert" /\ q.email = linkReq[r].email
      BY <1>1, <2>1 DEF LinkRequest
    <2>3. linkReq' = [linkReq EXCEPT ![r] = q] BY <1>2, <2>1
    <2>4. RequestOK(r)' BY <1>1, <2>2, <2>3, MovedRequest DEF RequestOK
    <2> QED BY <1>1, <2>2, <2>3, <2>4, RequestMoves DEF FindUser, SignInInv, SignInTypeOK
  <1>3. ASSUME NEW u \in users, u.email = linkReq[r].email,
               linkReq' = [linkReq EXCEPT ![r].pc = "retire", ![r].user = u.id]
        PROVE  SignInInv'
    <2>1. u.id \in Accounts /\ u = [id |-> u.id, email |-> u.email]
      BY DEF SignInInv, SignInTypeOK
    <2>2. PICK q : q = [linkReq[r] EXCEPT !.pc = "retire", !.user = u.id] OBVIOUS
    <2>3. q \in LinkRequest /\ q.pc = "retire" /\ q.email = linkReq[r].email /\ q.user = u.id
      BY <1>1, <2>1, <2>2 DEF LinkRequest
    <2>4. linkReq' = [linkReq EXCEPT ![r] = q] BY <1>3, <2>2 DEF SignInInv, SignInTypeOK
    <2>5. Holds(q.user, q.email)' BY <1>3, <2>1, <2>3 DEF Holds, FindUser
    <2>6. RequestOK(r)' BY <1>1, <2>1, <2>3, <2>4, <2>5, MovedRequest DEF RequestOK, Holds
    <2> QED BY <1>1, <2>3, <2>4, <2>6, RequestMoves DEF FindUser, SignInInv, SignInTypeOK
  <1> QED BY <1>2, <1>3 DEF FindUser

LEMMA EndRequestStep ==
    ASSUME SignInInv, NEW r \in Requesters, EndRequest(r), now' = now,
           UNCHANGED <<users, links, mailed, click, signIns>>,
           stranded' \subseteq Accounts, stranded \subseteq stranded',
           linkReq[r].pc = "link" => linkReq[r].user \in stranded'
    PROVE  SignInInv'
  <1>1. linkReq' = [linkReq EXCEPT ![r] = IdleRequest] BY DEF EndRequest
  <1>2. RequestOK(r)' BY <1>1, MovedRequest, IdleRequestFacts DEF RequestOK
  <1> QED BY <1>1, <1>2, IdleRequestFacts, RequestMoves

LEMMA InsertUserStep ==
    ASSUME SignInInv, NEW r \in Requesters, InsertUser(r), now' = now
    PROVE  SignInInv'
  <1>1. linkReq[r] \in LinkRequest /\ linkReq[r].email \in Emails /\ linkReq[r].pc = "insert"
    BY RequestFacts DEF InsertUser, RequestOK
  <1>2. CASE \E u \in users : u.email = linkReq[r].email
    BY <1>1, <1>2, EndRequestStep DEF InsertUser, SignInInv, SignInTypeOK
  <1>3. CASE ~ \E u \in users : u.email = linkReq[r].email
    <2>1. PICK id \in Accounts \ {u.id : u \in users} :
              /\ users' = users \cup {[id |-> id, email |-> linkReq[r].email]}
              /\ linkReq' = [linkReq EXCEPT ![r].pc = "retire", ![r].user = id]
      BY <1>3 DEF InsertUser
    <2>2. PICK n : n = [id |-> id, email |-> linkReq[r].email] OBVIOUS
    <2>3. n \in [id : Accounts, email : Emails] /\ n.id = id /\ n.email = linkReq[r].email
      BY <1>1, <2>2
    <2>4. users' = users \cup {n} BY <2>1, <2>2
    <2>5. UsersAgree' BY <1>3, <2>3, <2>4 DEF SignInInv, UsersAgree
    <2>6. PICK q : q = [linkReq[r] EXCEPT !.pc = "retire", !.user = id] OBVIOUS
    <2>7. q \in LinkRequest /\ q.pc = "retire" /\ q.email = linkReq[r].email /\ q.user = id
      BY <1>1, <2>6 DEF LinkRequest
    <2>8. linkReq' = [linkReq EXCEPT ![r] = q] BY <2>1, <2>6 DEF SignInInv, SignInTypeOK
    <2>9. linkReq'[r] = q /\ \A s \in Requesters \ {r} : linkReq'[s] = linkReq[s]
      BY <2>8 DEF SignInInv, SignInTypeOK
    <2>10. UNCHANGED <<links, mailed, click, signIns, stranded>> BY DEF InsertUser
    <2>11. SignInTypeOK' BY <2>3, <2>4, <2>7, <2>8, <2>10 DEF SignInInv, SignInTypeOK
    <2>12. ASSUME NEW s \in Requesters PROVE RequestOK(s)'
      <3>1. CASE s = r
        BY <1>1, <2>2, <2>4, <2>7, <2>9, <3>1 DEF RequestOK, Holds
      <3>2. CASE s # r
        BY <2>4, <2>9, <2>10, <3>2, RequestFacts DEF RequestOK, Holds
      <3> QED BY <3>1, <3>2
    <2>13. MailOK' BY <2>4, <2>10 DEF SignInInv, MailOK, Holds
    <2>14. NewestLinkIsOpen'
      <3> SUFFICES ASSUME NEW i \in DOMAIN links, IsNewest(i), links[i].used
                   PROVE  \/ \E s \in signIns : s.link = i
                          \/ \E s \in Requesters :
                                linkReq'[s].pc = "link" /\ linkReq'[s].user = links[i].user
                          \/ links[i].user \in stranded
        BY <2>10 DEF NewestLinkIsOpen, IsNewest
      <3>1. \/ \E s \in signIns : s.link = i
            \/ \E s \in Requesters : linkReq[s].pc = "link" /\ linkReq[s].user = links[i].user
            \/ links[i].user \in stranded
        BY DEF SignInInv, NewestLinkIsOpen
      <3> QED BY <1>1, <2>9, <3>1
    <2> QED BY <2>5, <2>10, <2>11, <2>12, <2>13, <2>14 DEF SignInInv, ClickOK, SignedOK
  <1> QED BY <1>2, <1>3

\* A step that at most uses links up. Each newest one used up has a reason.
LEMMA UsingStep ==
    ASSUME SignInInv, now' = now, UNCHANGED users,
           NEW f \in [DOMAIN links -> Link], links' = f,
           \A i \in DOMAIN links :
               f[i].user = links[i].user /\ (links[i].used => f[i].used)
    PROVE  /\ links' \in Seq(Link) /\ DOMAIN links' = DOMAIN links
           /\ \A i \in DOMAIN links : IsNewest(i)' <=> IsNewest(i)
           /\ mailed' = mailed => MailOK'
           /\ \A r \in Requesters : linkReq'[r] = linkReq[r] => RequestOK(r)'
  <1>1. DOMAIN links = 1 .. Len(links) /\ Len(links) \in Nat BY LinkFacts
  <1>2. f \in Seq(Link) /\ DOMAIN f = DOMAIN links BY <1>1
  <1>3. \A i \in DOMAIN links : links'[i].user = links[i].user OBVIOUS
  <1>4. \A i \in DOMAIN links : IsNewest(i)' <=> IsNewest(i) BY <1>2, <1>3 DEF IsNewest
  <1>5. mailed' = mailed => MailOK'
    BY <1>3 DEF SignInInv, SignInTypeOK, MailOK, Holds
  <1>6. ASSUME NEW r \in Requesters, linkReq'[r] = linkReq[r] PROVE RequestOK(r)'
    BY <1>2, <1>3, <1>6, RequestFacts DEF RequestOK, Holds
  <1> QED BY <1>2, <1>4, <1>5, <1>6

LEMMA RetireLinksStep ==
    ASSUME SignInInv, NEW r \in Requesters, RetireLinks(r), now' = now
    PROVE  SignInInv'
  <1>1. /\ linkReq[r] \in LinkRequest /\ linkReq[r].email \in Emails /\ linkReq[r].pc = "retire"
        /\ linkReq[r].user \in Accounts /\ Holds(linkReq[r].user, linkReq[r].email)
    BY RequestFacts DEF RetireLinks, RequestOK
  <1>2. PICK f : f = Retired(linkReq[r].user) OBVIOUS
  <1>3. links' = f /\ UNCHANGED <<users, mailed, click, signIns, stranded>>
    BY <1>2 DEF RetireLinks
  <1>4. f \in [DOMAIN links -> Link]
        /\ \A i \in DOMAIN links :
              /\ f[i].user = links[i].user
              /\ links[i].used => f[i].used
              /\ f[i].used /\ ~links[i].used => links[i].user = linkReq[r].user
    BY <1>2, LinkFacts DEF Retired, Link
  <1>5. PICK q : q = [linkReq[r] EXCEPT !.pc = "link"] OBVIOUS
  <1>6. q \in LinkRequest /\ q.pc = "link" /\ q.email = linkReq[r].email
        /\ q.user = linkReq[r].user
    BY <1>1, <1>5 DEF LinkRequest
  <1>7. linkReq' = [linkReq EXCEPT ![r] = q] BY <1>5 DEF RetireLinks
  <1>8. linkReq'[r] = q /\ \A s \in Requesters \ {r} : linkReq'[s] = linkReq[s]
    BY <1>7 DEF SignInInv, SignInTypeOK
  <1>9. /\ links' \in Seq(Link) /\ DOMAIN links' = DOMAIN links
        /\ \A i \in DOMAIN links : IsNewest(i)' <=> IsNewest(i)
        /\ MailOK'
        /\ \A s \in Requesters : linkReq'[s] = linkReq[s] => RequestOK(s)'
    BY <1>3, <1>4, UsingStep DEF SignInInv
  <1>10. SignInTypeOK' BY <1>3, <1>6, <1>7, <1>9 DEF SignInInv, SignInTypeOK
  <1>11. \A s \in Requesters : RequestOK(s)'
    <2>1. RequestOK(r)' BY <1>1, <1>3, <1>6, <1>8 DEF RequestOK, Holds
    <2> QED BY <1>8, <1>9, <2>1
  <1>12. NewestLinkIsOpen'
    <2> SUFFICES ASSUME NEW i \in DOMAIN links, IsNewest(i), f[i].used
                 PROVE  \/ \E s \in signIns : s.link = i
                        \/ \E s \in Requesters :
                              linkReq'[s].pc = "link" /\ linkReq'[s].user = links[i].user
                        \/ links[i].user \in stranded
      BY <1>3, <1>4, <1>9 DEF NewestLinkIsOpen
    <2>1. CASE links[i].used
      <3>1. \/ \E s \in signIns : s.link = i
            \/ \E s \in Requesters : linkReq[s].pc = "link" /\ linkReq[s].user = links[i].user
            \/ links[i].user \in stranded
        BY <2>1 DEF SignInInv, NewestLinkIsOpen
      <3> QED BY <1>1, <1>8, <3>1
    <2>2. CASE ~links[i].used BY <1>4, <1>6, <1>8, <2>2
    <2> QED BY <2>1, <2>2
  <1>13. SignedOK' BY <1>3, <1>4 DEF SignInInv, SignInTypeOK, SignedOK
  <1> QED BY <1>3, <1>9, <1>10, <1>11, <1>12, <1>13 DEF SignInInv, UsersAgree, ClickOK

LEMMA InsertLinkStep ==
    ASSUME SignInInv, NEW r \in Requesters, InsertLink(r), now' = now
    PROVE  SignInInv'
  <1>1. /\ linkReq[r] \in LinkRequest /\ linkReq[r].email \in Emails /\ linkReq[r].pc = "link"
        /\ linkReq[r].user \in Accounts /\ Holds(linkReq[r].user, linkReq[r].email)
    BY RequestFacts DEF InsertLink, RequestOK
  <1>2. PICK l : l = NewLink(linkReq[r].user) OBVIOUS
  <1>3. l \in Link /\ l.user = linkReq[r].user /\ ~l.used
    BY <1>1, <1>2, SignInAssumption DEF NewLink, Link, SignInInv
  <1>4. PICK n \in Nat : n = Len(links) BY LinkFacts
  <1>5. links' = Append(links, l) /\ UNCHANGED <<users, mailed, click, signIns>>
        /\ stranded' = stranded \ {l.user}
    BY <1>2, <1>3 DEF InsertLink
  <1>6. /\ links' \in Seq(Link) /\ DOMAIN links = 1 .. n /\ DOMAIN links' = 1 .. n + 1
        /\ links'[n + 1] = l /\ \A i \in 1 .. n : links'[i] = links[i]
    BY <1>3, <1>4, <1>5 DEF SignInInv, SignInTypeOK
  <1>7. PICK q : q = [linkReq[r] EXCEPT !.pc = "mail", !.link = n + 1] OBVIOUS
  <1>8. q \in LinkRequest /\ q.pc = "mail" /\ q.email = linkReq[r].email
        /\ q.user = linkReq[r].user /\ q.link = n + 1
    <2>1. n + 1 \in Nat OBVIOUS
    <2> QED BY <1>1, <1>7, <2>1 DEF LinkRequest
  <1>9. linkReq' = [linkReq EXCEPT ![r] = q]
    BY <1>4, <1>7 DEF InsertLink, SignInInv, SignInTypeOK
  <1>10. linkReq'[r] = q /\ \A s \in Requesters \ {r} : linkReq'[s] = linkReq[s]
    BY <1>9 DEF SignInInv, SignInTypeOK
  <1>11. SignInTypeOK' BY <1>5, <1>6, <1>8, <1>9 DEF SignInInv, SignInTypeOK
  <1>12. ASSUME NEW s \in Requesters PROVE RequestOK(s)'
    <2>1. CASE s = r BY <1>1, <1>3, <1>5, <1>6, <1>8, <1>10, <2>1 DEF RequestOK, Holds
    <2>2. CASE s # r
      <3>1. RequestOK(s) /\ linkReq'[s] = linkReq[s] BY <1>10, <2>2, RequestFacts
      <3> QED BY <1>5, <1>6, <3>1 DEF RequestOK, Holds
    <2> QED BY <2>1, <2>2
  <1>13. MailOK' BY <1>5, <1>6 DEF SignInInv, SignInTypeOK, MailOK, Holds
  <1>14. \A v \in Clickers : ClickOK(v)' BY <1>5, <1>6 DEF SignInInv, ClickOK
  <1>15. SignedOK' BY <1>5, <1>6 DEF SignInInv, SignInTypeOK, SignedOK
  <1>16. NewestLinkIsOpen'
    <2> SUFFICES ASSUME NEW i \in 1 .. n + 1, IsNewest(i)', links'[i].used
                 PROVE  \/ \E s \in signIns : s.link = i
                        \/ \E s \in Requesters :
                              linkReq'[s].pc = "link" /\ linkReq'[s].user = links'[i].user
                        \/ links'[i].user \in stranded'
      BY <1>5, <1>6 DEF NewestLinkIsOpen
    <2>1. i \in 1 .. n /\ links'[i] = links[i] BY <1>3, <1>6
    <2>2. links[i].user # l.user
      <3>1. links'[n + 1].user = l.user /\ n + 1 \in DOMAIN links' /\ ~(n + 1 <= i)
        BY <1>6, <2>1
      <3> QED BY <2>1, <3>1 DEF IsNewest
    <2>3. IsNewest(i) BY <1>6, <2>1 DEF IsNewest
    <2>4. \/ \E s \in signIns : s.link = i
          \/ \E s \in Requesters : linkReq[s].pc = "link" /\ linkReq[s].user = links[i].user
          \/ links[i].user \in stranded
      BY <1>6, <2>1, <2>3 DEF SignInInv, NewestLinkIsOpen
    <2> QED BY <1>3, <1>5, <1>10, <2>1, <2>2, <2>4
  <1> QED BY <1>5, <1>11, <1>12, <1>13, <1>14, <1>15, <1>16 DEF SignInInv, UsersAgree

LEMMA SendMagicLinkStep ==
    ASSUME SignInInv, NEW r \in Requesters, SendMagicLink(r), now' = now
    PROVE  SignInInv'
  <1>1. linkReq[r].pc = "mail" /\ UNCHANGED <<users, links, click, signIns, stranded>>
    BY DEF SendMagicLink
  <1>2. CASE mailed' = mailed
    BY <1>1, <1>2, EndRequestStep DEF SendMagicLink, SignInInv, SignInTypeOK
  <1>3. CASE mailed' = mailed \cup {[email |-> linkReq[r].email, link |-> linkReq[r].link]}
    <2>1. PICK m : m = [email |-> linkReq[r].email, link |-> linkReq[r].link] OBVIOUS
    <2>2. /\ linkReq[r].email \in Emails /\ linkReq[r].link \in DOMAIN links
          /\ Holds(links[linkReq[r].link].user, linkReq[r].email)
      BY <1>1, RequestFacts DEF RequestOK
    <2>3. m \in [email : Emails, link : DOMAIN links] /\ Holds(links[m.link].user, m.email)
      BY <2>1, <2>2
    <2>4. mailed' = mailed \cup {m} BY <1>3, <2>1
    <2>5. linkReq' = [linkReq EXCEPT ![r] = IdleRequest] BY DEF SendMagicLink, EndRequest
    <2>6. linkReq'[r] = IdleRequest /\ \A s \in Requesters \ {r} : linkReq'[s] = linkReq[s]
      BY <2>5 DEF SignInInv, SignInTypeOK
    <2>7. SignInTypeOK'
      BY <1>1, <2>3, <2>4, <2>5, IdleRequestFacts DEF SignInInv, SignInTypeOK
    <2>8. MailOK' BY <1>1, <2>3, <2>4 DEF SignInInv, MailOK, Holds
    <2>9. \A s \in Requesters : RequestOK(s)'
      BY <1>1, <2>6, IdleRequestFacts, RequestFacts DEF RequestOK, Holds
    <2>10. NewestLinkIsOpen'
      <3> SUFFICES ASSUME NEW i \in DOMAIN links, IsNewest(i), links[i].used
                   PROVE  \/ \E s \in signIns : s.link = i
                          \/ \E s \in Requesters :
                                linkReq'[s].pc = "link" /\ linkReq'[s].user = links[i].user
                          \/ links[i].user \in stranded
        BY <1>1 DEF NewestLinkIsOpen, IsNewest
      <3>1. \/ \E s \in signIns : s.link = i
            \/ \E s \in Requesters : linkReq[s].pc = "link" /\ linkReq[s].user = links[i].user
            \/ links[i].user \in stranded
        BY DEF SignInInv, NewestLinkIsOpen
      <3> QED BY <1>1, <2>6, <3>1
    <2> QED BY <1>1, <2>7, <2>8, <2>9, <2>10 DEF SignInInv, UsersAgree, ClickOK, SignedOK
  <1> QED BY <1>2, <1>3 DEF SendMagicLink

LEMMA RequestFailsStep ==
    ASSUME SignInInv, NEW r \in Requesters, RequestFails(r), now' = now
    PROVE  SignInInv'
  <1>1. stranded \subseteq Accounts BY DEF SignInInv, SignInTypeOK
  <1>2. linkReq[r].pc = "link" => linkReq[r].user \in Accounts BY RequestFacts DEF RequestOK
  <1>3. /\ stranded' \subseteq Accounts /\ stranded \subseteq stranded'
        /\ linkReq[r].pc = "link" => linkReq[r].user \in stranded'
    BY <1>1, <1>2 DEF RequestFails
  <1> QED BY <1>3, EndRequestStep DEF RequestFails

\* Only the verification of v moves.
LEMMA ClickMoves ==
    ASSUME SignInInv, now' = now, UNCHANGED <<users, links, mailed, linkReq, signIns, stranded>>,
           NEW v \in Clickers, NEW c \in Clicked, ~c.late,
           c.pc = "consume" => c.link \in DOMAIN links,
           click' = [click EXCEPT ![v] = c]
    PROVE  SignInInv'
  <1>1. SignInTypeOK' BY DEF SignInInv, SignInTypeOK
  <1>2. click'[v] = c /\ \A w \in Clickers \ {v} : click'[w] = click[w]
    BY DEF SignInInv, SignInTypeOK
  <1>3. \A w \in Clickers : ClickOK(w)' BY <1>2 DEF SignInInv, ClickOK
  <1>4. \A r \in Requesters : RequestOK(r)' BY RequestFacts DEF RequestOK, Holds
  <1>5. NewestLinkIsOpen' BY DEF SignInInv, NewestLinkIsOpen, IsNewest
  <1> QED BY <1>1, <1>3, <1>4, <1>5 DEF SignInInv, UsersAgree, MailOK, Holds, SignedOK

LEMMA IdleClickFacts == IdleClick \in Clicked /\ ~IdleClick.late /\ IdleClick.pc = "idle"
  BY DEF IdleClick, Clicked

\* A link that is still unused has signed nobody in.
LEMMA VerifyLinkStep ==
    ASSUME SignInInv, NEW v \in Clickers, NEW m \in mailed, VerifyLink(v, m), now' = now
    PROVE  SignInInv'
  <1>1. m.link \in DOMAIN links /\ m.link \in Nat
    BY LinkFacts DEF SignInInv, SignInTypeOK
  <1>2. ~ \E s \in signIns : s.link = m.link BY DEF VerifyLink, SignInInv, SignedOK
  <1>3. PICK c : c = [pc |-> "consume", link |-> m.link, late |-> FALSE] OBVIOUS
  <1>4. c \in Clicked /\ ~c.late /\ c.link \in DOMAIN links BY <1>1, <1>3 DEF Clicked
  <1>5. click' = [click EXCEPT ![v] = c] BY <1>2, <1>3 DEF VerifyLink
  <1> QED BY <1>4, <1>5, ClickMoves DEF VerifyLink

LEMMA ConsumeLinkStep ==
    ASSUME SignInInv, NEW v \in Clickers, ConsumeLink(v), now' = now
    PROVE  SignInInv'
  <1>1. PICK k \in DOMAIN links : k = click[v].link /\ ~click[v].late
    BY DEF ConsumeLink, SignInInv, ClickOK
  <1>2. PICK f : f = [links EXCEPT ![k].used = TRUE] OBVIOUS
  <1>3. f \in [DOMAIN links -> Link] /\ f[k].used
        /\ \A i \in DOMAIN links :
              /\ f[i].user = links[i].user
              /\ links[i].used => f[i].used
              /\ i # k => f[i] = links[i]
    BY <1>2, LinkFacts DEF Link
  <1>4. PICK z : z = [link |-> click[v].link, late |-> click[v].late] OBVIOUS
  <1>5. z.link = k /\ ~z.late /\ z \in [link : DOMAIN links, late : BOOLEAN]
    <2>1. click[v].late = FALSE BY <1>1 DEF SignInInv, SignInTypeOK, Clicked
    <2> QED BY <1>1, <1>4, <2>1
  <1>6. links' = f /\ signIns' = signIns \cup {z}
        /\ UNCHANGED <<users, mailed, linkReq, stranded>>
        /\ click' = [click EXCEPT ![v] = IdleClick]
    BY <1>1, <1>2, <1>4 DEF ConsumeLink, EndClick
  <1>7. /\ links' \in Seq(Link) /\ DOMAIN links' = DOMAIN links
        /\ \A i \in DOMAIN links : IsNewest(i)' <=> IsNewest(i)
        /\ MailOK'
        /\ \A s \in Requesters : linkReq'[s] = linkReq[s] => RequestOK(s)'
    BY <1>3, <1>6, UsingStep DEF SignInInv
  <1>8. SignInTypeOK'
    BY <1>5, <1>6, <1>7, IdleClickFacts DEF SignInInv, SignInTypeOK
  <1>9. \A w \in Clickers : ClickOK(w)'
    <2>1. \A w \in Clickers : click'[w] \in {click[w], IdleClick}
      BY <1>6 DEF SignInInv, SignInTypeOK
    <2> QED BY <1>7, <2>1, IdleClickFacts DEF SignInInv, ClickOK
  <1>10. SignedOK'
    BY <1>3, <1>5, <1>6 DEF SignInInv, SignInTypeOK, SignedOK
  <1>11. NewestLinkIsOpen'
    <2> SUFFICES ASSUME NEW i \in DOMAIN links, IsNewest(i), f[i].used
                 PROVE  \/ \E s \in signIns' : s.link = i
                        \/ \E s \in Requesters :
                              linkReq[s].pc = "link" /\ linkReq[s].user = links[i].user
                        \/ links[i].user \in stranded
      BY <1>3, <1>6, <1>7 DEF NewestLinkIsOpen
    <2>1. CASE i = k BY <1>5, <1>6, <2>1
    <2>2. CASE i # k
      <3>1. links[i].used BY <1>3, <2>2
      <3>2. \/ \E s \in signIns : s.link = i
            \/ \E s \in Requesters : linkReq[s].pc = "link" /\ linkReq[s].user = links[i].user
            \/ links[i].user \in stranded
        BY <3>1 DEF SignInInv, NewestLinkIsOpen
      <3> QED BY <1>6, <3>2
    <2> QED BY <2>1, <2>2
  <1> QED BY <1>6, <1>7, <1>8, <1>9, <1>10, <1>11 DEF SignInInv, UsersAgree

LEMMA ClickFailsStep ==
    ASSUME SignInInv, NEW v \in Clickers, ClickFails(v), now' = now
    PROVE  SignInInv'
  BY ClickMoves, IdleClickFacts DEF ClickFails, EndClick

LEMMA SignInStays ==
    ASSUME SignInInv, now' \in Nat, UNCHANGED signInVars PROVE SignInInv'
  BY DEF signInVars, SignInInv, SignInTypeOK, UsersAgree, RequestOK, MailOK, Holds, ClickOK,
         SignedOK, NewestLinkIsOpen, IsNewest

LEMMA SignInStart == LimitsInit /\ SignInInit => SignInInv
  <1> SUFFICES ASSUME LimitsInit, SignInInit PROVE SignInInv OBVIOUS
  <1>1. <<>> \in Seq(Link) /\ DOMAIN <<>> = {} OBVIOUS
  <1>2. SignInTypeOK
    BY <1>1, IdleRequestFacts, IdleClickFacts DEF SignInInit, SignInTypeOK
  <1>3. \A r \in Requesters : RequestOK(r) BY IdleRequestFacts DEF SignInInit, RequestOK
  <1>4. \A v \in Clickers : ClickOK(v) BY IdleClickFacts DEF SignInInit, ClickOK
  <1> QED BY <1>1, <1>2, <1>3, <1>4
       DEF LimitsInit, SignInInit, SignInInv, UsersAgree, MailOK, SignedOK, NewestLinkIsOpen

LEMMA SignInNextStep ==
    ASSUME SignInInv, [SignInNext]_<<limitsVars, signInVars>> PROVE SignInInv'
  <1>1. ASSUME NEW r \in Requesters, NEW e \in Emails, RequestLink(r, e), now' = now
        PROVE  SignInInv'
    BY <1>1, RequestLinkStep
  <1>2. ASSUME NEW r \in Requesters, RequestStep(r), now' = now PROVE SignInInv'
    BY <1>2, FindUserStep, InsertUserStep, RetireLinksStep, InsertLinkStep, SendMagicLinkStep,
       RequestFailsStep DEF RequestStep
  <1>3. ASSUME NEW v \in Clickers, NEW m \in mailed, VerifyLink(v, m), now' = now
        PROVE  SignInInv'
    BY <1>3, VerifyLinkStep
  <1>4. ASSUME NEW v \in Clickers, ClickStep(v), now' = now PROVE SignInInv'
    BY <1>4, ConsumeLinkStep, ClickFailsStep DEF ClickStep
  <1>5. ASSUME Tick, UNCHANGED signInVars PROVE SignInInv'
    <2>1. now' \in Nat BY <1>5 DEF Tick, SignInInv
    <2> QED BY <1>5, <2>1, SignInStays
  <1>6. ASSUME now' = now, UNCHANGED signInVars PROVE SignInInv'
    <2>1. now' \in Nat BY <1>6 DEF SignInInv
    <2> QED BY <1>6, <2>1, SignInStays
  <1> QED BY <1>1, <1>2, <1>3, <1>4, <1>5, <1>6 DEF SignInNext, CleanupWindows, limitsVars

LEMMA SignInInvariant == SignInSpec => []SignInInv
  BY SignInStart, SignInNextStep, PTL DEF SignInSpec

LEMMA SignInPromises ==
    ASSUME SignInInv
    PROVE  SignInTypeOK /\ LinkSignsInOnce /\ NewestLinkIsOpen /\ AddressIsOneAccount
  <1>1. LinkSignsInOnce BY DEF SignInInv, SignedOK, LinkSignsInOnce
  <1>2. AddressIsOneAccount BY StoreInjective DEF SignInInv, MailOK, AddressIsOneAccount
  <1> QED BY <1>1, <1>2 DEF SignInInv

\* The store and the goroutines of SendMagicLink and VerifyMagicLink keep their
\* types.
THEOREM SignInTypeCorrect == SignInSpec => []SignInTypeOK
  BY SignInInvariant, SignInPromises, PTL

\* ConsumeMagicLink signs nobody in by a link that had been used when the click
\* arrived.
THEOREM LinkOnce == SignInSpec => []LinkSignsInOnce
  BY SignInInvariant, SignInPromises, PTL

\* Requests for links that retire each other's links leave the newest one open.
THEOREM NewestOpen == SignInSpec => []NewestLinkIsOpen
  BY SignInInvariant, SignInPromises, PTL

\* GetOrCreateUser gives an address one account, though its lookup and insert
\* are apart.
THEOREM OneAccount == SignInSpec => []AddressIsOneAccount
  BY SignInInvariant, SignInPromises, PTL

----------------------------------------------------------------------------
(* API tokens *)

\* Too late to be let in.
Dead(t) == apiTokens[t].revoked \/ Expired(t)

\* A request under way has a token that exists. One that came too late stays
\* too late, and does not get past the lookup.
CallOK(a) ==
    call[a].pc # "idle" =>
        /\ call[a].token \in TokenIds /\ Issued(call[a].token)
        /\ call[a].late => Dead(call[a].token)
        /\ call[a].pc = "user" => ~call[a].late

\* The time noted is behind the latest use by the gap at most.
RanOK(t) ==
    ran[t] # Never =>
        /\ Issued(t) /\ apiTokens[t].lastUsed # Never
        /\ apiTokens[t].lastUsed >= ran[t] - TouchGap

\* The background writes may be of any time: each compares with the row itself.
TokenInv ==
    /\ now \in Nat
    /\ ApiTokensTypeOK
    /\ \A a \in Calls : CallOK(a)
    /\ \A t \in TokenIds : RanOK(t)
    /\ LateIsRefused

LEMMA TokenFacts ==
    ASSUME TokenInv, NEW t \in TokenIds, Issued(t)
    PROVE  /\ apiTokens[t] \in Token
           /\ apiTokens[t].owner \in Owners /\ apiTokens[t].expires \in Nat
           /\ apiTokens[t].revoked \in BOOLEAN
           /\ apiTokens[t].lastUsed \in Nat \cup {Never}
  <1>1. apiTokens[t] \in Token BY DEF TokenInv, ApiTokensTypeOK, Issued
  <1> QED BY <1>1 DEF Token

LEMMA IssuedToken == ASSUME NEW r \in Token PROVE r # NoToken
  BY NoTokenAssumption

\* What no step does to a token: unissue it, revive it, or lose its last use.
LEMMA DeadStaysDead ==
    ASSUME TokenInv, NEW t \in TokenIds, Issued(t), Dead(t),
           now' \in Nat, now' >= now,
           apiTokens'[t].expires = apiTokens[t].expires,
           apiTokens[t].revoked => apiTokens'[t].revoked
    PROVE  Dead(t)'
  BY TokenFacts DEF Dead, Expired, TokenInv

\* Steps that at most revoke tokens keep requests and noted uses in order.
LEMMA RevokingStep ==
    ASSUME TokenInv, now' \in Nat, now' >= now,
           UNCHANGED <<call, touching, admitted, ran>>,
           apiTokens' \in [TokenIds -> Token \cup {NoToken}],
           \A t \in TokenIds : Issued(t) =>
               /\ apiTokens'[t] # NoToken
               /\ apiTokens'[t].expires = apiTokens[t].expires
               /\ apiTokens'[t].lastUsed = apiTokens[t].lastUsed
               /\ apiTokens[t].revoked => apiTokens'[t].revoked
    PROVE  TokenInv'
  <1>1. ApiTokensTypeOK'
    <2>1. touching' \subseteq [token : TokenIds, at : 0 .. now'] BY DEF TokenInv, ApiTokensTypeOK
    <2>2. \A x \in touching' \cup admitted' : apiTokens'[x.token] # NoToken
      BY DEF TokenInv, ApiTokensTypeOK, Issued
    <2> QED BY <2>1, <2>2 DEF TokenInv, ApiTokensTypeOK
  <1>2. ASSUME NEW a \in Calls PROVE CallOK(a)'
    <2>1. CallOK(a) BY DEF TokenInv
    <2> QED BY <2>1, DeadStaysDead DEF CallOK, Issued
  <1>3. ASSUME NEW t \in TokenIds PROVE RanOK(t)'
    <2>1. RanOK(t) BY DEF TokenInv
    <2> QED BY <2>1 DEF RanOK, Issued
  <1> QED BY <1>1, <1>2, <1>3 DEF TokenInv, LateIsRefused

LEMMA MintStep ==
    ASSUME TokenInv, NEW u \in Owners, NEW t \in TokenIds, NEW life \in Nat,
           Mint(u, t, life), now' = now
    PROVE  TokenInv'
  <1>1. PICK r : r = NewToken(u, life) OBVIOUS
  <1>2. r \in Token BY <1>1 DEF NewToken, Token, TokenInv, Never
  <1>3. apiTokens' = [apiTokens EXCEPT ![t] = r] /\ ~Issued(t) BY <1>1 DEF Mint
  <1>4. apiTokens' \in [TokenIds -> Token \cup {NoToken}]
        /\ \A j \in TokenIds : Issued(j) => apiTokens'[j] = apiTokens[j]
    BY <1>2, <1>3 DEF TokenInv, ApiTokensTypeOK
  <1> QED BY <1>4, RevokingStep DEF Mint, TokenInv, Issued

LEMMA RevokeStep ==
    ASSUME TokenInv, NEW u \in Owners, NEW t \in TokenIds, Revoke(u, t), now' = now
    PROVE  TokenInv'
  <1>1. PICK r : r = [apiTokens[t] EXCEPT !.revoked = TRUE] OBVIOUS
  <1>2. r \in Token /\ r.expires = apiTokens[t].expires /\ r.lastUsed = apiTokens[t].lastUsed
        /\ r.revoked
    BY <1>1, TokenFacts DEF Revoke, Token
  <1>3. apiTokens' = [apiTokens EXCEPT ![t] = r] BY <1>1 DEF Revoke
  <1>4. apiTokens'[t] = r /\ \A j \in TokenIds \ {t} : apiTokens'[j] = apiTokens[j]
    BY <1>3 DEF TokenInv, ApiTokensTypeOK
  <1>5. apiTokens' \in [TokenIds -> Token \cup {NoToken}]
    BY <1>2, <1>3 DEF TokenInv, ApiTokensTypeOK
  <1>6. r # NoToken BY <1>2, IssuedToken
  <1>7. \A j \in TokenIds : Issued(j) =>
            /\ apiTokens'[j] # NoToken
            /\ apiTokens'[j].expires = apiTokens[j].expires
            /\ apiTokens'[j].lastUsed = apiTokens[j].lastUsed
            /\ apiTokens[j].revoked => apiTokens'[j].revoked
    BY <1>2, <1>4, <1>6 DEF Issued
  <1>8. now' \in Nat /\ now' >= now /\ UNCHANGED <<call, touching, admitted, ran>>
    BY DEF Revoke, TokenInv
  <1> QED BY <1>5, <1>7, <1>8, RevokingStep

LEMMA RevokeAllStep ==
    ASSUME TokenInv, NEW u \in Owners, RevokeAll(u), now' = now
    PROVE  TokenInv'
  <1>1. apiTokens' = [t \in TokenIds |->
            IF Issued(t) /\ apiTokens[t].owner = u
            THEN [apiTokens[t] EXCEPT !.revoked = TRUE] ELSE apiTokens[t]]
    BY DEF RevokeAll
  <1>2. ASSUME NEW t \in TokenIds, Issued(t)
        PROVE  /\ apiTokens'[t] \in Token
               /\ apiTokens'[t].expires = apiTokens[t].expires
               /\ apiTokens'[t].lastUsed = apiTokens[t].lastUsed
               /\ apiTokens[t].revoked => apiTokens'[t].revoked
    BY <1>1, <1>2, TokenFacts DEF Token
  <1>3. \A t \in TokenIds : ~Issued(t) => apiTokens'[t] = NoToken BY <1>1 DEF Issued
  <1>4. apiTokens' \in [TokenIds -> Token \cup {NoToken}] BY <1>1, <1>2, <1>3
  <1>5. \A t \in TokenIds : Issued(t) => apiTokens'[t] # NoToken BY <1>2, IssuedToken
  <1> QED BY <1>2, <1>4, <1>5, RevokingStep DEF RevokeAll, TokenInv

\* Steps of one request. The rows stay.
LEMMA CallingStep ==
    ASSUME TokenInv, now' = now, UNCHANGED <<apiTokens, ran>>,
           NEW a \in Calls, NEW c \in Call, call' = [call EXCEPT ![a] = c], CallOK(a)',
           touching' \subseteq [token : TokenIds, at : 0 .. now],
           admitted' \subseteq [token : TokenIds, late : BOOLEAN],
           \A x \in (touching' \cup admitted') \ (touching \cup admitted) : Issued(x.token),
           \A x \in admitted' : ~x.late
    PROVE  TokenInv'
  <1>1. ApiTokensTypeOK' BY DEF TokenInv, ApiTokensTypeOK, Issued
  <1>2. ASSUME NEW b \in Calls, b # a PROVE CallOK(b)'
    <2>1. call'[b] = call[b] BY <1>2 DEF TokenInv, ApiTokensTypeOK
    <2> QED BY <2>1 DEF TokenInv, CallOK, Issued, Dead, Expired
  <1> QED BY <1>1, <1>2 DEF TokenInv, RanOK, Issued, LateIsRefused

LEMMA IdleCallOK ==
    ASSUME TokenInv, NEW a \in Calls, call' = [call EXCEPT ![a] = IdleCall]
    PROVE  CallOK(a)' /\ IdleCall \in Call
  <1>1. call'[a].pc = "idle" BY DEF TokenInv, ApiTokensTypeOK, IdleCall
  <1> QED BY <1>1 DEF CallOK, IdleCall, Call

LEMMA ArriveStep ==
    ASSUME TokenInv, NEW a \in Calls, NEW t \in TokenIds, Arrive(a, t), now' = now
    PROVE  TokenInv'
  <1>1. PICK c : c = [pc |-> "token", token |-> t, late |-> Dead(t)] OBVIOUS
  <1>2. call' = [call EXCEPT ![a] = c] BY <1>1 DEF Arrive, Dead
  <1>3. Dead(t) \in BOOLEAN BY TokenFacts DEF Arrive, Dead, Expired
  <1>4. c \in Call BY <1>1, <1>3 DEF Call
  <1>5. call'[a] = c BY <1>2 DEF TokenInv, ApiTokensTypeOK
  <1>6. CallOK(a)'
    <2>1. apiTokens' = apiTokens /\ Issued(t) BY DEF Arrive
    <2>2. Dead(t)' = Dead(t) BY <2>1 DEF Dead, Expired
    <2>3. Issued(t)' BY <2>1 DEF Issued
    <2>4. call'[a].pc = "token" /\ call'[a].token = t /\ call'[a].late = Dead(t) BY <1>1, <1>5
    <2> QED BY <2>2, <2>3, <2>4 DEF CallOK
  <1> QED BY <1>2, <1>4, <1>6, CallingStep DEF Arrive, TokenInv, ApiTokensTypeOK, LateIsRefused

LEMMA CallFacts ==
    ASSUME TokenInv, NEW a \in Calls, call[a].pc # "idle"
    PROVE  /\ call[a] \in Call /\ call[a].token \in TokenIds /\ Issued(call[a].token)
           /\ call[a].late => Dead(call[a].token)
           /\ call[a].pc = "user" => ~call[a].late
           /\ call[a].late \in BOOLEAN
  BY DEF TokenInv, ApiTokensTypeOK, CallOK, Call

LEMMA FindTokenStep ==
    ASSUME TokenInv, NEW a \in Calls, FindToken(a), now' = now
    PROVE  TokenInv'
  <1>1. UNCHANGED <<apiTokens, touching, admitted, ran>> BY DEF FindToken
  <1>2. CASE Found(call[a].token)
    <2>1. PICK c : c = [call[a] EXCEPT !.pc = "user"] OBVIOUS
    <2>2. call' = [call EXCEPT ![a] = c] BY <1>2, <2>1 DEF FindToken
    <2>3. c \in Call /\ c.token = call[a].token /\ c.late = call[a].late
      BY <2>1, CallFacts DEF FindToken, Call
    <2>4. ~Dead(call[a].token) BY <1>2, CallFacts, TokenFacts DEF Found, Dead, FindToken
    <2>5. ~c.late /\ c.token \in TokenIds /\ Issued(c.token)
      BY <2>3, <2>4, CallFacts DEF FindToken
    <2>6. call'[a] = c BY <2>2 DEF TokenInv, ApiTokensTypeOK
    <2>7. CallOK(a)' BY <1>1, <2>5, <2>6 DEF CallOK, Issued
    <2> QED BY <1>1, <2>2, <2>3, <2>7, CallingStep DEF TokenInv, ApiTokensTypeOK, LateIsRefused
  <1>3. CASE ~Found(call[a].token)
    <2>1. call' = [call EXCEPT ![a] = IdleCall] BY <1>3 DEF FindToken
    <2> QED BY <1>1, <2>1, IdleCallOK, CallingStep DEF TokenInv, ApiTokensTypeOK, LateIsRefused
  <1> QED BY <1>2, <1>3

LEMMA FindOwnerStep ==
    ASSUME TokenInv, NEW a \in Calls, FindOwner(a), now' = now
    PROVE  TokenInv'
  <1>1. PICK t \in TokenIds : t = call[a].token /\ Issued(t)
    BY CallFacts DEF FindOwner
  <1>2. ~call[a].late /\ call[a].late \in BOOLEAN BY CallFacts DEF FindOwner
  <1>3. PICK x, y : x = [token |-> t, at |-> now] /\ y = [token |-> t, late |-> call[a].late]
    OBVIOUS
  <1>4. x \in [token : TokenIds, at : 0 .. now] /\ y \in [token : TokenIds, late : BOOLEAN]
        /\ x.token = t /\ y.token = t /\ ~y.late
    BY <1>2, <1>3 DEF TokenInv
  <1>5. touching' = touching \cup {x} /\ admitted' = admitted \cup {y}
        /\ call' = [call EXCEPT ![a] = IdleCall] /\ UNCHANGED <<apiTokens, ran>>
    BY <1>1, <1>3 DEF FindOwner
  <1>6. touching \subseteq [token : TokenIds, at : 0 .. now]
        /\ admitted \subseteq [token : TokenIds, late : BOOLEAN]
        /\ \A z \in admitted : ~z.late
    BY DEF TokenInv, ApiTokensTypeOK, LateIsRefused
  <1>7. IdleCall \in Call /\ CallOK(a)' BY <1>5, IdleCallOK
  <1>8. /\ touching' \subseteq [token : TokenIds, at : 0 .. now]
        /\ admitted' \subseteq [token : TokenIds, late : BOOLEAN]
        /\ \A z \in (touching' \cup admitted') \ (touching \cup admitted) : Issued(z.token)
        /\ \A z \in admitted' : ~z.late
    BY <1>1, <1>4, <1>5, <1>6
  <1> QED BY <1>5, <1>7, <1>8, CallingStep

LEMMA CallFailsStep ==
    ASSUME TokenInv, NEW a \in Calls, CallFails(a), now' = now
    PROVE  TokenInv'
  BY IdleCallOK, CallingStep DEF CallFails, TokenInv, ApiTokensTypeOK, LateIsRefused

\* One write in the background. Only the use it is about moves.
LEMMA TouchStep ==
    ASSUME TokenInv, NEW x \in touching, Touch(x), now' = now
    PROVE  TokenInv'
  <1>1. PICK t \in TokenIds, n \in 0 .. now : x = [token |-> t, at |-> n]
    BY DEF TokenInv, ApiTokensTypeOK
  <1>2. x.token = t /\ x.at = n /\ n \in Nat /\ TouchGap \in Nat
    BY <1>1, ApiTokensAssumption DEF TokenInv
  <1>3. Issued(t) BY <1>2 DEF TokenInv, ApiTokensTypeOK, Issued
  <1>4. PICK old \in Nat \cup {Never} : old = apiTokens[t].lastUsed BY <1>3, TokenFacts
  <1>5. PICK use : use = IF old = Never \/ old < n - TouchGap THEN n ELSE old OBVIOUS
  <1>6. use \in Nat /\ use >= n - TouchGap /\ (old # Never => use >= old)
    BY <1>2, <1>4, <1>5 DEF Never
  <1>7. PICK r : r = [apiTokens[t] EXCEPT !.lastUsed = use] OBVIOUS
  <1>8. r \in Token /\ r.expires = apiTokens[t].expires /\ r.revoked = apiTokens[t].revoked
        /\ r.lastUsed = use
    BY <1>3, <1>6, <1>7, TokenFacts DEF Token
  <1>9. apiTokens' = [apiTokens EXCEPT ![t] = r]
    BY <1>2, <1>4, <1>5, <1>7 DEF Touch
  <1>10. apiTokens'[t] = r /\ (\A j \in TokenIds \ {t} : apiTokens'[j] = apiTokens[j])
         /\ r # NoToken
    BY <1>8, <1>9, IssuedToken DEF TokenInv, ApiTokensTypeOK
  <1>11. /\ ran' = [ran EXCEPT ![t] = IF n > ran[t] THEN n ELSE ran[t]]
         /\ touching' \subseteq touching /\ UNCHANGED <<call, admitted>>
    BY <1>2 DEF Touch
  <1>12. ran[t] \in Nat \cup {Never} /\ RanOK(t) BY DEF TokenInv, ApiTokensTypeOK
  <1>13. RanOK(t)'
    <2>1. ran'[t] = IF n > ran[t] THEN n ELSE ran[t] BY <1>11 DEF TokenInv, ApiTokensTypeOK
    <2>2. use # Never BY <1>6 DEF Never
    <2>3. ran[t] # Never => old # Never /\ old >= ran[t] - TouchGap BY <1>4, <1>12 DEF RanOK
    <2>4. use >= ran'[t] - TouchGap
      <3>1. CASE ran[t] = Never BY <1>2, <1>6, <2>1, <3>1 DEF Never
      <3>2. CASE ran[t] # Never
        <4>1. ran[t] \in Nat /\ old \in Nat /\ use >= old /\ old >= ran[t] - TouchGap
          BY <1>4, <1>6, <1>12, <2>3, <3>2
        <4> QED BY <1>2, <1>6, <2>1, <4>1
      <3> QED BY <3>1, <3>2
    <2> QED BY <1>8, <1>10, <2>2, <2>4 DEF RanOK, Issued
  <1>14. ASSUME NEW j \in TokenIds, j # t PROVE RanOK(j)'
    <2>1. ran'[j] = ran[j] /\ apiTokens'[j] = apiTokens[j]
      BY <1>10, <1>11, <1>14 DEF TokenInv, ApiTokensTypeOK
    <2> QED BY <2>1 DEF TokenInv, RanOK, Issued
  <1>15. \A j \in TokenIds : Issued(j) =>
             /\ apiTokens'[j] # NoToken
             /\ apiTokens'[j].expires = apiTokens[j].expires
             /\ apiTokens[j].revoked => apiTokens'[j].revoked
    BY <1>8, <1>10 DEF Issued
  <1>16. ASSUME NEW a \in Calls PROVE CallOK(a)'
    <2>1. CallOK(a) BY DEF TokenInv
    <2>2. now' \in Nat /\ now' >= now BY DEF TokenInv
    <2> QED BY <1>11, <1>15, <2>1, <2>2, DeadStaysDead DEF CallOK, Issued
  <1>17. ApiTokensTypeOK'
    <2>1. apiTokens' \in [TokenIds -> Token \cup {NoToken}]
      BY <1>8, <1>9 DEF TokenInv, ApiTokensTypeOK
    <2>2. ran' \in [TokenIds -> Nat \cup {Never}]
      BY <1>2, <1>11 DEF TokenInv, ApiTokensTypeOK
    <2>3. \A z \in touching' \cup admitted' : apiTokens'[z.token] # NoToken
      BY <1>11, <1>15 DEF TokenInv, ApiTokensTypeOK, Issued
    <2> QED BY <1>11, <2>1, <2>2, <2>3 DEF TokenInv, ApiTokensTypeOK
  <1> QED BY <1>11, <1>13, <1>14, <1>16, <1>17 DEF TokenInv, LateIsRefused

LEMMA TouchFailsStep ==
    ASSUME TokenInv, NEW x \in touching, TouchFails(x), now' = now
    PROVE  TokenInv'
  BY DEF TouchFails, TokenInv, ApiTokensTypeOK, CallOK, RanOK, LateIsRefused, Issued, Dead,
         Expired

\* The steps that leave the tokens alone; time may pass.
LEMMA TokensStay ==
    ASSUME TokenInv, now' \in Nat, now' >= now, UNCHANGED tokenVars PROVE TokenInv'
  <1>1. UNCHANGED <<apiTokens, call, touching, admitted, ran>> BY DEF tokenVars
  <1> QED BY <1>1, RevokingStep DEF TokenInv, ApiTokensTypeOK, Issued

LEMMA TokensInit == LimitsInit /\ ApiTokensInit => TokenInv
  <1> SUFFICES ASSUME LimitsInit, ApiTokensInit PROVE TokenInv OBVIOUS
  <1>1. IdleCall \in Call /\ IdleCall.pc = "idle" BY DEF IdleCall, Call
  <1>2. ApiTokensTypeOK BY <1>1 DEF ApiTokensInit, ApiTokensTypeOK
  <1> QED BY <1>1, <1>2 DEF LimitsInit, ApiTokensInit, TokenInv, CallOK, RanOK, LateIsRefused

LEMMA TokensNext ==
    ASSUME TokenInv, [ApiTokensNext]_<<limitsVars, tokenVars>> PROVE TokenInv'
  <1>1. ASSUME TokenRequest, UNCHANGED <<now, bucketVars>> PROVE TokenInv'
    <2>1. now' = now /\ Lives \subseteq Nat BY <1>1, ApiTokensAssumption
    <2>2. now' \in Nat /\ now' >= now BY <2>1 DEF TokenInv
    <2>3. ASSUME NEW u \in Owners, MintFails(u) PROVE TokenInv'
      BY <2>2, <2>3, TokensStay DEF MintFails
    <2>4. ASSUME NEW a \in Calls, CallStep(a) PROVE TokenInv'
      BY <2>1, <2>4, FindTokenStep, FindOwnerStep, CallFailsStep DEF CallStep
    <2>5. ASSUME NEW x \in touching, Touch(x) \/ TouchFails(x) PROVE TokenInv'
      BY <2>1, <2>5, TouchStep, TouchFailsStep
    <2> QED BY <1>1, <2>1, <2>3, <2>4, <2>5, MintStep, RevokeStep, RevokeAllStep, ArriveStep
         DEF TokenRequest
  <1>2. ASSUME UNCHANGED <<now, tokenVars>> PROVE TokenInv'
    <2>1. now' \in Nat /\ now' >= now BY <1>2 DEF TokenInv
    <2> QED BY <1>2, <2>1, TokensStay
  <1>3. ASSUME Tick, UNCHANGED tokenVars PROVE TokenInv'
    <2>1. now' \in Nat /\ now' >= now BY <1>3 DEF Tick, TokenInv
    <2> QED BY <1>3, <2>1, TokensStay
  <1> QED BY <1>1, <1>2, <1>3 DEF ApiTokensNext, CleanupWindows, limitsVars

LEMMA TokensInvariant == ApiTokensSpec => []TokenInv
  BY TokensInit, TokensNext, PTL DEF ApiTokensSpec

LEMMA TokenPromises ==
    ASSUME TokenInv PROVE ApiTokensTypeOK /\ LateIsRefused /\ LastUsedIsFresh
  BY DEF TokenInv, RanOK, LastUsedIsFresh

\* The token table and the goroutines of the middleware keep their types.
THEOREM ApiTokensTypeCorrect == ApiTokensSpec => []ApiTokensTypeOK
  BY TokensInvariant, TokenPromises, PTL

\* GetUserByAPITokenHash lets no request in that arrives with a token revoked or
\* expired before.
THEOREM LateRefused == ApiTokensSpec => []LateIsRefused
  BY TokensInvariant, TokenPromises, PTL

\* TouchAPIToken leaves last_used_at behind the latest use it noted by no more
\* than the gap.
THEOREM LastUsedFresh == ApiTokensSpec => []LastUsedIsFresh
  BY TokensInvariant, TokenPromises, PTL

----------------------------------------------------------------------------
(* The login command *)

\* The callback with token t has been opened for login g.
Opened(t, g) == [token |-> t, state |-> g] \in opened

\* A token is handed to one callback.
OpenedOK ==
    /\ \A x \in opened : Issued(x.token)
    /\ \A x, z \in opened : x.token = z.token => x = z

\* A tab with the callback got it from the page of that login.
TabOK(b) ==
    /\ tab[b].pc = "page" => tab[b].state \in Logins
    /\ tab[b].pc = "callback" => Opened(tab[b].token, tab[b].state)

\* What is in the channel of a login came by its own callback.
ChannelOK(g) == login[g].channel # NoToken => Opened(login[g].channel, g)

\* So did what a login has taken.
TakenOK == \A x \in taken : Opened(x.token, x.login)

\* The callback compares the state, so a token follows its login's own page.
LoginInv ==
    /\ LoginTypeOK
    /\ OpenedOK
    /\ \A b \in Tabs : TabOK(b)
    /\ \A g \in Logins : ChannelOK(g)
    /\ TakenOK

LEMMA LoginRunFacts ==
    ASSUME LoginInv, NEW g \in Logins
    PROVE  /\ login[g] \in LoginRun
           /\ login[g].port \in Ports \cup {NoPort}
           /\ login[g].channel \in TokenIds \cup {NoToken}
           /\ login[g].token \in TokenIds \cup {NoToken}
  BY DEF LoginInv, LoginTypeOK, LoginRun

\* A command goes on; what came through its channel stays.
LEMMA CommandMoves ==
    ASSUME LoginInv, UNCHANGED <<apiTokens, tab, opened>>,
           NEW g \in Logins, NEW r \in LoginRun, login' = [login EXCEPT ![g] = r],
           r.channel = login[g].channel,
           stored' \in TokenIds \cup {NoToken},
           taken' \subseteq [login : Logins, token : TokenIds],
           \A x \in taken' \ taken : Opened(x.token, x.login)
    PROVE  LoginInv'
  <1>1. LoginTypeOK' BY DEF LoginInv, LoginTypeOK
  <1>2. ASSUME NEW h \in Logins PROVE ChannelOK(h)'
    <2>1. login'[h].channel = login[h].channel BY DEF LoginInv, LoginTypeOK
    <2> QED BY <2>1 DEF LoginInv, ChannelOK, Opened
  <1> QED BY <1>1, <1>2 DEF LoginInv, OpenedOK, TabOK, TakenOK, Opened, Issued

LEMMA CommandLemma ==
    ASSUME TokenInv, LoginInv, NEW g \in Logins, CommandStep(g), UNCHANGED apiTokens
    PROVE  LoginInv'
  <1>1. stored \in TokenIds \cup {NoToken} /\ taken \subseteq [login : Logins, token : TokenIds]
    BY DEF LoginInv, LoginTypeOK
  <1>2. ASSUME NEW p \in {"new", "wait", "prompt", "check", "save", "over"},
               login' = [login EXCEPT ![g].pc = p],
               UNCHANGED <<tab, opened, taken>>, stored' \in TokenIds \cup {NoToken}
        PROVE  LoginInv'
    <2>1. PICK r : r = [login[g] EXCEPT !.pc = p] OBVIOUS
    <2>2. r \in LoginRun /\ r.channel = login[g].channel
      BY <2>1, LoginRunFacts DEF LoginRun
    <2> QED BY <1>1, <1>2, <2>1, <2>2, CommandMoves
  <1>3. CASE Listen(g)
    <2>1. PICK p \in Ports : login' = [login EXCEPT ![g].pc = "wait", ![g].port = p]
      BY <1>3 DEF Listen
    <2>2. PICK r : r = [login[g] EXCEPT !.pc = "wait", !.port = p] OBVIOUS
    <2>3. r \in LoginRun /\ r.channel = login[g].channel
      BY <2>2, LoginRunFacts DEF LoginRun
    <2>4. login' = [login EXCEPT ![g] = r] BY <2>1, <2>2 DEF LoginInv, LoginTypeOK
    <2> QED BY <1>1, <1>3, <2>3, <2>4, CommandMoves DEF Listen
  <1>4. CASE TakeToken(g)
    <2>1. PICK r : r = [login[g] EXCEPT !.pc = "check", !.token = login[g].channel] OBVIOUS
    <2>2. r \in LoginRun /\ r.channel = login[g].channel
      BY <2>1, LoginRunFacts DEF LoginRun
    <2>3. login' = [login EXCEPT ![g] = r]
      BY <1>4, <2>1 DEF TakeToken, LoginInv, LoginTypeOK
    <2>4. PICK x : x = [login |-> g, token |-> login[g].channel] OBVIOUS
    <2>5. login[g].channel \in TokenIds /\ Opened(login[g].channel, g)
      BY <1>4, LoginRunFacts DEF TakeToken, LoginInv, ChannelOK
    <2>6. x \in [login : Logins, token : TokenIds] /\ Opened(x.token, x.login)
      BY <2>4, <2>5
    <2>7. taken' = taken \cup {x} BY <1>4, <2>4 DEF TakeToken
    <2> QED BY <1>1, <1>4, <2>2, <2>3, <2>6, <2>7, CommandMoves DEF TakeToken
  <1>5. CASE Prompt(g)
    <2>1. CASE login' = [login EXCEPT ![g].pc = "over"]
      BY <1>1, <1>2, <1>5, <2>1 DEF Prompt
    <2>2. ASSUME NEW t \in TokenIds, login' = [login EXCEPT ![g].pc = "check", ![g].token = t]
          PROVE  LoginInv'
      <3>1. PICK r : r = [login[g] EXCEPT !.pc = "check", !.token = t] OBVIOUS
      <3>2. r \in LoginRun /\ r.channel = login[g].channel
        BY <3>1, LoginRunFacts DEF LoginRun
      <3>3. login' = [login EXCEPT ![g] = r] BY <2>2, <3>1 DEF LoginInv, LoginTypeOK
      <3> QED BY <1>1, <1>5, <3>2, <3>3, CommandMoves DEF Prompt
    <2> QED BY <1>5, <2>1, <2>2 DEF Prompt
  <1>6. CASE SkipBrowser(g) \/ StopWaiting(g) \/ CheckToken(g)
    BY <1>1, <1>2, <1>6 DEF SkipBrowser, StopWaiting, CheckToken
  <1>7. CASE SaveToken(g)
    <2>1. stored' \in TokenIds \cup {NoToken} BY <1>1, <1>7, LoginRunFacts DEF SaveToken
    <2> QED BY <1>2, <1>7, <2>1 DEF SaveToken
  <1> QED BY <1>3, <1>4, <1>5, <1>6, <1>7 DEF CommandStep

\* A tab is opened or closed.
LEMMA TabMoves ==
    ASSUME LoginInv, UNCHANGED <<apiTokens, login, stored, opened, taken>>,
           NEW b \in Tabs, NEW r \in Tab, tab' = [tab EXCEPT ![b] = r],
           r.pc # "callback", r.pc = "page" => r.state \in Logins
    PROVE  LoginInv'
  <1>1. LoginTypeOK' BY DEF LoginInv, LoginTypeOK
  <1>2. tab'[b] = r /\ \A c \in Tabs \ {b} : tab'[c] = tab[c] BY DEF LoginInv, LoginTypeOK
  <1>3. \A c \in Tabs : TabOK(c)' BY <1>2 DEF LoginInv, TabOK, Opened
  <1> QED BY <1>1, <1>3 DEF LoginInv, OpenedOK, ChannelOK, TakenOK, Opened, Issued

LEMMA ClosedTabFacts == ClosedTab \in Tab /\ ClosedTab.pc = "closed"
  BY DEF ClosedTab, Tab

\* A callback is heard by nobody but the login the tab was opened for.
LEMMA CallbackStep ==
    ASSUME LoginInv, NEW b \in Tabs, Callback(b), UNCHANGED apiTokens
    PROVE  LoginInv'
  <1>1. PICK t \in TokenIds, g \in Logins :
            t = tab[b].token /\ g = tab[b].state /\ Opened(t, g)
    BY DEF Callback, LoginInv, LoginTypeOK, TabOK, Opened
  <1>2. PICK heard \in SUBSET {g} :
            login' = [h \in Logins |-> IF h \in heard
                         THEN [login[h] EXCEPT !.channel = t] ELSE login[h]]
    BY <1>1 DEF Callback
  <1>3. tab' = [tab EXCEPT ![b] = ClosedTab] /\ UNCHANGED <<stored, opened, taken>>
    BY DEF Callback
  <1>4. ASSUME NEW h \in Logins PROVE login'[h] \in LoginRun /\ ChannelOK(h)'
    <2>1. CASE h \in heard
      <3>1. h = g /\ login'[h] = [login[h] EXCEPT !.channel = t] BY <1>2, <2>1
      <3>2. login'[h] \in LoginRun /\ login'[h].channel = t
        BY <3>1, LoginRunFacts DEF LoginRun
      <3> QED BY <1>1, <1>3, <3>1, <3>2 DEF ChannelOK, Opened
    <2>2. CASE h \notin heard
      <3>1. login'[h] = login[h] BY <1>2, <2>2
      <3> QED BY <1>3, <3>1, LoginRunFacts DEF LoginInv, ChannelOK, Opened
    <2> QED BY <2>1, <2>2
  <1>5. LoginTypeOK' BY <1>2, <1>3, <1>4, ClosedTabFacts DEF LoginInv, LoginTypeOK
  <1>6. \A c \in Tabs : tab'[c] \in {tab[c], ClosedTab} BY <1>3 DEF LoginInv, LoginTypeOK
  <1>7. \A c \in Tabs : TabOK(c)' BY <1>3, <1>6, ClosedTabFacts DEF LoginInv, TabOK, Opened
  <1> QED BY <1>3, <1>4, <1>5, <1>7 DEF LoginInv, OpenedOK, TakenOK, Opened, Issued

LEMMA OpenLinkStep ==
    ASSUME LoginInv, NEW b \in Tabs, NEW g \in Logins, OpenLink(b, g), UNCHANGED apiTokens
    PROVE  LoginInv'
  <1>1. PICK r : r = [pc |-> "page", port |-> login[g].port, state |-> g, token |-> NoToken]
    OBVIOUS
  <1>2. r \in Tab /\ r.pc = "page" /\ r.state \in Logins BY <1>1, LoginRunFacts DEF Tab
  <1>3. tab' = [tab EXCEPT ![b] = r] BY <1>1 DEF OpenLink
  <1> QED BY <1>2, <1>3, TabMoves DEF OpenLink

\* Authorizing mints a token nobody had.
LEMMA AuthorizeStep ==
    ASSUME TokenInv, LoginInv, NEW b \in Tabs, NEW u \in Owners, NEW t \in TokenIds,
           Authorize(b, u, t), now' = now
    PROVE  TokenInv' /\ LoginInv'
  <1>1. Mint(u, t, 0) BY DEF Authorize
  <1>2. TokenInv' BY <1>1, MintStep
  <1>3. ~Issued(t) BY <1>1 DEF Mint
  <1>4. \A j \in TokenIds : Issued(j) \/ j = t => Issued(j)'
    <2>1. PICK r : r = NewToken(u, 0) OBVIOUS
    <2>2. apiTokens' = [apiTokens EXCEPT ![t] = r] BY <1>1, <2>1 DEF Mint
    <2>3. r \in Token BY <2>1 DEF NewToken, Token
    <2>4. apiTokens'[t] = r /\ \A j \in TokenIds \ {t} : apiTokens'[j] = apiTokens[j]
      BY <2>2 DEF TokenInv, ApiTokensTypeOK
    <2> QED BY <2>3, <2>4, IssuedToken DEF Issued
  <1>5. PICK g \in Logins : g = tab[b].state BY DEF Authorize, LoginInv, TabOK
  <1>6. PICK x : x = [token |-> t, state |-> g] OBVIOUS
  <1>7. x \in [token : TokenIds, state : Logins] /\ x.token = t /\ x.state = g
    BY <1>6
  <1>8. opened' = opened \cup {x} /\ UNCHANGED <<login, stored, taken>>
    BY <1>5, <1>6 DEF Authorize
  <1>9. \A z \in opened : Issued(z.token) /\ z.token \in TokenIds
    BY DEF LoginInv, OpenedOK, LoginTypeOK
  <1>10. OpenedOK' BY <1>3, <1>4, <1>7, <1>8, <1>9 DEF LoginInv, OpenedOK
  <1>11. PICK r : r = [tab[b] EXCEPT !.pc = "callback", !.token = t] OBVIOUS
  <1>12. r \in Tab /\ r.pc = "callback" /\ r.token = t /\ r.state = g
    <2>1. tab[b] \in Tab BY DEF LoginInv, LoginTypeOK
    <2> QED BY <1>5, <1>11, <2>1 DEF Tab
  <1>13. tab' = [tab EXCEPT ![b] = r] BY <1>11 DEF Authorize, LoginInv, LoginTypeOK
  <1>14. tab'[b] = r /\ \A c \in Tabs \ {b} : tab'[c] = tab[c]
    BY <1>13 DEF LoginInv, LoginTypeOK
  <1>15. LoginTypeOK' BY <1>7, <1>8, <1>12, <1>13 DEF LoginInv, LoginTypeOK
  <1>16. ASSUME NEW c \in Tabs PROVE TabOK(c)'
    <2>1. CASE c = b BY <1>6, <1>8, <1>12, <1>14, <2>1 DEF TabOK, Opened
    <2>2. CASE c # b BY <1>8, <1>14, <2>2 DEF LoginInv, TabOK, Opened
    <2> QED BY <2>1, <2>2
  <1>17. \A h \in Logins : ChannelOK(h)' BY <1>8 DEF LoginInv, ChannelOK, Opened
  <1>18. TakenOK' BY <1>8 DEF LoginInv, TakenOK, Opened
  <1> QED BY <1>2, <1>10, <1>15, <1>16, <1>17, <1>18 DEF LoginInv

\* Tokens once issued stay so, which is all the login needs of the other requests.
LEMMA IssuedStays ==
    ASSUME TokenInv, [ApiTokensNext]_<<limitsVars, tokenVars>>, NEW j \in TokenIds, Issued(j)
    PROVE  Issued(j)'
  <1>1. TokenInv' BY TokensNext
  <1>2. CASE apiTokens' = apiTokens BY <1>2 DEF Issued
  <1>3. ASSUME NEW u \in Owners, NEW t \in TokenIds, NEW life \in Lives, Mint(u, t, life)
        PROVE  Issued(j)'
    <2>1. apiTokens'[j] = apiTokens[j] BY <1>3 DEF Mint, TokenInv, ApiTokensTypeOK
    <2> QED BY <2>1 DEF Issued
  <1>4. ASSUME NEW u \in Owners, NEW t \in TokenIds, Revoke(u, t) PROVE Issued(j)'
    <2>1. apiTokens' = [apiTokens EXCEPT ![t] = [apiTokens[t] EXCEPT !.revoked = TRUE]]
      BY <1>4 DEF Revoke
    <2>2. apiTokens'[j] \in {apiTokens[j], [apiTokens[j] EXCEPT !.revoked = TRUE]}
      BY <2>1 DEF TokenInv, ApiTokensTypeOK
    <2>3. apiTokens'[j] \in Token BY <2>2, TokenFacts DEF Token
    <2> QED BY <2>3, IssuedToken DEF Issued
  <1>5. ASSUME NEW u \in Owners, RevokeAll(u) PROVE Issued(j)'
    <2>1. apiTokens'[j] \in {apiTokens[j], [apiTokens[j] EXCEPT !.revoked = TRUE]}
      BY <1>5 DEF RevokeAll
    <2>2. apiTokens'[j] \in Token BY <2>1, TokenFacts DEF Token
    <2> QED BY <2>2, IssuedToken DEF Issued
  <1>6. ASSUME NEW z \in touching, Touch(z) PROVE Issued(j)'
    <2>1. PICK use : use = IF apiTokens[z.token].lastUsed = Never
                              \/ apiTokens[z.token].lastUsed < z.at - TouchGap
                           THEN z.at ELSE apiTokens[z.token].lastUsed
      OBVIOUS
    <2>2. z.token \in TokenIds /\ z.at \in Nat /\ Issued(z.token)
      BY DEF TokenInv, ApiTokensTypeOK, Issued
    <2>3. use \in Nat \cup {Never} BY <2>1, <2>2, TokenFacts
    <2>4. apiTokens' = [apiTokens EXCEPT ![z.token] = [apiTokens[z.token] EXCEPT !.lastUsed = use]]
      BY <1>6, <2>1 DEF Touch
    <2>5. apiTokens'[j] \in {apiTokens[j], [apiTokens[j] EXCEPT !.lastUsed = use]}
      BY <2>4 DEF TokenInv, ApiTokensTypeOK
    <2>6. apiTokens'[j] \in Token BY <2>3, <2>5, TokenFacts DEF Token
    <2> QED BY <2>6, IssuedToken DEF Issued
  <1> QED BY <1>2, <1>3, <1>4, <1>5, <1>6
       DEF ApiTokensNext, TokenRequest, MintFails, CallStep, Arrive, FindToken, FindOwner,
           CallFails, TouchFails, limitsVars, tokenVars

LEMMA LoginStays ==
    ASSUME LoginInv, UNCHANGED loginVars, \A j \in TokenIds : Issued(j) => Issued(j)'
    PROVE  LoginInv'
  <1>1. \A z \in opened : z.token \in TokenIds BY DEF LoginInv, LoginTypeOK
  <1> QED BY <1>1 DEF loginVars, LoginInv, LoginTypeOK, OpenedOK, TabOK, ChannelOK, TakenOK,
                      Opened

LEMMA LoginStart == LimitsInit /\ ApiTokensInit /\ LoginInit => TokenInv /\ LoginInv
  <1> SUFFICES ASSUME LimitsInit, ApiTokensInit, LoginInit PROVE LoginInv BY TokensInit
  <1>1. NewLogin \in LoginRun /\ NewLogin.channel = NoToken BY DEF NewLogin, LoginRun
  <1>2. LoginTypeOK BY <1>1, ClosedTabFacts DEF LoginInit, LoginTypeOK
  <1> QED BY <1>1, <1>2, ClosedTabFacts
       DEF LoginInit, LoginInv, OpenedOK, TabOK, ChannelOK, TakenOK

LEMMA LoginNextStep ==
    ASSUME TokenInv, LoginInv, [LoginNext]_<<limitsVars, tokenVars, loginVars>>
    PROVE  TokenInv' /\ LoginInv'
  <1>1. ASSUME UNCHANGED <<limitsVars, tokenVars>> PROVE TokenInv' /\ UNCHANGED apiTokens
    <2>1. now' \in Nat /\ now' >= now BY <1>1 DEF limitsVars, TokenInv
    <2> QED BY <1>1, <2>1, TokensStay DEF tokenVars
  <1>2. ASSUME NEW g \in Logins, CommandStep(g), UNCHANGED <<limitsVars, tokenVars>>
        PROVE  TokenInv' /\ LoginInv'
    BY <1>1, <1>2, CommandLemma
  <1>3. ASSUME NEW b \in Tabs, BrowserStep(b), UNCHANGED <<limitsVars, tokenVars>>
        PROVE  TokenInv' /\ LoginInv'
    <2>1. TokenInv' /\ UNCHANGED apiTokens BY <1>1, <1>3
    <2>2. CASE CloseTab(b) BY <2>1, <2>2, TabMoves, ClosedTabFacts DEF CloseTab
    <2> QED BY <1>3, <2>1, <2>2, OpenLinkStep, CallbackStep DEF BrowserStep
  <1>4. ASSUME Logout, UNCHANGED <<limitsVars, tokenVars>> PROVE TokenInv' /\ LoginInv'
    <2>1. TokenInv' /\ UNCHANGED apiTokens BY <1>1, <1>4
    <2> QED BY <1>4, <2>1 DEF Logout, LoginInv, LoginTypeOK, OpenedOK, TabOK, ChannelOK,
                              TakenOK, Opened, Issued
  <1>5. ASSUME NEW b \in Tabs, NEW u \in Owners, NEW t \in TokenIds, Authorize(b, u, t),
               UNCHANGED <<now, bucketVars>>
        PROVE  TokenInv' /\ LoginInv'
    BY <1>5, AuthorizeStep
  <1>6. ASSUME [ApiTokensNext]_<<limitsVars, tokenVars>>, UNCHANGED loginVars
        PROVE  TokenInv' /\ LoginInv'
    BY <1>6, TokensNext, IssuedStays, LoginStays
  <1> QED BY <1>2, <1>3, <1>4, <1>5, <1>6 DEF LoginNext

LEMMA LoginInvariant == LoginSpec => [](TokenInv /\ LoginInv)
  BY LoginStart, LoginNextStep, PTL DEF LoginSpec

LEMMA LoginPromises == ASSUME LoginInv PROVE TokenOfOwnTab
  <1>1. ASSUME NEW x \in taken, NEW z \in taken, x.token = z.token PROVE x = z
    <2>1. x \in [login : Logins, token : TokenIds] /\ z \in [login : Logins, token : TokenIds]
      BY DEF LoginInv, LoginTypeOK
    <2>2. PICK v \in opened, w \in opened :
              v = [token |-> x.token, state |-> x.login]
              /\ w = [token |-> z.token, state |-> z.login]
      BY DEF LoginInv, TakenOK, Opened
    <2>3. v.token = x.token /\ w.token = z.token /\ v.state = x.login /\ w.state = z.login
      BY <2>2
    <2>4. v = w BY <1>1, <2>3 DEF LoginInv, OpenedOK
    <2> QED BY <1>1, <2>1, <2>3, <2>4
  <1> QED BY <1>1 DEF LoginInv, TakenOK, Opened, TokenOfOwnTab

\* The command line's login, the browser's tabs and the ports keep their types.
THEOREM LoginTypeCorrect == LoginSpec => []LoginTypeOK
  <1>1. LoginInv => LoginTypeOK BY DEF LoginInv
  <1> QED BY <1>1, LoginInvariant, PTL

\* The login command saves the token of the page it opened, and no two logins
\* save the same, though listeners come and go on one port.
THEOREM OwnTab == LoginSpec => []TokenOfOwnTab
  BY LoginInvariant, LoginPromises, PTL
=============================================================================
