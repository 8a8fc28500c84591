------------------------------- MODULE Limits -------------------------------
(***************************************************************************)
(* The two rate limiters: RateLimiter, a token bucket per client address   *)
(* (internal/middleware/ratelimit.go), and EmailRateLimiter, a counter per *)
(* key and hour (internal/middleware/email_ratelimit.go), each with the    *)
(* goroutine that forgets idle entries.                                    *)
(*                                                                         *)
(* Tokens are counted in parts so that a request costs Cost parts and a    *)
(* tick of the clock brings Refill of them.                                *)
(***************************************************************************)
EXTENDS Backend

CONSTANTS
    Clients,        \* addresses, as extractClientIP tells them apart
    Capacity,       \* tokens of a full bucket
    Cost,           \* parts of a token
    Refill,         \* parts a tick brings
    Idle,           \* ticks after which a bucket is forgotten
    Keys,           \* e-mail addresses and user ids
    MaxPerHour,     \* requests each key is allowed in a window
    Hour            \* ticks of a window

\* A bucket left alone until it is forgotten has filled up: in main.go the
\* inbox limiter is full after 6 seconds, the one of sign-in after 10 minutes,
\* which is the time cleanup waits.
ASSUME BucketAssumption ==
    /\ Capacity \in Nat \ {0} /\ Cost \in Nat \ {0} /\ Refill \in Nat /\ Idle \in Nat
    /\ Capacity * Cost <= Idle * Refill

ASSUME WindowAssumption ==
    /\ MaxPerHour \in [Keys -> Nat \ {0}]
    /\ Hour \in Nat

VARIABLES
    buckets,    \* RateLimiter.buckets
    answer,     \* history: what each client was told last
    attempts,   \* EmailRateLimiter.attempts
    allowed     \* history: when requests of each key were allowed

bucketVars == <<buckets, answer>>
windowVars == <<attempts, allowed>>
limitsVars == <<now, bucketVars, windowVars>>

----------------------------------------------------------------------------
Full == Capacity * Cost

Bucket == [tokens: 0 .. Full, last: Nat]
NoBucket == [tokens |-> Never, last |-> 0]

Window == [count: Nat, start: Nat]
NoWindow == [count |-> 0, start |-> 0]

LimitsTypeOK ==
    /\ now \in Nat
    /\ buckets \in [Clients -> Bucket \cup {NoBucket}]
    /\ \A c \in Clients : buckets[c].last <= now
    /\ answer \in [Clients -> {"none", "passed", "refused"}]
    /\ attempts \in [Keys -> Window]
    /\ \A k \in Keys : attempts[k].start <= now /\ attempts[k].count <= MaxPerHour[k]
    /\ allowed \in [Keys -> Seq(Nat)]

LimitsInit ==
    /\ now = 0
    /\ buckets = [c \in Clients |-> NoBucket]
    /\ answer = [c \in Clients |-> "none"]
    /\ attempts = [k \in Keys |-> NoWindow]
    /\ allowed = [k \in Keys |-> <<>>]

----------------------------------------------------------------------------
(* RateLimiter *)

AtMost(max, x) == IF x < max THEN x ELSE max

\* Tokens in the bucket of c after the refill for the time since its last use.
Refilled(c) == AtMost(Full, buckets[c].tokens + (now - buckets[c].last) * Refill)

\* What c could spend now. A client without a bucket gets a full one.
Level(c) == IF buckets[c] = NoBucket THEN Full ELSE Refilled(c)

FirstUse(c) ==
    /\ buckets[c] = NoBucket
    /\ buckets' = [buckets EXCEPT ![c] = [tokens |-> Full - Cost, last |-> now]]
    /\ answer' = [answer EXCEPT ![c] = "passed"]

\* A refusal keeps the refill and moves the time of the last one too.
Reuse(c) ==
    LET paid == Refilled(c) >= Cost IN
    /\ buckets[c] # NoBucket
    /\ buckets' = [buckets EXCEPT ![c] =
           [tokens |-> IF paid THEN Refilled(c) - Cost ELSE Refilled(c), last |-> now]]
    /\ answer' = [answer EXCEPT ![c] = IF paid THEN "passed" ELSE "refused"]

\* allow, under the mutex, and the wrapper that answers 429 if it says no.
Allow(c) ==
    /\ FirstUse(c) \/ Reuse(c)
    /\ UNCHANGED <<now, windowVars>>

\* Faulty variant: a bucket is forgotten after half the time.
CleanupBucketsEarly ==
    /\ buckets' = [c \in Clients |->
           IF buckets[c].last < now - Idle \div 2 THEN NoBucket ELSE buckets[c]]
    /\ UNCHANGED <<now, answer, windowVars>>

\* One turn of the ticker of cleanup, also under the mutex.
CleanupBuckets ==
    /\ buckets' = [c \in Clients |->
           IF buckets[c].last < now - Idle THEN NoBucket ELSE buckets[c]]
    /\ UNCHANGED <<now, answer, windowVars>>

----------------------------------------------------------------------------
(* EmailRateLimiter *)

\* Faulty variant: the window ends an instant early.
RestartsEarly(w) == w.count = 0 \/ now - w.start >= Hour

\* There is no window, or it is over.
Restarts(w) == w.count = 0 \/ now - w.start > Hour

\* Faulty variant: the limit itself is let through once more.
AllowKeyPlusOne(k) ==
    LET w == attempts[k] IN
    /\ Restarts(w) \/ w.count <= MaxPerHour[k]
    /\ attempts' = [attempts EXCEPT ![k] =
           IF Restarts(w) THEN [count |-> 1, start |-> now] ELSE [w EXCEPT !.count = @ + 1]]
    /\ allowed' = [allowed EXCEPT ![k] = Append(@, now)]

\* Allow answers true. When it answers false it changes nothing.
AllowKey(k) ==
    LET w == attempts[k] IN
    /\ Restarts(w) \/ w.count < MaxPerHour[k]
    /\ attempts' = [attempts EXCEPT ![k] =
           IF Restarts(w) THEN [count |-> 1, start |-> now] ELSE [w EXCEPT !.count = @ + 1]]
    /\ allowed' = [allowed EXCEPT ![k] = Append(@, now)]

CleanupWindows ==
    /\ attempts' = [k \in Keys |->
           IF attempts[k].start < now - Hour THEN NoWindow ELSE attempts[k]]
    /\ UNCHANGED <<now, bucketVars, allowed>>

----------------------------------------------------------------------------
LimitsNext ==
    \/ \E c \in Clients : Allow(c)
    \/ CleanupBuckets
    \/ \E k \in Keys : AllowKey(k) /\ UNCHANGED <<now, bucketVars>>
    \/ CleanupWindows
    \/ Tick /\ UNCHANGED <<bucketVars, windowVars>>

LimitsSpec == LimitsInit /\ [][LimitsNext]_limitsVars

----------------------------------------------------------------------------
(* Properties *)

\* Lazy refills, refused requests and the forgetting of idle buckets cannot be
\* told from a bucket that is refilled all the time and never forgotten:
\* cleanup neither gives tokens away nor takes any.
ReferenceQuota == INSTANCE Quota WITH level <- [c \in Clients |-> Level(c)]

ImplementsQuota == ReferenceQuota!Spec

\* What the fixed windows amount to in any hour, wherever it begins: less than
\* two windows' worth, with entries forgotten at any time.
HourBound ==
    \A k \in Keys : \A t \in 0 .. now :
        Cardinality({i \in DOMAIN allowed[k] : allowed[k][i] \in t .. t + Hour})
            < 2 * MaxPerHour[k]
=============================================================================
