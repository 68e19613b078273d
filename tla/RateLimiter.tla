---------------------------- MODULE RateLimiter ----------------------------
(* The token buckets of internal/api/ratelimit.go.  Time is discrete; calls   *)
(* of Allow hold the mutex from the reading of the clock to the end and are   *)
(* single steps.  Time-outs are relative to `interval`, which is several      *)
(* ticks long, so that calls come between two refills.                        *)
EXTENDS Integers

CONSTANTS
    Clients,            \* client IPs
    rate, burst,        \* tokens for each interval, and capacity
    interval,           \* in ticks
    CutOff,             \* age at which cleanup drops a bucket, in ticks
    NoBucket,
    MaxTicks            \* bound of the model

\* 120 a minute with as many at once and 10 a minute with as many at once
\* (cmd_serve.go:341, authservice_server.go:58), and ten minutes to the cut-off:
\* a bucket that cleanup drops would be full again if it were kept.
ASSUME LimiterAssumption ==
    /\ {rate, burst, interval, CutOff, MaxTicks} \subseteq Nat \ {0}
    /\ (CutOff \div interval) * rate >= burst
    /\ NoBucket \notin [tokens : Nat, lastFill : Nat]

VARIABLES
    now,
    buckets,            \* client -> NoBucket or [tokens, lastFill]
    allowed,            \* ghost: client -> how many were allowed before each tick
    refused             \* ghost: clients of which a request is refused in this tick

limiterVars == <<now, buckets, allowed, refused>>

LimiterInit ==
    /\ now = 0
    /\ buckets = [k \in Clients |-> NoBucket]
    /\ allowed = [k \in Clients |-> [t \in 0..MaxTicks + 1 |-> 0]]
    /\ refused = {}

TimePasses ==
    /\ now < MaxTicks
    /\ now' = now + 1
    /\ refused' = {}
    /\ UNCHANGED <<buckets, allowed>>

AtMost(a, b) == IF a < b THEN a ELSE b

\* Faulty: counts from now, and loses the part of an interval that is over.
RefilledFromNow(b) ==
    LET refill == ((now - b.lastFill) \div interval) * rate
    IN  IF refill = 0 THEN b
        ELSE [tokens |-> AtMost(burst, b.tokens + refill), lastFill |-> now]

\* lastFill moves on by whole intervals, whether or not the bucket is full.
Refilled(b) ==
    LET intervals == (now - b.lastFill) \div interval
        refill == intervals * rate
    IN  IF refill = 0 THEN b
        ELSE [tokens |-> AtMost(burst, b.tokens + refill),
              lastFill |-> b.lastFill + intervals * interval]

Admit(k, b) ==
    /\ buckets' = [buckets EXCEPT ![k] = [b EXCEPT !.tokens = @ - 1]]
    /\ allowed' = [allowed EXCEPT ![k] = [t \in 0..MaxTicks + 1 |-> IF t <= now THEN @[t] ELSE @[t] + 1]]
    /\ UNCHANGED <<now, refused>>

Allow(k) ==
    LET b == IF buckets[k] = NoBucket THEN [tokens |-> burst, lastFill |-> now]
             ELSE Refilled(buckets[k])
    IN  \/ b.tokens > 0 /\ Admit(k, b)
        \/ /\ b.tokens = 0
           /\ buckets' = [buckets EXCEPT ![k] = b]
           /\ refused' = refused \cup {k}
           /\ UNCHANGED <<now, allowed>>

\* The ticker may be late: any time will do.
DropBuckets ==
    LET old == {k \in Clients : buckets[k] # NoBucket /\ buckets[k].lastFill < now - CutOff}
    IN  /\ old # {}
        /\ buckets' = [k \in Clients |-> IF k \in old THEN NoBucket ELSE buckets[k]]
        /\ UNCHANGED <<now, allowed, refused>>

LimiterNext == TimePasses \/ DropBuckets \/ \E k \in Clients : Allow(k)

LimiterSpec == LimiterInit /\ [][LimiterNext]_limiterVars

-----------------------------------------------------------------------------
\* How many were allowed in the ticks s to t.
AllowedIn(k, s, t) == allowed[k][t + 1] - allowed[k][s]

\* The promise of NewRateLimiter (ratelimit.go:28), in every stretch of time and
\* not only from a full bucket: no more than a burst and `rate` for each
\* interval that ends in it go through; and a client is refused only when it
\* was given what the intervals since any earlier time, or a burst, entitle it
\* to.  Neither odd times nor dropped buckets invent or lose tokens.
RateIsKept ==
    \A k \in Clients : \A s \in 0..now :
        /\ AllowedIn(k, s, now) <= burst + rate * ((now - s) \div interval + 1)
        /\ k \in refused =>
              AllowedIn(k, s + 1, now) >= AtMost(burst, rate * ((now - s) \div interval))
=============================================================================
