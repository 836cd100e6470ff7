----------------------------- MODULE AuthLimiter -----------------------------
(***************************************************************************)
(* The limiter of failed authentications of the relay (auth.go): a token   *)
(* bucket per client, and a sweep that forgets idle buckets.  Time is in   *)
(* ticks, Refill of them per token, and a bucket holds its tokens in ticks *)
(* too.  A call reads the clock before it takes the lock, so it may work   *)
(* with a reading that is late.                                            *)
(***************************************************************************)
EXTENDS Integers, FiniteSets

CONSTANTS
    Clients,        \* client addresses
    Calls,          \* calls of allow that can be under way at once
    Burst,          \* authFailureBurst
    Refill,         \* authFailureRefill, in ticks
    SweepInterval,  \* authSweepInterval, in ticks
    MaxBuckets,     \* authMaxBuckets
    Skew,           \* bound: ticks a call may wait for the lock
    MaxClock,       \* bound: the last tick
    None            \* no call

ASSUME LimiterAssumption ==
    /\ {Burst, Refill, SweepInterval, MaxBuckets} \subseteq Nat \ {0}
    /\ {Skew, MaxClock} \subseteq Nat
    /\ IsFiniteSet(Clients)

VARIABLES
    clock,
    buckets,        \* l.buckets
    lastSweep,      \* l.lastSweep
    calls,          \* the client and clock reading of each call under way
    debt,           \* reference: the attempts admitted of each client, in ticks, decaying
    lateness        \* history: the ticks its clock readings were late, summed up

limiterVars == <<clock, buckets, lastSweep, calls, debt, lateness>>

Full == Burst * Refill
BucketTTL == Burst * Refill

LimiterInit ==
    /\ clock = 0
    /\ buckets = [c \in {} |-> [tokens |-> 0, last |-> 0]]
    /\ lastSweep = -SweepInterval       \* the zero time is long ago
    /\ calls = [k \in Calls |-> None]
    /\ debt = [c \in Clients |-> 0]
    /\ lateness = [c \in Clients |-> 0]

LeastOf(a, b) == IF a < b THEN a ELSE b

(* Time passes; no call waits for the lock longer than Skew. *)
Tick ==
    /\ clock < MaxClock
    /\ \A k \in Calls : calls[k] # None => clock - calls[k].now < Skew
    /\ clock' = clock + 1
    /\ debt' = [c \in Clients |-> IF debt[c] > 0 THEN debt[c] - 1 ELSE 0]
    /\ UNCHANGED <<buckets, lastSweep, calls, lateness>>

(* A request of client c has failed authentication: allow reads the clock. *)
ReadClock(k, c) ==
    /\ calls[k] = None
    /\ calls' = [calls EXCEPT ![k] = [client |-> c, now |-> clock]]
    /\ UNCHANGED <<clock, buckets, lastSweep, debt, lateness>>

(* Fault variant: buckets are forgotten too early. *)
SweepEarly(now) ==
    [c \in {d \in DOMAIN buckets : now - buckets[d].last < Refill} |-> buckets[c]]

SweepDue(now) ==
    ~(now - lastSweep < SweepInterval /\ Cardinality(DOMAIN buckets) <= MaxBuckets)

(* sweepLocked *)
Sweep(now) ==
    IF SweepDue(now)
    THEN [c \in {d \in DOMAIN buckets : now - buckets[d].last < BucketTTL} |-> buckets[c]]
    ELSE buckets

(* Fault variant: a refused attempt is charged as well. *)
ChargedAlways(c, now) ==
    LET kept == Sweep(now) IN
    IF c \notin DOMAIN kept THEN [tokens |-> Full - Refill, last |-> now]
    ELSE [tokens |-> LeastOf(kept[c].tokens + now - kept[c].last, Full) - Refill,
          last |-> now]

(* The bucket of c after an attempt at now: a new one is full. *)
Charged(c, now) ==
    LET kept == Sweep(now)
        refilled == LeastOf(kept[c].tokens + now - kept[c].last, Full) IN
    IF c \notin DOMAIN kept THEN [tokens |-> Full - Refill, last |-> now]
    ELSE [tokens |-> IF refilled < Refill THEN refilled ELSE refilled - Refill,
          last |-> now]

(* The verdict of allow. *)
Admits(c, now) ==
    LET kept == Sweep(now) IN
    c \in DOMAIN kept =>
        LeastOf(kept[c].tokens + now - kept[c].last, Full) >= Refill

(* allow, under the lock. *)
Allow(k) ==
    /\ calls[k] # None
    /\ LET c == calls[k].client
           now == calls[k].now IN
        /\ buckets' = [d \in DOMAIN Sweep(now) \cup {c} |->
                          IF d = c THEN Charged(c, now) ELSE Sweep(now)[d]]
        /\ lastSweep' = IF SweepDue(now) THEN now ELSE lastSweep
        /\ debt' = IF Admits(c, now) THEN [debt EXCEPT ![c] = @ + Refill] ELSE debt
        /\ lateness' = [lateness EXCEPT ![c] = @ + clock - now]
    /\ calls' = [calls EXCEPT ![k] = None]
    /\ UNCHANGED clock

LimiterNext ==
    \/ Tick
    \/ \E k \in Calls, c \in Clients : ReadClock(k, c)
    \/ \E k \in Calls : Allow(k)

LimiterSpec == LimiterInit /\ [][LimiterNext]_limiterVars

-----------------------------------------------------------------------------
(* Properties *)

(* However sweeps and late clock readings interleave, a client is admitted *)
(* at most Burst attempts at once and one per Refill after that: forgetting *)
(* a bucket gives nothing away, and a late reading no more than its delay.  *)
NeverTooMany == \A c \in Clients : debt[c] <= Full + lateness[c]

(* A client is refused only when it has used up what it may: forgetting     *)
(* buckets or refusing attempts never counts against it, and a late reading *)
(* no more than its delay.                                                  *)
RefusedOnlyWhenSpent ==
    [][\A k \in Calls : Allow(k) /\ ~Admits(calls[k].client, calls[k].now) =>
          debt[calls[k].client] > Full - Refill - lateness'[calls[k].client]]_limiterVars
=============================================================================
