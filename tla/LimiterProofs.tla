---------------------------- MODULE LimiterProofs ----------------------------
(***************************************************************************)
(* The failure limiter against the attempts it has really admitted, for    *)
(* any number of clients and concurrent calls, any burst, refill and sweep *)
(* interval, and however late the clock readings are.                      *)
(***************************************************************************)
EXTENDS AuthLimiter, TLAPS

LEMMA FullFits == Full \in Nat /\ Refill \in Nat /\ Refill \leq Full
<1>1. Burst \in Nat /\ Refill \in Nat /\ Burst >= 1
  BY LimiterAssumption
<1>2. \A b, r \in Nat : b >= 1 => b * r \in Nat /\ r \leq b * r
  OBVIOUS
<1> QED
  BY <1>1, <1>2 DEF Full

-----------------------------------------------------------------------------
(* One bucket: f is Full, r is Refill, t and l the bucket's tokens and last *)
(* reading, ck the clock, d the client's debt and w its lateness.           *)

(* Late readings may leave a bucket below zero. *)
Overdrawn(t) == IF t < 0 THEN -t ELSE 0

(* What the bucket would hold if it were refilled right now is what the     *)
(* debt leaves of a full one, give or take the lateness.                    *)
Owes(f, t, l, ck, d, w) ==
    /\ {t, l, ck} \subseteq Int /\ {d, w} \subseteq Nat
    /\ l \leq ck
    /\ Overdrawn(t) \leq w
    /\ d \leq f + w - Overdrawn(t) - LeastOf(t + ck - l, f)
    /\ d >= f - w - (t + ck - l)

LEMMA TickOwes ==
  ASSUME NEW f \in Nat, NEW t, NEW l, NEW ck, NEW d, NEW w, Owes(f, t, l, ck, d, w)
  PROVE  Owes(f, t, l, ck + 1, IF d > 0 THEN d - 1 ELSE 0, w)
BY DEF Owes, Overdrawn, LeastOf

LEMMA AdmitOwes ==
  ASSUME NEW f \in Nat, NEW t, NEW l, NEW ck, NEW d, NEW w, Owes(f, t, l, ck, d, w),
         NEW r \in Nat, NEW now \in Int, now \leq ck,
         LeastOf(t + now - l, f) >= r
  PROVE  Owes(f, LeastOf(t + now - l, f) - r, now, ck, d + r, w + ck - now)
BY DEF Owes, Overdrawn, LeastOf

LEMMA RefuseOwes ==
  ASSUME NEW f \in Nat, NEW t, NEW l, NEW ck, NEW d, NEW w, Owes(f, t, l, ck, d, w),
         NEW r \in Nat, r \leq f, NEW now \in Int, now \leq ck,
         LeastOf(t + now - l, f) < r
  PROVE  /\ Owes(f, LeastOf(t + now - l, f), now, ck, d, w + ck - now)
         /\ d > f - r - (w + ck - now)
BY DEF Owes, Overdrawn, LeastOf

LEMMA NewOwes ==
  ASSUME NEW f \in Nat, NEW d \in Nat, NEW w \in Nat, d \leq w,
         NEW r \in Nat, r \leq f, NEW ck \in Int, NEW now \in Int, now \leq ck
  PROVE  Owes(f, f - r, now, ck, d + r, w + ck - now)
BY DEF Owes, Overdrawn, LeastOf

(* A bucket that a sweep forgets would be full. *)
LEMMA SweptOwes ==
  ASSUME NEW f \in Nat, NEW t, NEW l, NEW ck, NEW d, NEW w, Owes(f, t, l, ck, d, w),
         NEW now \in Int, now \leq ck, now - l >= f
  PROVE  d \leq w
BY DEF Owes, Overdrawn, LeastOf

-----------------------------------------------------------------------------
(* The limiter *)

Fresh(c)    == debt[c] \in Nat /\ lateness[c] \in Nat /\ debt[c] \leq lateness[c]
Balanced(c) == Owes(Full, buckets[c].tokens, buckets[c].last, clock, debt[c], lateness[c])

LimiterInv ==
    /\ clock \in Int
    /\ calls \in [Calls -> {None} \cup [client : Clients, now : Int]]
    /\ \A k \in Calls : calls[k] # None => calls[k].now \leq clock
    /\ DOMAIN debt = Clients /\ DOMAIN lateness = Clients /\ DOMAIN buckets \subseteq Clients
    /\ \A c \in DOMAIN buckets : Balanced(c)
    /\ \A c \in Clients \ DOMAIN buckets : Fresh(c)

LEMMA LimiterStart == LimiterInit => LimiterInv
BY DEF LimiterInit, LimiterInv, Fresh

LEMMA TickKeeps == ASSUME LimiterInv, Tick PROVE LimiterInv'
<1>1. clock' = clock + 1 /\ clock \in Int /\ UNCHANGED <<buckets, calls, lateness>>
  BY DEF Tick, LimiterInv
<1>2. debt' = [c \in Clients |-> IF debt[c] > 0 THEN debt[c] - 1 ELSE 0]
  BY DEF Tick
<1>3. \A k \in Calls : calls'[k] # None => calls'[k].now \leq clock'
  BY <1>1 DEF LimiterInv
<1>4. ASSUME NEW c \in Clients, c \in DOMAIN buckets PROVE Balanced(c)'
  <2>1. Balanced(c)
    BY <1>4 DEF LimiterInv
  <2> QED
    BY <1>1, <1>2, <2>1, FullFits, TickOwes DEF Balanced
<1>5. ASSUME NEW c \in Clients, c \notin DOMAIN buckets PROVE Fresh(c)'
  BY <1>1, <1>2, <1>5 DEF LimiterInv, Fresh
<1> QED
  BY <1>1, <1>2, <1>3, <1>4, <1>5 DEF LimiterInv

(* What a sweep keeps is as it was; what it forgets was full. *)
LEMMA SweepKeeps ==
  ASSUME LimiterInv, NEW now \in Int, now \leq clock
  PROVE  /\ DOMAIN Sweep(now) \subseteq DOMAIN buckets
         /\ \A c \in DOMAIN Sweep(now) : Sweep(now)[c] = buckets[c] /\ Balanced(c)
         /\ \A c \in Clients \ DOMAIN Sweep(now) : Fresh(c)
<1>1. CASE ~SweepDue(now)
  BY <1>1 DEF Sweep, LimiterInv
<1>2. CASE SweepDue(now)
  <2> DEFINE kept == {d \in DOMAIN buckets : now - buckets[d].last < BucketTTL}
  <2>1. Sweep(now) = [c \in kept |-> buckets[c]]
    BY <1>2 DEF Sweep
  <2>2. ASSUME NEW c \in DOMAIN buckets, c \notin kept PROVE Fresh(c)
    <3>1. Balanced(c) /\ buckets[c].last \in Int
      BY <2>2 DEF LimiterInv, Balanced, Owes
    <3>2. now - buckets[c].last >= Full
      BY <2>2, <3>1, FullFits DEF Full, BucketTTL
    <3> QED
      BY <3>1, <3>2, FullFits, SweptOwes DEF Balanced, Fresh, Owes
  <2> QED
    BY <2>1, <2>2 DEF LimiterInv
<1> QED
  BY <1>1, <1>2

LEMMA AllowKeeps ==
  ASSUME LimiterInv, NEW k \in Calls, Allow(k),
         NEW c, c = calls[k].client, NEW now, now = calls[k].now
  PROVE  LimiterInv' /\ (~Admits(c, now) => debt[c] > Full - Refill - lateness'[c])
<1> DEFINE kept == Sweep(now)
           refilled == LeastOf(kept[c].tokens + now - kept[c].last, Full)
<1>1. c \in Clients /\ now \in Int /\ now \leq clock /\ clock \in Int
  BY DEF Allow, LimiterInv
<1>2. /\ DOMAIN kept \subseteq DOMAIN buckets
      /\ \A d \in DOMAIN kept : kept[d] = buckets[d] /\ Balanced(d)
      /\ \A d \in Clients \ DOMAIN kept : Fresh(d)
  BY <1>1, SweepKeeps
<1>3. /\ buckets' = [d \in DOMAIN kept \cup {c} |-> IF d = c THEN Charged(c, now) ELSE kept[d]]
      /\ debt' = IF Admits(c, now) THEN [debt EXCEPT ![c] = @ + Refill] ELSE debt
      /\ lateness' = [lateness EXCEPT ![c] = @ + clock - now]
      /\ calls' = [calls EXCEPT ![k] = None]
      /\ clock' = clock
  BY DEF Allow
<1>4. /\ DOMAIN debt = Clients /\ DOMAIN lateness = Clients /\ DOMAIN buckets \subseteq Clients
      /\ calls \in [Calls -> {None} \cup [client : Clients, now : Int]]
      /\ \A j \in Calls : calls[j] # None => calls[j].now \leq clock
  BY DEF LimiterInv
<1>5. ASSUME c \notin DOMAIN kept
      PROVE  /\ Admits(c, now)
             /\ Charged(c, now) = [tokens |-> Full - Refill, last |-> now]
  BY <1>5 DEF Admits, Charged
<1>6. ASSUME c \in DOMAIN kept
      PROVE  /\ Admits(c, now) <=> refilled >= Refill
             /\ Charged(c, now) =
                   [tokens |-> IF refilled < Refill THEN refilled ELSE refilled - Refill,
                    last |-> now]
  BY <1>6 DEF Admits, Charged
<1> HIDE DEF kept
<1>7. c \in DOMAIN buckets' /\ buckets'[c] = Charged(c, now)
      /\ lateness'[c] = lateness[c] + clock - now
      /\ debt'[c] = IF Admits(c, now) THEN debt[c] + Refill ELSE debt[c]
  BY <1>1, <1>3, <1>4
<1>8. Balanced(c)' /\ (~Admits(c, now) => debt[c] > Full - Refill - lateness'[c])
  <2>1. CASE c \notin DOMAIN kept
    <3>1. Fresh(c)
      BY <1>1, <1>2, <2>1
    <3>2. Owes(Full, Full - Refill, now, clock, debt[c] + Refill, lateness[c] + clock - now)
      BY <1>1, <3>1, FullFits, NewOwes DEF Fresh
    <3> QED
      BY <1>3, <1>5, <1>7, <2>1, <3>2 DEF Balanced
  <2>2. CASE c \in DOMAIN kept
    <3>1. /\ Owes(Full, kept[c].tokens, kept[c].last, clock, debt[c], lateness[c])
      BY <1>2, <2>2 DEF Balanced
    <3>2. refilled \in Int
      BY <1>1, <3>1, FullFits DEF Owes, LeastOf
    <3>3. CASE refilled >= Refill
      <4>1. Owes(Full, refilled - Refill, now, clock, debt[c] + Refill,
                 lateness[c] + clock - now)
        BY <1>1, <3>1, <3>3, FullFits, AdmitOwes
      <4> HIDE DEF refilled
      <4>2. Charged(c, now) = [tokens |-> refilled - Refill, last |-> now]
        BY <1>6, <2>2, <3>2, <3>3, FullFits
      <4> QED
        BY <1>3, <1>6, <1>7, <2>2, <3>3, <4>1, <4>2 DEF Balanced
    <3>4. CASE refilled < Refill
      <4>1. /\ Owes(Full, refilled, now, clock, debt[c], lateness[c] + clock - now)
            /\ debt[c] > Full - Refill - (lateness[c] + clock - now)
        BY <1>1, <3>1, <3>4, FullFits, RefuseOwes
      <4> HIDE DEF refilled
      <4>2. Charged(c, now) = [tokens |-> refilled, last |-> now] /\ ~Admits(c, now)
        BY <1>6, <2>2, <3>2, <3>4, FullFits
      <4> QED
        BY <1>3, <1>7, <4>1, <4>2 DEF Balanced
    <3> HIDE DEF refilled
    <3> QED
      BY <3>2, <3>3, <3>4, FullFits
  <2> QED
    BY <2>1, <2>2
<1>9. ASSUME NEW d \in Clients, d # c
      PROVE  /\ d \in DOMAIN buckets' => Balanced(d)'
             /\ d \notin DOMAIN buckets' => Fresh(d)'
  <2>1. debt'[d] = debt[d] /\ lateness'[d] = lateness[d]
    BY <1>3, <1>4, <1>9
  <2>2. CASE d \in DOMAIN kept
    <3>1. d \in DOMAIN buckets' /\ buckets'[d] = buckets[d] /\ Balanced(d)
      BY <1>2, <1>3, <1>9, <2>2
    <3> QED
      BY <1>3, <2>1, <3>1 DEF Balanced
  <2>3. CASE d \notin DOMAIN kept
    BY <1>2, <1>3, <1>9, <2>1, <2>3 DEF Fresh
  <2> QED
    BY <2>2, <2>3
<1>10. DOMAIN debt' = Clients /\ DOMAIN lateness' = Clients /\ DOMAIN buckets' \subseteq Clients
  BY <1>1, <1>2, <1>3, <1>4
<1>11. /\ calls' \in [Calls -> {None} \cup [client : Clients, now : Int]]
       /\ \A j \in Calls : calls'[j] # None => calls'[j].now \leq clock'
  BY <1>3, <1>4
<1>12. LimiterInv'
  BY <1>1, <1>3, <1>7, <1>8, <1>9, <1>10, <1>11 DEF LimiterInv
<1> QED
  BY <1>8, <1>12

LEMMA LimiterStep ==
  LimiterInv /\ [LimiterNext]_limiterVars =>
      /\ LimiterInv'
      /\ \A k \in Calls : Allow(k) /\ ~Admits(calls[k].client, calls[k].now) =>
            debt[calls[k].client] > Full - Refill - lateness'[calls[k].client]
<1> SUFFICES ASSUME LimiterInv, [LimiterNext]_limiterVars
             PROVE  /\ LimiterInv'
                    /\ \A k \in Calls : Allow(k) /\ ~Admits(calls[k].client, calls[k].now) =>
                          debt[calls[k].client] > Full - Refill - lateness'[calls[k].client]
  OBVIOUS
<1>1. ASSUME NEW k \in Calls, NEW c \in Clients, ReadClock(k, c) PROVE LimiterInv'
  BY <1>1 DEF ReadClock, LimiterInv, Balanced, Fresh
<1>2. ASSUME UNCHANGED limiterVars PROVE LimiterInv'
  BY <1>2 DEF limiterVars, LimiterInv, Balanced, Fresh
<1> QED
  BY <1>1, <1>2, TickKeeps, AllowKeeps DEF LimiterNext

LEMMA LimiterCorrect == LimiterSpec => []LimiterInv
BY LimiterStart, LimiterStep, PTL DEF LimiterSpec

(* A client is admitted at most Burst attempts at once and one per Refill   *)
(* after that, whatever sweeps forget and however late the clock readings   *)
(* are (allow in auth.go).                                                  *)
THEOREM LimiterNeverTooMany == LimiterSpec => []NeverTooMany
<1>1. LimiterInv => NeverTooMany
  <2> SUFFICES ASSUME LimiterInv, NEW c \in Clients PROVE debt[c] <= Full + lateness[c]
    BY DEF NeverTooMany
  <2>1. CASE c \in DOMAIN buckets
    BY <2>1, FullFits DEF LimiterInv, Balanced, Owes, Overdrawn, LeastOf
  <2>2. CASE c \notin DOMAIN buckets
    BY <2>2, FullFits DEF LimiterInv, Fresh
  <2> QED
    BY <2>1, <2>2
<1> QED
  BY <1>1, LimiterCorrect, PTL

(* A client is refused only when it has spent what it may (allow in auth.go *)
(* charges no refused attempt, and sweepLocked forgets nothing of value).   *)
THEOREM LimiterRefusesSpent == LimiterSpec => RefusedOnlyWhenSpent
<1>1. LimiterInv /\ [LimiterNext]_limiterVars =>
        [\A k \in Calls : Allow(k) /\ ~Admits(calls[k].client, calls[k].now) =>
            debt[calls[k].client] > Full - Refill - lateness'[calls[k].client]]_limiterVars
  BY LimiterStep
<1> QED
  BY <1>1, LimiterCorrect, PTL DEF LimiterSpec, RefusedOnlyWhenSpent
=============================================================================
