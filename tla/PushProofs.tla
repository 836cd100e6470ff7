----------------------------- MODULE PushProofs -----------------------------
(***************************************************************************)
(* The subscription list under concurrent registrations and fan-outs, for  *)
(* any number of endpoints, keys and fan-outs and any cap.                 *)
(***************************************************************************)
EXTENDS PushSender, FiniteSetTheorems, TLAPS

USE DEF sendVars, listVars, outVars, pushVars

-----------------------------------------------------------------------------
(* The list *)

(* DistinctWithinCap speaks of a number, which asks for a finite list. *)
ListInv == IsFiniteSet(subscriptions) /\ DistinctWithinCap

LEMMA ListInit == PushInit => ListInv
  BY PushAssumption, FS_EmptySet DEF PushInit, ListInv, DistinctWithinCap

(* A list that only loses entries keeps the invariant. *)
LEMMA ListShrinks ==
  ASSUME ListInv, subscriptions' \subseteq subscriptions
  PROVE  ListInv'
<1>1. IsFiniteSet(subscriptions') /\ Cardinality(subscriptions') \leq Cardinality(subscriptions)
  BY FS_Subset DEF ListInv
<1>2. Cardinality(subscriptions') \in Nat /\ Cardinality(subscriptions) \in Nat
  BY <1>1, FS_CardinalityType DEF ListInv
<1> QED
  BY <1>1, <1>2, PushAssumption DEF ListInv, DistinctWithinCap

(* A registration adds an entry only to a list with a place left, and      *)
(* otherwise puts it into the place of the endpoint's old entry.            *)
LEMMA ListAdd ==
  ASSUME ListInv, NEW sub \in Subscription, AddSubscription(sub)
  PROVE  ListInv'
<1> DEFINE others == {x \in subscriptions : x.endpoint # sub.endpoint}
<1>1. CASE others = subscriptions /\ Cardinality(subscriptions) >= MaxSubs
  BY <1>1, ListShrinks DEF AddSubscription
<1>2. CASE ~(others = subscriptions /\ Cardinality(subscriptions) >= MaxSubs)
  <2>1. subscriptions' = others \cup {sub}
    BY <1>2 DEF AddSubscription
  <2>2. /\ IsFiniteSet(others)
        /\ Cardinality(others) \leq Cardinality(subscriptions)
        /\ Cardinality(others) = Cardinality(subscriptions) => others = subscriptions
    BY FS_Subset DEF ListInv
  <2>3. Cardinality(others) \in Nat /\ Cardinality(subscriptions) \in Nat
    BY <2>2, FS_CardinalityType DEF ListInv
  <2>4. /\ IsFiniteSet(others \cup {sub})
        /\ Cardinality(others \cup {sub}) =
              IF sub \in others THEN Cardinality(others) ELSE Cardinality(others) + 1
    BY <2>2, FS_AddElement
  <2>5. sub \notin others
    OBVIOUS
  <2>6. Cardinality(others) < MaxSubs
    <3>1. CASE others = subscriptions
      BY <3>1, <1>2, <2>3, PushAssumption
    <3>2. CASE others # subscriptions
      BY <3>2, <2>2, <2>3, PushAssumption DEF ListInv, DistinctWithinCap
    <3> QED
      BY <3>1, <3>2
  <2>7. IsFiniteSet(subscriptions') /\ Cardinality(subscriptions') \leq MaxSubs
    BY <2>1, <2>3, <2>4, <2>5, <2>6, PushAssumption
  <2>8. ASSUME NEW x \in subscriptions', NEW y \in subscriptions', x.endpoint = y.endpoint
        PROVE  x = y
    BY <2>1, <2>8 DEF ListInv, DistinctWithinCap
  <2> HIDE DEF others
  <2> QED
    BY <2>7, <2>8 DEF ListInv, DistinctWithinCap
<1> QED
  BY <1>1, <1>2

LEMMA ListStep == ListInv /\ [PushNext]_pushVars => ListInv'
<1> SUFFICES ASSUME ListInv, [PushNext]_pushVars PROVE ListInv'
  OBVIOUS
<1>1. CASE PushSubscribe
  BY <1>1, ListAdd DEF PushSubscribe
<1>2. ASSUME NEW e \in Endpoints, Expire(e) PROVE ListInv'
  BY <1>2, ListShrinks DEF Expire
<1>3. ASSUME NEW s \in Sends, SendStep(s) \/ ContextEnds(s) PROVE ListInv'
  <2>1. CASE Prune(s)
    BY <2>1, ListShrinks DEF Prune
  <2>2. CASE Snapshot(s) \/ Call(s) \/ LoopEnds(s) \/ ContextEnds(s)
    BY <2>2, ListShrinks DEF Snapshot, Call, LoopEnds, ContextEnds
  <2> QED
    BY <1>3, <2>1, <2>2 DEF SendStep
<1>4. CASE UNCHANGED pushVars
  BY <1>4, ListShrinks
<1> QED
  BY <1>1, <1>2, <1>3, <1>4 DEF PushNext

(* No endpoint is listed twice and the cap holds (AddSubscription's        *)
(* replacement by endpoint), for any cap and any concurrent fan-outs.       *)
THEOREM PushDistinctWithinCap == PushSpec => []DistinctWithinCap
<1>1. PushInit => ListInv
  BY ListInit
<1>2. ListInv /\ [PushNext]_pushVars => ListInv'
  BY ListStep
<1>3. ListInv => DistinctWithinCap
  BY DEF ListInv
<1> QED
  BY <1>1, <1>2, <1>3, PTL DEF PushSpec

-----------------------------------------------------------------------------
(* The accepted registrations *)

(* What a Send has learned is a set of its own. *)
KeptInv == DOMAIN gone = Sends /\ AcceptedKept

LEMMA KeptInit == PushInit => KeptInv
  BY DEF PushInit, KeptInv, AcceptedKept

LEMMA KeptStep == KeptInv /\ [PushNext]_pushVars => KeptInv'
<1> SUFFICES ASSUME KeptInv, [PushNext]_pushVars PROVE KeptInv'
  OBVIOUS
<1> USE DEF KeptInv, AcceptedKept
<1>1. ASSUME NEW sub \in Subscription, AddSubscription(sub) PROVE KeptInv'
  <2> DEFINE others == {x \in subscriptions : x.endpoint # sub.endpoint}
  <2>1. gone' = gone
    BY <1>1 DEF AddSubscription
  <2>2. CASE UNCHANGED listVars
    BY <2>1, <2>2
  <2>3. CASE subscriptions' = others \cup {sub} /\ Accepted(sub)
    BY <2>1, <2>3 DEF Accepted
  <2> QED
    BY <1>1, <2>2, <2>3 DEF AddSubscription
<1>2. ASSUME NEW e \in Endpoints, Expire(e) PROVE KeptInv'
  BY <1>2 DEF Expire
<1>3. ASSUME NEW s \in Sends, SendStep(s) \/ ContextEnds(s) PROVE KeptInv'
  <2>1. CASE Snapshot(s) \/ LoopEnds(s) \/ ContextEnds(s)
    BY <2>1 DEF Snapshot, LoopEnds, ContextEnds
  <2>2. CASE Call(s)
    <3>1. UNCHANGED listVars
      BY <2>2 DEF Call
    <3>2. PICK e : gone' = gone \/ gone' = [gone EXCEPT ![s] = @ \cup {e}]
      BY <2>2 DEF Call
    <3>3. DOMAIN gone' = Sends /\ \A r \in Sends : gone[r] \subseteq gone'[r]
      BY <3>2
    <3> QED
      BY <3>1, <3>3
  <2>3. CASE Prune(s)
    BY <2>3 DEF Prune
  <2> QED
    BY <1>3, <2>1, <2>2, <2>3 DEF SendStep
<1>4. CASE UNCHANGED pushVars
  BY <1>4
<1> QED
  BY <1>1, <1>2, <1>3, <1>4 DEF PushNext, PushSubscribe

(* A registration that was accepted stays, with its newest keys, unless its *)
(* endpoint answered 410: Send's pruning drops none that was added while it *)
(* called out, for any number of registrations and fan-outs.                *)
THEOREM PushAcceptedKept == PushSpec => []AcceptedKept
<1>1. PushInit => KeptInv
  BY KeptInit
<1>2. KeptInv /\ [PushNext]_pushVars => KeptInv'
  BY KeptStep
<1>3. KeptInv => AcceptedKept
  BY DEF KeptInv
<1> QED
  BY <1>1, <1>2, <1>3, PTL DEF PushSpec
=============================================================================
