------------------------------ MODULE PushSender ------------------------------
(***************************************************************************)
(* The Web Push subscriptions of the relay and the fan-out over them       *)
(* (internal/relay/push.go).  Every member of Sends is one call of Send on *)
(* a detached goroutine (handler.go, handleIngest); AddSubscription is     *)
(* called by concurrent POST /push/subscribe requests.  The list is        *)
(* guarded by a mutex, which Send does not hold while it calls out; it is  *)
(* the set of its entries here, and a Send calls them in any order.        *)
(***************************************************************************)
EXTENDS Naturals, FiniteSets

CONSTANTS
    Subscription,   \* the registrations clients send: an endpoint and its keys
    Sends,          \* the calls of Send
    MaxSubs         \* PushSender.maxSubs

ASSUME PushAssumption == MaxSubs \in Nat \ {0}

VARIABLES
    subscriptions,  \* ps.subscriptions
    pc,             \* where each Send stands
    subs,           \* Send: what is left of its copy of the list
    gone,           \* Send: the endpoints that answered 410
    ctxDone,        \* the Sends whose context has ended
    expired,        \* the push service: the endpoints it answers 410 for
    newest          \* history: the last registration accepted of each endpoint

sendVars == <<pc, subs, gone>>
listVars == <<subscriptions, newest>>
outVars  == <<ctxDone, expired>>
pushVars == <<sendVars, listVars, outVars>>

(* The endpoints of a list of subscriptions. *)
EndpointsOf(list) == {x.endpoint : x \in list}

Endpoints == EndpointsOf(Subscription)

PushInit ==
    /\ subscriptions = {}
    /\ pc = [s \in Sends |-> "idle"]
    /\ subs = [s \in Sends |-> {}]
    /\ gone = [s \in Sends |-> {}]
    /\ ctxDone = {}
    /\ expired = {}
    /\ newest = {}

-----------------------------------------------------------------------------
(* AddSubscription *)

Accepted(sub) ==
    newest' = {x \in newest : x.endpoint # sub.endpoint} \cup {sub}

(* Fault variant: registrations are not compared by endpoint. *)
AddSubscriptionDuplicates(sub) ==
    /\ Cardinality(subscriptions) < MaxSubs
    /\ subscriptions' = subscriptions \cup {sub}
    /\ Accepted(sub)
    /\ expired' = expired \ {sub.endpoint}
    /\ UNCHANGED <<sendVars, ctxDone>>

(* Fault variant: a known endpoint keeps its old keys. *)
AddSubscriptionKeepsOld(sub) ==
    /\ IF sub.endpoint \in EndpointsOf(subscriptions) \/ Cardinality(subscriptions) < MaxSubs
       THEN Accepted(sub) ELSE UNCHANGED newest
    /\ subscriptions' = IF sub.endpoint \in EndpointsOf(subscriptions)
                           \/ Cardinality(subscriptions) >= MaxSubs
                        THEN subscriptions ELSE subscriptions \cup {sub}
    /\ expired' = expired \ {sub.endpoint}
    /\ UNCHANGED <<sendVars, ctxDone>>

(* A known endpoint is replaced, a new one is added, or refused when the    *)
(* list is full.  The client has just registered with its push service,     *)
(* which knows the endpoint again.                                          *)
AddSubscription(sub) ==
    /\ LET others == {x \in subscriptions : x.endpoint # sub.endpoint} IN
       IF others = subscriptions /\ Cardinality(subscriptions) >= MaxSubs
       THEN UNCHANGED listVars
       ELSE /\ subscriptions' = others \cup {sub}
            /\ Accepted(sub)
    /\ expired' = expired \ {sub.endpoint}
    /\ UNCHANGED <<sendVars, ctxDone>>

(* POST /push/subscribe.  A request that is malformed, or whose host is not *)
(* public, changes nothing.                                                 *)
PushSubscribe == \E sub \in Subscription : AddSubscription(sub)

(* The push service: a client unsubscribes, or its registration expires. *)
Expire(e) ==
    /\ e \notin expired
    /\ expired' = expired \cup {e}
    /\ UNCHANGED <<sendVars, listVars, ctxDone>>

-----------------------------------------------------------------------------
(* Send *)

(* Copy the list, under the mutex. *)
Snapshot(s) ==
    /\ pc[s] = "idle"
    /\ subs' = [subs EXCEPT ![s] = subscriptions]
    /\ pc' = [pc EXCEPT ![s] = "loop"]
    /\ UNCHANGED <<listVars, outVars, gone>>

(* The deadline of the detached context passes; after the loop nothing asks. *)
ContextEnds(s) ==
    /\ pc[s] = "loop" /\ s \notin ctxDone
    /\ ctxDone' = ctxDone \cup {s}
    /\ UNCHANGED <<sendVars, listVars, expired>>

(* Fault variant: a transport error ends the fan-out. *)
CallBreaks(s) ==
    /\ pc[s] = "loop" /\ s \notin ctxDone
    /\ \E sub \in subs[s] :
        /\ pc' \in {pc, [pc EXCEPT ![s] = "prune"]}
        /\ subs' = [subs EXCEPT ![s] = @ \ {sub}]
    /\ UNCHANGED <<listVars, outVars, gone>>

(* The dialler resolves the host and may refuse it or fail, and so may the  *)
(* request: an error; else the status of the push service, which is 410 for *)
(* no endpoint but one it has forgotten.                                    *)
TransportSend(e) == {"error", "other"} \cup (IF e \in expired THEN {"gone"} ELSE {})

(* One call; what it answers decides only about the endpoint's pruning. *)
Call(s) ==
    /\ pc[s] = "loop" /\ s \notin ctxDone
    /\ \E sub \in subs[s] : \E answer \in TransportSend(sub.endpoint) :
        /\ gone' = IF answer = "gone" THEN [gone EXCEPT ![s] = @ \cup {sub.endpoint}] ELSE gone
        /\ subs' = [subs EXCEPT ![s] = @ \ {sub}]
    /\ UNCHANGED <<listVars, outVars, pc>>

(* Fault variant: an aborted fan-out returns without pruning. *)
LoopEndsUnpruned(s) ==
    /\ pc[s] = "loop"
    /\ s \in ctxDone \/ subs[s] = {}
    /\ pc' = [pc EXCEPT ![s] = IF s \in ctxDone THEN "done" ELSE "prune"]
    /\ UNCHANGED <<listVars, outVars, gone, subs>>

(* The list is exhausted, or the context ended and the rest is skipped. *)
LoopEnds(s) ==
    /\ pc[s] = "loop"
    /\ s \in ctxDone \/ subs[s] = {}
    /\ pc' = [pc EXCEPT ![s] = "prune"]
    /\ UNCHANGED <<listVars, outVars, gone, subs>>

(* Filter the live list, under the mutex. *)
Prune(s) ==
    /\ pc[s] = "prune"
    /\ subscriptions' = {x \in subscriptions : x.endpoint \notin gone[s]}
    /\ pc' = [pc EXCEPT ![s] = "done"]
    /\ UNCHANGED <<outVars, gone, subs, newest>>

SendStep(s) == Snapshot(s) \/ Call(s) \/ LoopEnds(s) \/ Prune(s)

PushNext ==
    \/ PushSubscribe
    \/ \E e \in Endpoints : Expire(e)
    \/ \E s \in Sends : SendStep(s) \/ ContextEnds(s)

PushSpec == PushInit /\ [][PushNext]_pushVars

(* Every transport call is bounded by a time-out, so a started Send goes on. *)
PushFairSpec ==
    PushSpec /\ \A s \in Sends : WF_pushVars(Call(s) \/ LoopEnds(s) \/ Prune(s))

-----------------------------------------------------------------------------
(* Properties *)

(* However registrations, replacements and prunings interleave, no endpoint *)
(* is listed twice and the cap holds.                                       *)
DistinctWithinCap ==
    /\ Cardinality(subscriptions) \leq MaxSubs
    /\ \A x, y \in subscriptions : x.endpoint = y.endpoint => x = y

(* A registration that was accepted stays, with its newest keys, as long as *)
(* the push service has never answered 410 for its endpoint: pruning drops  *)
(* none that was added while the fan-out called out.                        *)
AcceptedKept ==
    \A sub \in newest :
        (\A s \in Sends : sub.endpoint \notin gone[s]) => sub \in subscriptions

(* A failing endpoint, or one that another fan-out prunes meanwhile, keeps  *)
(* no other from being notified: a Send calls every registration it copied, *)
(* unless its context ends.                                                 *)
AllNotified ==
    \A sub \in Subscription, s \in Sends :
        pc[s] = "loop" /\ sub \in subs[s] ~> sub \notin subs[s] \/ s \in ctxDone

(* An endpoint that answers 410 to a fan-out is dropped from the list, even *)
(* when the fan-out runs out of time.                                       *)
GonePruned ==
    \A e \in Endpoints, s \in Sends :
        e \in gone[s] /\ pc[s] # "done" ~> e \notin EndpointsOf(subscriptions)
=============================================================================
