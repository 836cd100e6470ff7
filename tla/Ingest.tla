-------------------------------- MODULE Ingest --------------------------------
(***************************************************************************)
(* POST /ingest of the relay (internal/relay/handler.go) over the clip     *)
(* store, the event hub with its listeners, and the ingest server's        *)
(* shutdown (server.go).  Every member of Msgs is one request and the clip *)
(* it produces.  Requests run concurrently; each locks the store and the   *)
(* hub separately, so anything may happen between its steps.               *)
(***************************************************************************)
EXTENDS SSEHub, ClipStore

VARIABLES
    ingest,         \* where each request stands
    push,           \* what each request decided about the push
    server,         \* the ingest server
    before          \* history: the clips announced, but still owed, when a broadcast began

ingestVars == <<ingest, push, server, before>>
allVars == <<hubVars, ingestVars, storeVars>>

IngestPcs == {"new", "synth", "store", "announce", "sending", "presence", "done", "failed"}
PushPcs   == {"none", "suppressed", "fanout", "sent"}

IngestInit ==
    /\ HubInit
    /\ StoreInit
    /\ ingest = [m \in Msgs |-> "new"]
    /\ push = [m \in Msgs |-> "none"]
    /\ server = "serving"
    /\ before = [m \in Msgs |-> {}]

Goto(m, from, to) ==
    /\ ingest[m] = from
    /\ ingest' \in {[ingest EXCEPT ![m] = t] : t \in to}

(* How far the broadcast of a clip is. *)
Said(m) ==
    IF ingest[m] = "sending" THEN "now"
    ELSE IF ingest[m] \in {"presence", "done"} THEN "yes"
    ELSE "no"

(* Those a broadcast found who are still to be visited, or have the clip in *)
(* their channels.                                                          *)
Owed(m) == {c \in targets[m] : c \in todo[m] \/ InSeq(chan[c], m)}

(* A request arrives; a wrong method, a bad body or an empty text ends it. *)
Arrive(m) ==
    /\ server = "serving"
    /\ Goto(m, "new", {"synth", "failed"})
    /\ UNCHANGED <<hubVars, push, server, before, storeVars>>

(* The provider answers, or fails. *)
Synthesize(m) ==
    /\ Goto(m, "synth", {"store", "failed"})
    /\ UNCHANGED <<hubVars, push, server, before, storeVars>>

StoreClip(m) ==
    /\ Goto(m, "store", {"announce"})
    /\ Add(m)
    /\ UNCHANGED <<hubVars, push, server, before>>

(* hub.Broadcast: take the read lock, visit every subscriber, release. *)
Announce(m) ==
    /\ Goto(m, "announce", {"sending"})
    /\ BroadcastBegin(m)
    /\ before' = [before EXCEPT ![m] = {k \in Msgs : Said(k) = "yes" /\ Owed(k) # {}}]
    /\ UNCHANGED <<push, server, storeVars>>

Announced(m) ==
    /\ Goto(m, "sending", {"presence"})
    /\ BroadcastEnd(m)
    /\ UNCHANGED <<push, server, before, storeVars>>

(* Fault variant: no presence tracker was wired into the handler. *)
CheckPresenceUnwired(m) ==
    /\ Goto(m, "presence", {"done"})
    /\ push' = [push EXCEPT ![m] = "fanout"]
    /\ UNCHANGED <<hubVars, server, before, storeVars>>

(* The push is suppressed while anybody is subscribed, else its fan-out is *)
(* started on a goroutine of its own; the response does not wait for it.   *)
CheckPresence(m) ==
    /\ Goto(m, "presence", {"done"})
    /\ push' = [push EXCEPT ![m] = IF HasLiveListener THEN "suppressed" ELSE "fanout"]
    /\ UNCHANGED <<hubVars, server, before, storeVars>>

(* Fault variant: the fan-out is given the context of its request, which *)
(* ends with the response.                                               *)
FanoutEndsWithRequest(m) ==
    /\ push[m] = "fanout"
    /\ push' \in {[push EXCEPT ![m] = end] : end \in {"none", "sent"}}
    /\ UNCHANGED <<hubVars, ingest, server, before, storeVars>>

(* The fan-out ends, within its deadline. *)
FanoutEnds(m) ==
    /\ push[m] = "fanout"
    /\ push' = [push EXCEPT ![m] = "sent"]
    /\ UNCHANGED <<hubVars, ingest, server, before, storeVars>>

-----------------------------------------------------------------------------
(* Shutdown: no new requests, wait for the running ones until the deadline, *)
(* then close the store whether they have finished or not.                  *)

BeginShutdown ==
    /\ server = "serving"
    /\ server' = "draining"
    /\ UNCHANGED <<hubVars, ingest, push, before, storeVars>>

CloseStore ==
    /\ server = "draining"
    /\ server' = "closed"
    /\ Close
    /\ UNCHANGED <<hubVars, ingest, push, before>>

-----------------------------------------------------------------------------

IngestStep(m) ==
    \/ Arrive(m) \/ Synthesize(m) \/ StoreClip(m) \/ Announce(m) \/ Announced(m)
    \/ CheckPresence(m) \/ FanoutEnds(m)

Next ==
    \/ \E m \in Msgs : IngestStep(m)
    \/ \E m \in Msgs, c \in Conns : SendTo(m, c) /\ UNCHANGED <<ingestVars, storeVars>>
    \/ \E c \in Conns : HandlerStep(c) /\ UNCHANGED <<ingestVars, storeVars>>
    \/ BeginShutdown
    \/ CloseStore

Spec == IngestInit /\ [][Next]_allVars

(* Requests that were accepted run to their answer: the provider's call and *)
(* the fan-out have deadlines, and the locks are granted in turn.  Nothing  *)
(* makes clients connect, read or leave, or the server shut down.           *)
RequestProceeds(m) ==
    Synthesize(m) \/ StoreClip(m) \/ Announce(m) \/ Announced(m) \/ CheckPresence(m)
        \/ FanoutEnds(m)

FairSpec == Spec /\ HubFairness /\ \A m \in Msgs : WF_allVars(RequestProceeds(m))

-----------------------------------------------------------------------------
(* Properties *)

IngestTypeOK ==
    /\ HubTypeOK
    /\ ingest \in [Msgs -> IngestPcs]
    /\ push \in [Msgs -> PushPcs]
    /\ server \in {"serving", "draining", "closed"}
    /\ before \in [Msgs -> SUBSET Msgs]
    /\ clips \subseteq Msgs
    /\ order \in Seq(Msgs)
    /\ added \in Seq(Msgs)

(* The map and the order of the store agree, and hold the newest clips, as *)
(* many as fit: all that were added, until the store is full or closed.    *)
StoreKeepsNewest ==
    LET n == Len(order)
        a == Len(added) IN
    /\ clips = {order[i] : i \in 1..n}
    /\ n \leq Capacity /\ n \leq a
    /\ \A i \in 1..n : order[i] = added[a - n + i]
    /\ server # "closed" => n = Capacity \/ n = a

(* A listener that is told of a clip can fetch it, unless Capacity newer   *)
(* clips have come since or the store was closed: the clip is stored       *)
(* before it is announced, whatever other requests do in between.          *)
AnnouncedIsFetchable ==
    \A m \in Msgs :
        ingest[m] \in {"announce", "sending", "presence", "done"} /\ server # "closed" =>
            Get(m) \/ AddedAfter(m) >= Capacity

(* A clip sent as a push is not also streamed: no connection that still    *)
(* stands has been sent it or ever will be.                                *)
PushedNotStreamed ==
    \A m \in Msgs, c \in Conns :
        push[m] \in {"fanout", "sent"} /\ conn[c] \in {"new", "open", "leaving"} =>
            ~InSeq(received[c] \o chan[c], m)

(* Every clip made is in the end left to the stream or pushed: the way there *)
(* through the store, the hub's lock, the broadcast and the look at the      *)
(* listeners waits for no client, and the fan-out outlives its request       *)
(* (handler.go:147-149).  A relay that shuts down does not wait for it.      *)
ClipSettles ==
    \A m \in Msgs :
        ingest[m] = "store" ~> push[m] \in {"suppressed", "sent"} \/ server # "serving"

-----------------------------------------------------------------------------
(* What the hub promises its listeners: see ClipFeed. *)

(* A handler whose peer has gone keeps its slot, but sends nothing more. *)
Place(c) ==
    CASE conn[c] = "new" -> "out"
      [] conn[c] = "open" -> IF c \in alive THEN "in" ELSE "lost"
      [] conn[c] = "leaving" -> "lost"
      [] OTHER -> conn[c]

Feed == INSTANCE ClipFeed WITH
    Listeners <- Conns,
    Clips <- Msgs,
    Slots <- MaxSubs,
    Lag <- BufCap,
    place <- [c \in Conns |-> Place(c)],
    said <- [m \in Msgs |-> Said(m)],
    owed <- [m \in Msgs |-> Owed(m)],
    earlier <- before,
    heard <- received

(* The hub refuses a listener only when it is full, and loses a clip only to *)
(* a listener that has gone or whose channel was full at that moment; all    *)
(* others are sent it once, and after the clips announced before it.         *)
ImplementsClipFeed == Feed!Spec
=============================================================================
