------------------------------- MODULE SSEHub -------------------------------
(***************************************************************************)
(* The server-sent-event hub of the relay (internal/relay/sse.go) with the *)
(* connection handlers that subscribe to it (companion.go, handleEvents).  *)
(*                                                                         *)
(* Every member of Conns is one GET /events request, every member of Msgs  *)
(* one Broadcast.  Broadcasts hold the read lock while they visit the      *)
(* subscribers one by one; Subscribe and cancel hold the write lock.       *)
(***************************************************************************)
EXTENDS Naturals, Sequences, FiniteSets

CONSTANTS
    Conns,      \* the /events requests
    Msgs,       \* the messages broadcast
    MaxSubs,    \* SSEHub.maxSubs
    BufCap      \* capacity of a subscriber's channel

ASSUME HubAssumption ==
    /\ MaxSubs \in Nat \ {0}
    /\ BufCap \in Nat \ {0}
    /\ IsFiniteSet(Conns)

VARIABLES
    conn,           \* where each connection handler stands
    subscribers,    \* h.subscribers
    chan,           \* the buffered channel of each subscriber
    closedChans,    \* channels that cancel has closed
    alive,          \* connections whose peer is still there
    received,       \* what each client has been sent, in order
    sending,        \* broadcasts holding the read lock
    todo,           \* the subscribers a broadcast has still to visit
    hubPanicked,    \* a send on, or a second close of, a closed channel
    targets         \* history: the subscribers a broadcast found

connVars == <<conn, alive, received>>
regVars  == <<subscribers, closedChans>>
castVars == <<sending, todo, targets>>
hubVars  == <<connVars, regVars, chan, castVars, hubPanicked>>

ConnPcs == {"new", "refused", "open", "leaving", "gone"}

HubInit ==
    /\ conn = [c \in Conns |-> "new"]
    /\ subscribers = {}
    /\ chan = [c \in Conns |-> <<>>]
    /\ closedChans = {}
    /\ alive = Conns
    /\ received = [c \in Conns |-> <<>>]
    /\ sending = {}
    /\ todo = [m \in Msgs |-> {}]
    /\ hubPanicked = FALSE
    /\ targets = [m \in Msgs |-> {}]

(* Nobody holds the read lock, so the write lock can be taken. *)
WriteLockFree == sending = {}

-----------------------------------------------------------------------------
(* The connection handler *)

(* Fault variant: no cap. *)
SubscribeUncapped(c) ==
    /\ conn[c] = "new"
    /\ WriteLockFree
    /\ conn' = [conn EXCEPT ![c] = "open"]
    /\ subscribers' = subscribers \cup {c}
    /\ UNCHANGED <<closedChans, alive, received, chan, castVars, hubPanicked>>

(* Subscribe, under the write lock; a full hub refuses (503). *)
Subscribe(c) ==
    /\ conn[c] = "new"
    /\ WriteLockFree
    /\ IF Cardinality(subscribers) >= MaxSubs
       THEN /\ conn' = [conn EXCEPT ![c] = "refused"]
            /\ UNCHANGED subscribers
       ELSE /\ conn' = [conn EXCEPT ![c] = "open"]
            /\ subscribers' = subscribers \cup {c}
    /\ UNCHANGED <<closedChans, alive, received, chan, castVars, hubPanicked>>

(* The handler takes a message and writes it.  The write of a message to a *)
(* peer that has silently gone is lost, or fails and ends the handler.     *)
Deliver(c) ==
    /\ conn[c] = "open"
    /\ chan[c] # <<>>
    /\ chan' = [chan EXCEPT ![c] = Tail(@)]
    /\ \/ /\ c \in alive
          /\ received' = [received EXCEPT ![c] = Append(@, Head(chan[c]))]
          /\ UNCHANGED conn
       \/ /\ c \notin alive
          /\ conn' \in {conn, [conn EXCEPT ![c] = "leaving"]}
          /\ UNCHANGED received
    /\ UNCHANGED <<castVars, regVars, alive, hubPanicked>>

(* Fault variant: the error of the heartbeat's write is ignored. *)
HeartbeatUnchecked(c) ==
    /\ conn[c] = "open"
    /\ c \notin alive
    /\ UNCHANGED hubVars

(* The heartbeat: a ping to a peer that has gone comes back as an error. *)
Heartbeat(c) ==
    /\ conn[c] = "open"
    /\ c \notin alive
    /\ conn' = [conn EXCEPT ![c] = "leaving"]
    /\ UNCHANGED <<castVars, regVars, chan, alive, received, hubPanicked>>

(* The client closes the connection: the request context is done. *)
Disconnect(c) ==
    /\ conn[c] = "open"
    /\ conn' = [conn EXCEPT ![c] = "leaving"]
    /\ alive' = alive \ {c}
    /\ UNCHANGED <<castVars, regVars, chan, received, hubPanicked>>

(* The peer disappears without closing the connection. *)
PeerDrops(c) ==
    /\ conn[c] = "open"
    /\ c \in alive
    /\ alive' = alive \ {c}
    /\ UNCHANGED <<castVars, regVars, chan, conn, received, hubPanicked>>

(* Fault variant: cancel without the lock. *)
CancelUnlocked(c) ==
    /\ conn[c] = "leaving"
    /\ conn' = [conn EXCEPT ![c] = "gone"]
    /\ hubPanicked' = (hubPanicked \/ c \in closedChans)
    /\ subscribers' = subscribers \ {c}
    /\ closedChans' = closedChans \cup {c}
    /\ UNCHANGED <<castVars, chan, alive, received>>

(* The deferred cancel, under the write lock. *)
Cancel(c) ==
    /\ conn[c] = "leaving"
    /\ WriteLockFree
    /\ conn' = [conn EXCEPT ![c] = "gone"]
    /\ hubPanicked' = (hubPanicked \/ (c \in subscribers /\ c \in closedChans))
    /\ subscribers' = subscribers \ {c}
    /\ closedChans' = IF c \in subscribers THEN closedChans \cup {c} ELSE closedChans
    /\ UNCHANGED <<castVars, chan, alive, received>>

-----------------------------------------------------------------------------
(* Broadcast *)

(* RLock; the range over the map visits the subscribers of that moment. *)
BroadcastBegin(m) ==
    /\ sending' = sending \cup {m}
    /\ todo' = [todo EXCEPT ![m] = subscribers]
    /\ targets' = [targets EXCEPT ![m] = subscribers]
    /\ UNCHANGED <<connVars, regVars, chan, hubPanicked>>

(* Fault variant: a send that waits for room in the channel. *)
SendToBlocks(m, c) ==
    /\ c \in todo[m]
    /\ Len(chan[c]) < BufCap
    /\ todo' = [todo EXCEPT ![m] = @ \ {c}]
    /\ chan' = [chan EXCEPT ![c] = Append(@, m)]
    /\ UNCHANGED <<connVars, regVars, sending, hubPanicked, targets>>

(* Fault variant: a full channel loses its oldest message to the new one. *)
SendToOverwrites(m, c) ==
    /\ c \in todo[m]
    /\ todo' = [todo EXCEPT ![m] = @ \ {c}]
    /\ chan' = [chan EXCEPT ![c] =
                  Append(IF Len(@) < BufCap THEN @ ELSE Tail(@), m)]
    /\ UNCHANGED <<connVars, regVars, sending, hubPanicked, targets>>

(* One non-blocking send; a full channel is skipped. *)
SendTo(m, c) ==
    /\ c \in todo[m]
    /\ todo' = [todo EXCEPT ![m] = @ \ {c}]
    /\ hubPanicked' = (hubPanicked \/ c \in closedChans)
    /\ chan' = IF Len(chan[c]) < BufCap
               THEN [chan EXCEPT ![c] = Append(@, m)] ELSE chan
    /\ UNCHANGED <<connVars, regVars, sending, targets>>

(* RUnlock *)
BroadcastEnd(m) ==
    /\ m \in sending
    /\ todo[m] = {}
    /\ sending' = sending \ {m}
    /\ UNCHANGED <<connVars, regVars, chan, todo, hubPanicked, targets>>

(* HasLiveListener, that is Count() > 0, under the read lock. *)
HasLiveListener == subscribers # {}

-----------------------------------------------------------------------------

HandlerStep(c) ==
    Subscribe(c) \/ Deliver(c) \/ Heartbeat(c) \/ Disconnect(c) \/ PeerDrops(c) \/ Cancel(c)

BroadcastBody(m) == BroadcastEnd(m) \/ \E c \in Conns : SendTo(m, c)

(* A write to a peer that has gone fails in the end, at the heartbeat at the *)
(* latest, and the deferred cancel runs.  Clients need not read.             *)
HubFairness ==
    /\ \A c \in Conns : WF_hubVars(Heartbeat(c)) /\ SF_hubVars(Cancel(c))
    /\ \A m \in Msgs : WF_hubVars(BroadcastBody(m))

-----------------------------------------------------------------------------
(* Properties *)

HubTypeOK ==
    /\ conn \in [Conns -> ConnPcs]
    /\ subscribers \subseteq Conns
    /\ chan \in [Conns -> Seq(Msgs)]
    /\ closedChans \subseteq Conns
    /\ alive \subseteq Conns
    /\ received \in [Conns -> Seq(Msgs)]
    /\ sending \subseteq Msgs
    /\ todo \in [Msgs -> SUBSET Conns]
    /\ hubPanicked \in BOOLEAN
    /\ targets \in [Msgs -> SUBSET Conns]

(* "no deadlock, no send-to-closed-channel race" (sse.go:65-67): no        *)
(* broadcast sends to a channel that a concurrent cancel has closed, and   *)
(* no channel is closed twice.                                             *)
NoHubPanic == ~hubPanicked

(* The subscribers are the connections whose handlers are running, within  *)
(* the cap: a handler that ends, for whatever reason, frees its slot.      *)
SlotsAccounted ==
    /\ subscribers = {c \in Conns : conn[c] \in {"open", "leaving"}}
    /\ Cardinality(subscribers) \leq MaxSubs
    /\ \A c \in Conns : Len(chan[c]) \leq BufCap

InSeq(s, m) == \E i \in DOMAIN s : s[i] = m

(* No client is sent a message twice, or one broadcast before it came. *)
AtMostOnce ==
    \A c \in Conns :
        LET all == received[c] \o chan[c] IN
        /\ \A i, k \in DOMAIN all : all[i] = all[k] => i = k
        /\ \A i \in DOMAIN all : c \in targets[all[i]]

(* A slow or dead client never stalls the broadcaster, although cancel has *)
(* to wait for it and nothing makes the clients read.                      *)
BroadcastEnds == \A m \in Msgs : m \in sending ~> m \notin sending

(* A silently dropped peer does not hold its subscriber slot for ever. *)
DeadPeerFreed == \A c \in Conns : conn[c] = "open" /\ c \notin alive ~> conn[c] = "gone"
=============================================================================
