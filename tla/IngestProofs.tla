----------------------------- MODULE IngestProofs -----------------------------
(***************************************************************************)
(* Proofs about the relay's ingest path for every number of listeners and  *)
(* clips and every capacity, and about the phones that listen to it.       *)
(***************************************************************************)
EXTENDS Companion, FiniteSetTheorems, TLAPS

USE DEF connVars, regVars, castVars

(* The subscribers are the connections whose handler runs; their channels  *)
(* are open.                                                               *)
SlotInv ==
    /\ subscribers = {c \in Conns : conn[c] \in {"open", "leaving"}}
    /\ \A c \in closedChans : conn[c] = "gone"

(* While a broadcast visits the subscribers it holds the read lock, so all *)
(* it has still to visit are subscribed.                                   *)
LockInv ==
    \A m \in Msgs :
        /\ m \in sending <=> ingest[m] = "sending"
        /\ todo[m] \subseteq subscribers \cap targets[m]
        /\ ingest[m] # "sending" => todo[m] = {}

(* Only those a broadcast found are ever sent its clip, and nobody before *)
(* it began.                                                              *)
StreamInv ==
    /\ \A m \in Msgs :
          ingest[m] \in {"new", "synth", "store", "announce", "failed"} => targets[m] = {}
    /\ \A m \in Msgs, c \in Conns :
          /\ InSeq(received[c], m) => c \in targets[m]
          /\ InSeq(chan[c], m) => c \in targets[m]
          /\ c \in targets[m] => conn[c] \in {"open", "leaving", "gone"}

(* A push is decided after the broadcast, when its listeners have gone. *)
PushInv ==
    \A m \in Msgs :
        push[m] \in {"fanout", "sent"} =>
            /\ ingest[m] = "done"
            /\ \A c \in targets[m] : conn[c] = "gone"

IInv == IngestTypeOK /\ SlotInv /\ LockInv /\ StreamInv /\ PushInv

-----------------------------------------------------------------------------
(* Membership in the sequences the code builds *)

(* Appending a message adds nothing but that message. *)
LEMMA InAppend ==
    ASSUME NEW S, NEW s \in Seq(S), NEW e \in S, NEW m, InSeq(Append(s, e), m)
    PROVE  InSeq(s, m) \/ m = e
BY DEF InSeq

(* Appending a message keeps what was there and adds the message. *)
LEMMA AppendHas ==
    ASSUME NEW S, NEW s \in Seq(S), NEW e \in S
    PROVE  /\ InSeq(Append(s, e), e)
           /\ \A m : InSeq(s, m) => InSeq(Append(s, e), m)
<1>1. Len(s) + 1 \in DOMAIN Append(s, e) /\ Append(s, e)[Len(s) + 1] = e
  OBVIOUS
<1>2. ASSUME NEW m, NEW i \in DOMAIN s, s[i] = m
      PROVE  i \in DOMAIN Append(s, e) /\ Append(s, e)[i] = m
  BY <1>2
<1> QED
  BY <1>1, <1>2 DEF InSeq

(* The tail of a channel holds nothing new. *)
LEMMA InTail ==
    ASSUME NEW S, NEW s \in Seq(S), s # <<>>, NEW m, InSeq(Tail(s), m)
    PROVE  InSeq(s, m)
BY DEF InSeq

(* The head of a channel is in it. *)
LEMMA InHead ==
    ASSUME NEW S, NEW s \in Seq(S), s # <<>>
    PROVE  InSeq(s, Head(s)) /\ Head(s) \in S
BY DEF InSeq

(* What a concatenation holds, one of its parts holds. *)
LEMMA InConcat ==
    ASSUME NEW S, NEW s \in Seq(S), NEW t \in Seq(S), NEW m, InSeq(s \o t, m)
    PROVE  InSeq(s, m) \/ InSeq(t, m)
BY DEF InSeq

-----------------------------------------------------------------------------
(* The invariant holds at first. *)
LEMMA IngestInitInv == IngestInit => IInv
<1> SUFFICES ASSUME IngestInit PROVE IInv
  OBVIOUS
<1> USE DEF IngestInit, HubInit, StoreInit
<1>1. IngestTypeOK
  <2>1. <<>> \in Seq(Msgs)
    OBVIOUS
  <2>2. chan \in [Conns -> Seq(Msgs)] /\ received \in [Conns -> Seq(Msgs)]
    BY <2>1
  <2>3. HubTypeOK
    BY <2>2 DEF HubTypeOK, ConnPcs
  <2> QED
    BY <2>1, <2>3 DEF IngestTypeOK, IngestPcs, PushPcs
<1>2. SlotInv
  BY DEF SlotInv
<1>3. LockInv
  BY DEF LockInv
<1>4. StreamInv
  BY DEF StreamInv, InSeq
<1>5. PushInv
  BY DEF PushInv
<1> QED
  BY <1>1, <1>2, <1>3, <1>4, <1>5 DEF IInv

(* Every step keeps the types. *)
LEMMA IngestTypeStep == IngestTypeOK /\ [Next]_allVars => IngestTypeOK'
<1> SUFFICES ASSUME IngestTypeOK, [Next]_allVars PROVE IngestTypeOK'
  OBVIOUS
<1> USE DEF IngestTypeOK, HubTypeOK, ConnPcs, IngestPcs, PushPcs, hubVars, ingestVars, storeVars
<1>1. ASSUME NEW m \in Msgs, IngestStep(m) PROVE IngestTypeOK'
  <2>1. CASE Arrive(m)
    BY <2>1 DEF Arrive, Goto
  <2>2. CASE Synthesize(m)
    BY <2>2 DEF Synthesize, Goto
  <2>3. CASE StoreClip(m)
    <3>1. Len(order) >= Capacity => Tail(order) \in Seq(Msgs)
      BY StoreAssumption
    <3>2. Append(order, m) \in Seq(Msgs) /\ Append(added, m) \in Seq(Msgs)
      OBVIOUS
    <3>3. Len(order) >= Capacity => Append(Tail(order), m) \in Seq(Msgs)
      BY <3>1
    <3>4. order' \in Seq(Msgs)
      BY <2>3, <3>2, <3>3 DEF StoreClip, Add
    <3>5. added' \in Seq(Msgs)
      BY <2>3, <3>2 DEF StoreClip, Add
    <3>6. clips' \subseteq Msgs
      BY <2>3 DEF StoreClip, Add
    <3>7. ingest' \in [Msgs -> IngestPcs]
      BY <2>3 DEF StoreClip, Goto
    <3> QED
      BY <2>3, <3>4, <3>5, <3>6, <3>7 DEF StoreClip
  <2>4. CASE Announce(m)
    BY <2>4 DEF Announce, Goto, BroadcastBegin
  <2>5. CASE Announced(m)
    BY <2>5 DEF Announced, Goto, BroadcastEnd
  <2>6. CASE CheckPresence(m)
    BY <2>6 DEF CheckPresence, Goto
  <2>7. CASE FanoutEnds(m)
    BY <2>7 DEF FanoutEnds
  <2> QED
    BY <1>1, <2>1, <2>2, <2>3, <2>4, <2>5, <2>6, <2>7 DEF IngestStep
<1>2. ASSUME NEW m \in Msgs, NEW c \in Conns, SendTo(m, c),
             UNCHANGED <<ingestVars, storeVars>>
      PROVE  IngestTypeOK'
  <2>1. Append(chan[c], m) \in Seq(Msgs)
    OBVIOUS
  <2>2. chan' \in [Conns -> Seq(Msgs)]
    BY <1>2, <2>1 DEF SendTo
  <2>3. todo' \in [Msgs -> SUBSET Conns]
    <3>1. todo[m] \ {c} \in SUBSET Conns
      OBVIOUS
    <3> QED
      BY <1>2, <3>1 DEF SendTo
  <2>4. hubPanicked' \in BOOLEAN
    <3>1. CASE hubPanicked \/ c \in closedChans
      BY <1>2, <3>1 DEF SendTo
    <3>2. CASE ~(hubPanicked \/ c \in closedChans)
      BY <1>2, <3>2 DEF SendTo
    <3> QED
      BY <3>1, <3>2
  <2>5. UNCHANGED <<conn, subscribers, closedChans, alive, received, sending, targets>>
    BY <1>2 DEF SendTo
  <2>6. HubTypeOK'
    <3>1. /\ conn' \in [Conns -> ConnPcs] /\ subscribers' \subseteq Conns
          /\ closedChans' \subseteq Conns /\ alive' \subseteq Conns
          /\ received' \in [Conns -> Seq(Msgs)] /\ sending' \subseteq Msgs
          /\ targets' \in [Msgs -> SUBSET Conns]
      BY <2>5
    <3> QED
      BY <2>2, <2>3, <2>4, <3>1, Zenon
  <2>7. UNCHANGED <<ingest, push, server, before, clips, order, added>>
    BY <1>2
  <2> QED
    BY <2>6, <2>7
<1>3. ASSUME NEW c \in Conns, HandlerStep(c), UNCHANGED <<ingestVars, storeVars>>
      PROVE  IngestTypeOK'
  <2>1. CASE Subscribe(c)
    BY <1>3, <2>1 DEF Subscribe
  <2>2. CASE Deliver(c)
    <3>1. Head(chan[c]) \in Msgs /\ Tail(chan[c]) \in Seq(Msgs)
      BY <2>2 DEF Deliver
    <3>2. Append(received[c], Head(chan[c])) \in Seq(Msgs)
      BY <3>1
    <3>3. chan' \in [Conns -> Seq(Msgs)]
      BY <2>2, <3>1 DEF Deliver
    <3>4. received' \in [Conns -> Seq(Msgs)] /\ conn' \in [Conns -> ConnPcs]
      BY <2>2, <3>2 DEF Deliver
    <3> QED
      BY <1>3, <2>2, <3>3, <3>4 DEF Deliver
  <2>3. CASE Heartbeat(c)
    BY <1>3, <2>3 DEF Heartbeat
  <2>4. CASE Disconnect(c)
    BY <1>3, <2>4 DEF Disconnect
  <2>5. CASE PeerDrops(c)
    BY <1>3, <2>5 DEF PeerDrops
  <2>6. CASE Cancel(c)
    BY <1>3, <2>6 DEF Cancel
  <2> QED
    BY <1>3, <2>1, <2>2, <2>3, <2>4, <2>5, <2>6 DEF HandlerStep
<1>4. CASE BeginShutdown
  BY <1>4 DEF BeginShutdown
<1>5. CASE CloseStore
  BY <1>5 DEF CloseStore, Close
<1>6. CASE UNCHANGED allVars
  BY <1>6 DEF allVars
<1> QED
  BY <1>1, <1>2, <1>3, <1>4, <1>5, <1>6 DEF Next

-----------------------------------------------------------------------------
(* The steps of a request keep the invariant. *)
LEMMA RequestStepInv ==
    ASSUME NEW m \in Msgs, IInv, IngestStep(m)
    PROVE  SlotInv' /\ LockInv' /\ StreamInv' /\ PushInv'
<1> USE DEF IInv, hubVars, storeVars
<1>0. ingest \in [Msgs -> IngestPcs] /\ push \in [Msgs -> PushPcs]
      /\ todo \in [Msgs -> SUBSET Conns] /\ targets \in [Msgs -> SUBSET Conns]
  BY DEF IngestTypeOK, HubTypeOK
<1>1. CASE Arrive(m)
  BY <1>0, <1>1 DEF Arrive, Goto, SlotInv, LockInv, StreamInv, PushInv
<1>2. CASE Synthesize(m)
  BY <1>0, <1>2 DEF Synthesize, Goto, SlotInv, LockInv, StreamInv, PushInv
<1>3. CASE StoreClip(m)
  BY <1>0, <1>3 DEF StoreClip, Goto, SlotInv, LockInv, StreamInv, PushInv
<1>4. CASE Announce(m)
  <2>1. SlotInv'
    BY <1>4 DEF Announce, BroadcastBegin, SlotInv
  <2>2. LockInv'
    BY <1>0, <1>4 DEF Announce, Goto, BroadcastBegin, LockInv
  <2>3. StreamInv'
    BY <1>0, <1>4 DEF Announce, Goto, BroadcastBegin, StreamInv, SlotInv
  <2>4. PushInv'
    BY <1>0, <1>4 DEF Announce, Goto, BroadcastBegin, PushInv
  <2> QED
    BY <2>1, <2>2, <2>3, <2>4
<1>5. CASE Announced(m)
  BY <1>0, <1>5 DEF Announced, Goto, BroadcastEnd, SlotInv, LockInv, StreamInv, PushInv
<1>6. CASE CheckPresence(m)
  <2>1. SlotInv' /\ LockInv' /\ StreamInv'
    BY <1>0, <1>6 DEF CheckPresence, Goto, SlotInv, LockInv, StreamInv
  <2>2. ASSUME subscribers = {} PROVE \A c \in targets[m] : conn[c] = "gone"
    BY <1>0, <2>2 DEF SlotInv, StreamInv
  <2>3. PushInv'
    BY <1>0, <1>6, <2>2 DEF CheckPresence, Goto, PushInv, HasLiveListener
  <2> QED
    BY <2>1, <2>3
<1>7. CASE FanoutEnds(m)
  BY <1>0, <1>7 DEF FanoutEnds, SlotInv, LockInv, StreamInv, PushInv
<1> QED
  BY <1>1, <1>2, <1>3, <1>4, <1>5, <1>6, <1>7 DEF IngestStep

(* Putting a clip into a channel keeps the invariant: the listener is one *)
(* the broadcast found.                                                   *)
LEMMA SendStepInv ==
    ASSUME NEW m \in Msgs, NEW c \in Conns, IInv, SendTo(m, c),
           UNCHANGED <<ingestVars, storeVars>>
    PROVE  SlotInv' /\ LockInv' /\ StreamInv' /\ PushInv'
<1> USE DEF IInv, ingestVars
<1>0. chan \in [Conns -> Seq(Msgs)] /\ todo \in [Msgs -> SUBSET Conns]
  BY DEF IngestTypeOK, HubTypeOK
<1>1. SlotInv' /\ PushInv'
  BY DEF SendTo, SlotInv, PushInv
<1>2. LockInv'
  BY <1>0 DEF SendTo, LockInv
<1>3. \A n \in Msgs, d \in Conns : InSeq(chan[d], n)' => d \in targets[n]
  <2> SUFFICES ASSUME NEW n \in Msgs, NEW d \in Conns, InSeq(chan'[d], n)
               PROVE  d \in targets[n]
    BY DEF InSeq
  <2>1. CASE chan'[d] = chan[d]
    BY <2>1 DEF StreamInv
  <2>2. CASE chan'[d] # chan[d]
    <3>1. d = c /\ chan'[d] = Append(chan[d], m)
      BY <1>0, <2>2 DEF SendTo
    <3>2. InSeq(chan[d], n) \/ n = m
      BY <1>0, <3>1, InAppend
    <3> QED
      BY <3>1, <3>2 DEF StreamInv, LockInv, SendTo
  <2> QED
    BY <2>1, <2>2
<1>4. StreamInv'
  BY <1>3 DEF SendTo, StreamInv, InSeq
<1> QED
  BY <1>1, <1>2, <1>4

(* The steps of a connection handler keep the invariant; a handler leaves *)
(* the subscribers only when no broadcast is under way.                   *)
LEMMA HandlerStepInv ==
    ASSUME NEW c \in Conns, IInv, HandlerStep(c), UNCHANGED <<ingestVars, storeVars>>
    PROVE  SlotInv' /\ LockInv' /\ StreamInv' /\ PushInv'
<1> USE DEF IInv, ingestVars
<1>0. /\ chan \in [Conns -> Seq(Msgs)] /\ received \in [Conns -> Seq(Msgs)]
      /\ conn \in [Conns -> ConnPcs]
      /\ todo \in [Msgs -> SUBSET Conns] /\ targets \in [Msgs -> SUBSET Conns]
  BY DEF IngestTypeOK, HubTypeOK
<1>1. CASE Subscribe(c)
  <2>1. SlotInv'
    <3>1. c \notin subscribers /\ c \notin closedChans
      BY <1>1 DEF Subscribe, SlotInv
    <3>2. \A d \in Conns : d \in subscribers' <=> conn'[d] \in {"open", "leaving"}
      BY <1>0, <1>1, <3>1 DEF Subscribe, SlotInv
    <3>3. subscribers' \subseteq Conns
      BY <1>1 DEF Subscribe, SlotInv
    <3>4. \A d \in closedChans' : conn'[d] = "gone"
      <4>1. closedChans' = closedChans /\ closedChans \subseteq Conns
        BY <1>1 DEF Subscribe, IngestTypeOK, HubTypeOK
      <4>2. \A d \in Conns \ {c} : conn'[d] = conn[d]
        BY <1>0, <1>1 DEF Subscribe
      <4> QED
        BY <3>1, <4>1, <4>2 DEF SlotInv
    <3> QED
      BY <3>2, <3>3, <3>4 DEF SlotInv
  <2>2. LockInv'
    BY <1>0, <1>1 DEF Subscribe, LockInv
  <2>3. StreamInv' /\ PushInv'
    BY <1>0, <1>1 DEF Subscribe, StreamInv, PushInv, InSeq
  <2> QED
    BY <2>1, <2>2, <2>3
<1>2. CASE Deliver(c)
  <2>1. SlotInv'
    <3>1. \A d \in Conns : conn'[d] \in {"open", "leaving"} <=> conn[d] \in {"open", "leaving"}
      BY <1>0, <1>2 DEF Deliver
    <3>2. \A d \in Conns : conn[d] = "gone" => conn'[d] = "gone"
      BY <1>0, <1>2 DEF Deliver
    <3>3. subscribers' = subscribers /\ closedChans' = closedChans /\ closedChans \subseteq Conns
      BY <1>2 DEF Deliver, IngestTypeOK, HubTypeOK
    <3> QED
      BY <3>1, <3>2, <3>3 DEF SlotInv
  <2>2. LockInv'
    BY <1>0, <1>2 DEF Deliver, LockInv
  <2>3. \A n \in Msgs, d \in Conns : InSeq(chan'[d], n) => d \in targets[n]
    <3> SUFFICES ASSUME NEW n \in Msgs, NEW d \in Conns, InSeq(chan'[d], n)
                 PROVE  d \in targets[n]
      OBVIOUS
    <3>1. InSeq(chan[d], n)
      <4>1. CASE d = c
        BY <1>0, <1>2, <4>1, InTail DEF Deliver
      <4>2. CASE d # c
        BY <1>0, <1>2, <4>2 DEF Deliver
      <4> QED
        BY <4>1, <4>2
    <3> QED
      BY <3>1 DEF StreamInv
  <2>4. \A n \in Msgs, d \in Conns : InSeq(received'[d], n) => d \in targets[n]
    <3> SUFFICES ASSUME NEW n \in Msgs, NEW d \in Conns, InSeq(received'[d], n)
                 PROVE  d \in targets[n]
      OBVIOUS
    <3>1. CASE received'[d] = received[d]
      BY <3>1 DEF StreamInv
    <3>2. CASE received'[d] # received[d]
      <4>1. d = c /\ received'[d] = Append(received[d], Head(chan[c])) /\ chan[c] # <<>>
        BY <1>0, <1>2, <3>2 DEF Deliver
      <4>2. InSeq(chan[c], Head(chan[c])) /\ Head(chan[c]) \in Msgs
        BY <1>0, <4>1, InHead
      <4>3. InSeq(received[d], n) \/ n = Head(chan[c])
        BY <1>0, <4>1, <4>2, InAppend
      <4> QED
        BY <4>1, <4>2, <4>3 DEF StreamInv
    <3> QED
      BY <3>1, <3>2
  <2>5. StreamInv'
    <3>1. \A n \in Msgs, d \in Conns : d \in targets[n] => conn'[d] \in {"open", "leaving", "gone"}
      BY <1>0, <1>2 DEF Deliver, StreamInv
    <3> QED
      BY <1>2, <2>3, <2>4, <3>1 DEF Deliver, StreamInv, InSeq
  <2>6. PushInv'
    BY <1>0, <1>2 DEF Deliver, PushInv
  <2> QED
    BY <2>1, <2>2, <2>5, <2>6
<1>3. CASE Heartbeat(c)
  BY <1>0, <1>3 DEF Heartbeat, SlotInv, LockInv, StreamInv, PushInv, InSeq
<1>4. CASE Disconnect(c)
  BY <1>0, <1>4 DEF Disconnect, SlotInv, LockInv, StreamInv, PushInv, InSeq
<1>5. CASE PeerDrops(c)
  BY <1>0, <1>5 DEF PeerDrops, SlotInv, LockInv, StreamInv, PushInv, InSeq
<1>6. CASE Cancel(c)
  <2>1. SlotInv'
    BY <1>0, <1>6 DEF Cancel, SlotInv
  <2>2. \A m \in Msgs : todo[m] = {}
    BY <1>6 DEF Cancel, WriteLockFree, LockInv
  <2>3. LockInv'
    BY <1>6, <2>2 DEF Cancel, LockInv
  <2>4. StreamInv' /\ PushInv'
    BY <1>0, <1>6 DEF Cancel, StreamInv, PushInv, InSeq
  <2> QED
    BY <2>1, <2>3, <2>4
<1> QED
  BY <1>1, <1>2, <1>3, <1>4, <1>5, <1>6 DEF HandlerStep

(* The invariant is inductive. *)
LEMMA IngestStepInv == IInv /\ [Next]_allVars => IInv'
<1> SUFFICES ASSUME IInv, [Next]_allVars PROVE IInv'
  OBVIOUS
<1>1. IngestTypeOK'
  BY IngestTypeStep DEF IInv
<1>2. SlotInv' /\ LockInv' /\ StreamInv' /\ PushInv'
  <2>1. ASSUME NEW m \in Msgs, IngestStep(m)
        PROVE  SlotInv' /\ LockInv' /\ StreamInv' /\ PushInv'
    BY <2>1, RequestStepInv
  <2>2. ASSUME NEW m \in Msgs, NEW c \in Conns, SendTo(m, c),
               UNCHANGED <<ingestVars, storeVars>>
        PROVE  SlotInv' /\ LockInv' /\ StreamInv' /\ PushInv'
    BY <2>2, SendStepInv
  <2>3. ASSUME NEW c \in Conns, HandlerStep(c), UNCHANGED <<ingestVars, storeVars>>
        PROVE  SlotInv' /\ LockInv' /\ StreamInv' /\ PushInv'
    BY <2>3, HandlerStepInv
  <2>4. CASE BeginShutdown \/ CloseStore \/ UNCHANGED allVars
    BY <2>4 DEF BeginShutdown, CloseStore, allVars, hubVars, ingestVars, IInv, SlotInv,
                LockInv, StreamInv, PushInv, InSeq
  <2> QED
    BY <2>1, <2>2, <2>3, <2>4 DEF Next
<1> QED
  BY <1>1, <1>2 DEF IInv

(* So it holds for ever. *)
LEMMA IngestInvariant == Spec => []IInv
<1>1. IngestInit => IInv
  BY IngestInitInv
<1>2. IInv /\ [Next]_allVars => IInv'
  BY IngestStepInv
<1> QED
  BY <1>1, <1>2, PTL DEF Spec

-----------------------------------------------------------------------------

(* The variables of the relay's ingest path have their types. *)
THEOREM IngestTypeCorrect == Spec => []IngestTypeOK
<1>1. IInv => IngestTypeOK
  BY DEF IInv
<1> QED
  BY <1>1, IngestInvariant, PTL

(* A clip sent as a push is not also streamed: when handleIngest has decided *)
(* on the push, no connection that still stands has been sent the clip or    *)
(* ever will be, however many listeners come and go meanwhile.               *)
THEOREM IngestPushedNotStreamed == Spec => []PushedNotStreamed
<1>1. IInv => PushedNotStreamed
  <2> SUFFICES ASSUME IInv, NEW m \in Msgs, NEW c \in Conns, push[m] \in {"fanout", "sent"},
                      conn[c] \in {"new", "open", "leaving"}, InSeq(received[c] \o chan[c], m)
               PROVE  FALSE
    BY DEF PushedNotStreamed
  <2>1. chan[c] \in Seq(Msgs) /\ received[c] \in Seq(Msgs)
    BY DEF IInv, IngestTypeOK, HubTypeOK
  <2>2. c \in targets[m]
    BY <2>1, InConcat DEF IInv, StreamInv
  <2> QED
    BY <2>2 DEF IInv, PushInv
<1> QED
  BY <1>1, IngestInvariant, PTL

(* No broadcast sends to a channel that cancel has closed, and no channel is *)
(* closed twice.                                                             *)
THEOREM IngestNoHubPanic == Spec => []NoHubPanic
<1>1. IngestInit => NoHubPanic
  BY DEF IngestInit, HubInit, NoHubPanic
<1>2. IInv /\ NoHubPanic /\ [Next]_allVars => NoHubPanic'
  <2> SUFFICES ASSUME IInv, NoHubPanic, [Next]_allVars PROVE NoHubPanic'
    OBVIOUS
  <2> USE DEF NoHubPanic, hubVars
  <2>1. ASSUME NEW m \in Msgs, IngestStep(m) PROVE NoHubPanic'
    BY <2>1 DEF IngestStep, Arrive, Synthesize, StoreClip, Announce, BroadcastBegin,
                Announced, BroadcastEnd, CheckPresence, FanoutEnds
  <2>2. ASSUME NEW m \in Msgs, NEW c \in Conns, SendTo(m, c) PROVE NoHubPanic'
    <3>1. c \notin closedChans
      BY <2>2 DEF SendTo, IInv, LockInv, SlotInv
    <3> QED
      BY <2>2, <3>1 DEF SendTo
  <2>3. ASSUME NEW c \in Conns, HandlerStep(c) PROVE NoHubPanic'
    <3>1. ~(c \in subscribers /\ c \in closedChans)
      BY DEF IInv, SlotInv
    <3> QED
      BY <2>3, <3>1 DEF HandlerStep, Subscribe, Deliver, Heartbeat, Disconnect, PeerDrops,
                        Cancel
  <2>4. CASE BeginShutdown \/ CloseStore \/ UNCHANGED allVars
    BY <2>4 DEF BeginShutdown, CloseStore, allVars
  <2> QED
    BY <2>1, <2>2, <2>3, <2>4 DEF Next
<1> QED
  BY <1>1, <1>2, IngestInvariant, PTL DEF Spec

-----------------------------------------------------------------------------
(* The slots *)

(* The cap on the subscribers and on each channel. *)
BoundInv ==
    /\ Cardinality(subscribers) \leq MaxSubs
    /\ \A c \in Conns : Len(chan[c]) \leq BufCap

(* A new subscriber is counted under the lock; a message fits its channel. *)
LEMMA BoundStep == IInv /\ BoundInv /\ [Next]_allVars => BoundInv'
<1> SUFFICES ASSUME IInv, BoundInv, [Next]_allVars PROVE BoundInv'
  OBVIOUS
<1> USE HubAssumption DEF BoundInv, hubVars
<1>0. /\ subscribers \subseteq Conns /\ chan \in [Conns -> Seq(Msgs)]
      /\ IsFiniteSet(subscribers) /\ Cardinality(subscribers) \in Nat
  <2>1. subscribers \subseteq Conns /\ chan \in [Conns -> Seq(Msgs)]
    BY DEF IInv, IngestTypeOK, HubTypeOK
  <2> QED
    BY <2>1, FS_Subset, FS_CardinalityType
<1>1. ASSUME UNCHANGED <<subscribers, chan>> PROVE BoundInv'
  BY <1>1
<1>2. ASSUME NEW m \in Msgs, IngestStep(m) PROVE BoundInv'
  BY <1>1, <1>2 DEF IngestStep, Arrive, Synthesize, StoreClip, Announce, BroadcastBegin,
                    Announced, BroadcastEnd, CheckPresence, FanoutEnds
<1>3. ASSUME NEW m \in Msgs, NEW c \in Conns, SendTo(m, c) PROVE BoundInv'
  <2>1. subscribers' = subscribers
    BY <1>3 DEF SendTo
  <2>2. \A d \in Conns : Len(chan'[d]) \leq BufCap
    <3> SUFFICES ASSUME NEW d \in Conns PROVE Len(chan'[d]) \leq BufCap
      OBVIOUS
    <3>1. CASE chan'[d] = chan[d]
      BY <3>1
    <3>2. CASE chan'[d] # chan[d]
      <4>1. d = c /\ chan'[d] = Append(chan[d], m) /\ Len(chan[d]) < BufCap
        BY <1>0, <1>3, <3>2 DEF SendTo
      <4>2. Len(chan'[d]) = Len(chan[d]) + 1 /\ Len(chan[d]) \in Nat
        BY <1>0, <4>1
      <4> QED
        BY <4>1, <4>2
    <3> QED
      BY <3>1, <3>2
  <2> QED
    BY <2>1, <2>2
<1>4. ASSUME NEW c \in Conns, HandlerStep(c) PROVE BoundInv'
  <2>1. CASE Subscribe(c)
    <3>1. CASE Cardinality(subscribers) >= MaxSubs
      BY <1>1, <2>1, <3>1 DEF Subscribe
    <3>2. CASE ~(Cardinality(subscribers) >= MaxSubs)
      <4>1. subscribers' = subscribers \cup {c} /\ chan' = chan
        BY <2>1, <3>2 DEF Subscribe
      <4>2. Cardinality(subscribers \cup {c}) =
                IF c \in subscribers THEN Cardinality(subscribers)
                ELSE Cardinality(subscribers) + 1
        BY <1>0, FS_AddElement
      <4>3. Cardinality(subscribers') \in Nat
            /\ Cardinality(subscribers') \leq Cardinality(subscribers) + 1
        BY <1>0, <4>1, <4>2
      <4> QED
        BY <1>0, <3>2, <4>1, <4>3
    <3> QED
      BY <3>1, <3>2
  <2>2. CASE Deliver(c)
    <3>1. subscribers' = subscribers
      BY <2>2 DEF Deliver
    <3>2. Tail(chan[c]) \in Seq(Msgs) /\ Len(Tail(chan[c])) = Len(chan[c]) - 1
      BY <1>0, <2>2 DEF Deliver
    <3>3. \A d \in Conns : Len(chan'[d]) \leq BufCap
      BY <1>0, <2>2, <3>2 DEF Deliver
    <3> QED
      BY <3>1, <3>3
  <2>3. CASE Cancel(c)
    <3>1. subscribers' \subseteq subscribers /\ chan' = chan
      BY <2>3 DEF Cancel
    <3>2. Cardinality(subscribers') \leq Cardinality(subscribers)
          /\ Cardinality(subscribers') \in Nat
      BY <1>0, <3>1, FS_Subset, FS_CardinalityType
    <3> QED
      BY <1>0, <3>1, <3>2
  <2>4. CASE Heartbeat(c) \/ Disconnect(c) \/ PeerDrops(c)
    BY <1>1, <2>4 DEF Heartbeat, Disconnect, PeerDrops
  <2> QED
    BY <1>4, <2>1, <2>2, <2>3, <2>4 DEF HandlerStep
<1>5. CASE BeginShutdown \/ CloseStore \/ UNCHANGED allVars
  BY <1>1, <1>5 DEF BeginShutdown, CloseStore, allVars
<1> QED
  BY <1>2, <1>3, <1>4, <1>5 DEF Next

(* The hub never has more subscribers than its cap, each of them has a      *)
(* running handler, and every handler that ends gives its slot back.        *)
THEOREM IngestSlotsAccounted == Spec => []SlotsAccounted
<1>1. IngestInit => BoundInv
  BY HubAssumption, FS_EmptySet DEF IngestInit, HubInit, BoundInv
<1>2. IInv /\ BoundInv => SlotsAccounted
  BY DEF IInv, SlotInv, BoundInv, SlotsAccounted
<1> QED
  BY <1>1, <1>2, BoundStep, IngestInvariant, PTL DEF Spec

-----------------------------------------------------------------------------
(* The store *)

Stored == {"announce", "sending", "presence", "done"}

(* Each request adds its clip once, between the two steps around StoreClip. *)
AddedInv ==
    /\ \A i, k \in 1..Len(added) : added[i] = added[k] => i = k
    /\ \A m \in Msgs : ingest[m] \in Stored <=> \E i \in 1..Len(added) : added[i] = m

StoreInv == AddedInv /\ StoreKeepsNewest

(* Adding a clip keeps the newest: it takes the place of the oldest, and no  *)
(* other place holds the clip that goes.                                     *)
LEMMA AddKeeps ==
    ASSUME IngestTypeOK, StoreInv, NEW m \in Msgs, ingest[m] = "store", Add(m),
           UNCHANGED server
    PROVE  StoreKeepsNewest'
<1> DEFINE n == Len(order)
           a == Len(added)
<1>0. /\ order \in Seq(Msgs) /\ added \in Seq(Msgs) /\ n \in Nat /\ a \in Nat
      /\ Capacity \in Nat \ {0}
  BY StoreAssumption DEF IngestTypeOK
<1>1. /\ clips = {order[i] : i \in 1..n} /\ n \leq Capacity /\ n \leq a
      /\ \A i \in 1..n : order[i] = added[a - n + i]
      /\ server # "closed" => n = Capacity \/ n = a
  BY DEF StoreInv, StoreKeepsNewest
<1>2. /\ added' = Append(added, m) /\ Len(added') = a + 1
      /\ \A i \in 1..a : added'[i] = added[i]
      /\ added'[a + 1] = m
  BY <1>0 DEF Add
<1>3. \A i \in 1..n : order[i] # m
  <2>1. \A i \in 1..a : added[i] # m
    BY DEF StoreInv, AddedInv, Stored
  <2>2. \A i \in 1..n : a - n + i \in 1..a
    BY <1>0, <1>1
  <2> QED
    BY <1>1, <2>1, <2>2
<1>4. CASE n < Capacity
  <2>1. /\ clips' = clips \cup {m} /\ order' = Append(order, m) /\ Len(order') = n + 1
        /\ \A i \in 1..n : order'[i] = order[i]
        /\ order'[n + 1] = m
    BY <1>0, <1>4 DEF Add
  <2>2. clips' = {order'[i] : i \in 1..(n + 1)}
    <3>1. 1..(n + 1) = 1..n \cup {n + 1}
      BY <1>0
    <3>2. {order'[i] : i \in 1..(n + 1)} = {order'[i] : i \in 1..n} \cup {order'[n + 1]}
      BY <3>1
    <3>3. {order'[i] : i \in 1..n} = {order[i] : i \in 1..n}
      BY <2>1
    <3> QED
      BY <1>1, <2>1, <3>2, <3>3
  <2>3. \A i \in 1..(n + 1) : order'[i] = added'[(a + 1) - (n + 1) + i]
    <3> SUFFICES ASSUME NEW i \in 1..(n + 1)
                 PROVE  order'[i] = added'[(a + 1) - (n + 1) + i]
      OBVIOUS
    <3>1. (a + 1) - (n + 1) + i = a - n + i
      BY <1>0
    <3>2. CASE i = n + 1
      <4>1. a - n + i = a + 1
        BY <1>0, <3>2
      <4> QED
        BY <1>2, <2>1, <3>1, <3>2, <4>1
    <3>3. CASE i # n + 1
      <4>1. i \in 1..n /\ a - n + i \in 1..a
        BY <1>0, <1>1, <3>3
      <4> QED
        BY <1>1, <1>2, <2>1, <3>1, <4>1
    <3> QED
      BY <3>2, <3>3
  <2>4. clips' = {order'[i] : i \in 1..Len(order')}
    BY <2>1, <2>2
  <2>5. \A i \in 1..Len(order') : order'[i] = added'[Len(added') - Len(order') + i]
    BY <1>2, <2>1, <2>3
  <2>6. /\ Len(order') \leq Capacity /\ Len(order') \leq Len(added')
        /\ server' # "closed" => Len(order') = Capacity \/ Len(order') = Len(added')
    BY <1>0, <1>1, <1>2, <1>4, <2>1
  <2> QED
    BY <2>4, <2>5, <2>6 DEF StoreKeepsNewest
<1>5. CASE n = Capacity
  <2>0. order # <<>> /\ Tail(order) \in Seq(Msgs) /\ Len(Tail(order)) = n - 1
    BY <1>0, <1>5
  <2>1. /\ clips' = (clips \ {order[1]}) \cup {m} /\ order' = Append(Tail(order), m)
        /\ Len(order') = n
    BY <1>0, <1>5, <2>0 DEF Add
  <2>2. \A i \in 1..(n - 1) : order'[i] = order[i + 1]
    BY <1>0, <2>0, <2>1
  <2>3. order'[n] = m
    BY <1>0, <2>0, <2>1
  <2>4. \A i, k \in 1..n : order[i] = order[k] => i = k
    <3>1. \A i \in 1..n : a - n + i \in 1..a
      BY <1>0, <1>1
    <3>2. \A i, k \in 1..n : added[a - n + i] = added[a - n + k] => a - n + i = a - n + k
      BY <3>1 DEF StoreInv, AddedInv
    <3> QED
      BY <1>0, <1>1, <3>2
  <2>5. clips' = {order'[i] : i \in 1..n}
    <3>1. ASSUME NEW x \in clips' PROVE x \in {order'[i] : i \in 1..n}
      <4>1. CASE x = m
        BY <1>0, <1>5, <2>3, <4>1
      <4>2. CASE x # m
        <5>1. PICK i \in 1..n : x = order[i] /\ i # 1
          BY <1>1, <2>1, <3>1, <4>2
        <5>2. i - 1 \in 1..(n - 1) /\ i - 1 \in 1..n /\ (i - 1) + 1 = i
          BY <1>0, <5>1
        <5>3. order'[i - 1] = x
          BY <2>2, <5>1, <5>2
        <5> QED
          BY <5>2, <5>3
      <4> QED
        BY <4>1, <4>2
    <3>2. ASSUME NEW i \in 1..n PROVE order'[i] \in clips'
      <4>1. CASE i = n
        BY <2>1, <2>3, <4>1
      <4>2. CASE i # n
        <5>1. i \in 1..(n - 1) /\ i + 1 \in 1..n /\ 1 \in 1..n /\ i + 1 # 1
          BY <1>0, <4>2
        <5>2. order[i + 1] # order[1]
          BY <2>4, <5>1
        <5> QED
          BY <1>1, <2>1, <2>2, <5>1, <5>2
      <4> QED
        BY <4>1, <4>2
    <3> QED
      BY <3>1, <3>2
  <2>6. \A i \in 1..n : order'[i] = added'[(a + 1) - n + i]
    <3> SUFFICES ASSUME NEW i \in 1..n PROVE order'[i] = added'[(a + 1) - n + i]
      OBVIOUS
    <3>1. CASE i = n
      <4>1. (a + 1) - n + i = a + 1
        BY <1>0, <3>1
      <4> QED
        BY <1>2, <2>3, <3>1, <4>1
    <3>2. CASE i # n
      <4>1. /\ i \in 1..(n - 1) /\ i + 1 \in 1..n
            /\ (a + 1) - n + i = a - n + (i + 1) /\ a - n + (i + 1) \in 1..a
        BY <1>0, <1>1, <3>2
      <4> QED
        BY <1>1, <1>2, <2>2, <4>1
    <3> QED
      BY <3>1, <3>2
  <2>7. clips' = {order'[i] : i \in 1..Len(order')}
    BY <2>1, <2>5
  <2>8. \A i \in 1..Len(order') : order'[i] = added'[Len(added') - Len(order') + i]
    BY <1>2, <2>1, <2>6
  <2>9. /\ Len(order') \leq Capacity /\ Len(order') \leq Len(added')
        /\ server' # "closed" => Len(order') = Capacity \/ Len(order') = Len(added')
    BY <1>0, <1>1, <1>2, <1>5, <2>1
  <2> QED
    BY <2>7, <2>8, <2>9 DEF StoreKeepsNewest
<1> QED
  BY <1>0, <1>1, <1>4, <1>5

(* A request that stores its clip is the only one that adds it. *)
LEMMA AddOnce ==
    ASSUME IngestTypeOK, AddedInv, NEW m \in Msgs, StoreClip(m)
    PROVE  AddedInv'
<1> DEFINE a == Len(added)
<1>0. added \in Seq(Msgs) /\ a \in Nat /\ ingest \in [Msgs -> IngestPcs]
  BY DEF IngestTypeOK
<1>1. /\ Len(added') = a + 1
      /\ \A i \in 1..a : added'[i] = added[i]
      /\ added'[a + 1] = m
  BY <1>0 DEF StoreClip, Add
<1>2. ingest[m] = "store" /\ ingest' = [ingest EXCEPT ![m] = "announce"]
  BY DEF StoreClip, Goto
<1>3. \A i \in 1..a : added[i] # m
  BY <1>2 DEF AddedInv, Stored
<1>4. 1..(a + 1) = 1..a \cup {a + 1}
  BY <1>0
<1>5. \A i, k \in 1..(a + 1) : added'[i] = added'[k] => i = k
  BY <1>1, <1>3, <1>4 DEF AddedInv
<1>6. \A k \in Msgs : ingest'[k] \in Stored <=> \E i \in 1..(a + 1) : added'[i] = k
  BY <1>0, <1>1, <1>2, <1>4 DEF AddedInv, Stored
<1> QED
  BY <1>1, <1>5, <1>6 DEF AddedInv

(* Every step keeps the store's invariant. *)
LEMMA StoreStep == IngestTypeOK /\ StoreInv /\ [Next]_allVars => StoreInv'
<1> SUFFICES ASSUME IngestTypeOK, StoreInv, [Next]_allVars PROVE StoreInv'
  OBVIOUS
<1> USE DEF ingestVars, storeVars
<1>0. ingest \in [Msgs -> IngestPcs]
  BY DEF IngestTypeOK
<1>1. ASSUME UNCHANGED <<ingest, server, clips, order, added>> PROVE StoreInv'
  BY <1>1 DEF StoreInv, AddedInv, StoreKeepsNewest
<1>6. ASSUME UNCHANGED <<clips, order, added>>, server = "closed" <=> server' = "closed"
      PROVE  StoreKeepsNewest'
  <2>1. UNCHANGED <<Len(order), Len(added), {order[i] : i \in 1..Len(order)}>>
    BY <1>6
  <2> QED
    BY <1>6, <2>1 DEF StoreInv, StoreKeepsNewest
<1>2. ASSUME NEW m \in Msgs, IngestStep(m) PROVE StoreInv'
  <2>1. CASE StoreClip(m)
    BY <2>1, AddOnce, AddKeeps DEF StoreInv, StoreClip, Goto
  <2>2. CASE FanoutEnds(m)
    BY <1>1, <2>2 DEF FanoutEnds
  <2>3. CASE ~StoreClip(m) /\ ~FanoutEnds(m)
    <3>1. UNCHANGED <<server, clips, order, added>>
      BY <1>2, <2>3 DEF IngestStep, Arrive, Synthesize, Announce, Announced, CheckPresence
    <3>2. \A k \in Msgs : ingest'[k] \in Stored <=> ingest[k] \in Stored
      BY <1>0, <1>2, <2>3 DEF IngestStep, Arrive, Synthesize, Announce, Announced,
                              CheckPresence, Goto, Stored
    <3> QED
      BY <1>6, <3>1, <3>2 DEF StoreInv, AddedInv
  <2> QED
    BY <2>1, <2>2, <2>3
<1>3. CASE BeginShutdown
  BY <1>3, <1>6 DEF BeginShutdown, StoreInv, AddedInv
<1>4. CASE CloseStore
  <2>1. AddedInv'
    BY <1>4 DEF CloseStore, Close, StoreInv, AddedInv
  <2>2. /\ clips' = {} /\ order' = <<>> /\ server' = "closed" /\ added' = added
    BY <1>4 DEF CloseStore, Close
  <2>3. Len(added) \in Nat /\ Capacity \in Nat
    BY StoreAssumption DEF IngestTypeOK
  <2>4. StoreKeepsNewest'
    BY <2>2, <2>3 DEF StoreKeepsNewest
  <2> QED
    BY <2>1, <2>4 DEF StoreInv
<1>5. CASE UNCHANGED allVars
  BY <1>1, <1>5 DEF allVars
<1> QED
  BY <1>1, <1>2, <1>3, <1>4, <1>5 DEF Next

(* So it holds for ever. *)
LEMMA StoreInvariant == Spec => []StoreInv
<1>1. IngestInit => StoreInv
  BY StoreAssumption
     DEF IngestInit, StoreInit, StoreInv, AddedInv, Stored, StoreKeepsNewest
<1>2. IInv => IngestTypeOK
  BY DEF IInv
<1> QED
  BY <1>1, <1>2, StoreStep, IngestInvariant, PTL DEF Spec

(* The map and the order of the clip store agree and hold the newest clips,  *)
(* as many as fit, whatever order concurrent requests add them in.           *)
THEOREM IngestStoreKeepsNewest == Spec => []StoreKeepsNewest
<1>1. StoreInv => StoreKeepsNewest
  BY DEF StoreInv
<1> QED
  BY <1>1, StoreInvariant, PTL

(* A clip that listeners are told of can be fetched, unless Capacity newer   *)
(* ones have come or the store was closed.                                   *)
THEOREM IngestAnnouncedIsFetchable == Spec => []AnnouncedIsFetchable
<1>1. IngestTypeOK /\ StoreInv => AnnouncedIsFetchable
  <2> SUFFICES ASSUME IngestTypeOK, StoreInv, NEW m \in Msgs, ingest[m] \in Stored,
                      server # "closed", ~(AddedAfter(m) >= Capacity)
               PROVE  m \in clips
    BY DEF AnnouncedIsFetchable, Get, Stored
  <2> DEFINE n == Len(order)
             a == Len(added)
             at == CHOOSE i \in DOMAIN added : added[i] = m
  <2>1. n \in Nat /\ a \in Nat /\ Capacity \in Nat /\ DOMAIN added = 1..a
    BY StoreAssumption DEF IngestTypeOK
  <2>2. at \in 1..a /\ added[at] = m
    BY <2>1 DEF StoreInv, AddedInv
  <2>3. AddedAfter(m) = a - at
    BY DEF AddedAfter
  <2>4. a - at < Capacity
    BY <2>1, <2>2, <2>3
  <2>5. n = Capacity \/ n = a
    BY DEF StoreInv, StoreKeepsNewest
  <2>6. n \leq a
    BY DEF StoreInv, StoreKeepsNewest
  <2> HIDE DEF at
  <2>7. at - (a - n) \in 1..n /\ a - n + (at - (a - n)) = at
    BY <2>1, <2>2, <2>4, <2>5, <2>6
  <2>8. order[at - (a - n)] = m
    BY <2>2, <2>7 DEF StoreInv, StoreKeepsNewest
  <2> QED
    BY <2>7, <2>8 DEF StoreInv, StoreKeepsNewest
<1>2. IInv => IngestTypeOK
  BY DEF IInv
<1> QED
  BY <1>1, <1>2, StoreInvariant, IngestInvariant, PTL
-----------------------------------------------------------------------------
(* At most once *)

Once(s) == \A i, k \in DOMAIN s : s[i] = s[k] => i = k

(* A client has a message or has it waiting, never both and never twice, and *)
(* a broadcast that has still to visit it has not sent it anything.          *)
OnceInv ==
    /\ \A c \in Conns : Once(received[c]) /\ Once(chan[c])
    /\ \A m \in Msgs, c \in Conns :
          /\ InSeq(chan[c], m) => ~InSeq(received[c], m)
          /\ c \in todo[m] => ~InSeq(received[c], m) /\ ~InSeq(chan[c], m)

(* Appending something new repeats nothing. *)
LEMMA OnceAppend ==
    ASSUME NEW S, NEW s \in Seq(S), NEW e \in S, Once(s), ~InSeq(s, e)
    PROVE  Once(Append(s, e))
<1> SUFFICES ASSUME NEW i \in 1..(Len(s) + 1), NEW k \in 1..(Len(s) + 1),
                    Append(s, e)[i] = Append(s, e)[k]
             PROVE  i = k
  BY DEF Once
<1>1. \A j \in 1..Len(s) : Append(s, e)[j] = s[j] /\ s[j] # e
  BY DEF InSeq
<1>2. Append(s, e)[Len(s) + 1] = e
  OBVIOUS
<1> QED
  BY <1>1, <1>2 DEF Once

(* The tail repeats nothing, and not the head. *)
LEMMA OnceTail ==
    ASSUME NEW S, NEW s \in Seq(S), s # <<>>, Once(s)
    PROVE  Once(Tail(s)) /\ ~InSeq(Tail(s), Head(s))
<1>1. \A i \in DOMAIN Tail(s) : Tail(s)[i] = s[i + 1] /\ i + 1 \in DOMAIN s /\ i + 1 # 1
  OBVIOUS
<1>2. 1 \in DOMAIN s /\ Head(s) = s[1]
  OBVIOUS
<1>3. ~InSeq(Tail(s), Head(s))
  BY <1>1, <1>2 DEF Once, InSeq
<1>4. \A i, k \in DOMAIN Tail(s) : i + 1 = k + 1 => i = k
  OBVIOUS
<1> QED
  BY <1>1, <1>3, <1>4 DEF Once

(* Two sequences that share nothing. *)
LEMMA OnceConcat ==
    ASSUME NEW S, NEW s \in Seq(S), NEW t \in Seq(S), Once(s), Once(t),
           \A m \in S : ~(InSeq(s, m) /\ InSeq(t, m))
    PROVE  Once(s \o t)
<1> SUFFICES ASSUME NEW i \in 1..(Len(s) + Len(t)), NEW k \in 1..(Len(s) + Len(t)),
                    (s \o t)[i] = (s \o t)[k]
             PROVE  i = k
  BY DEF Once
<1>1. \A j \in 1..(Len(s) + Len(t)) :
         (s \o t)[j] = IF j \leq Len(s) THEN s[j] ELSE t[j - Len(s)]
  OBVIOUS
<1>2. \A j \in 1..Len(s), l \in 1..Len(t) : s[j] # t[l]
  BY DEF InSeq
<1>3. CASE i \leq Len(s) /\ k \leq Len(s)
  BY <1>1, <1>3 DEF Once
<1>4. CASE ~(i \leq Len(s)) /\ ~(k \leq Len(s))
  <2>1. i - Len(s) \in DOMAIN t /\ k - Len(s) \in DOMAIN t
    BY <1>4
  <2>2. t[i - Len(s)] = t[k - Len(s)]
    BY <1>1, <1>4
  <2>3. i - Len(s) = k - Len(s)
    BY <2>1, <2>2 DEF Once
  <2> QED
    BY <2>3
<1>5. CASE i \leq Len(s) /\ ~(k \leq Len(s))
  <2>1. k - Len(s) \in 1..Len(t) /\ i \in 1..Len(s)
    BY <1>5
  <2> QED
    BY <1>1, <1>2, <1>5, <2>1
<1>6. CASE ~(i \leq Len(s)) /\ k \leq Len(s)
  <2>1. i - Len(s) \in 1..Len(t) /\ k \in 1..Len(s)
    BY <1>6
  <2> QED
    BY <1>1, <1>2, <1>6, <2>1
<1> QED
  BY <1>3, <1>4, <1>5, <1>6

(* A message leaves the broadcast for the channel and the channel for the *)
(* client, and a broadcast begins before anybody has its message.         *)
LEMMA OnceStep == IInv /\ OnceInv /\ [Next]_allVars => OnceInv'
<1> SUFFICES ASSUME IInv, OnceInv, [Next]_allVars PROVE OnceInv'
  OBVIOUS
<1> USE DEF hubVars
<1>0. /\ chan \in [Conns -> Seq(Msgs)] /\ received \in [Conns -> Seq(Msgs)]
      /\ todo \in [Msgs -> SUBSET Conns] /\ targets \in [Msgs -> SUBSET Conns]
  BY DEF IInv, IngestTypeOK, HubTypeOK
<1>1. ASSUME UNCHANGED <<chan, received>>, \A m \in Msgs : todo'[m] \subseteq todo[m]
      PROVE  OnceInv'
  BY <1>1 DEF OnceInv
<1>2. ASSUME NEW m \in Msgs, IngestStep(m) PROVE OnceInv'
  <2>1. CASE Announce(m)
    <3>1. /\ UNCHANGED <<chan, received>>
          /\ \A n \in Msgs : n = m \/ todo'[n] = todo[n]
      BY <1>0, <2>1 DEF Announce, BroadcastBegin
    <3>2. \A c \in Conns : ~InSeq(received[c], m) /\ ~InSeq(chan[c], m)
      BY <2>1 DEF Announce, Goto, IInv, StreamInv
    <3> QED
      BY <3>1, <3>2 DEF OnceInv
  <2>2. CASE ~Announce(m)
    BY <1>1, <1>2, <2>2 DEF IngestStep, Arrive, Synthesize, StoreClip, Announced,
                            BroadcastEnd, CheckPresence, FanoutEnds
  <2> QED
    BY <2>1, <2>2
<1>3. ASSUME NEW m \in Msgs, NEW c \in Conns, SendTo(m, c) PROVE OnceInv'
  <2>1. received' = received /\ todo' = [todo EXCEPT ![m] = @ \ {c}] /\ c \in todo[m]
    BY <1>3 DEF SendTo
  <2>2. CASE chan' = chan
    BY <1>0, <1>1, <2>1, <2>2
  <2>3. CASE chan' = [chan EXCEPT ![c] = Append(@, m)]
    <3>1. chan'[c] = Append(chan[c], m) /\ \A d \in Conns : d # c => chan'[d] = chan[d]
      BY <1>0, <2>3
    <3>2. ~InSeq(received[c], m) /\ ~InSeq(chan[c], m)
      BY <2>1 DEF OnceInv
    <3>3. Once(chan'[c])
      BY <1>0, <3>1, <3>2, OnceAppend DEF OnceInv
    <3>4. \A n \in Msgs : InSeq(chan'[c], n) => InSeq(chan[c], n) \/ n = m
      BY <1>0, <3>1, InAppend
    <3>5. \A n \in Msgs : todo'[n] \subseteq todo[n] /\ c \notin todo'[m]
      BY <1>0, <2>1
    <3>6. \A d \in Conns : Once(received'[d]) /\ Once(chan'[d])
      BY <2>1, <3>1, <3>3 DEF OnceInv
    <3>7. ASSUME NEW n \in Msgs, NEW d \in Conns
          PROVE  /\ InSeq(chan'[d], n) => ~InSeq(received'[d], n)
                 /\ d \in todo'[n] => ~InSeq(received'[d], n) /\ ~InSeq(chan'[d], n)
      <4>1. CASE d # c
        BY <2>1, <3>1, <3>5, <4>1 DEF OnceInv
      <4>2. CASE d = c
        BY <2>1, <3>2, <3>4, <3>5, <4>2 DEF OnceInv
      <4> QED
        BY <4>1, <4>2
    <3> QED
      BY <3>6, <3>7 DEF OnceInv, Once, InSeq
  <2> QED
    BY <1>3, <2>2, <2>3 DEF SendTo
<1>4. ASSUME NEW c \in Conns, HandlerStep(c) PROVE OnceInv'
  <2>1. CASE Deliver(c)
    <3>1. /\ chan[c] # <<>> /\ todo' = todo
          /\ chan'[c] = Tail(chan[c])
          /\ received'[c] = received[c] \/ received'[c] = Append(received[c], Head(chan[c]))
          /\ \A d \in Conns : d # c => chan'[d] = chan[d] /\ received'[d] = received[d]
      BY <1>0, <2>1 DEF Deliver
    <3>2. InSeq(chan[c], Head(chan[c])) /\ Head(chan[c]) \in Msgs
      BY <1>0, <3>1, InHead
    <3>3. ~InSeq(received[c], Head(chan[c]))
      BY <3>2 DEF OnceInv
    <3>4. Once(Tail(chan[c])) /\ ~InSeq(Tail(chan[c]), Head(chan[c]))
      BY <1>0, <3>1, OnceTail DEF OnceInv
    <3>5. Once(Append(received[c], Head(chan[c])))
      BY <1>0, <3>2, <3>3, OnceAppend DEF OnceInv
    <3>6. \A n \in Msgs : InSeq(chan'[c], n) => InSeq(chan[c], n) /\ n # Head(chan[c])
      BY <1>0, <3>1, <3>4, InTail
    <3> DEFINE more == Append(received[c], Head(chan[c]))
    <3>10. \A n : InSeq(more, n) => InSeq(received[c], n) \/ n = Head(chan[c])
      BY <1>0, <3>2, InAppend
    <3>7. \A n \in Msgs : InSeq(received'[c], n) => InSeq(received[c], n) \/ n = Head(chan[c])
      BY <3>1, <3>10
    <3>8. \A d \in Conns : Once(received'[d]) /\ Once(chan'[d])
      BY <3>1, <3>4, <3>5 DEF OnceInv
    <3>9. ASSUME NEW n \in Msgs, NEW d \in Conns
          PROVE  /\ InSeq(chan'[d], n) => ~InSeq(received'[d], n)
                 /\ d \in todo'[n] => ~InSeq(received'[d], n) /\ ~InSeq(chan'[d], n)
      <4>1. CASE d # c
        BY <3>1, <4>1 DEF OnceInv
      <4>2. CASE d = c
        BY <3>1, <3>2, <3>6, <3>7, <4>2 DEF OnceInv
      <4> QED
        BY <4>1, <4>2
    <3> QED
      BY <3>8, <3>9 DEF OnceInv, Once, InSeq
  <2>2. CASE ~Deliver(c)
    BY <1>1, <1>4, <2>2 DEF HandlerStep, Subscribe, Heartbeat, Disconnect, PeerDrops, Cancel
  <2> QED
    BY <2>1, <2>2
<1>5. CASE BeginShutdown \/ CloseStore \/ UNCHANGED allVars
  BY <1>1, <1>5 DEF BeginShutdown, CloseStore, allVars
<1> QED
  BY <1>2, <1>3, <1>4, <1>5 DEF Next

(* No client is sent a message twice, or one broadcast before it came. *)
THEOREM IngestAtMostOnce == Spec => []AtMostOnce
<1>1. IngestInit => OnceInv
  BY DEF IngestInit, HubInit, OnceInv, Once, InSeq
<1>2. IInv /\ OnceInv => AtMostOnce
  <2> SUFFICES ASSUME IInv, OnceInv, NEW c \in Conns
               PROVE  /\ Once(received[c] \o chan[c])
                      /\ \A i \in DOMAIN (received[c] \o chan[c]) :
                            c \in targets[(received[c] \o chan[c])[i]]
    BY DEF AtMostOnce, Once
  <2>1. received[c] \in Seq(Msgs) /\ chan[c] \in Seq(Msgs)
    BY DEF IInv, IngestTypeOK, HubTypeOK
  <2>2. Once(received[c] \o chan[c])
    BY <2>1, OnceConcat DEF OnceInv
  <2>3. ASSUME NEW i \in DOMAIN (received[c] \o chan[c])
        PROVE  c \in targets[(received[c] \o chan[c])[i]]
    <3> DEFINE m == (received[c] \o chan[c])[i]
    <3>3. InSeq(received[c] \o chan[c], m)
      BY DEF InSeq
    <3>4. received[c] \o chan[c] \in Seq(Msgs)
      BY <2>1
    <3>5. \A s \in Seq(Msgs) : \A k \in DOMAIN s : s[k] \in Msgs
      OBVIOUS
    <3>1. m \in Msgs
      BY <3>4, <3>5
    <3>2. InSeq(received[c], m) \/ InSeq(chan[c], m)
      BY <2>1, <3>3, InConcat
    <3> QED
      BY <3>1, <3>2 DEF IInv, StreamInv
  <2> QED
    BY <2>2, <2>3
<1> QED
  BY <1>1, <1>2, OnceStep, IngestInvariant, PTL DEF Spec

-----------------------------------------------------------------------------
(* The feed *)

(* In a sequence of clips none comes after one that was announced later; b *)
(* has the clips announced before each.                                    *)
Ordered(s, b) == \A i, k \in DOMAIN s : i < k => s[k] \notin b[s[i]]

(* A request is alive until it is answered, and the clips that came before *)
(* another one's broadcast were all sent by then.                          *)
BeforeInv ==
    /\ \A c \in Conns : conn[c] = "new" => c \in alive
    /\ \A m \in Msgs : \A k \in before[m] : Said(k) = "yes" /\ k # m

(* What a client has, and what it has waiting, is in the order of the       *)
(* announcements, and so are the two together.                              *)
OrderInv ==
    /\ \A c \in Conns : Ordered(received[c], before) /\ Ordered(chan[c], before)
    /\ \A c \in Conns, m, k \in Msgs :
          InSeq(received[c], m) /\ InSeq(chan[c], k) => k \notin before[m]

(* Appending a clip that did not come before any that is there. *)
LEMMA OrderedAppend ==
    ASSUME NEW S, NEW s \in Seq(S), NEW e \in S, NEW b, Ordered(s, b),
           \A m \in S : InSeq(s, m) => e \notin b[m]
    PROVE  Ordered(Append(s, e), b)
<1> SUFFICES ASSUME NEW i \in 1..(Len(s) + 1), NEW k \in 1..(Len(s) + 1), i < k
             PROVE  Append(s, e)[k] \notin b[Append(s, e)[i]]
  BY DEF Ordered
<1>1. \A j \in 1..Len(s) : Append(s, e)[j] = s[j] /\ s[j] \in S /\ InSeq(s, s[j])
  BY DEF InSeq
<1>2. Append(s, e)[Len(s) + 1] = e
  OBVIOUS
<1>3. i \in 1..Len(s)
  OBVIOUS
<1>4. CASE k = Len(s) + 1
  BY <1>1, <1>2, <1>3, <1>4
<1>5. CASE k \in 1..Len(s)
  BY <1>1, <1>3, <1>5 DEF Ordered
<1> QED
  BY <1>4, <1>5

(* The tail keeps the order, and holds nothing that came before the head. *)
LEMMA OrderedTail ==
    ASSUME NEW S, NEW s \in Seq(S), s # <<>>, NEW b, Ordered(s, b)
    PROVE  /\ Ordered(Tail(s), b)
           /\ \A m : InSeq(Tail(s), m) => m \notin b[Head(s)]
<1>1. \A i \in DOMAIN Tail(s) : Tail(s)[i] = s[i + 1] /\ i + 1 \in DOMAIN s /\ 1 < i + 1
  OBVIOUS
<1>2. 1 \in DOMAIN s /\ Head(s) = s[1]
  OBVIOUS
<1>3. \A i, k \in DOMAIN Tail(s) : i < k => i + 1 < k + 1
  OBVIOUS
<1>4. Ordered(Tail(s), b)
  BY <1>1, <1>3 DEF Ordered
<1>5. ASSUME NEW m, InSeq(Tail(s), m) PROVE m \notin b[Head(s)]
  <2>1. PICK i \in DOMAIN Tail(s) : Tail(s)[i] = m
    BY <1>5 DEF InSeq
  <2> QED
    BY <1>1, <1>2, <2>1 DEF Ordered
<1> QED
  BY <1>4, <1>5

(* Only the histories of the clips in a sequence matter to its order. *)
LEMMA OrderedSame ==
    ASSUME NEW s, NEW b, NEW d, Ordered(s, b), \A m : InSeq(s, m) => d[m] = b[m]
    PROVE  Ordered(s, d)
<1> SUFFICES ASSUME NEW i \in DOMAIN s, NEW k \in DOMAIN s, i < k
             PROVE  s[k] \notin d[s[i]]
  BY DEF Ordered
<1>1. d[s[i]] = b[s[i]]
  BY DEF InSeq
<1> QED
  BY <1>1 DEF Ordered

(* A broadcast that is over stays over, and none is over before it began. *)
LEMMA BeforeStep == IInv /\ BeforeInv /\ [Next]_allVars => BeforeInv'
<1> SUFFICES ASSUME IInv, BeforeInv, [Next]_allVars PROVE BeforeInv'
  OBVIOUS
<1> USE DEF hubVars, ingestVars, storeVars
<1>0. /\ conn \in [Conns -> ConnPcs] /\ ingest \in [Msgs -> IngestPcs]
      /\ before \in [Msgs -> SUBSET Msgs]
  BY DEF IInv, IngestTypeOK, HubTypeOK
<1>1. ASSUME \A k \in Msgs : Said(k) = "yes" => Said(k)' = "yes", UNCHANGED before
      PROVE  \A m \in Msgs : \A k \in before'[m] : Said(k)' = "yes" /\ k # m
  BY <1>0, <1>1 DEF BeforeInv
<1>2. ASSUME NEW m \in Msgs, IngestStep(m) PROVE BeforeInv'
  <2>1. \A k \in Msgs : Said(k) = "yes" => Said(k)' = "yes"
    <3> SUFFICES ASSUME NEW k \in Msgs, Said(k) = "yes" PROVE Said(k)' = "yes"
      OBVIOUS
    <3>1. ingest[k] \in {"presence", "done"}
      BY DEF Said
    <3>2. ingest'[k] \in {"presence", "done"}
      BY <1>0, <1>2, <3>1 DEF IngestStep, Arrive, Synthesize, StoreClip, Announce,
                              Announced, CheckPresence, FanoutEnds, Goto
    <3> QED
      BY <3>2 DEF Said
  <2>2. UNCHANGED <<conn, alive>>
    BY <1>2 DEF IngestStep, Arrive, Synthesize, StoreClip, Announce, BroadcastBegin,
                Announced, BroadcastEnd, CheckPresence, FanoutEnds
  <2>3. CASE Announce(m)
    <3>1. /\ before'[m] = {k \in Msgs : Said(k) = "yes" /\ Owed(k) # {}}
          /\ \A n \in Msgs : n # m => before'[n] = before[n]
      BY <1>0, <2>3 DEF Announce
    <3>2. Said(m) = "no"
      BY <2>3 DEF Announce, Goto, Said
    <3>3. \A n \in Msgs : \A k \in before'[n] : Said(k)' = "yes" /\ k # n
      BY <1>0, <2>1, <3>1, <3>2 DEF BeforeInv
    <3> QED
      BY <2>2, <3>3 DEF BeforeInv
  <2>4. CASE ~Announce(m)
    <3>1. UNCHANGED before
      BY <1>2, <2>4 DEF IngestStep, Arrive, Synthesize, StoreClip, Announced,
                        CheckPresence, FanoutEnds
    <3> QED
      BY <1>1, <2>1, <2>2, <3>1 DEF BeforeInv
  <2> QED
    BY <2>3, <2>4
<1>3. ASSUME UNCHANGED <<ingest, before>>,
             \A c \in Conns : conn'[c] = "new" => c \in alive'
      PROVE  BeforeInv'
  <2>1. \A k \in Msgs : Said(k) = "yes" => Said(k)' = "yes"
    BY <1>3 DEF Said
  <2> QED
    BY <1>1, <1>3, <2>1 DEF BeforeInv
<1>4. ASSUME NEW m \in Msgs, NEW c \in Conns, SendTo(m, c),
             UNCHANGED <<ingestVars, storeVars>>
      PROVE  BeforeInv'
  BY <1>3, <1>4 DEF SendTo, BeforeInv
<1>5. ASSUME NEW c \in Conns, HandlerStep(c), UNCHANGED <<ingestVars, storeVars>>
      PROVE  BeforeInv'
  <2>1. \A d \in Conns : conn'[d] = "new" => d \in alive'
    BY <1>0, <1>5 DEF HandlerStep, Subscribe, Deliver, Heartbeat, Disconnect, PeerDrops,
                      Cancel, BeforeInv
  <2> QED
    BY <1>3, <1>5, <2>1
<1>6. CASE BeginShutdown \/ CloseStore \/ UNCHANGED allVars
  BY <1>3, <1>6 DEF BeginShutdown, CloseStore, allVars, BeforeInv
<1> QED
  BY <1>2, <1>4, <1>5, <1>6 DEF Next

(* Channels are first in, first out; a broadcast puts its clip behind all   *)
(* whose broadcasts were over, and none of them is still to come.           *)
LEMMA OrderStep == IInv /\ BeforeInv /\ OrderInv /\ [Next]_allVars => OrderInv'
<1> SUFFICES ASSUME IInv, BeforeInv, OrderInv, [Next]_allVars PROVE OrderInv'
  OBVIOUS
<1> USE DEF hubVars, ingestVars, storeVars
<1>0. /\ chan \in [Conns -> Seq(Msgs)] /\ received \in [Conns -> Seq(Msgs)]
      /\ before \in [Msgs -> SUBSET Msgs]
  BY DEF IInv, IngestTypeOK, HubTypeOK
<1>1. ASSUME UNCHANGED <<chan, received, before>> PROVE OrderInv'
  BY <1>1 DEF OrderInv, Ordered, InSeq
<1>2. ASSUME NEW m \in Msgs, IngestStep(m) PROVE OrderInv'
  <2>1. CASE Announce(m)
    <3>1. /\ UNCHANGED <<chan, received>>
          /\ \A n : n # m => before'[n] = before[n]
      BY <1>0, <2>1 DEF Announce, BroadcastBegin
    <3>2. \A c \in Conns : ~InSeq(received[c], m) /\ ~InSeq(chan[c], m)
      BY <2>1 DEF Announce, Goto, IInv, StreamInv
    <3>3. ASSUME NEW c \in Conns
          PROVE  Ordered(received[c], before') /\ Ordered(chan[c], before')
      <4>1. /\ \A n : InSeq(received[c], n) => before'[n] = before[n]
            /\ \A n : InSeq(chan[c], n) => before'[n] = before[n]
        BY <3>1, <3>2
      <4> QED
        BY <4>1, OrderedSame DEF OrderInv
    <3>4. ASSUME NEW c \in Conns, NEW n \in Msgs, NEW k \in Msgs,
                 InSeq(received[c], n), InSeq(chan[c], k)
          PROVE  k \notin before'[n]
      BY <3>1, <3>2, <3>4 DEF OrderInv
    <3> QED
      BY <3>1, <3>3, <3>4 DEF OrderInv, InSeq, Ordered
  <2>2. CASE ~Announce(m)
    BY <1>1, <1>2, <2>2 DEF IngestStep, Arrive, Synthesize, StoreClip, Announced,
                            BroadcastEnd, CheckPresence, FanoutEnds
  <2> QED
    BY <2>1, <2>2
<1>3. ASSUME NEW m \in Msgs, NEW c \in Conns, SendTo(m, c),
             UNCHANGED <<ingestVars, storeVars>>
      PROVE  OrderInv'
  <2>1. CASE chan' = chan
    BY <1>1, <1>3, <2>1 DEF SendTo
  <2>2. CASE chan' = [chan EXCEPT ![c] = Append(@, m)]
    <3>1. /\ UNCHANGED <<received, before>> /\ chan'[c] = Append(chan[c], m)
          /\ \A d \in Conns : d # c => chan'[d] = chan[d]
      BY <1>0, <1>3, <2>2 DEF SendTo
    <3>2. \A n \in Msgs : m \notin before[n]
      <4>1. Said(m) = "now"
        BY <1>3 DEF SendTo, IInv, LockInv, Said
      <4> QED
        BY <4>1 DEF BeforeInv
    <3>3. Ordered(Append(chan[c], m), before)
      BY <1>0, <3>2, OrderedAppend DEF OrderInv
    <3>4. \A d \in Conns : Ordered(received[d], before) /\ Ordered(chan'[d], before)
      BY <3>1, <3>3 DEF OrderInv
    <3>5. ASSUME NEW d \in Conns, NEW n \in Msgs, NEW k \in Msgs,
                 InSeq(received[d], n), InSeq(chan'[d], k)
          PROVE  k \notin before[n]
      <4>1. InSeq(chan[d], k) \/ k = m
        <5>1. CASE d = c
          <6>1. InSeq(Append(chan[c], m), k)
            BY <3>1, <3>5, <5>1
          <6> QED
            BY <1>0, <5>1, <6>1, InAppend
        <5>2. CASE d # c
          BY <3>1, <3>5, <5>2
        <5> QED
          BY <5>1, <5>2
      <4> QED
        BY <3>2, <3>5, <4>1 DEF OrderInv
    <3> QED
      BY <3>1, <3>4, <3>5 DEF OrderInv, InSeq, Ordered
  <2> QED
    BY <1>3, <2>1, <2>2 DEF SendTo
<1>4. ASSUME NEW c \in Conns, HandlerStep(c), UNCHANGED <<ingestVars, storeVars>>
      PROVE  OrderInv'
  <2>1. CASE Deliver(c)
    <3> DEFINE h == Head(chan[c])
               more == Append(received[c], h)
    <3>1. /\ chan[c] # <<>> /\ before' = before /\ chan'[c] = Tail(chan[c])
          /\ received'[c] = received[c] \/ received'[c] = more
          /\ \A d \in Conns : d # c => chan'[d] = chan[d] /\ received'[d] = received[d]
      BY <1>0, <1>4, <2>1 DEF Deliver
    <3>2. InSeq(chan[c], h) /\ h \in Msgs
      BY <1>0, <3>1, InHead
    <3>3. /\ Ordered(Tail(chan[c]), before)
          /\ \A n : InSeq(Tail(chan[c]), n) => n \notin before[h]
      BY <1>0, <3>1, OrderedTail DEF OrderInv
    <3>4. Ordered(more, before)
      BY <1>0, <3>2, OrderedAppend DEF OrderInv
    <3>5. \A n \in Msgs : InSeq(Tail(chan[c]), n) => InSeq(chan[c], n)
      BY <1>0, <3>1, InTail
    <3>6. \A n : InSeq(more, n) => InSeq(received[c], n) \/ n = h
      BY <1>0, <3>2, InAppend
    <3> HIDE DEF h, more
    <3>7. \A d \in Conns : Ordered(received'[d], before) /\ Ordered(chan'[d], before)
      BY <3>1, <3>3, <3>4 DEF OrderInv
    <3>8. ASSUME NEW d \in Conns, NEW n \in Msgs, NEW k \in Msgs,
                 InSeq(received'[d], n), InSeq(chan'[d], k)
          PROVE  k \notin before[n]
      <4>1. CASE d # c
        BY <3>1, <3>8, <4>1 DEF OrderInv
      <4>2. CASE d = c
        <5>1. InSeq(Tail(chan[c]), k) /\ (InSeq(received[c], n) \/ n = h)
          BY <3>1, <3>6, <3>8, <4>2
        <5> QED
          BY <3>3, <3>5, <5>1 DEF OrderInv
      <4> QED
        BY <4>1, <4>2
    <3> QED
      BY <3>1, <3>7, <3>8 DEF OrderInv, InSeq, Ordered
  <2>2. CASE ~Deliver(c)
    BY <1>1, <1>4, <2>2 DEF HandlerStep, Subscribe, Heartbeat, Disconnect, PeerDrops, Cancel
  <2> QED
    BY <2>1, <2>2
<1>5. CASE BeginShutdown \/ CloseStore \/ UNCHANGED allVars
  BY <1>1, <1>5 DEF BeginShutdown, CloseStore, allVars
<1> QED
  BY <1>2, <1>3, <1>4, <1>5 DEF Next

(* All that the refinement rests on. *)
FeedInv == IInv /\ BoundInv /\ OnceInv /\ BeforeInv /\ OrderInv

(* It holds from the first state on. *)
LEMMA FeedInvariant == Spec => []FeedInv
<1>1. IngestInit => OnceInv /\ BeforeInv /\ OrderInv
  BY DEF IngestInit, HubInit, OnceInv, Once, BeforeInv, OrderInv, Ordered, InSeq
<1>2. IngestInit => BoundInv
  BY HubAssumption, FS_EmptySet DEF IngestInit, HubInit, BoundInv
<1> QED
  BY <1>1, <1>2, BoundStep, OnceStep, BeforeStep, OrderStep, IngestInvariant, PTL
     DEF Spec, FeedInv

(* Whatever the relay has sent a client is in order: no clip twice, and none *)
(* after one that was announced when its own broadcast was over (sse.go,     *)
(* Broadcast's send and the receive of companion.go's handleEvents).         *)
THEOREM IngestHeardInOrder == Spec => []Feed!HeardInOrder
<1>1. FeedInv => Feed!HeardInOrder
  BY DEF FeedInv, OnceInv, Once, OrderInv, Ordered, Feed!HeardInOrder
<1> QED
  BY <1>1, FeedInvariant, PTL

places  == [c \in Conns |-> Place(c)]
sayings == [m \in Msgs |-> Said(m)]
dues    == [m \in Msgs |-> Owed(m)]

(* The variables of the feed stay as they are. *)
FeedStutter == UNCHANGED <<places, sayings, dues, before, received>>

(* The places of the feed are the subscribers' slots. *)
LEMMA HoldersAreSubscribers ==
    ASSUME IInv
    PROVE  Feed!Holders = subscribers
<1>1. \A c \in Conns : Place(c) \in {"in", "lost"} <=> conn[c] \in {"open", "leaving"}
  BY DEF Place, IInv, IngestTypeOK, HubTypeOK, ConnPcs
<1> QED
  BY <1>1 DEF Feed!Holders, IInv, SlotInv

(* Nobody listens to an idle hub. *)
LEMMA FeedFirst == IngestInit => Feed!Init
BY DEF IngestInit, HubInit, Feed!Init, Place, Said, Owed, InSeq

(* A broadcast publishes its clip from its first step to its last. *)
LEMMA RefinesRequest ==
    ASSUME FeedInv, NEW m \in Msgs, IngestStep(m)
    PROVE  FeedStutter \/ Feed!Publish(m) \/ Feed!Published(m)
<1> USE DEF hubVars, storeVars
<1>0. /\ ingest \in [Msgs -> IngestPcs] /\ before \in [Msgs -> SUBSET Msgs]
      /\ targets \in [Msgs -> SUBSET Conns] /\ todo \in [Msgs -> SUBSET Conns]
  BY DEF FeedInv, IInv, IngestTypeOK, HubTypeOK
<1>1. UNCHANGED <<conn, alive, chan, received>>
  BY DEF IngestStep, Arrive, Synthesize, StoreClip, Announce, BroadcastBegin,
         Announced, BroadcastEnd, CheckPresence, FanoutEnds
<1>2. UNCHANGED <<places, received>>
  BY <1>1 DEF places, Place
<1>3. CASE Announce(m)
  <2>1. Said(m) = "no" /\ Said(m)' = "now"
    BY <1>0, <1>3 DEF Announce, Goto, Said
  <2>2. \A k \in Msgs : k # m => Said(k)' = Said(k)
    BY <1>0, <1>3 DEF Announce, Goto, Said
  <2>3. sayings[m] = "no" /\ sayings' = [sayings EXCEPT ![m] = "now"]
    BY <2>1, <2>2 DEF sayings
  <2>4. Owed(m)' = subscribers
    <3>1. targets'[m] = subscribers /\ todo'[m] = subscribers
      BY <1>0, <1>3 DEF Announce, BroadcastBegin
    <3> QED
      BY <3>1 DEF Owed
  <2>5. \A k \in Msgs : k # m => Owed(k)' = Owed(k)
    <3>1. \A k \in Msgs : k # m => targets'[k] = targets[k] /\ todo'[k] = todo[k]
      BY <1>0, <1>3 DEF Announce, BroadcastBegin
    <3> QED
      BY <1>1, <3>1 DEF Owed
  <2>6. dues' = [dues EXCEPT ![m] = Feed!Holders]
    BY <2>4, <2>5, HoldersAreSubscribers DEF dues, FeedInv
  <2>7. before' = [before EXCEPT ![m] = {k \in Msgs : sayings[k] = "yes" /\ dues[k] # {}}]
    BY <1>3 DEF Announce, sayings, dues
  <2> QED
    BY <1>2, <2>3, <2>6, <2>7 DEF Feed!Publish, places, sayings, dues
<1>4. ASSUME UNCHANGED <<todo, targets>> PROVE UNCHANGED dues
  BY <1>1, <1>4 DEF dues, Owed
<1>5. CASE Announced(m)
  <2>1. Said(m) = "now" /\ Said(m)' = "yes"
    BY <1>0, <1>5 DEF Announced, Goto, Said
  <2>2. \A k \in Msgs : k # m => Said(k)' = Said(k)
    BY <1>0, <1>5 DEF Announced, Goto, Said
  <2>3. sayings[m] = "now" /\ sayings' = [sayings EXCEPT ![m] = "yes"]
    BY <2>1, <2>2 DEF sayings
  <2>4. UNCHANGED <<dues, before>>
    BY <1>4, <1>5 DEF Announced, BroadcastEnd
  <2> QED
    BY <1>2, <2>3, <2>4 DEF Feed!Published, places, sayings, dues
<1>6. CASE ~Announce(m) /\ ~Announced(m)
  <2>1. \A k \in Msgs : Said(k)' = Said(k)
    BY <1>0, <1>6 DEF IngestStep, Arrive, Synthesize, StoreClip, CheckPresence, FanoutEnds,
                      Goto, Said
  <2>2. UNCHANGED <<todo, targets, before>>
    BY <1>6 DEF IngestStep, Arrive, Synthesize, StoreClip, CheckPresence, FanoutEnds
  <2> QED
    BY <1>2, <1>4, <2>1, <2>2 DEF FeedStutter, sayings
<1> QED
  BY <1>3, <1>5, <1>6

(* When a clip leaves the broadcast or the channel, its listener is owed one *)
(* clip less; while it moves from one to the other, nothing changes.         *)
LEMMA OwedLess ==
    ASSUME FeedInv, NEW m \in Msgs, NEW c \in Conns, c \in Owed(m), UNCHANGED targets,
           todo' \in [Msgs -> SUBSET Conns], chan' \in [Conns -> Seq(Msgs)],
           \A k \in Msgs, d \in Conns :
              (k # m \/ d # c) =>
                 ((d \in todo'[k] \/ InSeq(chan'[d], k)) <=> (d \in todo[k] \/ InSeq(chan[d], k)))
    PROVE  /\ c \notin todo'[m] /\ ~InSeq(chan'[c], m) =>
                  dues' = [dues EXCEPT ![m] = @ \ {c}]
           /\ c \in todo'[m] \/ InSeq(chan'[c], m) => UNCHANGED dues
<1>1. targets \in [Msgs -> SUBSET Conns]
  BY DEF FeedInv, IInv, IngestTypeOK, HubTypeOK
<1>2. \A k \in Msgs : k # m => Owed(k)' = Owed(k)
  BY <1>1 DEF Owed
<1>3. ASSUME c \notin todo'[m], ~InSeq(chan'[c], m) PROVE Owed(m)' = Owed(m) \ {c}
  BY <1>1, <1>3 DEF Owed
<1>4. ASSUME c \in todo'[m] \/ InSeq(chan'[c], m) PROVE Owed(m)' = Owed(m)
  BY <1>1, <1>4 DEF Owed
<1> QED
  BY <1>2, <1>3, <1>4 DEF dues

(* A listener with a full channel is owed as many other clips as fit there. *)
LEMMA FullIsBehind ==
    ASSUME FeedInv, NEW m \in Msgs, NEW c \in Conns, c \in todo[m], ~(Len(chan[c]) < BufCap)
    PROVE  Feed!Behind(m, c)
<1> DEFINE s == chan[c]
           K == {s[i] : i \in DOMAIN s}
<1>1. s \in Seq(Msgs) /\ Len(s) = BufCap /\ DOMAIN s = 1..BufCap /\ BufCap \in Nat
  BY HubAssumption DEF FeedInv, BoundInv, IInv, IngestTypeOK, HubTypeOK
<1>2. ASSUME NEW k \in K PROVE k \in Msgs /\ k # m /\ c \in Owed(k)
  <2>1. k \in Msgs
    BY <1>1
  <2>2. InSeq(chan[c], k)
    BY DEF InSeq
  <2> QED
    BY <2>1, <2>2 DEF FeedInv, OnceInv, IInv, StreamInv, Owed
<1>3. K \in SUBSET {k \in Msgs \ {m} : c \in dues[k]}
  BY <1>2 DEF dues
<1>4. Cardinality(K) = BufCap
  <2>1. s \in Bijection(1..BufCap, K)
    <3>1. s \in [1..BufCap -> K]
      BY <1>1
    <3>2. \A i, k \in 1..BufCap : s[i] = s[k] => i = k
      BY <1>1 DEF FeedInv, OnceInv, Once
    <3> QED
      BY <1>1, <3>1, <3>2 DEF Bijection, Injection, IsInjective, Surjection
  <2>2. ExistsBijection(1..BufCap, K)
    BY <2>1 DEF ExistsBijection
  <2> HIDE DEF K
  <2> QED
    BY <1>1, <2>2, FS_CountingElements
<1> HIDE DEF K
<1>5. K \in SUBSET {k \in Msgs \ {m} : c \in [n \in Msgs |-> Owed(n)][k]}
  BY <1>3 DEF dues
<1> QED
  BY <1>4, <1>5, Zenon DEF Feed!Behind, Feed!Cardinality, Cardinality

(* A broadcast's visit to a subscriber moves its clip into the channel, or *)
(* loses it because the channel is full.                                   *)
LEMMA RefinesSend ==
    ASSUME FeedInv, NEW m \in Msgs, NEW c \in Conns, SendTo(m, c),
           UNCHANGED <<ingestVars, storeVars>>
    PROVE  FeedStutter \/ Feed!Miss(m, c)
<1> USE DEF ingestVars
<1>0. /\ chan \in [Conns -> Seq(Msgs)] /\ todo \in [Msgs -> SUBSET Conns]
      /\ targets \in [Msgs -> SUBSET Conns]
  BY DEF FeedInv, IInv, IngestTypeOK, HubTypeOK
<1>1. UNCHANGED <<places, sayings, before, received, targets>>
  BY DEF SendTo, places, Place, sayings, Said
<1>2. c \in todo[m] /\ c \in targets[m] /\ c \in Owed(m) /\ ~InSeq(chan[c], m)
  BY DEF SendTo, FeedInv, IInv, LockInv, OnceInv, Owed
<1>3. todo' = [todo EXCEPT ![m] = @ \ {c}]
  BY DEF SendTo
<1>4. c \notin todo'[m] /\ todo' \in [Msgs -> SUBSET Conns]
  BY <1>0, <1>3
<1>5. \A k \in Msgs, d \in Conns : k # m \/ d # c => (d \in todo'[k] <=> d \in todo[k])
  BY <1>0, <1>3
<1>6. CASE Len(chan[c]) < BufCap
  <2>1. chan' = [chan EXCEPT ![c] = Append(chan[c], m)]
    BY <1>6 DEF SendTo
  <2>2. InSeq(Append(chan[c], m), m) /\ Append(chan[c], m) \in Seq(Msgs)
    BY <1>0, AppendHas
  <2>3. \A k \in Msgs : k # m => (InSeq(Append(chan[c], m), k) <=> InSeq(chan[c], k))
    BY <1>0, AppendHas, InAppend
  <2>4. \A k \in Msgs, d \in Conns :
           k # m \/ d # c => (InSeq(chan'[d], k) <=> InSeq(chan[d], k))
    BY <1>0, <2>1, <2>3
  <2>5. InSeq(chan'[c], m) /\ chan' \in [Conns -> Seq(Msgs)]
    BY <1>0, <2>1, <2>2
  <2> QED
    BY <1>1, <1>2, <1>4, <1>5, <2>4, <2>5, OwedLess DEF FeedStutter
<1>7. CASE ~(Len(chan[c]) < BufCap)
  <2>1. UNCHANGED chan
    BY <1>7 DEF SendTo
  <2>2. dues' = [dues EXCEPT ![m] = @ \ {c}]
    BY <1>0, <1>1, <1>2, <1>4, <1>5, <2>1, OwedLess
  <2>3. c \in dues[m]
    BY <1>2 DEF dues
  <2>4. sayings[m] = "now"
    BY <1>2 DEF sayings, Said, FeedInv, IInv, LockInv
  <2>5. Feed!Behind(m, c)
    BY <1>2, <1>7, FullIsBehind
  <2> QED
    BY <1>1, <2>2, <2>3, <2>4, <2>5 DEF Feed!Miss, Feed!Settle, places, sayings, dues
<1> QED
  BY <1>6, <1>7

(* Taking a clip from the channel of a live connection is hearing it, from *)
(* that of a dead one missing it.                                          *)
LEMMA RefinesDeliver ==
    ASSUME FeedInv, NEW c \in Conns, Deliver(c), UNCHANGED <<ingestVars, storeVars>>
    PROVE  \E m \in Msgs : Feed!Hear(m, c) \/ Feed!Miss(m, c)
<1> USE DEF ingestVars
<1> DEFINE m == Head(chan[c])
<1>0. /\ chan \in [Conns -> Seq(Msgs)] /\ todo \in [Msgs -> SUBSET Conns]
      /\ targets \in [Msgs -> SUBSET Conns] /\ before \in [Msgs -> SUBSET Msgs]
      /\ received \in [Conns -> Seq(Msgs)] /\ conn \in [Conns -> ConnPcs]
  BY DEF FeedInv, IInv, IngestTypeOK, HubTypeOK
<1>1. /\ conn[c] = "open" /\ chan[c] # <<>> /\ chan' = [chan EXCEPT ![c] = Tail(chan[c])]
      /\ UNCHANGED <<todo, targets, alive, sayings, before>>
  BY DEF Deliver, sayings, Said
<1>2. m \in Msgs /\ InSeq(chan[c], m) /\ Tail(chan[c]) \in Seq(Msgs)
  BY <1>0, <1>1, InHead
<1>3. \A k \in Msgs : InSeq(chan[c], k) <=> k = m \/ InSeq(Tail(chan[c]), k)
  <2>1. \A k \in Msgs : InSeq(Tail(chan[c]), k) => InSeq(chan[c], k)
    BY <1>0, <1>1, InTail
  <2>2. ASSUME NEW k \in Msgs, InSeq(chan[c], k) PROVE k = m \/ InSeq(Tail(chan[c]), k)
    <3>1. PICK i \in 1..Len(chan[c]) : chan[c][i] = k
      BY <1>0, <2>2 DEF InSeq
    <3>2. CASE i = 1
      BY <1>0, <1>1, <3>1, <3>2
    <3>3. CASE i # 1
      <4>1. i - 1 \in DOMAIN Tail(chan[c]) /\ Tail(chan[c])[i - 1] = k
        BY <1>0, <1>1, <3>1, <3>3
      <4> QED
        BY <4>1 DEF InSeq
    <3> QED
      BY <3>2, <3>3
  <2> QED
    BY <1>2, <2>1, <2>2
<1>4. ~InSeq(Tail(chan[c]), m) /\ c \notin todo[m] /\ c \in Owed(m)
  <2>1. Once(chan[c])
    BY DEF FeedInv, OnceInv
  <2>2. ~InSeq(Tail(chan[c]), m)
    BY <1>0, <1>1, <2>1, OnceTail
  <2> QED
    BY <1>2, <2>2 DEF FeedInv, OnceInv, IInv, StreamInv, Owed
<1> HIDE DEF m
<1>5. dues' = [dues EXCEPT ![m] = @ \ {c}]
  <2>1. \A k \in Msgs, d \in Conns :
           k # m \/ d # c => (InSeq(chan'[d], k) <=> InSeq(chan[d], k))
    BY <1>0, <1>1, <1>3
  <2>2. ~InSeq(chan'[c], m) /\ chan' \in [Conns -> Seq(Msgs)]
    BY <1>0, <1>1, <1>2, <1>4
  <2> QED
    BY <1>0, <1>1, <1>2, <1>4, <2>1, <2>2, OwedLess
<1>6. c \in dues[m]
  BY <1>2, <1>4 DEF dues
<1>7. CASE c \in alive
  <2>1. received' = [received EXCEPT ![c] = Append(@, m)] /\ UNCHANGED conn
    BY <1>7 DEF Deliver, m
  <2>2. UNCHANGED places /\ places[c] = "in"
    BY <1>1, <1>7, <2>1 DEF places, Place
  <2>3. \A k \in before[m] : c \notin dues[k]
    <3> SUFFICES ASSUME NEW k \in before[m], c \in dues[k] PROVE FALSE
      OBVIOUS
    <3>1. k \in Msgs /\ Said(k) = "yes" /\ k # m
      BY <1>0, <1>2 DEF FeedInv, BeforeInv
    <3>2. todo[k] = {}
      BY <3>1 DEF Said, FeedInv, IInv, LockInv
    <3>3. InSeq(chan[c], k)
      BY <3>1, <3>2 DEF dues, Owed
    <3>4. InSeq(Tail(chan[c]), k)
      BY <1>3, <3>1, <3>3
    <3>5. Ordered(chan[c], before)
      BY DEF FeedInv, OrderInv
    <3> QED
      BY <1>0, <1>1, <3>4, <3>5, OrderedTail DEF m
  <2> QED
    BY <1>1, <1>2, <1>5, <1>6, <2>1, <2>2, <2>3
       DEF Feed!Hear, Feed!Settle, places, sayings, dues
<1>8. CASE c \notin alive
  <2>1. UNCHANGED received /\ conn' \in {conn, [conn EXCEPT ![c] = "leaving"]}
    BY <1>8 DEF Deliver
  <2>2. places[c] = "lost"
    BY <1>1, <1>8 DEF places, Place
  <2>3. \A d \in Conns : Place(d)' = Place(d)
    BY <1>0, <1>1, <1>8, <2>1 DEF Place
  <2> QED
    BY <1>1, <1>2, <1>5, <1>6, <2>1, <2>2, <2>3
       DEF Feed!Miss, Feed!Settle, places, sayings, dues
<1> QED
  BY <1>7, <1>8

(* The other steps of a connection handler move its listener. *)
LEMMA RefinesHandler ==
    ASSUME FeedInv, NEW c \in Conns, HandlerStep(c), UNCHANGED <<ingestVars, storeVars>>
    PROVE  \/ FeedStutter
           \/ Feed!Admit(c) \/ Feed!Refuse(c) \/ Feed!Leave(c) \/ Feed!Free(c)
           \/ \E m \in Msgs : Feed!Hear(m, c) \/ Feed!Miss(m, c)
<1> USE DEF ingestVars
<1>0. conn \in [Conns -> ConnPcs] /\ alive \subseteq Conns
  BY DEF FeedInv, IInv, IngestTypeOK, HubTypeOK
<1>1. CASE Deliver(c)
  BY <1>1, RefinesDeliver
<1> SUFFICES ASSUME ~Deliver(c)
             PROVE  \/ FeedStutter
                    \/ Feed!Admit(c) \/ Feed!Refuse(c) \/ Feed!Leave(c) \/ Feed!Free(c)
  BY <1>1
<1>2. UNCHANGED <<sayings, dues, before, received>>
  BY DEF HandlerStep, Subscribe, Heartbeat, Disconnect, PeerDrops, Cancel, sayings, Said,
         dues, Owed
<1>3. ASSUME NEW to, Place(c)' = to, \A d \in Conns : d # c => Place(d)' = Place(d)
      PROVE  places' = [places EXCEPT ![c] = to]
  BY <1>3 DEF places
<1>4. CASE Subscribe(c)
  <2>0. Place(c) = "out" /\ c \in alive
    BY <1>4 DEF Subscribe, Place, FeedInv, BeforeInv
  <2>1. \A d \in Conns : d # c => Place(d)' = Place(d)
    BY <1>0, <1>4 DEF Subscribe, Place
  <2>2. CASE Cardinality(subscribers) >= MaxSubs
    <3>1. Place(c)' = "refused"
      BY <1>0, <1>4, <2>2 DEF Subscribe, Place
    <3>2. places[c] = "out" /\ places' = [places EXCEPT ![c] = "refused"]
      BY <1>3, <2>0, <2>1, <3>1 DEF places
    <3>3. Cardinality(Feed!Holders) >= MaxSubs
      BY <2>2, HoldersAreSubscribers DEF FeedInv
    <3>4. Feed!Moves(c, "out", "refused")
      BY <1>2, <3>2 DEF Feed!Moves, places, sayings, dues
    <3> QED
      BY <3>3, <3>4 DEF Feed!Refuse, Feed!Cardinality, Cardinality
  <2>3. CASE ~(Cardinality(subscribers) >= MaxSubs)
    <3>1. Place(c)' = "in"
      BY <1>0, <1>4, <2>0, <2>3 DEF Subscribe, Place
    <3>2. places[c] = "out" /\ places' = [places EXCEPT ![c] = "in"]
      BY <1>3, <2>0, <2>1, <3>1 DEF places
    <3>3. Cardinality(Feed!Holders) < MaxSubs
      <4>1. Cardinality(subscribers) \in Nat
        BY HubAssumption, FS_Subset, FS_CardinalityType
           DEF FeedInv, IInv, IngestTypeOK, HubTypeOK
      <4> QED
        BY <2>3, <4>1, HoldersAreSubscribers, HubAssumption DEF FeedInv
    <3>4. Feed!Moves(c, "out", "in")
      BY <1>2, <3>2 DEF Feed!Moves, places, sayings, dues
    <3> QED
      BY <3>3, <3>4 DEF Feed!Admit, Feed!Cardinality, Cardinality
  <2> QED
    BY <2>2, <2>3
<1>5. CASE Heartbeat(c)
  <2>1. \A d \in Conns : Place(d)' = Place(d)
    BY <1>0, <1>5 DEF Heartbeat, Place
  <2> QED
    BY <1>2, <2>1 DEF FeedStutter, places
<1>6. CASE Disconnect(c) \/ PeerDrops(c)
  <2>1. Place(c) \in {"in", "lost"} /\ Place(c)' = "lost"
    BY <1>0, <1>6 DEF Disconnect, PeerDrops, Place
  <2>2. \A d \in Conns : d # c => Place(d)' = Place(d)
    BY <1>0, <1>6 DEF Disconnect, PeerDrops, Place
  <2>3. places' = [places EXCEPT ![c] = "lost"] /\ places[c] \in {"in", "lost"}
    BY <1>3, <2>1, <2>2 DEF places
  <2>4. CASE places[c] = "lost"
    BY <1>2, <2>3, <2>4 DEF FeedStutter, places
  <2>5. CASE places[c] = "in"
    BY <1>2, <2>3, <2>5 DEF Feed!Leave, Feed!Moves, places, sayings, dues
  <2> QED
    BY <2>3, <2>4, <2>5
<1>7. CASE Cancel(c)
  <2>1. Place(c) = "lost" /\ Place(c)' = "gone"
    BY <1>0, <1>7 DEF Cancel, Place
  <2>2. \A d \in Conns : d # c => Place(d)' = Place(d)
    BY <1>0, <1>7 DEF Cancel, Place
  <2>3. places[c] = "lost" /\ places' = [places EXCEPT ![c] = "gone"]
    BY <1>3, <2>1, <2>2 DEF places
  <2> QED
    BY <1>2, <2>3 DEF Feed!Free, Feed!Moves, places, sayings, dues
<1> QED
  BY <1>4, <1>5, <1>6, <1>7 DEF HandlerStep

(* Every step of the relay is a step of the feed or a stutter. *)
LEMMA RefinesFeed ==
    ASSUME FeedInv, [Next]_allVars
    PROVE  [Feed!Next]_(Feed!vars)
<1>1. ASSUME FeedStutter PROVE UNCHANGED Feed!vars
  BY <1>1 DEF FeedStutter, Feed!vars, places, sayings, dues
<1>2. ASSUME NEW m \in Msgs, IngestStep(m) PROVE [Feed!Next]_(Feed!vars)
  BY <1>1, <1>2, RefinesRequest DEF Feed!Next
<1>3. ASSUME NEW m \in Msgs, NEW c \in Conns, SendTo(m, c),
             UNCHANGED <<ingestVars, storeVars>>
      PROVE  [Feed!Next]_(Feed!vars)
  BY <1>1, <1>3, RefinesSend DEF Feed!Next
<1>4. ASSUME NEW c \in Conns, HandlerStep(c), UNCHANGED <<ingestVars, storeVars>>
      PROVE  [Feed!Next]_(Feed!vars)
  BY <1>1, <1>4, RefinesHandler DEF Feed!Next
<1>5. CASE BeginShutdown \/ CloseStore \/ UNCHANGED allVars
  <2>1. FeedStutter
    BY <1>5 DEF BeginShutdown, CloseStore, allVars, hubVars, ingestVars, FeedStutter,
                places, Place, sayings, Said, dues, Owed
  <2> QED
    BY <1>1, <2>1
<1> QED
  BY <1>2, <1>3, <1>4, <1>5 DEF Next

(* Seen from its listeners, the hub with its locks, channels, broadcasts and *)
(* connection handlers is a feed with MaxSubs places that owes every clip to *)
(* all who hold one when it is announced, and fails nobody who stays and     *)
(* keeps up.                                                                 *)
THEOREM IngestImplementsClipFeed == Spec => ImplementsClipFeed
BY FeedFirst, RefinesFeed, FeedInvariant, PTL DEF Spec, ImplementsClipFeed, Feed!Spec

-----------------------------------------------------------------------------
(* The phones *)

(* Every step of a phone is one of the relay, or changes only the phone. *)
LEMMA CompanionStep == [CompanionNext]_companionVars => [Next]_allVars
<1> SUFFICES ASSUME [CompanionNext]_companionVars PROVE [Next]_allVars
  OBVIOUS
<1> USE DEF allVars, HandlerStep, IngestStep
<1>1. ASSUME NEW p \in Phones, PhoneStep(p) PROVE [Next]_allVars
  <2>1. CASE Open(p) \/ Unlock(p) \/ \E m \in Msgs : TapNotification(p, m)
    BY <2>1 DEF Open, Unlock, TapNotification
  <2>2. CASE ClosePage(p)
    BY <2>2 DEF ClosePage, Next
  <2>3. ASSUME NEW c \in Conns, Connect(p, c) \/ LoseConnection(p, c) PROVE [Next]_allVars
    BY <2>3 DEF Connect, LoseConnection, Next
  <2> QED
    BY <1>1, <2>1, <2>2, <2>3 DEF PhoneStep
<1>2. ASSUME NEW m \in Msgs, Notify(m) PROVE [Next]_allVars
  BY <1>2 DEF Notify, Next
<1>3. CASE RelayStep
  BY <1>3 DEF RelayStep, Next
<1>4. CASE UNCHANGED companionVars
  BY <1>4 DEF companionVars
<1> QED
  BY <1>1, <1>2, <1>3, <1>4 DEF CompanionNext

(* The relay under its phones behaves as Ingest says, so what is proved of it *)
(* for arbitrary clients holds whatever the phones do.                        *)
THEOREM CompanionRunsIngest == CompanionSpec => Spec
BY CompanionStep, PTL DEF CompanionSpec, CompanionInit, Spec

(* A connection that can be sent nothing any more. *)
Over(c) == conn[c] \in {"refused", "leaving", "gone"} \/ (conn[c] = "open" /\ c \notin alive)

(* A phone's requests were made one after the other: all but the last are   *)
(* over, and no broadcast that reached one has found a later one.           *)
PhoneInv ==
    /\ requests \in [Phones -> Seq(Conns)]
    /\ \A p \in Phones : \A i \in 1..Len(requests[p]) :
          /\ conn[requests[p][i]] # "new"
          /\ i < Len(requests[p]) => Over(requests[p][i])
    /\ \A p \in Phones : \A i, k \in 1..Len(requests[p]) : \A m \in Msgs :
          i < k /\ InSeq(received[requests[p][i]], m) => requests[p][k] \notin targets[m]

(* What the relay does to connections: none becomes new again, one that is *)
(* over stays so and is sent nothing, and a broadcast finds its listeners  *)
(* before any of them has its message.                                     *)
LEMMA RelayKeeps ==
    ASSUME IInv, [Next]_allVars
    PROVE  /\ \A c \in Conns : conn[c] # "new" => conn'[c] # "new"
           /\ \A c \in Conns : Over(c) => Over(c)' /\ received'[c] = received[c]
           /\ \A m \in Msgs : \/ targets'[m] = targets[m]
                              \/ \A c \in Conns : ~InSeq(received'[c], m)
<1> USE DEF hubVars, Over
<1> DEFINE Keeps ==
        /\ \A c \in Conns : conn[c] # "new" => conn'[c] # "new"
        /\ \A c \in Conns : Over(c) => Over(c)' /\ received'[c] = received[c]
        /\ \A m \in Msgs : \/ targets'[m] = targets[m]
                           \/ \A c \in Conns : ~InSeq(received'[c], m)
<1>0. /\ conn \in [Conns -> ConnPcs] /\ alive \subseteq Conns
      /\ received \in [Conns -> Seq(Msgs)] /\ targets \in [Msgs -> SUBSET Conns]
  BY DEF IInv, IngestTypeOK, HubTypeOK
<1>1. ASSUME NEW m \in Msgs, IngestStep(m) PROVE Keeps
  <2>1. CASE Announce(m)
    <3>1. UNCHANGED connVars /\ \A n \in Msgs : n = m \/ targets'[n] = targets[n]
      BY <1>0, <2>1 DEF Announce, BroadcastBegin
    <3>2. \A c \in Conns : ~InSeq(received[c], m)
      BY <2>1 DEF Announce, Goto, IInv, StreamInv
    <3> QED
      BY <3>1, <3>2
  <2>2. CASE ~Announce(m)
    BY <1>1, <2>2 DEF IngestStep, Arrive, Synthesize, StoreClip, Announced,
                      BroadcastEnd, CheckPresence, FanoutEnds
  <2> QED
    BY <2>1, <2>2
<1>2. ASSUME NEW m \in Msgs, NEW c \in Conns, SendTo(m, c) PROVE Keeps
  BY <1>2 DEF SendTo
<1>3. ASSUME NEW c \in Conns, HandlerStep(c) PROVE Keeps
  <2>1. UNCHANGED targets
    BY <1>3 DEF HandlerStep, Subscribe, Deliver, Heartbeat, Disconnect, PeerDrops, Cancel
  <2>2. \A d \in Conns : conn[d] # "new" => conn'[d] # "new"
    BY <1>0, <1>3 DEF HandlerStep, Subscribe, Deliver, Heartbeat, Disconnect, PeerDrops,
                      Cancel
  <2>3. ASSUME NEW d \in Conns, Over(d) PROVE Over(d)' /\ received'[d] = received[d]
    BY <1>0, <1>3, <2>3 DEF HandlerStep, Subscribe, Deliver, Heartbeat, Disconnect,
                            PeerDrops, Cancel
  <2> QED
    BY <2>1, <2>2, <2>3
<1>4. CASE BeginShutdown \/ CloseStore \/ UNCHANGED allVars
  BY <1>4 DEF BeginShutdown, CloseStore, allVars
<1> QED
  BY <1>1, <1>2, <1>3, <1>4 DEF Next

(* A new request is made when the last one is over, on a connection that no *)
(* broadcast knows yet.                                                     *)
LEMMA ConnectInv ==
    ASSUME IInv, PhoneInv, NEW p \in Phones, NEW c \in Conns, Connect(p, c)
    PROVE  PhoneInv'
<1> DEFINE r == requests[p]
           n == Len(requests[p])
<1>0. /\ conn \in [Conns -> ConnPcs] /\ requests \in [Phones -> Seq(Conns)]
      /\ r \in Seq(Conns) /\ n \in Nat
  BY DEF IInv, IngestTypeOK, HubTypeOK, PhoneInv
<1>1. /\ UNCHANGED <<alive, received, targets>>
      /\ conn[c] = "new" /\ conn'[c] # "new" /\ \A d \in Conns : d # c => conn'[d] = conn[d]
  BY <1>0 DEF Connect, Subscribe, castVars
<1>2. /\ requests'[p] = Append(r, c)
      /\ \A q \in Phones : q # p => requests'[q] = requests[q]
  BY <1>0 DEF Connect
<1>3. requests' \in [Phones -> Seq(Conns)]
  BY <1>0 DEF Connect
<1>4. \A d \in Conns : d # c /\ Over(d) => Over(d)'
  BY <1>1 DEF Over
<1>5. n > 0 => Over(r[n])
  <2> SUFFICES ASSUME n > 0 PROVE Over(r[n])
    OBVIOUS
  <2>1. r # <<>> /\ r[n] \in Conns /\ conn[r[n]] # "new"
    BY <1>0 DEF PhoneInv
  <2>2. ~Streams(p, r[n]) /\ page[p] = "listening"
    BY <2>1 DEF Connect
  <2> QED
    BY <1>0, <2>1, <2>2 DEF Streams, Over, ConnPcs
<1>6. \A m \in Msgs : c \notin targets[m]
  BY <1>1 DEF IInv, StreamInv
<1>7. /\ Len(requests'[p]) = n + 1
      /\ \A i \in 1..(n + 1) : requests'[p][i] = IF i = n + 1 THEN c ELSE r[i]
  BY <1>0, <1>2
<1>8. ASSUME NEW q \in Phones, NEW i \in 1..Len(requests'[q]),
             NEW d \in Conns, d = requests'[q][i]
      PROVE  /\ conn'[d] # "new"
             /\ i < Len(requests'[q]) => Over(d)'
  <2>1. CASE q # p
    <3>1. requests'[q] = requests[q] /\ requests[q][i] \in Conns
      BY <1>0, <1>2, <2>1
    <3>2. conn[requests[q][i]] # "new" /\ (i < Len(requests[q]) => Over(requests[q][i]))
      BY <3>1 DEF PhoneInv
    <3>3. d = requests[q][i] /\ d # c
      BY <1>1, <1>8, <3>1, <3>2
    <3> QED
      BY <1>1, <1>4, <3>1, <3>2, <3>3
  <2>2. CASE q = p /\ i = n + 1
    BY <1>0, <1>1, <1>7, <1>8, <2>2
  <2>3. CASE q = p /\ i # n + 1
    <3>1. i \in 1..n /\ requests'[q][i] = r[i] /\ r[i] \in Conns
      BY <1>0, <1>7, <2>3
    <3>2. conn[r[i]] # "new" /\ Over(r[i])
      BY <1>0, <1>5, <3>1 DEF PhoneInv
    <3>3. d = r[i] /\ d # c
      BY <1>1, <1>8, <3>1, <3>2
    <3> QED
      BY <1>1, <1>4, <3>1, <3>2, <3>3
  <2> QED
    BY <2>1, <2>2, <2>3
<1>9. ASSUME NEW q \in Phones, NEW i \in 1..Len(requests'[q]), NEW k \in 1..Len(requests'[q]),
             NEW m \in Msgs, i < k, InSeq(received[requests'[q][i]], m)
      PROVE  requests'[q][k] \notin targets[m]
  <2>1. CASE q # p
    BY <1>2, <1>9, <2>1 DEF PhoneInv
  <2>2. CASE q = p /\ k = n + 1
    BY <1>6, <1>7, <2>2
  <2>3. CASE q = p /\ k # n + 1
    <3>1. i \in 1..n /\ k \in 1..n /\ requests'[q][i] = r[i] /\ requests'[q][k] = r[k]
      BY <1>0, <1>7, <1>9, <2>3
    <3> QED
      BY <1>9, <3>1 DEF PhoneInv
  <2> QED
    BY <2>1, <2>2, <2>3
<1>10. \A q \in Phones : \A i \in 1..Len(requests'[q]) : requests'[q][i] \in Conns
  BY <1>3
<1>11. \A q \in Phones : \A i \in 1..Len(requests'[q]) :
         /\ conn'[requests'[q][i]] # "new"
         /\ i < Len(requests'[q]) =>
               \/ conn'[requests'[q][i]] \in {"refused", "leaving", "gone"}
               \/ conn'[requests'[q][i]] = "open" /\ requests'[q][i] \notin alive'
  BY <1>8, <1>10 DEF Over
<1>12. \A q \in Phones : \A i, k \in 1..Len(requests'[q]) : \A m \in Msgs :
         i < k /\ InSeq(received'[requests'[q][i]], m) => requests'[q][k] \notin targets'[m]
  BY <1>1, <1>9
<1> QED
  BY <1>3, <1>11, <1>12 DEF PhoneInv, InSeq, Over

(* Every step keeps what is known of a phone's requests. *)
LEMMA PhoneInvStep == IInv /\ PhoneInv /\ [CompanionNext]_companionVars => PhoneInv'
<1> SUFFICES ASSUME IInv, PhoneInv, [CompanionNext]_companionVars PROVE PhoneInv'
  OBVIOUS
<1>1. ASSUME UNCHANGED requests PROVE PhoneInv'
  <2>1. [Next]_allVars
    BY CompanionStep
  <2>2. \A p \in Phones : \A i \in 1..Len(requests[p]) : requests[p][i] \in Conns
    BY DEF PhoneInv
  <2>3. ASSUME NEW p \in Phones, NEW i \in 1..Len(requests[p])
        PROVE  /\ conn'[requests[p][i]] # "new"
               /\ i < Len(requests[p]) => Over(requests[p][i])'
    BY <1>1, <2>1, <2>2, RelayKeeps DEF PhoneInv
  <2>4. ASSUME NEW p \in Phones, NEW i \in 1..Len(requests[p]), NEW k \in 1..Len(requests[p]),
               NEW m \in Msgs, i < k, InSeq(received'[requests[p][i]], m)
        PROVE  requests[p][k] \notin targets'[m]
    <3>0. Len(requests[p]) \in Nat
      BY DEF PhoneInv
    <3>1. Over(requests[p][i]) /\ requests[p][i] \in Conns
      BY <2>2, <2>4, <3>0 DEF PhoneInv
    <3>2. received'[requests[p][i]] = received[requests[p][i]]
      BY <2>1, <3>1, RelayKeeps
    <3>3. targets'[m] = targets[m]
      BY <2>1, <2>4, <3>1, RelayKeeps
    <3> QED
      BY <2>4, <3>2, <3>3 DEF PhoneInv
  <2> QED
    BY <1>1, <2>3, <2>4 DEF PhoneInv, InSeq
<1>2. ASSUME NEW p \in Phones, PhoneStep(p) PROVE PhoneInv'
  <2>1. CASE \E c \in Conns : Connect(p, c)
    BY <2>1, ConnectInv
  <2>2. CASE ~\E c \in Conns : Connect(p, c)
    BY <1>1, <1>2, <2>2 DEF PhoneStep, Open, Unlock, ClosePage, LoseConnection,
                            TapNotification, phoneVars
  <2> QED
    BY <2>1, <2>2
<1>3. CASE (\E m \in Msgs : Notify(m)) \/ (RelayStep /\ UNCHANGED phoneVars)
           \/ UNCHANGED companionVars
  BY <1>1, <1>3 DEF Notify, phoneVars, companionVars
<1> QED
  BY <1>2, <1>3 DEF CompanionNext

(* No page plays a clip twice by itself, not even when its connection is lost *)
(* and replaced while the clip is being announced and the hub holds both.     *)
THEOREM CompanionAutoplaysOnce == CompanionSpec => []AutoplaysOnce
<1>1. CompanionInit => PhoneInv
  BY DEF CompanionInit, PhoneInv
<1>2. IInv /\ PhoneInv /\ AtMostOnce => AutoplaysOnce
  <2> SUFFICES ASSUME IInv, PhoneInv, NEW p \in Phones, NEW m \in Msgs,
                      NEW i \in DOMAIN requests[p], NEW k \in DOMAIN requests[p],
                      InSeq(received[requests[p][i]], m), InSeq(received[requests[p][k]], m)
               PROVE  i = k
    BY DEF AutoplaysOnce
  <2>1. DOMAIN requests[p] = 1..Len(requests[p]) /\ Len(requests[p]) \in Nat
        /\ requests[p][i] \in Conns /\ requests[p][k] \in Conns
    BY DEF PhoneInv
  <2>2. requests[p][i] \in targets[m] /\ requests[p][k] \in targets[m]
    BY <2>1 DEF IInv, StreamInv
  <2>3. ~(i < k) /\ ~(k < i)
    BY <2>1, <2>2 DEF PhoneInv
  <2> QED
    BY <2>1, <2>3
<1>3. CompanionSpec => [](IInv /\ AtMostOnce)
  BY CompanionRunsIngest, IngestInvariant, IngestAtMostOnce, PTL
<1> QED
  BY <1>1, <1>2, <1>3, PhoneInvStep, PTL DEF CompanionSpec
=============================================================================
