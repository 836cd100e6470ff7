------------------------------ MODULE Companion ------------------------------
(***************************************************************************)
(* The phones of the relay: the companion page, its event source and its   *)
(* service worker (internal/relay/web), which the public server hands out  *)
(* (companion.go), over the ingest path.  A phone has one page at most and *)
(* makes one GET /events request after the other.  The fetch of a clip is  *)
(* ClipStore's Get, some time after the page has heard of it.              *)
(***************************************************************************)
EXTENDS Ingest

CONSTANT Phones

VARIABLES
    page,           \* what each phone's page is
    requests,       \* the requests for events a phone has made, in order
    notes           \* the clips each phone shows a notification of

phoneVars == <<page, requests, notes>>
companionVars == <<allVars, phoneVars>>

(* "locked" has the button to enable audio, "listening" an event source.  *)
(* "refused" is an event source that was answered 503, which ends it for  *)
(* good; "awake" a page that a notification has enabled without one.      *)
PageStates == {"closed", "locked", "listening", "refused", "awake"}

CompanionInit ==
    /\ IngestInit
    /\ page = [p \in Phones |-> "closed"]
    /\ requests = [p \in Phones |-> <<>>]
    /\ notes = [p \in Phones |-> {}]

(* The connection of the phone's event source, as long as it stands. *)
Streams(p, c) ==
    /\ page[p] = "listening" /\ requests[p] # <<>>
    /\ c = requests[p][Len(requests[p])]
    /\ conn[c] = "open" /\ c \in alive

-----------------------------------------------------------------------------
(* The page *)

PageBecomes(p, from, to) ==
    /\ page[p] = from
    /\ page' = [page EXCEPT ![p] = to]

Open(p) ==
    /\ PageBecomes(p, "closed", "locked")
    /\ UNCHANGED <<allVars, requests, notes>>

(* The tap on the button: connect, and try to register for pushes. *)
Unlock(p) ==
    /\ PageBecomes(p, "locked", "listening")
    /\ UNCHANGED <<allVars, requests, notes>>

(* The event source asks for events, at first and whenever its connection *)
(* has broken.                                                            *)
Connect(p, c) ==
    /\ page[p] = "listening" /\ \A d \in Conns : ~Streams(p, d)
    /\ Subscribe(c)
    /\ requests' = [requests EXCEPT ![p] = Append(@, c)]
    /\ page' = [page EXCEPT ![p] = IF conn'[c] = "refused" THEN "refused" ELSE @]
    /\ UNCHANGED <<ingestVars, storeVars, notes>>

(* The page is closed, and its connection with it. *)
ClosePage(p) ==
    /\ page[p] # "closed"
    /\ page' = [page EXCEPT ![p] = "closed"]
    /\ IF \E c \in Conns : Streams(p, c)
       THEN \E c \in Conns : Streams(p, c) /\ Disconnect(c)
       ELSE UNCHANGED hubVars
    /\ UNCHANGED <<ingestVars, storeVars, requests, notes>>

(* The phone changes its network, or sleeps: the relay may be told or not. *)
LoseConnection(p, c) ==
    /\ Streams(p, c)
    /\ Disconnect(c) \/ PeerDrops(c)
    /\ UNCHANGED <<ingestVars, storeVars, phoneVars>>

-----------------------------------------------------------------------------
(* The service worker *)

(* The fan-out of a clip ends, and some of the phones show it: a phone has  *)
(* registered, if the user and the relay agreed, once it asked for events.  *)
Notify(m) ==
    /\ FanoutEnds(m)
    /\ \E told \in SUBSET {p \in Phones : requests[p] # <<>>} :
          notes' = [p \in Phones |-> IF p \in told THEN notes[p] \cup {m} ELSE notes[p]]
    /\ UNCHANGED <<page, requests>>

(* The tap on a notification plays its clip, in the page that is open, whose *)
(* button it disables, or in a new one, which connects as well.              *)
TapNotification(p, m) ==
    /\ m \in notes[p]
    /\ notes' = [notes EXCEPT ![p] = @ \ {m}]
    /\ page' = [page EXCEPT ![p] =
                  CASE @ = "closed" -> "listening" [] @ = "locked" -> "awake" [] OTHER -> @]
    /\ UNCHANGED <<allVars, requests>>

-----------------------------------------------------------------------------

PhoneStep(p) ==
    \/ Open(p) \/ Unlock(p) \/ ClosePage(p)
    \/ \E c \in Conns : Connect(p, c) \/ LoseConnection(p, c)
    \/ \E m \in Msgs : TapNotification(p, m)

RelayStep ==
    \/ \E m \in Msgs :
          \/ Arrive(m) \/ Synthesize(m) \/ StoreClip(m) \/ Announce(m) \/ Announced(m)
          \/ CheckPresence(m)
          \/ \E c \in Conns : SendTo(m, c) /\ UNCHANGED <<ingestVars, storeVars>>
    \/ \E c \in Conns :
          (Deliver(c) \/ Heartbeat(c) \/ Cancel(c)) /\ UNCHANGED <<ingestVars, storeVars>>
    \/ BeginShutdown
    \/ CloseStore

CompanionNext ==
    \/ \E p \in Phones : PhoneStep(p)
    \/ \E m \in Msgs : Notify(m)
    \/ RelayStep /\ UNCHANGED phoneVars

CompanionSpec == CompanionInit /\ [][CompanionNext]_companionVars

(* The relay's fairness; nobody has to open a page, tap or listen. *)
CompanionFairSpec ==
    CompanionSpec /\ HubFairness /\ \A m \in Msgs : WF_allVars(RequestProceeds(m))

-----------------------------------------------------------------------------
(* Properties *)

(* No page plays a clip twice by itself: none is streamed twice over one    *)
(* connection, or once more when a lost connection has been replaced, or    *)
(* over a connection made after it was announced.                           *)
AutoplaysOnce ==
    /\ AtMostOnce
    /\ \A p \in Phones, m \in Msgs : \A i, k \in DOMAIN requests[p] :
          InSeq(received[requests[p][i]], m) /\ InSeq(received[requests[p][k]], m) => i = k

(* "When HasLiveListener returns true, the clip already auto-plays in the   *)
(* companion" (presence.go:7-8): a clip whose push was suppressed was sent  *)
(* to somebody.  It was not when a phone connects between the broadcast and *)
(* the look at the listeners.                                               *)
SuppressedIsStreamed ==
    \A m \in Msgs : push[m] = "suppressed" => targets[m] # {}
=============================================================================
