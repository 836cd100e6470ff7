------------------------------- MODULE ClipFeed -------------------------------
(***************************************************************************)
(* What the relay's event hub promises to those who listen to the clips,   *)
(* with its locks, channels, handlers and broadcasts abstracted away: a    *)
(* feed with a bounded number of places.  A clip is owed to all who hold   *)
(* a place when it is published; each of them hears it once and after all  *)
(* that was published before, unless it goes or falls behind.              *)
(***************************************************************************)
EXTENDS Naturals, Sequences, FiniteSets

CONSTANTS
    Listeners,
    Clips,
    Slots,      \* the places of the feed
    Lag         \* how many clips a listener may be behind

VARIABLES
    place,      \* where each listener is
    said,       \* whether a clip is being published, or has been
    owed,       \* who is still to hear each clip
    earlier,    \* the clips published, but still owed, when a clip came
    heard       \* what each listener has heard, in order

vars == <<place, said, owed, earlier, heard>>

(* "lost" is a listener that can hear no more and has its place still. *)
Places == {"out", "refused", "in", "lost", "gone"}

Init ==
    /\ place = [c \in Listeners |-> "out"]
    /\ said = [m \in Clips |-> "no"]
    /\ owed = [m \in Clips |-> {}]
    /\ earlier = [m \in Clips |-> {}]
    /\ heard = [c \in Listeners |-> <<>>]

Holders == {c \in Listeners : place[c] \in {"in", "lost"}}

-----------------------------------------------------------------------------

Moves(c, from, to) ==
    /\ place[c] = from
    /\ place' = [place EXCEPT ![c] = to]
    /\ UNCHANGED <<said, owed, earlier, heard>>

Admit(c) == Cardinality(Holders) < Slots /\ Moves(c, "out", "in")

(* The only reason to refuse a listener. *)
Refuse(c) == Cardinality(Holders) >= Slots /\ Moves(c, "out", "refused")

Leave(c) == Moves(c, "in", "lost")

Free(c) == Moves(c, "lost", "gone")

Publish(m) ==
    /\ said[m] = "no"
    /\ said' = [said EXCEPT ![m] = "now"]
    /\ owed' = [owed EXCEPT ![m] = Holders]
    /\ earlier' = [earlier EXCEPT ![m] = {k \in Clips : said[k] = "yes" /\ owed[k] # {}}]
    /\ UNCHANGED <<place, heard>>

Published(m) ==
    /\ said[m] = "now"
    /\ said' = [said EXCEPT ![m] = "yes"]
    /\ UNCHANGED <<place, owed, earlier, heard>>

Settle(m, c) ==
    /\ c \in owed[m]
    /\ owed' = [owed EXCEPT ![m] = @ \ {c}]
    /\ UNCHANGED <<place, said, earlier>>

(* A listener hears a clip when it is owed none that was published before. *)
Hear(m, c) ==
    /\ place[c] = "in"
    /\ \A k \in earlier[m] : c \notin owed[k]
    /\ Settle(m, c)
    /\ heard' = [heard EXCEPT ![c] = Append(@, m)]

(* A listener is owed Lag clips besides this one. *)
Behind(m, c) ==
    \E K \in SUBSET {k \in Clips \ {m} : c \in owed[k]} : Cardinality(K) = Lag

(* The only two reasons not to hear a clip: to be lost, or to be behind at *)
(* the moment it is published.                                             *)
Miss(m, c) ==
    /\ place[c] # "in" \/ (said[m] = "now" /\ Behind(m, c))
    /\ Settle(m, c)
    /\ UNCHANGED heard

Next ==
    \/ \E c \in Listeners : Admit(c) \/ Refuse(c) \/ Leave(c) \/ Free(c)
    \/ \E m \in Clips : Publish(m) \/ Published(m)
    \/ \E m \in Clips, c \in Listeners : Hear(m, c) \/ Miss(m, c)

Spec == Init /\ [][Next]_vars

-----------------------------------------------------------------------------
(* What follows for a listener *)

(* It hears no clip twice, and no clip after one that was published when *)
(* the first was over.                                                    *)
HeardInOrder ==
    \A c \in Listeners : \A i, k \in DOMAIN heard[c] :
        /\ heard[c][i] = heard[c][k] => i = k
        /\ i < k => heard[c][k] \notin earlier[heard[c][i]]
=============================================================================
