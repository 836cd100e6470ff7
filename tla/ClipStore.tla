------------------------------ MODULE ClipStore ------------------------------
(***************************************************************************)
(* The relay's bounded store of audio clips (internal/relay/store.go).     *)
(* Every operation runs under the store's mutex, so each is one step.  A   *)
(* clip stands for both its uuid and its audio.                            *)
(***************************************************************************)
EXTENDS Naturals, Sequences

CONSTANT
    Capacity        \* ClipStore.capacity, positive after NewClipStore's default

ASSUME StoreAssumption == Capacity \in Nat \ {0}

VARIABLES
    clips,          \* the keys of s.clips
    order,          \* s.order, oldest first
    added           \* history: every clip added, oldest first

storeVars == <<clips, order, added>>

StoreInit ==
    /\ clips = {}
    /\ order = <<>>
    /\ added = <<>>

(* Fault variant: the eviction forgets the map. *)
AddLeaks(m) ==
    /\ clips' = clips \cup {m}
    /\ order' = Append(IF Len(order) >= Capacity THEN Tail(order) ELSE order, m)
    /\ added' = Append(added, m)

(* Fault variant: a full store keeps what it has. *)
AddKeepsOldest(m) ==
    /\ clips' = IF Len(order) >= Capacity THEN clips ELSE clips \cup {m}
    /\ order' = IF Len(order) >= Capacity THEN order ELSE Append(order, m)
    /\ added' = Append(added, m)

(* Add: evict the oldest clip of a full store, then store the new one. *)
Add(m) ==
    /\ IF Len(order) >= Capacity
       THEN /\ clips' = (clips \ {Head(order)}) \cup {m}
            /\ order' = Append(Tail(order), m)
       ELSE /\ clips' = clips \cup {m}
            /\ order' = Append(order, m)
    /\ added' = Append(added, m)

(* Get: the second result. *)
Get(m) == m \in clips

(* Close forgets every clip; nothing keeps later calls out. *)
Close ==
    /\ clips' = {}
    /\ order' = <<>>
    /\ UNCHANGED added

(* How many clips were added after the first addition of m. *)
AddedAfter(m) ==
    LET at == CHOOSE i \in DOMAIN added : added[i] = m IN Len(added) - at
=============================================================================
