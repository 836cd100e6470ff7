------------------------------ MODULE JobQueue ------------------------------
(***************************************************************************)
(* What the worker pool of the TTS server promises to the callers of       *)
(* Submit, with its goroutines, locks and channels abstracted away: a      *)
(* bounded FIFO that can be closed, whose head is either started by a      *)
(* worker or withdrawn by Clear.                                           *)
(***************************************************************************)
EXTENDS Naturals, Sequences

CONSTANTS Jobs, Capacity

VARIABLES
    open,       \* Submit still accepts jobs
    waiting,    \* the accepted jobs nobody has taken, oldest first
    phase       \* the life of each job

vars == <<open, waiting, phase>>

Phases == {"new", "rejected", "waiting", "active", "finished", "withdrawn"}

Init ==
    /\ open = TRUE
    /\ waiting = <<>>
    /\ phase = [j \in Jobs |-> "new"]

Move(j, from, to) ==
    /\ phase[j] = from
    /\ phase' = [phase EXCEPT ![j] = to]

Accept(j) ==
    /\ open
    /\ Len(waiting) < Capacity
    /\ waiting' = Append(waiting, j)
    /\ Move(j, "new", "waiting")
    /\ UNCHANGED open

(* The only two reasons to refuse a job. *)
Reject(j) ==
    /\ ~open \/ Len(waiting) = Capacity
    /\ Move(j, "new", "rejected")
    /\ UNCHANGED <<open, waiting>>

Take(to) ==
    /\ waiting # <<>>
    /\ waiting' = Tail(waiting)
    /\ Move(Head(waiting), "waiting", to)
    /\ UNCHANGED open

Finish(j) ==
    /\ Move(j, "active", "finished")
    /\ UNCHANGED <<open, waiting>>

Close ==
    /\ open
    /\ open' = FALSE
    /\ UNCHANGED <<waiting, phase>>

Next ==
    \/ \E j \in Jobs : Accept(j) \/ Reject(j) \/ Finish(j)
    \/ Take("active")
    \/ Take("withdrawn")
    \/ Close

Spec == Init /\ [][Next]_vars
=============================================================================
