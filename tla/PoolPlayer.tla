------------------------------ MODULE PoolPlayer ------------------------------
(***************************************************************************)
(* The worker pool with its player: the workers are the player's callers,  *)
(* and what WorkerPool takes for one playback is the whole of Play, with   *)
(* its lock, flag, temporary file and deferred calls.                      *)
(***************************************************************************)
EXTENDS WorkerPool, Player

ASSUME CallersAssumption == Callers = Workers

poolPlayerVars == <<vars, playerVars>>

PoolPlayerInit == Init /\ PlayerInit

(* wp.player.Play: refused, or on its way to the lock. *)
Call(w) ==
    /\ pc[w] = "play"
    /\ CallPlay(w)
    /\ IF play'[w] = "idle" THEN PlayRefused(w) ELSE UNCHANGED vars

(* playMu is granted: the pool's PlayBegin, which nothing but playMu delays. *)
Begin(w) ==
    /\ pc[w] = "play"
    /\ Lock(w)
    /\ player' = w
    /\ pc' = [pc EXCEPT ![w] = "playing"]
    /\ UNCHANGED <<notWorker, localVars, counters, status, queue, overrun>>

Playing(w) == Body(w) /\ play'[w] # "idle" /\ UNCHANGED vars

(* Play returns what its command did, or the error that kept it from running. *)
Return(w) == Unlock(w) /\ (IF w \in heard THEN PlayEnd(w) ELSE PlayError(w))

PlaySteps(w) == Call(w) \/ Begin(w) \/ Playing(w) \/ Return(w)

(* Everything else in the pool goes on meanwhile. *)
PoolSteps ==
    /\ Next
    /\ \A w \in Workers : pc[w] \in {"play", "playing"} => pc'[w] = pc[w]
    /\ UNCHANGED playerVars

PoolPlayerNext == (\E w \in Workers : PlaySteps(w)) \/ PoolSteps

PoolPlayerSpec == PoolPlayerInit /\ [][PoolPlayerNext]_poolPlayerVars

=============================================================================
