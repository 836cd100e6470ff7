----------------------------- MODULE MCLifecycle -----------------------------
(* Relay processes for TLC, and what the documents say of them. *)
EXTENDS RelayLifecycle, TLC

Settled(p) == phase[p] = "run" => ingestPort = p /\ publicPort = p

(* "SessionStart -> relay-start.sh starts the relay" (README.md:286): when a *)
(* session's start hook was the last to run, none overlapped another, the    *)
(* relay it found or started has not failed to boot, and all processes have  *)
(* come up or ended, one is serving.                                         *)
StartedRelayServes ==
    \A s \in Sessions :
        ~overlap /\ lastHook = s /\ hook[s] = "active"
          /\ seen[s] # None /\ phase[seen[s]] # "failed"
          /\ (\A p \in Procs : phase[p] \in {"none", "run", "failed", "dead"} /\ Settled(p))
        => \E p \in Procs : phase[p] = "run"

(* "Sends SIGTERM to give the relay a chance to flush/close connections      *)
(* before exiting" (relay-stop.sh:5-6): no relay exits with a public request *)
(* in flight before the deadline of its shutdown.                            *)
ExitsDrained ==
    [][\A p \in Procs :
          phase[p] = "drainPublic" /\ phase'[p] = "dead" =>
              p \notin busyPublic \/ p \in late]_lifeVars
=============================================================================
