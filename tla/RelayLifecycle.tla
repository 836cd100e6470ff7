---------------------------- MODULE RelayLifecycle ----------------------------
(***************************************************************************)
(* The life of relay processes: the hooks that sessions run at their start *)
(* and end (hooks/relay-start.sh, relay-stop.sh) with the pid file they    *)
(* share, and a process from its boot over its two listeners to the        *)
(* shutdown on SIGTERM (cmd/relay/main.go).  Hooks are shell scripts: their *)
(* commands are steps of their own.  Process ids are not reused.           *)
(***************************************************************************)
EXTENDS Naturals, FiniteSets

CONSTANTS
    Sessions,       \* each starts once and ends once
    Procs,          \* the processes there can be
    None            \* no process

ASSUME LifecycleAssumption == None \notin Procs /\ IsFiniteSet(Sessions)

VARIABLES
    hook,           \* where each session stands
    seen,           \* the pid a hook has read, or has spawned
    pidfile,
    phase,          \* where each process stands; "failed" has given up booting
    term,           \* the processes that were sent SIGTERM
    ingestPort,     \* the process that listens on each port
    publicPort,
    busyIngest,     \* processes with an ingest request in flight
    busyPublic,     \* processes with a public request in flight
    late,           \* processes whose shutdown deadline of 5 s has passed
    overlap,        \* history: two hooks have run at the same time
    killed,         \* history: a session ended without its hook
    lastHook        \* history: the session that began a hook last

hookVars == <<hook, seen, pidfile, overlap, killed, lastHook>>
ports    == <<ingestPort, publicPort>>
busy     == <<busyIngest, busyPublic>>
signals  == <<term, late>>
procVars == <<phase, ports, busy, signals>>
lifeVars == <<hookVars, procVars>>

InHook == {"probe", "spawn", "write", "stopProbe", "kill", "remove"}

LifeInit ==
    /\ hook = [s \in Sessions |-> "none"]
    /\ seen = [s \in Sessions |-> None]
    /\ pidfile = None
    /\ phase = [p \in Procs |-> "none"]
    /\ term = {} /\ busyIngest = {} /\ busyPublic = {} /\ late = {}
    /\ ingestPort = None /\ publicPort = None
    /\ overlap = FALSE /\ killed = FALSE
    /\ lastHook = None

Alive(p) == p \in Procs /\ phase[p] \notin {"none", "failed", "dead"}

(* Session s moves to the step to; whoever is in a hook too overlaps. *)
HookGoes(s, from, to) ==
    /\ hook[s] = from
    /\ hook' = [hook EXCEPT ![s] = to]
    /\ overlap' = (overlap \/ \E r \in Sessions \ {s} : hook[r] \in InHook)
    /\ lastHook' = s
    /\ UNCHANGED killed

-----------------------------------------------------------------------------
(* relay-start.sh *)

(* Fault variant: no look at the pid file. *)
ReadPidUnchecked(s) ==
    /\ HookGoes(s, "none", "spawn")
    /\ UNCHANGED <<procVars, seen, pidfile>>

ReadPid(s) ==
    /\ HookGoes(s, "none", IF pidfile = None THEN "spawn" ELSE "probe")
    /\ seen' = [seen EXCEPT ![s] = pidfile]
    /\ UNCHANGED <<procVars, pidfile>>

(* kill -0: a relay that runs is left alone, a stale pid file is removed. *)
Probe(s) ==
    /\ HookGoes(s, "probe", IF Alive(seen[s]) THEN "active" ELSE "spawn")
    /\ pidfile' = IF Alive(seen[s]) THEN pidfile ELSE None
    /\ UNCHANGED <<procVars, seen>>

Spawn(s) ==
    /\ HookGoes(s, "spawn", "write")
    /\ \E p \in Procs :
          /\ phase[p] = "none"
          /\ phase' = [phase EXCEPT ![p] = "boot"]
          /\ seen' = [seen EXCEPT ![s] = p]
    /\ UNCHANGED <<ports, busy, signals, pidfile>>

(* The binary is missing or not executable: the hook exits with an error, *)
(* and its session goes on without a relay.                               *)
NotSpawned(s) ==
    /\ HookGoes(s, "spawn", "active")
    /\ seen' = [seen EXCEPT ![s] = None]
    /\ UNCHANGED <<procVars, pidfile>>

WritePid(s) ==
    /\ HookGoes(s, "write", "active")
    /\ pidfile' = seen[s]
    /\ UNCHANGED <<procVars, seen>>

(* The session is killed hard: no hook runs. *)
SessionKilled(s) ==
    /\ hook[s] = "active"
    /\ hook' = [hook EXCEPT ![s] = "ended"]
    /\ killed' = TRUE
    /\ UNCHANGED <<procVars, seen, pidfile, overlap, lastHook>>

-----------------------------------------------------------------------------
(* relay-stop.sh *)

StopRead(s) ==
    /\ HookGoes(s, "active", IF pidfile = None THEN "ended" ELSE "stopProbe")
    /\ seen' = [seen EXCEPT ![s] = pidfile]
    /\ UNCHANGED <<procVars, pidfile>>

StopProbe(s) ==
    /\ HookGoes(s, "stopProbe", IF Alive(seen[s]) THEN "kill" ELSE "ended")
    /\ pidfile' = IF Alive(seen[s]) THEN pidfile ELSE None
    /\ UNCHANGED <<procVars, seen>>

(* What a process that ends for whatever reason leaves behind. *)
Ends(p) ==
    /\ phase' = [phase EXCEPT ![p] = "dead"]
    /\ ingestPort' = IF ingestPort = p THEN None ELSE ingestPort
    /\ publicPort' = IF publicPort = p THEN None ELSE publicPort
    /\ busyIngest' = busyIngest \ {p}
    /\ busyPublic' = busyPublic \ {p}
    /\ UNCHANGED signals

(* Fault variant: a relay that is still booting ignores the signal. *)
KillIgnored(s) ==
    /\ HookGoes(s, "kill", "remove")
    /\ term' = IF Alive(seen[s]) /\ phase[seen[s]] # "boot" THEN term \cup {seen[s]} ELSE term
    /\ UNCHANGED <<ports, busy, seen, pidfile, phase, late>>

(* kill -TERM ends a process that has not called signal.Notify yet. *)
Kill(s) ==
    /\ HookGoes(s, "kill", "remove")
    /\ LET p == seen[s] IN
        IF phase[p] = "boot" THEN Ends(p)
        ELSE /\ term' = IF Alive(p) THEN term \cup {p} ELSE term
             /\ UNCHANGED <<ports, busy, phase, late>>
    /\ UNCHANGED <<seen, pidfile>>

Remove(s) ==
    /\ HookGoes(s, "remove", "ended")
    /\ pidfile' = None
    /\ UNCHANGED <<procVars, seen>>

-----------------------------------------------------------------------------
(* The process *)

(* Everything up to signal.Notify. *)
Boot(p) ==
    /\ phase[p] = "boot"
    /\ phase' = [phase EXCEPT ![p] = "run"]
    /\ UNCHANGED <<hookVars, ports, busy, signals>>

(* No home directory, token, voice, ingest server or keys: a fatal error. *)
BootFails(p) ==
    /\ phase[p] = "boot"
    /\ phase' = [phase EXCEPT ![p] = "failed"]
    /\ UNCHANGED <<hookVars, ports, busy, signals>>

(* ListenAndServe of each server; a port that is taken is fatal. *)
BindIngest(p) ==
    /\ phase[p] = "run" /\ ingestPort # p
    /\ IF ingestPort = None
       THEN /\ ingestPort' = p
            /\ UNCHANGED <<busy, signals, phase, publicPort>>
       ELSE Ends(p)
    /\ UNCHANGED hookVars

BindPublic(p) ==
    /\ phase[p] \in {"run", "drainIngest"} /\ publicPort # p
    /\ IF publicPort = None
       THEN /\ publicPort' = p
            /\ UNCHANGED <<busy, signals, phase, ingestPort>>
       ELSE Ends(p)
    /\ UNCHANGED hookVars

IngestRequest(p) ==
    /\ \/ ingestPort = p /\ p \notin busyIngest /\ busyIngest' = busyIngest \cup {p}
       \/ p \in busyIngest /\ busyIngest' = busyIngest \ {p}
    /\ UNCHANGED <<hookVars, ports, signals, phase, busyPublic>>

PublicRequest(p) ==
    /\ \/ publicPort = p /\ p \notin busyPublic /\ busyPublic' = busyPublic \cup {p}
       \/ p \in busyPublic /\ busyPublic' = busyPublic \ {p}
    /\ UNCHANGED <<hookVars, ports, signals, phase, busyIngest>>

(* <-quit, and ingestSrv.Shutdown closes its listener. *)
TakeSignal(p) ==
    /\ phase[p] = "run" /\ p \in term
    /\ phase' = [phase EXCEPT ![p] = "drainIngest"]
    /\ ingestPort' = IF ingestPort = p THEN None ELSE ingestPort
    /\ UNCHANGED <<hookVars, busy, signals, publicPort>>

(* The five seconds that both servers have together are over. *)
DeadlinePasses(p) ==
    /\ phase[p] \in {"drainIngest", "drainPublic"} /\ p \notin late
    /\ late' = late \cup {p}
    /\ UNCHANGED <<hookVars, ports, busy, phase, term>>

(* Fault variant: a shutdown without deadline. *)
IngestDrainedPatiently(p) ==
    /\ phase[p] = "drainIngest" /\ p \notin busyIngest
    /\ phase' = [phase EXCEPT ![p] = "drainPublic"]
    /\ publicPort' = IF publicPort = p THEN None ELSE publicPort
    /\ UNCHANGED <<hookVars, busy, signals, ingestPort>>

(* The ingest server has drained, or not in time; pubSrv.Shutdown closes the *)
(* public listener.                                                          *)
IngestDrained(p) ==
    /\ phase[p] = "drainIngest"
    /\ p \notin busyIngest \/ p \in late
    /\ phase' = [phase EXCEPT ![p] = "drainPublic"]
    /\ publicPort' = IF publicPort = p THEN None ELSE publicPort
    /\ UNCHANGED <<hookVars, busy, signals, ingestPort>>

(* pubSrv.Shutdown returns, and the signal handler exits. *)
PublicDrained(p) ==
    /\ phase[p] = "drainPublic"
    /\ p \notin busyPublic \/ p \in late
    /\ Ends(p)
    /\ UNCHANGED hookVars

(* pubSrv.Serve returns ErrServerClosed as soon as its Shutdown begins, and *)
(* so does main.                                                            *)
MainReturns(p) ==
    /\ phase[p] = "drainPublic"
    /\ Ends(p)
    /\ UNCHANGED hookVars

-----------------------------------------------------------------------------

HookStep(s) ==
    \/ ReadPid(s) \/ Probe(s) \/ Spawn(s) \/ NotSpawned(s) \/ WritePid(s)
    \/ SessionKilled(s) \/ StopRead(s) \/ StopProbe(s) \/ Kill(s) \/ Remove(s)

ShutdownStep(p) ==
    TakeSignal(p) \/ DeadlinePasses(p) \/ IngestDrained(p) \/ PublicDrained(p) \/ MainReturns(p)

ProcStep(p) ==
    \/ Boot(p) \/ BootFails(p) \/ BindIngest(p) \/ BindPublic(p) \/ IngestRequest(p)
    \/ PublicRequest(p) \/ ShutdownStep(p)

LifeNext ==
    \/ \E s \in Sessions : HookStep(s)
    \/ \E p \in Procs : ProcStep(p)

LifeSpec == LifeInit /\ [][LifeNext]_lifeVars

(* Time passes and goroutines run; requests may take for ever. *)
LifeFairSpec ==
    /\ LifeSpec
    /\ \A p \in Procs : WF_lifeVars(DeadlinePasses(p))
                        /\ WF_lifeVars(ShutdownStep(p) /\ ~DeadlinePasses(p))

-----------------------------------------------------------------------------
(* Properties *)

(* "prevents an orphaned process holding the listening sockets"             *)
(* (README.md:278): when every session has ended through its hook, no relay *)
(* is left that nobody has told to stop, whatever the sessions shared, as   *)
(* long as no two hooks ran at the same time.                               *)
NoOrphan ==
    ~overlap /\ ~killed /\ (\A s \in Sessions : hook[s] \in {"none", "ended"}) =>
        \A p \in Procs : Alive(p) => p \in term

(* "without starting a duplicate relay" (relay-start.sh:5), not even when a *)
(* killed session has left one: a hook that runs alone starts a relay only  *)
(* if all others have been told to stop.                                    *)
SpawnOnlyWhenNeeded ==
    [][\A s \in Sessions : Spawn(s) /\ ~overlap' =>
          \A p \in Procs : Alive(p) => p \in term]_lifeVars

(* A relay that was told to stop ends, whatever its requests do. *)
TermEnds == \A p \in Procs : p \in term ~> phase[p] = "dead"
=============================================================================
