--------------------------- MODULE LifecycleProofs ---------------------------
(***************************************************************************)
(* Hooks that run one at a time neither leave a relay behind nor start one *)
(* too many, for any number of sessions and of processes that fail, hang   *)
(* or end at any time.                                                     *)
(***************************************************************************)
EXTENDS RelayLifecycle, TLAPS

USE DEF hookVars, ports, busy, signals, procVars, lifeVars

-----------------------------------------------------------------------------

(* A relay that nobody has told to stop. *)
Running(p) == p \in Procs /\ Alive(p) /\ p \notin term

LifeTypes ==
    /\ hook \in [Sessions -> {"none", "active", "ended"} \cup InHook]
    /\ seen \in [Sessions -> Procs \cup {None}]
    /\ pidfile \in Procs \cup {None}
    /\ DOMAIN phase = Procs

(* What a hook that is alone knows. *)
HookKnows(s) ==
    /\ \A r \in Sessions \ {s} : hook[r] \notin InHook
    /\ hook[s] \in {"probe", "stopProbe", "kill"} => seen[s] = pidfile /\ seen[s] \in Procs
    /\ hook[s] \in {"spawn", "remove"} => \A p \in Procs : ~Running(p)
    /\ hook[s] = "write" => \A p \in Procs : Running(p) => p = seen[s]

(* A running relay is the one of the pid file, or about to be. *)
Tracked ==
    \A p \in Procs : Running(p) => pidfile = p \/ \E s \in Sessions : hook[s] = "write"

(* A running relay has a session. *)
Wanted ==
    (\A s \in Sessions : hook[s] \in {"none", "ended"}) => \A p \in Procs : ~Running(p)

LifeInv ==
    /\ LifeTypes
    /\ ~overlap => /\ \A s \in Sessions : hook[s] \in InHook => HookKnows(s)
                   /\ Tracked
                   /\ ~killed => Wanted

LEMMA LifeStart == LifeInit => LifeInv
BY LifecycleAssumption DEF LifeInit, LifeInv, LifeTypes, InHook, Tracked, Wanted, Running, Alive

-----------------------------------------------------------------------------
(* The processes *)

(* A process starts no other, and none that was told to stop goes back.     *)
LEMMA ProcOnlyEnds ==
  ASSUME LifeTypes, NEW p \in Procs, ProcStep(p)
  PROVE  /\ UNCHANGED hookVars /\ LifeTypes'
         /\ \A q \in Procs : Running(q)' => Running(q)
<1> USE DEF LifeTypes, Running, Alive, Ends
<1>1. CASE Boot(p) \/ BootFails(p)
  BY <1>1 DEF Boot, BootFails
<1>2. CASE BindIngest(p)
  BY <1>2 DEF BindIngest
<1>3. CASE BindPublic(p)
  BY <1>3 DEF BindPublic
<1>4. CASE IngestRequest(p) \/ PublicRequest(p)
  BY <1>4 DEF IngestRequest, PublicRequest
<1>5. CASE TakeSignal(p)
  BY <1>5 DEF TakeSignal
<1>6. CASE DeadlinePasses(p)
  BY <1>6 DEF DeadlinePasses
<1>7. CASE IngestDrained(p)
  BY <1>7 DEF IngestDrained
<1>8. CASE PublicDrained(p) \/ MainReturns(p)
  BY <1>8 DEF PublicDrained, MainReturns
<1> QED
  BY <1>1, <1>2, <1>3, <1>4, <1>5, <1>6, <1>7, <1>8 DEF ProcStep, ShutdownStep

LEMMA FewerKeep ==
  ASSUME LifeInv, UNCHANGED hookVars, LifeTypes',
         \A q \in Procs : Running(q)' => Running(q)
  PROVE  LifeInv'
BY DEF LifeInv, HookKnows, Tracked, Wanted

-----------------------------------------------------------------------------
(* The hooks *)

(* What a step of a hook that has been alone says of the other hooks. *)
LEMMA HookAlone ==
  ASSUME LifeInv, NEW s \in Sessions, NEW from, NEW to, HookGoes(s, from, to), ~overlap'
  PROVE  /\ ~overlap /\ hook[s] = from
         /\ hook' = [hook EXCEPT ![s] = to]
         /\ \A r \in Sessions \ {s} : hook[r] \notin InHook /\ hook'[r] \notin InHook
         /\ killed' = killed
         /\ from \in InHook => HookKnows(s)
         /\ Tracked /\ (~killed => Wanted)
BY DEF HookGoes, LifeInv, LifeTypes

(* Nobody else is in a hook: what there is to show of a step from from to to. *)
LEMMA HookStepKeeps ==
  ASSUME LifeInv, LifeTypes', NEW s \in Sessions,
         ~overlap' => /\ \A r \in Sessions \ {s} : hook'[r] \notin InHook
                      /\ hook'[s] \in InHook => HookKnows(s)'
                      /\ Tracked'
                      /\ ~killed' => Wanted'
  PROVE  LifeInv'
BY DEF LifeInv

LEMMA GoesTypes ==
  ASSUME LifeTypes, NEW s \in Sessions, NEW from, NEW to, HookGoes(s, from, to),
         to \in {"none", "active", "ended"} \cup InHook
  PROVE  hook' \in [Sessions -> {"none", "active", "ended"} \cup InHook]
BY DEF LifeTypes, HookGoes

(* With nobody else in a hook, a pid file that is empty or of a dead        *)
(* process means that no relay runs.                                        *)
LEMMA NoneRuns ==
  ASSUME LifeTypes, Tracked, \A r \in Sessions : hook[r] # "write", ~Alive(pidfile)
  PROVE  \A p \in Procs : ~Running(p)
BY DEF Tracked, Running

LEMMA StartKeeps ==
  ASSUME LifeInv, NEW s \in Sessions, ReadPid(s) \/ Probe(s) \/ Spawn(s) \/ NotSpawned(s) \/ WritePid(s)
  PROVE  /\ LifeInv'
         /\ Spawn(s) /\ ~overlap' => \A p \in Procs : ~Running(p)
<1> USE DEF InHook
<1>0. LifeTypes
  BY DEF LifeInv
<1>1. CASE ReadPid(s)
  <2> DEFINE to == IF pidfile = None THEN "spawn" ELSE "probe"
  <2>1. /\ HookGoes(s, "none", to) /\ to \in {"spawn", "probe"}
        /\ seen' = [seen EXCEPT ![s] = pidfile] /\ pidfile' = pidfile /\ UNCHANGED procVars
    BY <1>1 DEF ReadPid
  <2>2. LifeTypes'
    BY <1>0, <2>1, GoesTypes DEF LifeTypes
  <2>3. \A p : Running(p)' <=> Running(p)
    BY <2>1 DEF Running, Alive
  <2>4. ASSUME ~overlap'
        PROVE  /\ \A r \in Sessions \ {s} : hook'[r] \notin InHook
               /\ HookKnows(s)' /\ Tracked' /\ Wanted'
    <3>1. /\ hook[s] = "none" /\ hook' = [hook EXCEPT ![s] = to] /\ Tracked
          /\ \A r \in Sessions \ {s} : hook[r] \notin InHook /\ hook'[r] \notin InHook
      BY <2>1, <2>4, HookAlone
    <3>2. hook'[s] = to
      BY <1>0, <3>1 DEF LifeTypes
    <3>3. pidfile = None => \A p \in Procs : ~Running(p)
      BY <1>0, <3>1, NoneRuns, LifecycleAssumption DEF Alive
    <3>4. HookKnows(s)'
      BY <1>0, <2>1, <2>3, <3>1, <3>2, <3>3 DEF HookKnows, LifeTypes
    <3>5. Tracked'
      BY <2>1, <2>3, <3>1 DEF Tracked
    <3>6. Wanted'
      BY <2>1, <3>2 DEF Wanted
    <3> QED
      BY <3>1, <3>4, <3>5, <3>6
  <2>5. ~Spawn(s)
    BY <2>1 DEF Spawn, HookGoes
  <2> QED
    BY <2>2, <2>4, <2>5, HookStepKeeps
<1>2. CASE Probe(s)
  <2> DEFINE to == IF Alive(seen[s]) THEN "active" ELSE "spawn"
  <2>1. /\ HookGoes(s, "probe", to) /\ to \in {"active", "spawn"}
        /\ seen' = seen /\ UNCHANGED procVars
        /\ pidfile' = IF Alive(seen[s]) THEN pidfile ELSE None
    BY <1>2 DEF Probe
  <2>2. LifeTypes'
    BY <1>0, <2>1, GoesTypes DEF LifeTypes
  <2>3. \A p : Running(p)' <=> Running(p)
    BY <2>1 DEF Running, Alive
  <2>4. ASSUME ~overlap'
        PROVE  /\ \A r \in Sessions \ {s} : hook'[r] \notin InHook
               /\ hook'[s] \in InHook => HookKnows(s)'
               /\ Tracked' /\ Wanted'
    <3>1. /\ hook[s] = "probe" /\ hook' = [hook EXCEPT ![s] = to] /\ Tracked
          /\ \A r \in Sessions \ {s} : hook[r] \notin InHook /\ hook'[r] \notin InHook
          /\ HookKnows(s)
      BY <2>1, <2>4, HookAlone
    <3>2. hook'[s] = to
      BY <1>0, <3>1 DEF LifeTypes
    <3>3. ~Alive(seen[s]) => \A p \in Procs : ~Running(p)
      BY <1>0, <3>1, NoneRuns DEF HookKnows
    <3>4. hook'[s] \in InHook => HookKnows(s)'
      BY <2>1, <2>3, <3>1, <3>2, <3>3 DEF HookKnows
    <3>5. Tracked'
      BY <2>1, <2>3, <3>1, <3>3 DEF Tracked
    <3>6. Wanted'
      BY <2>1, <3>2 DEF Wanted
    <3> QED
      BY <3>1, <3>4, <3>5, <3>6
  <2>5. ~Spawn(s)
    BY <2>1 DEF Spawn, HookGoes
  <2> QED
    BY <2>2, <2>4, <2>5, HookStepKeeps
<1>3. CASE Spawn(s)
  <2>1. PICK p \in Procs :
           /\ phase' = [phase EXCEPT ![p] = "boot"] /\ seen' = [seen EXCEPT ![s] = p]
           /\ HookGoes(s, "spawn", "write") /\ pidfile' = pidfile /\ term' = term
    BY <1>3 DEF Spawn
  <2>2. LifeTypes'
    BY <1>0, <2>1, GoesTypes DEF LifeTypes
  <2>3. \A q \in Procs : Running(q)' => Running(q) \/ q = p
    BY <1>0, <2>1 DEF Running, Alive, LifeTypes
  <2>4. ASSUME ~overlap'
        PROVE  /\ \A r \in Sessions \ {s} : hook'[r] \notin InHook
               /\ HookKnows(s)' /\ Tracked' /\ Wanted' /\ \A q \in Procs : ~Running(q)
    <3>1. /\ hook[s] = "spawn" /\ hook' = [hook EXCEPT ![s] = "write"]
          /\ \A r \in Sessions \ {s} : hook[r] \notin InHook /\ hook'[r] \notin InHook
          /\ HookKnows(s)
      BY <2>1, <2>4, HookAlone
    <3>2. hook'[s] = "write" /\ seen'[s] = p
      BY <1>0, <2>1, <3>1 DEF LifeTypes
    <3>3. \A q \in Procs : ~Running(q)
      BY <3>1 DEF HookKnows
    <3>4. HookKnows(s)'
      BY <2>3, <3>1, <3>2, <3>3 DEF HookKnows
    <3>5. Tracked' /\ Wanted'
      BY <3>2 DEF Tracked, Wanted
    <3> QED
      BY <3>1, <3>3, <3>4, <3>5
  <2> QED
    BY <2>2, <2>4, HookStepKeeps
<1>4. CASE WritePid(s)
  <2>1. /\ HookGoes(s, "write", "active") /\ pidfile' = seen[s] /\ seen' = seen
        /\ UNCHANGED procVars
    BY <1>4 DEF WritePid
  <2>2. LifeTypes'
    BY <1>0, <2>1, GoesTypes DEF LifeTypes
  <2>3. \A p : Running(p)' <=> Running(p)
    BY <2>1 DEF Running, Alive
  <2>4. ASSUME ~overlap'
        PROVE  /\ \A r \in Sessions \ {s} : hook'[r] \notin InHook
               /\ hook'[s] = "active" /\ Tracked' /\ Wanted'
    <3>1. /\ hook[s] = "write" /\ hook' = [hook EXCEPT ![s] = "active"]
          /\ \A r \in Sessions \ {s} : hook[r] \notin InHook /\ hook'[r] \notin InHook
          /\ HookKnows(s)
      BY <2>1, <2>4, HookAlone
    <3>2. hook'[s] = "active"
      BY <1>0, <3>1 DEF LifeTypes
    <3>3. Tracked'
      BY <2>1, <2>3, <3>1 DEF HookKnows, Tracked
    <3>4. Wanted'
      BY <3>2 DEF Wanted
    <3> QED
      BY <3>1, <3>2, <3>3, <3>4
  <2>5. ~Spawn(s)
    BY <2>1 DEF Spawn, HookGoes
  <2> QED
    BY <2>2, <2>4, <2>5, HookStepKeeps
<1>5. CASE NotSpawned(s)
  <2>1. /\ HookGoes(s, "spawn", "active") /\ pidfile' = pidfile
        /\ seen' = [seen EXCEPT ![s] = None] /\ UNCHANGED procVars
    BY <1>5 DEF NotSpawned
  <2>2. LifeTypes'
    BY <1>0, <2>1, GoesTypes DEF LifeTypes
  <2>3. \A p : Running(p)' <=> Running(p)
    BY <2>1 DEF Running, Alive
  <2>4. ASSUME ~overlap'
        PROVE  /\ \A r \in Sessions \ {s} : hook'[r] \notin InHook
               /\ hook'[s] = "active" /\ Tracked' /\ Wanted' /\ \A p \in Procs : ~Running(p)
    <3>1. /\ hook[s] = "spawn" /\ hook' = [hook EXCEPT ![s] = "active"]
          /\ \A r \in Sessions \ {s} : hook[r] \notin InHook /\ hook'[r] \notin InHook
          /\ HookKnows(s)
      BY <2>1, <2>4, HookAlone
    <3>2. hook'[s] = "active"
      BY <1>0, <3>1 DEF LifeTypes
    <3>3. \A p \in Procs : ~Running(p)
      BY <3>1 DEF HookKnows
    <3>4. Tracked' /\ Wanted'
      BY <2>3, <3>3 DEF Tracked, Wanted
    <3> QED
      BY <3>1, <3>2, <3>3, <3>4
  <2> QED
    BY <2>2, <2>4, HookStepKeeps
<1> QED
  BY <1>1, <1>2, <1>3, <1>4, <1>5

LEMMA StopKeeps ==
  ASSUME LifeInv, NEW s \in Sessions, StopRead(s) \/ StopProbe(s) \/ Kill(s) \/ Remove(s)
  PROVE  LifeInv'
<1> USE DEF InHook
<1>0. LifeTypes
  BY DEF LifeInv
<1>1. CASE StopRead(s)
  <2> DEFINE to == IF pidfile = None THEN "ended" ELSE "stopProbe"
  <2>1. /\ HookGoes(s, "active", to) /\ to \in {"ended", "stopProbe"}
        /\ seen' = [seen EXCEPT ![s] = pidfile] /\ pidfile' = pidfile /\ UNCHANGED procVars
    BY <1>1 DEF StopRead
  <2>2. LifeTypes'
    BY <1>0, <2>1, GoesTypes DEF LifeTypes
  <2>3. \A p : Running(p)' <=> Running(p)
    BY <2>1 DEF Running, Alive
  <2>4. ASSUME ~overlap'
        PROVE  /\ \A r \in Sessions \ {s} : hook'[r] \notin InHook
               /\ hook'[s] \in InHook => HookKnows(s)'
               /\ Tracked' /\ Wanted'
    <3>1. /\ hook[s] = "active" /\ hook' = [hook EXCEPT ![s] = to] /\ Tracked
          /\ \A r \in Sessions \ {s} : hook[r] \notin InHook /\ hook'[r] \notin InHook
      BY <2>1, <2>4, HookAlone
    <3>2. hook'[s] = to
      BY <1>0, <3>1 DEF LifeTypes
    <3>3. pidfile = None => \A p \in Procs : ~Running(p)
      BY <1>0, <3>1, NoneRuns, LifecycleAssumption DEF Alive
    <3>4. hook'[s] \in InHook => HookKnows(s)'
      BY <1>0, <2>1, <3>1, <3>2 DEF HookKnows, LifeTypes
    <3>5. Tracked'
      BY <2>1, <2>3, <3>1 DEF Tracked
    <3>6. Wanted'
      BY <2>3, <3>2, <3>3 DEF Wanted
    <3> QED
      BY <3>1, <3>4, <3>5, <3>6
  <2> QED
    BY <2>2, <2>4, HookStepKeeps
<1>2. CASE StopProbe(s)
  <2> DEFINE to == IF Alive(seen[s]) THEN "kill" ELSE "ended"
  <2>1. /\ HookGoes(s, "stopProbe", to) /\ to \in {"kill", "ended"}
        /\ seen' = seen /\ UNCHANGED procVars
        /\ pidfile' = IF Alive(seen[s]) THEN pidfile ELSE None
    BY <1>2 DEF StopProbe
  <2>2. LifeTypes'
    BY <1>0, <2>1, GoesTypes DEF LifeTypes
  <2>3. \A p : Running(p)' <=> Running(p)
    BY <2>1 DEF Running, Alive
  <2>4. ASSUME ~overlap'
        PROVE  /\ \A r \in Sessions \ {s} : hook'[r] \notin InHook
               /\ hook'[s] \in InHook => HookKnows(s)'
               /\ Tracked' /\ Wanted'
    <3>1. /\ hook[s] = "stopProbe" /\ hook' = [hook EXCEPT ![s] = to] /\ Tracked
          /\ \A r \in Sessions \ {s} : hook[r] \notin InHook /\ hook'[r] \notin InHook
          /\ HookKnows(s)
      BY <2>1, <2>4, HookAlone
    <3>2. hook'[s] = to
      BY <1>0, <3>1 DEF LifeTypes
    <3>3. ~Alive(seen[s]) => \A p \in Procs : ~Running(p)
      BY <1>0, <3>1, NoneRuns DEF HookKnows
    <3>4. hook'[s] \in InHook => HookKnows(s)'
      BY <2>1, <3>1, <3>2 DEF HookKnows
    <3>5. Tracked'
      BY <2>1, <2>3, <3>1, <3>3 DEF Tracked
    <3>6. Wanted'
      BY <2>3, <3>2, <3>3 DEF Wanted
    <3> QED
      BY <3>1, <3>4, <3>5, <3>6
  <2> QED
    BY <2>2, <2>4, HookStepKeeps
<1>3. CASE Kill(s)
  <2>1. /\ HookGoes(s, "kill", "remove") /\ seen' = seen /\ pidfile' = pidfile
        /\ IF phase[seen[s]] = "boot" THEN Ends(seen[s])
           ELSE /\ term' = IF Alive(seen[s]) THEN term \cup {seen[s]} ELSE term
                /\ phase' = phase
    BY <1>3 DEF Kill
  <2>2. LifeTypes'
    BY <1>0, <2>1, GoesTypes DEF LifeTypes, Ends
  <2>3. ASSUME ~overlap'
        PROVE  /\ \A r \in Sessions \ {s} : hook'[r] \notin InHook
               /\ HookKnows(s)' /\ Tracked' /\ Wanted'
    <3>1. /\ hook[s] = "kill" /\ hook' = [hook EXCEPT ![s] = "remove"] /\ Tracked
          /\ \A r \in Sessions \ {s} : hook[r] \notin InHook /\ hook'[r] \notin InHook
          /\ HookKnows(s)
      BY <2>1, <2>3, HookAlone
    <3>2. hook'[s] = "remove"
      BY <1>0, <3>1 DEF LifeTypes
    <3>3. \A p \in Procs : Running(p) => p = seen[s]
      BY <3>1 DEF Tracked, HookKnows
    <3>4. \A p \in Procs : ~Running(p)'
      BY <1>0, <2>1, <3>3 DEF Running, Alive, Ends, LifeTypes
    <3>5. HookKnows(s)'
      BY <3>1, <3>2, <3>4 DEF HookKnows
    <3>6. Tracked' /\ Wanted'
      BY <3>4 DEF Tracked, Wanted
    <3> QED
      BY <3>1, <3>5, <3>6
  <2> QED
    BY <2>2, <2>3, HookStepKeeps
<1>4. CASE Remove(s)
  <2>1. /\ HookGoes(s, "remove", "ended") /\ seen' = seen /\ pidfile' = None
        /\ UNCHANGED procVars
    BY <1>4 DEF Remove
  <2>2. LifeTypes'
    BY <1>0, <2>1, GoesTypes DEF LifeTypes
  <2>3. ASSUME ~overlap'
        PROVE  /\ \A r \in Sessions \ {s} : hook'[r] \notin InHook
               /\ hook'[s] = "ended" /\ Tracked' /\ Wanted'
    <3>1. /\ hook[s] = "remove" /\ hook' = [hook EXCEPT ![s] = "ended"]
          /\ \A r \in Sessions \ {s} : hook[r] \notin InHook /\ hook'[r] \notin InHook
          /\ HookKnows(s)
      BY <2>1, <2>3, HookAlone
    <3>2. hook'[s] = "ended"
      BY <1>0, <3>1 DEF LifeTypes
    <3>3. \A p \in Procs : ~Running(p)'
      BY <2>1, <3>1 DEF HookKnows, Running, Alive
    <3>4. Tracked' /\ Wanted'
      BY <3>3 DEF Tracked, Wanted
    <3> QED
      BY <3>1, <3>2, <3>4
  <2> QED
    BY <2>2, <2>3, HookStepKeeps
<1> QED
  BY <1>1, <1>2, <1>3, <1>4

LEMMA KilledKeeps ==
  ASSUME LifeInv, NEW s \in Sessions, SessionKilled(s)
  PROVE  LifeInv'
<1>1. /\ LifeTypes /\ hook[s] = "active" /\ hook' = [hook EXCEPT ![s] = "ended"] /\ killed'
      /\ UNCHANGED <<procVars, seen, pidfile, overlap>>
  BY DEF SessionKilled, LifeInv
<1>2. LifeTypes'
  BY <1>1 DEF LifeTypes
<1>3. \A p : Running(p)' <=> Running(p)
  BY <1>1 DEF Running, Alive
<1>4. hook'[s] = "ended" /\ \A r \in Sessions \ {s} : hook'[r] = hook[r]
  BY <1>1 DEF LifeTypes
<1>5. ASSUME ~overlap, NEW r \in Sessions, hook'[r] \in InHook PROVE HookKnows(r)'
  <2>1. r # s /\ hook[r] \in InHook
    BY <1>4, <1>5 DEF InHook
  <2>2. HookKnows(r)
    BY <1>5, <2>1 DEF LifeInv
  <2> QED
    BY <1>1, <1>3, <1>4, <2>1, <2>2 DEF HookKnows, InHook
<1>6. ASSUME ~overlap PROVE Tracked'
  BY <1>1, <1>3, <1>4, <1>6 DEF LifeInv, Tracked
<1> QED
  BY <1>1, <1>2, <1>5, <1>6 DEF LifeInv

LEMMA LifeStep ==
  LifeInv /\ [LifeNext]_lifeVars =>
      LifeInv' /\ \A s \in Sessions : Spawn(s) /\ ~overlap' =>
                     \A p \in Procs : Alive(p) => p \in term
<1> SUFFICES ASSUME LifeInv, [LifeNext]_lifeVars
             PROVE  LifeInv' /\ \A s \in Sessions : Spawn(s) /\ ~overlap' =>
                                   \A p \in Procs : Alive(p) => p \in term
  OBVIOUS
<1>1. ASSUME NEW s \in Sessions, HookStep(s) PROVE LifeInv'
  BY <1>1, StartKeeps, StopKeeps, KilledKeeps DEF HookStep
<1>2. ASSUME NEW p \in Procs, ProcStep(p) PROVE LifeInv'
  BY <1>2, ProcOnlyEnds, FewerKeep DEF LifeInv
<1>3. ASSUME UNCHANGED lifeVars PROVE LifeInv'
  <2>1. LifeTypes' /\ \A q \in Procs : Running(q)' => Running(q)
    BY <1>3 DEF LifeInv, LifeTypes, Running, Alive
  <2> QED
    BY <1>3, <2>1, FewerKeep
<1>4. LifeInv'
  BY <1>1, <1>2, <1>3 DEF LifeNext
<1>5. ASSUME NEW s \in Sessions, Spawn(s), ~overlap' PROVE \A p \in Procs : ~Running(p)
  BY <1>5, StartKeeps
<1> QED
  BY <1>4, <1>5 DEF Running

LEMMA LifeCorrect == LifeSpec => []LifeInv
BY LifeStart, LifeStep, PTL DEF LifeSpec

(* When every session has ended through its hook, every relay has ended or  *)
(* been told to stop, unless hooks overlapped (relay-start.sh and           *)
(* relay-stop.sh over the pid file), whatever the processes did meanwhile.  *)
THEOREM LifecycleNoOrphan == LifeSpec => []NoOrphan
<1>1. LifeInv => NoOrphan
  BY DEF LifeInv, NoOrphan, Wanted, Running
<1> QED
  BY <1>1, LifeCorrect, PTL

(* A hook that runs alone starts a relay only if all others have been told  *)
(* to stop (relay-start.sh's look at the pid file), even after a session    *)
(* was killed.                                                              *)
THEOREM LifecycleSpawnsOnlyWhenNeeded == LifeSpec => SpawnOnlyWhenNeeded
<1>1. LifeInv /\ [LifeNext]_lifeVars =>
        [\A s \in Sessions : Spawn(s) /\ ~overlap' =>
            \A p \in Procs : Alive(p) => p \in term]_lifeVars
  BY LifeStep
<1> QED
  BY <1>1, LifeCorrect, PTL DEF LifeSpec, SpawnOnlyWhenNeeded

(* As long as hooks run one at a time there is at most one relay that nobody *)
(* has told to stop, and relay-stop.sh will find it: the pid file names it,  *)
(* or the hook that has just started it is about to write its pid.           *)
OneRelay ==
    ~overlap =>
        \A p, q \in Procs : Running(p) /\ Running(q) =>
            /\ p = q
            /\ pidfile = p \/ \E s \in Sessions : hook[s] = "write" /\ seen[s] = p

(* So it is for any number of sessions and of processes, even after sessions *)
(* were killed without their hook (relay-start.sh, relay-stop.sh).           *)
THEOREM LifecycleOneRelay == LifeSpec => []OneRelay
<1>1. LifeInv => OneRelay
  <2> SUFFICES ASSUME LifeInv, ~overlap, NEW p \in Procs, NEW q \in Procs,
                      Running(p), Running(q)
               PROVE  /\ p = q
                      /\ pidfile = p \/ \E s \in Sessions : hook[s] = "write" /\ seen[s] = p
    BY DEF OneRelay
  <2>1. CASE \E s \in Sessions : hook[s] = "write"
    <3>1. PICK s \in Sessions : hook[s] = "write"
      BY <2>1
    <3>2. HookKnows(s)
      BY <3>1 DEF LifeInv, InHook
    <3> QED
      BY <3>1, <3>2 DEF HookKnows
  <2>2. CASE ~\E s \in Sessions : hook[s] = "write"
    BY <2>2 DEF LifeInv, Tracked
  <2> QED
    BY <2>1, <2>2
<1> QED
  BY <1>1, LifeCorrect, PTL

-----------------------------------------------------------------------------
(* The listening sockets *)

(* A port is held by a process that serves on it, or has not closed it yet. *)
PortsInv ==
    /\ phase \in [Procs -> {"none", "boot", "failed", "run", "drainIngest", "drainPublic", "dead"}]
    /\ ingestPort # None => ingestPort \in Procs /\ phase[ingestPort] = "run"
    /\ publicPort # None => publicPort \in Procs /\ phase[publicPort] \in {"run", "drainIngest"}

LEMMA PortsKept ==
  ASSUME PortsInv, LifeTypes, [LifeNext]_lifeVars
  PROVE  PortsInv'
<1> USE LifecycleAssumption DEF PortsInv, Ends
<1>1. ASSUME NEW s \in Sessions, HookStep(s) PROVE PortsInv'
  <2>1. CASE Spawn(s)
    BY <2>1 DEF Spawn
  <2>2. CASE Kill(s)
    BY <2>2 DEF Kill
  <2>3. CASE UNCHANGED procVars
    BY <2>3
  <2> QED
    BY <1>1, <2>1, <2>2, <2>3
       DEF HookStep, ReadPid, Probe, NotSpawned, WritePid, SessionKilled, StopRead, StopProbe, Remove
<1>2. ASSUME NEW p \in Procs, ProcStep(p) PROVE PortsInv'
  <2>1. CASE Boot(p) \/ BootFails(p)
    BY <2>1 DEF Boot, BootFails
  <2>2. CASE BindIngest(p)
    BY <2>2 DEF BindIngest
  <2>3. CASE BindPublic(p)
    BY <2>3 DEF BindPublic
  <2>4. CASE IngestRequest(p) \/ PublicRequest(p) \/ DeadlinePasses(p)
    BY <2>4 DEF IngestRequest, PublicRequest, DeadlinePasses
  <2>5. CASE TakeSignal(p)
    BY <2>5 DEF TakeSignal
  <2>6. CASE IngestDrained(p)
    BY <2>6 DEF IngestDrained
  <2>7. CASE PublicDrained(p) \/ MainReturns(p)
    BY <2>7 DEF PublicDrained, MainReturns
  <2> QED
    BY <1>2, <2>1, <2>2, <2>3, <2>4, <2>5, <2>6, <2>7 DEF ProcStep, ShutdownStep
<1>3. ASSUME UNCHANGED lifeVars PROVE PortsInv'
  BY <1>3
<1> QED
  BY <1>1, <1>2, <1>3 DEF LifeNext

(* What the pid file is for, "prevents an orphaned process holding the      *)
(* listening sockets" (README.md:278): when every session has ended through *)
(* its hook, whoever still holds a port has been told to stop, and has only *)
(* its shutdown ahead of it, unless hooks overlapped or sessions were killed. *)
PortsOnlyOfStopping ==
    ~overlap /\ ~killed /\ (\A s \in Sessions : hook[s] \in {"none", "ended"}) =>
        \A p \in {ingestPort, publicPort} \ {None} :
            p \in term /\ phase[p] \in {"run", "drainIngest"}

(* So it is for any number of sessions and of processes, whichever of them  *)
(* failed to bind and however long their requests take (cmd/relay/main.go). *)
THEOREM LifecyclePortsOnlyOfStopping == LifeSpec => []PortsOnlyOfStopping
<1>1. LifeInit => PortsInv
  BY DEF LifeInit, PortsInv
<1>2. LifeInv /\ PortsInv /\ [LifeNext]_lifeVars => PortsInv'
  BY PortsKept DEF LifeInv
<1>3. LifeInv /\ PortsInv => PortsOnlyOfStopping
  BY LifecycleAssumption DEF LifeInv, Wanted, Running, Alive, PortsInv, PortsOnlyOfStopping
<1> QED
  BY <1>1, <1>2, <1>3, LifeCorrect, PTL DEF LifeSpec
=============================================================================
