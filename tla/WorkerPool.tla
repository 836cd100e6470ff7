----------------------------- MODULE WorkerPool -----------------------------
(***************************************************************************)
(* The job queue of the TTS server (internal/server/worker.go): callers of *)
(* Submit, the worker goroutines, Stop, Clear, Pause and Resume, at the    *)
(* granularity of the channel, mutex and atomic operations of the code.    *)
(*                                                                         *)
(* Every member of Jobs is one call of Submit.  The calls that leave the   *)
(* pool (voice mode file, resolver, provider, Telegram, audio player) are  *)
(* steps with every outcome the pool distinguishes: PoolPlayer details     *)
(* Play, PoolStatus adds the history and GetStatus, TTSServer the process. *)
(***************************************************************************)
EXTENDS Naturals, Sequences, FiniteSets

CONSTANTS
    Jobs,               \* the Submit calls
    Workers,            \* the goroutines started by Start
    Stoppers,           \* callers of Stop
    Clearers,           \* callers of Clear
    QueueSize,          \* capacity of the jobs channel
    Modes,              \* the voice modes the mode reader may return
    TelegramConfigured, \* WithTelegram was given a usable sender
    None                \* no job, no mode, no goroutine

VoiceModes == {"off", "computer", "phone", "both"}

ASSUME PoolAssumption ==
    /\ QueueSize \in Nat \ {0}
    /\ Modes \subseteq VoiceModes
    /\ TelegramConfigured \in BOOLEAN
    /\ None \notin Jobs \cup Workers \cup Stoppers \cup VoiceModes
                   \cup {"mp3", "wav"}

(* A run of the server sees finitely many Submit calls. *)
ASSUME FinitelyMany == IsFiniteSet(Jobs) /\ IsFiniteSet(Workers)

VARIABLES
    status,         \* Job.Status, "none" before Submit creates the job
    sub,            \* where the Submit call of a job stands
    readers,        \* Submit calls holding submitMu for reading
    writer,         \* the Stop call holding submitMu for writing
    closed,         \* wp.closed
    shutdownClosed, \* close(wp.shutdown) has happened
    jobsClosed,     \* close(wp.jobs) has happened
    once,           \* wp.stopOnce
    stopPc,         \* where each Stop call stands
    queue,          \* the buffer of wp.jobs
    paused,         \* wp.paused
    pc,             \* where each worker stands
    job,            \* the job a worker has received
    mode,           \* the voice mode it has read for that job
    format,         \* DefaultFormat of the resolved provider
    done,           \* history: what was synthesized and reported delivered for it
    player,         \* the worker holding Player.playMu
    clearPc,        \* where each Clear call stands
    held,           \* the job a Clear call has received
    processed,      \* wp.processed
    failed,         \* wp.failed
    panicked,       \* a send on, or a close of, a closed channel
    overrun         \* history: workers that dequeued since the pause began

submitVars == <<sub, readers>>
stopVars   == <<writer, closed, shutdownClosed, jobsClosed, once, stopPc>>
pauseVars  == <<paused, overrun>>
localVars  == <<job, mode, format, done>>
clearVars  == <<clearPc, held>>
counters   == <<processed, failed>>

workerVars == <<pc, localVars, player, counters>>

vars == <<status, submitVars, stopVars, queue, pauseVars, workerVars, clearVars,
          panicked>>

(* What the operations of each kind leave alone. *)
notSubmit == <<stopVars, pauseVars, workerVars, clearVars>>
notStop   == <<status, submitVars, queue, pauseVars, workerVars, clearVars>>
notClear  == <<submitVars, stopVars, pauseVars, workerVars, panicked>>
notWorker == <<submitVars, stopVars, paused, clearVars, panicked>>

(* Fault variant: "both" taken for "phone". *)
PlaysLocalComputerOnly(m) == m = "computer"

SendsTelegram(m) == m \in {"phone", "both"}
PlaysLocal(m)    == m \in {"computer", "both"}

Statuses == {"none", "pending", "processing", "completed", "failed", "cancelled"}
Terminal == {"completed", "failed", "cancelled"}
SubPcs   == {"new", "recorded", "locked", "sending", "accepted", "rejected"}
StopPcs  == {"idle", "lock", "closeShutdown", "closeJobs", "unlock", "wait", "returned"}
Effects  == {"tgSynth", "sent", "localSynth", "played"}
BusyPcs  == {"mode", "mark", "resolve", "tgSynth", "tgSend", "localSynth",
             "play", "playing", "finish", "fail", "countOk", "countFail"}
IdlePcs  == {"gate", "park", "recv", "parkExit", "drained"}
Exited   == {"parkExit", "drained"}

Init ==
    /\ status = [j \in Jobs |-> "none"]
    /\ sub = [j \in Jobs |-> "new"]
    /\ readers = {}
    /\ writer = None
    /\ closed = FALSE /\ shutdownClosed = FALSE /\ jobsClosed = FALSE
    /\ once = "new"
    /\ stopPc = [s \in Stoppers |-> "idle"]
    /\ queue = <<>>
    /\ paused = FALSE
    /\ pc = [w \in Workers |-> "gate"]
    /\ job = [w \in Workers |-> None]
    /\ mode = [w \in Workers |-> None]
    /\ format = [w \in Workers |-> None]
    /\ done = [w \in Workers |-> {}]
    /\ player = None
    /\ clearPc = [c \in Clearers |-> "idle"]
    /\ held = [c \in Clearers |-> None]
    /\ processed = 0 /\ failed = 0
    /\ panicked = FALSE
    /\ overrun = {}

-----------------------------------------------------------------------------
(* Submit *)

(* The job is created pending and visible in the history. *)
Record(j) ==
    /\ sub[j] = "new"
    /\ sub' = [sub EXCEPT ![j] = "recorded"]
    /\ status' = [status EXCEPT ![j] = "pending"]
    /\ UNCHANGED <<notSubmit, readers, queue, panicked>>

(* submitMu.RLock *)
SubmitLock(j) ==
    /\ sub[j] = "recorded"
    /\ writer = None
    /\ sub' = [sub EXCEPT ![j] = "locked"]
    /\ readers' = readers \cup {j}
    /\ UNCHANGED <<notSubmit, status, queue, panicked>>

(* Fault variant: Submit does not look at closed. *)
CheckClosedSkipped(j) ==
    /\ sub[j] = "locked"
    /\ sub' = [sub EXCEPT ![j] = "sending"]
    /\ UNCHANGED <<notSubmit, status, readers, queue, panicked>>

CheckClosed(j) ==
    /\ sub[j] = "locked"
    /\ sub' = [sub EXCEPT ![j] = IF closed THEN "rejected" ELSE "sending"]
    /\ status' = IF closed THEN [status EXCEPT ![j] = "failed"] ELSE status
    /\ UNCHANGED <<notSubmit, readers, queue, panicked>>

(* Fault variant: the default case of the select reports success. *)
SendDropsSilently(j) ==
    /\ sub[j] = "sending"
    /\ queue' = IF Len(queue) < QueueSize THEN Append(queue, j) ELSE queue
    /\ sub' = [sub EXCEPT ![j] = "accepted"]
    /\ UNCHANGED <<notSubmit, status, readers, panicked>>

(* The non-blocking send: a send on a closed channel is ready, and panics. *)
Send(j) ==
    /\ sub[j] = "sending"
    /\ panicked' = (panicked \/ jobsClosed)
    /\ IF Len(queue) < QueueSize
       THEN /\ queue' = Append(queue, j)
            /\ sub' = [sub EXCEPT ![j] = "accepted"]
            /\ UNCHANGED status
       ELSE /\ sub' = [sub EXCEPT ![j] = "rejected"]
            /\ status' = [status EXCEPT ![j] = "failed"]
            /\ UNCHANGED queue
    /\ UNCHANGED <<notSubmit, readers>>

(* The deferred submitMu.RUnlock. *)
SubmitReturn(j) ==
    /\ j \in readers
    /\ sub[j] \in {"accepted", "rejected"}
    /\ readers' = readers \ {j}
    /\ UNCHANGED <<notSubmit, status, sub, queue, panicked>>

-----------------------------------------------------------------------------
(* Stop *)

(* stopOnce.Do: the first caller runs the body, the others wait for it. *)
StopEnter(s) ==
    /\ stopPc[s] = "idle"
    /\ once # "running"
    /\ once' = IF once = "new" THEN "running" ELSE once
    /\ stopPc' = [stopPc EXCEPT ![s] = IF once = "new" THEN "lock" ELSE "wait"]
    /\ UNCHANGED <<notStop, writer, closed, shutdownClosed, jobsClosed,
                   panicked>>

(* submitMu.Lock, closed = true *)
StopLock(s) ==
    /\ stopPc[s] = "lock"
    /\ writer = None /\ readers = {}
    /\ writer' = s
    /\ closed' = TRUE
    /\ stopPc' = [stopPc EXCEPT ![s] = "closeShutdown"]
    /\ UNCHANGED <<notStop, shutdownClosed, jobsClosed, once, panicked>>

StopCloseShutdown(s) ==
    /\ stopPc[s] = "closeShutdown"
    /\ panicked' = (panicked \/ shutdownClosed)
    /\ shutdownClosed' = TRUE
    /\ stopPc' = [stopPc EXCEPT ![s] = "closeJobs"]
    /\ UNCHANGED <<notStop, writer, closed, jobsClosed, once>>

StopCloseJobs(s) ==
    /\ stopPc[s] = "closeJobs"
    /\ panicked' = (panicked \/ jobsClosed)
    /\ jobsClosed' = TRUE
    /\ stopPc' = [stopPc EXCEPT ![s] = "unlock"]
    /\ UNCHANGED <<notStop, writer, closed, shutdownClosed, once>>

(* submitMu.Unlock; the Once is done, and its other callers go on. *)
StopUnlock(s) ==
    /\ stopPc[s] = "unlock"
    /\ writer' = None
    /\ once' = "done"
    /\ stopPc' = [stopPc EXCEPT ![s] = "wait"]
    /\ UNCHANGED <<notStop, closed, shutdownClosed, jobsClosed, panicked>>

(* wg.Wait *)
StopReturn(s) ==
    /\ stopPc[s] = "wait"
    /\ \A w \in Workers : pc[w] \in Exited
    /\ stopPc' = [stopPc EXCEPT ![s] = "returned"]
    /\ UNCHANGED <<notStop, writer, closed, shutdownClosed, jobsClosed, once,
                   panicked>>

-----------------------------------------------------------------------------
(* Pause, Resume, Clear *)

Pause ==
    /\ ~paused
    /\ paused' = TRUE
    /\ UNCHANGED <<workerVars, stopVars, submitVars, clearVars, status, queue,
                   overrun, panicked>>

Resume ==
    /\ paused
    /\ paused' = FALSE
    /\ overrun' = {}
    /\ UNCHANGED <<workerVars, stopVars, submitVars, clearVars, status, queue,
                   panicked>>

ClearBegin(c) ==
    /\ clearPc[c] = "idle"
    /\ clearPc' = [clearPc EXCEPT ![c] = "loop"]
    /\ UNCHANGED <<notClear, status, queue, held>>

(* Fault variant: Clear looks at the head of the queue without receiving it. *)
ClearTakePeeks(c) ==
    /\ clearPc[c] = "loop"
    /\ queue # <<>>
    /\ held' = [held EXCEPT ![c] = Head(queue)]
    /\ clearPc' = [clearPc EXCEPT ![c] = "mark"]
    /\ UNCHANGED <<notClear, status, queue>>

ClearTake(c) ==
    /\ clearPc[c] = "loop"
    /\ queue # <<>>
    /\ held' = [held EXCEPT ![c] = Head(queue)]
    /\ queue' = Tail(queue)
    /\ clearPc' = [clearPc EXCEPT ![c] = "mark"]
    /\ UNCHANGED <<notClear, status>>

ClearMark(c) ==
    /\ clearPc[c] = "mark"
    /\ status' = [status EXCEPT ![held[c]] = "cancelled"]
    /\ held' = [held EXCEPT ![c] = None]
    /\ clearPc' = [clearPc EXCEPT ![c] = "loop"]
    /\ UNCHANGED <<notClear, queue>>

(* The channel is empty: the default case, or a receive with ok = false. *)
ClearReturn(c) ==
    /\ clearPc[c] = "loop"
    /\ queue = <<>>
    /\ clearPc' = [clearPc EXCEPT ![c] = "idle"]
    /\ UNCHANGED <<notClear, status, queue, held>>

-----------------------------------------------------------------------------
(* The worker loop *)

(* A worker step that moves only its program counter. *)
GoTo(w, from, to) ==
    /\ pc[w] = from
    /\ pc' = [pc EXCEPT ![w] = to]
    /\ UNCHANGED <<notWorker, localVars, counters, status, queue, overrun,
                   player>>

(* Fault variants of the gate: no gate; a pause loop that never looks at the *)
(* shutdown channel on entry; a pause that is not polled.                    *)
GatePassUngated(w) == GoTo(w, "gate", "recv")
GateParkBlind(w) == paused /\ GoTo(w, "gate", "park")
ParkTimerMissing(w) == shutdownClosed /\ GoTo(w, "park", "gate")

GatePass(w) == ~paused /\ GoTo(w, "gate", "recv")

(* The select of the pause loop: shutdown already closed is taken at once, *)
(* since the 100 ms timer has only just been set.                          *)
GatePark(w) == paused /\ GoTo(w, "gate", IF shutdownClosed THEN "parkExit" ELSE "park")

ParkTimer(w) == GoTo(w, "park", "gate")

ParkShutdown(w) == shutdownClosed /\ GoTo(w, "park", "parkExit")

Receive(w) ==
    /\ pc[w] = "recv"
    /\ queue # <<>>
    /\ job' = [job EXCEPT ![w] = Head(queue)]
    /\ queue' = Tail(queue)
    /\ pc' = [pc EXCEPT ![w] = "mode"]
    /\ overrun' = IF paused THEN overrun \cup {w} ELSE overrun
    /\ UNCHANGED <<notWorker, counters, status, mode, format, done, player>>

(* Fault variant: the receive also selects on the shutdown channel. *)
ReceiveClosedEarly(w) == shutdownClosed /\ GoTo(w, "recv", "drained")

(* ok = false: the channel is closed and its buffer drained. *)
ReceiveClosed(w) == queue = <<>> /\ jobsClosed /\ GoTo(w, "recv", "drained")

-----------------------------------------------------------------------------
(* processJob *)

ReadMode(w) ==
    /\ pc[w] = "mode"
    /\ \E m \in Modes : mode' = [mode EXCEPT ![w] = m]
    /\ pc' = [pc EXCEPT ![w] = "mark"]
    /\ UNCHANGED <<notWorker, counters, status, queue, overrun, job, format,
                   done, player>>

MarkProcessing(w) ==
    /\ pc[w] = "mark"
    /\ status' = [status EXCEPT ![job[w]] = "processing"]
    /\ pc' = [pc EXCEPT ![w] = IF mode[w] = "off" THEN "finish" ELSE "resolve"]
    /\ UNCHANGED <<notWorker, localVars, counters, queue, overrun, player>>

(* Fault variant: the checks made only when the message is sent. *)
AfterResolveUnchecked(m, f) == IF SendsTelegram(m) THEN "tgSynth" ELSE "localSynth"

(* Telegram must be configured and the provider must speak MP3, and both *)
(* are checked before anything is synthesized.                           *)
AfterResolve(m, f) ==
    IF SendsTelegram(m)
    THEN IF TelegramConfigured /\ f = "mp3" THEN "tgSynth" ELSE "fail"
    ELSE "localSynth"

Resolve(w) ==
    /\ pc[w] = "resolve"
    /\ \E f \in {"mp3", "wav"} :
          /\ format' = [format EXCEPT ![w] = f]
          /\ pc' = [pc EXCEPT ![w] = AfterResolve(mode[w], f)]
    /\ UNCHANGED <<notWorker, counters, status, queue, overrun, job, mode,
                   done, player>>

ResolveError(w) == GoTo(w, "resolve", "fail")

(* A delivery step: effect e is on record, the worker goes on to the pc to. *)
Deliver(w, from, e, to) ==
    /\ pc[w] = from
    /\ done' = [done EXCEPT ![w] = @ \cup {e}]
    /\ pc' = [pc EXCEPT ![w] = to]
    /\ UNCHANGED <<notWorker, counters, status, queue, overrun, job, mode,
                   format>>

TgSynth(w) ==
    /\ \E to \in {"tgSend", "fail"} : Deliver(w, "tgSynth", "tgSynth", to)
    /\ UNCHANGED player

TgSend(w) ==
    /\ Deliver(w, "tgSend", "sent", IF PlaysLocal(mode[w]) THEN "localSynth" ELSE "finish")
    /\ UNCHANGED player

(* A failed send ends the job unless it is also played locally.  Whether   *)
(* Telegram took the message all the same nobody here learns.              *)
TgSendError(w) == GoTo(w, "tgSend", IF PlaysLocal(mode[w]) THEN "localSynth" ELSE "fail")

LocalSynth(w) ==
    /\ \E to \in {"play", "fail"} : Deliver(w, "localSynth", "localSynth", to)
    /\ UNCHANGED player

(* Play: an unsupported format is refused before playMu is taken. *)
PlayRefused(w) == GoTo(w, "play", "fail")

PlayBegin(w) ==
    /\ pc[w] = "play"
    /\ player = None
    /\ player' = w
    /\ pc' = [pc EXCEPT ![w] = "playing"]
    /\ UNCHANGED <<notWorker, localVars, counters, status, queue, overrun>>

PlayEnd(w) ==
    /\ Deliver(w, "playing", "played", "finish")
    /\ player' = None

PlayError(w) ==
    /\ pc[w] = "playing"
    /\ player' = None
    /\ pc' = [pc EXCEPT ![w] = "fail"]
    /\ UNCHANGED <<notWorker, localVars, counters, status, queue, overrun>>

(* The status is stored under the job's lock, the counter follows it. *)
SetOutcome(w, from, outcome, to) ==
    /\ pc[w] = from
    /\ status' = [status EXCEPT ![job[w]] = outcome]
    /\ pc' = [pc EXCEPT ![w] = to]
    /\ UNCHANGED <<notWorker, localVars, counters, queue, overrun, player>>

(* Fault variants: a status that is not one of the documented ones; the *)
(* counter update left out.                                             *)
FinishMisspelt(w) == SetOutcome(w, "finish", "done", "countOk")
FinishUncounted(w) == SetOutcome(w, "finish", "completed", "gate")

Finish(w) == SetOutcome(w, "finish", "completed", "countOk")
FailJob(w) == SetOutcome(w, "fail", "failed", "countFail")

Count(w) ==
    /\ pc[w] \in {"countOk", "countFail"}
    /\ processed' = IF pc[w] = "countOk" THEN processed + 1 ELSE processed
    /\ failed' = IF pc[w] = "countFail" THEN failed + 1 ELSE failed
    /\ pc' = [pc EXCEPT ![w] = "gate"]
    /\ job' = [job EXCEPT ![w] = None]
    /\ mode' = [mode EXCEPT ![w] = None]
    /\ format' = [format EXCEPT ![w] = None]
    /\ done' = [done EXCEPT ![w] = {}]
    /\ UNCHANGED <<notWorker, status, queue, overrun, player>>

-----------------------------------------------------------------------------

SubmitStep(j) ==
    Record(j) \/ SubmitLock(j) \/ CheckClosed(j) \/ Send(j) \/ SubmitReturn(j)

StopBody(s) ==
    \/ StopLock(s) \/ StopCloseShutdown(s) \/ StopCloseJobs(s) \/ StopUnlock(s)
    \/ StopReturn(s)

StopStep(s) == StopEnter(s) \/ StopBody(s)

ClearBody(c) == ClearTake(c) \/ ClearMark(c) \/ ClearReturn(c)

ClearStep(c) == ClearBegin(c) \/ ClearBody(c)

LoopStep(w) ==
    \/ GatePass(w) \/ GatePark(w) \/ ParkTimer(w) \/ ParkShutdown(w)
    \/ Receive(w) \/ ReceiveClosed(w)

ProcessStep(w) ==
    \/ ReadMode(w) \/ MarkProcessing(w) \/ Resolve(w) \/ ResolveError(w)
    \/ TgSynth(w) \/ TgSend(w) \/ TgSendError(w) \/ LocalSynth(w)
    \/ PlayRefused(w) \/ PlayBegin(w) \/ PlayEnd(w) \/ PlayError(w)
    \/ Finish(w) \/ FailJob(w) \/ Count(w)

WorkerStep(w) == LoopStep(w) \/ ProcessStep(w)

Next ==
    \/ \E j \in Jobs : SubmitStep(j)
    \/ \E s \in Stoppers : StopStep(s)
    \/ \E c \in Clearers : ClearStep(c)
    \/ \E w \in Workers : WorkerStep(w)
    \/ Pause
    \/ Resume

Spec == Init /\ [][Next]_vars

-----------------------------------------------------------------------------
(* Properties *)

TypeOK ==
    /\ status \in [Jobs -> Statuses]
    /\ sub \in [Jobs -> SubPcs]
    /\ readers \subseteq Jobs
    /\ writer \in Stoppers \cup {None}
    /\ closed \in BOOLEAN /\ shutdownClosed \in BOOLEAN /\ jobsClosed \in BOOLEAN
    /\ once \in {"new", "running", "done"}
    /\ stopPc \in [Stoppers -> StopPcs]
    /\ queue \in Seq(Jobs) /\ Len(queue) \leq QueueSize
    /\ paused \in BOOLEAN
    /\ pc \in [Workers -> BusyPcs \cup IdlePcs]
    /\ job \in [Workers -> Jobs \cup {None}]
    /\ mode \in [Workers -> Modes \cup {None}]
    /\ format \in [Workers -> {"mp3", "wav", None}]
    /\ done \in [Workers -> SUBSET Effects]
    /\ player \in Workers \cup {None}
    /\ clearPc \in [Clearers -> {"idle", "loop", "mark"}]
    /\ held \in [Clearers -> Jobs \cup {None}]
    /\ processed \in Nat /\ failed \in Nat
    /\ panicked \in BOOLEAN
    /\ overrun \subseteq Workers

InQueue(j) == \E i \in DOMAIN queue : queue[i] = j

Owned(j) ==
    \/ InQueue(j)
    \/ \E w \in Workers : job[w] = j
    \/ \E c \in Clearers : held[c] = j

(* submitMu keeps the sends of Submit and the closes of Stop apart: no    *)
(* interleaving of Submit calls and repeated Stop calls sends on a closed *)
(* channel or closes a channel twice (worker.go:82-88).                   *)
NoPanic == ~panicked

(* A job is spoken at most once: however workers and Clear calls race for *)
(* the channel, no job is in the queue twice, or owned by two receivers,  *)
(* or still queued when somebody owns it.                                 *)
OneOwner ==
    /\ \A i, k \in DOMAIN queue : queue[i] = queue[k] => i = k
    /\ \A w \in Workers : job[w] # None =>
          /\ ~InQueue(job[w])
          /\ \A v \in Workers : job[v] = job[w] => v = w
          /\ \A c \in Clearers : held[c] # job[w]
    /\ \A c \in Clearers : held[c] # None =>
          /\ ~InQueue(held[c])
          /\ \A d \in Clearers : held[d] = held[c] => d = c

(* Submit tells the truth: a job it accepted is queued, in somebody's hands *)
(* or at a terminal status, and a job it rejected is failed and in nobody's *)
(* hands, whatever Stop, Clear and the workers do meanwhile.                *)
AcceptedAccounted ==
    \A j \in Jobs :
        /\ sub[j] = "accepted" => Owned(j) \/ status[j] \in Terminal
        /\ sub[j] = "rejected" => status[j] = "failed" /\ ~Owned(j)

(* The counters of the status report: TotalProcessed and TotalFailed count  *)
(* each processed job once, rejected and cancelled jobs never, and lag the  *)
(* job statuses only by the workers between the two updates.                *)
CountersExact ==
    /\ processed + Cardinality({w \in Workers : pc[w] = "countOk"})
         = Cardinality({j \in Jobs : status[j] = "completed"})
    /\ failed + Cardinality({w \in Workers : pc[w] = "countFail"})
         = Cardinality({j \in Jobs : status[j] = "failed" /\ sub[j] = "accepted"})

(* A job is reported completed only after exactly the deliveries that the  *)
(* mode read at its start asks for: nothing when off, the local speaker,   *)
(* Telegram, or the speaker with Telegram attempted first.                 *)
DeliveryMatchesMode ==
    \A w \in Workers : pc[w] = "countOk" =>
        CASE mode[w] = "off"      -> done[w] = {}
          [] mode[w] = "computer" -> done[w] = {"localSynth", "played"}
          [] mode[w] = "phone"    -> done[w] = {"tgSynth", "sent"}
          [] mode[w] = "both"     -> done[w] \cup {"sent"} = Effects

(* No synthesis is paid for when the mode wants Telegram and Telegram is  *)
(* not configured or the provider emits no MP3 (worker.go:247).           *)
NothingSpentInVain ==
    \A w \in Workers :
        done[w] # {} /\ SendsTelegram(mode[w]) =>
            TelegramConfigured /\ format[w] = "mp3"

(* Stop drains: a worker that left through the closed channel leaves no job *)
(* behind, so jobs are stranded only if every worker left while parked.     *)
DrainedLeavesNothing ==
    (\E w \in Workers : pc[w] = "drained") => queue = <<>>

(* A terminal status is final: nothing completes a cancelled job, cancels *)
(* a finished one or revives a rejected one.                              *)
StatusFinal ==
    [][\A j \in Jobs : status[j] \in Terminal => status'[j] = status[j]]_vars

(* The pause gate bounds what a pause lets through: one job per worker, the *)
(* receive in which the pause found it.                                     *)
AtMostOnePerPause ==
    [][\A w \in Workers :
          paused /\ pc[w] = "recv" /\ pc'[w] = "mode" => w \notin overrun]_vars

-----------------------------------------------------------------------------
(* What the pool promises its callers: see JobQueue. *)

(* The abstract phase of a job. *)
Phase(j) ==
    IF sub[j] = "rejected" THEN "rejected"
    ELSE IF sub[j] # "accepted" THEN "new"
    ELSE IF status[j] = "cancelled" \/ \E c \in Clearers : held[c] = j THEN "withdrawn"
    ELSE IF status[j] \in {"completed", "failed"} THEN "finished"
    ELSE IF \E w \in Workers : job[w] = j THEN "active"
    ELSE "waiting"

Abstract == INSTANCE JobQueue WITH
    Capacity <- QueueSize,
    open <- ~closed,
    waiting <- queue,
    phase <- [j \in Jobs |-> Phase(j)]

(* The pool is a bounded FIFO hand-off: it refuses a job only when it is full *)
(* or stopping, hands every accepted job in order to exactly one worker or    *)
(* Clear call, and accepts nothing once Stop has closed it.                   *)
ImplementsJobQueue == Abstract!Spec
=============================================================================
