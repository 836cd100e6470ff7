--------------------------- MODULE WorkerPoolProofs ---------------------------
(***************************************************************************)
(* Theorems about WorkerPool, for any number of jobs, workers, Stop and    *)
(* Clear calls and any queue size.                                         *)
(***************************************************************************)
EXTENDS WorkerPool, SequenceTheorems, FiniteSetTheorems, TLAPS

(* Fields every definition below unfolds to. *)
USE DEF submitVars, stopVars, pauseVars, localVars, clearVars, counters, workerVars,
        notSubmit, notStop, notClear, notWorker

-----------------------------------------------------------------------------
(* What each kind of step leaves alone. *)

(* A worker leaves the submitters, Stop, Clear and the pause flag alone. *)
LEMMA WorkerFrame ==
    ASSUME NEW w \in Workers, WorkerStep(w)
    PROVE  UNCHANGED <<submitVars, stopVars, clearVars, paused, panicked>>
BY DEF WorkerStep, LoopStep, ProcessStep, GoTo, Deliver, SetOutcome, GatePass,
       GatePark, ParkTimer, ParkShutdown, Receive, ReceiveClosed, ReadMode,
       MarkProcessing, Resolve, ResolveError, TgSynth, TgSend, TgSendError,
       LocalSynth, PlayRefused, PlayBegin, PlayEnd, PlayError, Finish, FailJob,
       Count

(* Clear touches only the queue and the job it holds. *)
LEMMA ClearFrame ==
    ASSUME NEW c \in Clearers, ClearStep(c)
    PROVE  UNCHANGED <<submitVars, stopVars, pauseVars, pc, localVars, player,
                       counters, panicked>>
BY DEF ClearStep, ClearBody, ClearBegin, ClearTake, ClearMark, ClearReturn

(* Stop touches only its own lock and the closing of the channels. *)
LEMMA StopFrame ==
    ASSUME NEW s \in Stoppers, StopStep(s)
    PROVE  UNCHANGED <<status, submitVars, queue, pauseVars, pc, localVars, player,
                       clearVars, counters>>
BY DEF StopStep, StopBody, StopEnter, StopLock, StopCloseShutdown, StopCloseJobs,
       StopUnlock, StopReturn

(* Submit touches only its job, the queue and the read lock. *)
LEMMA SubmitFrame ==
    ASSUME NEW j \in Jobs, SubmitStep(j)
    PROVE  UNCHANGED <<stopVars, pauseVars, pc, localVars, player, clearVars,
                       counters>>
BY DEF SubmitStep, Record, SubmitLock, CheckClosed, Send, SubmitReturn

-----------------------------------------------------------------------------
(* Type correctness. *)

(* The initial state has the declared types. *)
LEMMA InitType == Init => TypeOK
<1> SUFFICES ASSUME Init PROVE TypeOK
  OBVIOUS
<1>1. queue \in Seq(Jobs) /\ Len(queue) \leq QueueSize
  BY EmptySeq, PoolAssumption DEF Init
<1>2. /\ status \in [Jobs -> Statuses]
      /\ sub \in [Jobs -> SubPcs]
      /\ stopPc \in [Stoppers -> StopPcs]
      /\ pc \in [Workers -> BusyPcs \cup IdlePcs]
  BY DEF Init, Statuses, SubPcs, StopPcs, IdlePcs
<1>3. /\ job \in [Workers -> Jobs \cup {None}]
      /\ mode \in [Workers -> Modes \cup {None}]
      /\ format \in [Workers -> {"mp3", "wav", None}]
      /\ done \in [Workers -> SUBSET Effects]
      /\ clearPc \in [Clearers -> {"idle", "loop", "mark"}]
      /\ held \in [Clearers -> Jobs \cup {None}]
  BY DEF Init
<1> QED
  BY <1>1, <1>2, <1>3 DEF Init, TypeOK

(* Steps of Submit keep the types. *)
LEMMA SubmitType ==
    ASSUME TypeOK, NEW j \in Jobs, SubmitStep(j)
    PROVE  TypeOK'
<1> USE PoolAssumption
<1>1. CASE Record(j)
  BY <1>1 DEF TypeOK, Record, Statuses, SubPcs
<1>2. CASE SubmitLock(j)
  BY <1>2 DEF TypeOK, SubmitLock, SubPcs
<1>3. CASE CheckClosed(j)
  BY <1>3 DEF TypeOK, CheckClosed, Statuses, SubPcs
<1>4. CASE Send(j)
  <2>1. Len(queue) < QueueSize =>
           Append(queue, j) \in Seq(Jobs) /\ Len(Append(queue, j)) \leq QueueSize
    BY AppendProperties, LenProperties DEF TypeOK
  <2> QED
    BY <1>4, <2>1 DEF TypeOK, Send, Statuses, SubPcs
<1>5. CASE SubmitReturn(j)
  BY <1>5 DEF TypeOK, SubmitReturn
<1> QED
  BY <1>1, <1>2, <1>3, <1>4, <1>5 DEF SubmitStep

(* Steps of Stop keep the types. *)
LEMMA StopType ==
    ASSUME TypeOK, NEW s \in Stoppers, StopStep(s)
    PROVE  TypeOK'
BY DEF TypeOK, StopStep, StopBody, StopEnter, StopLock, StopCloseShutdown,
       StopCloseJobs, StopUnlock, StopReturn, StopPcs

(* Taking the head of the channel keeps the buffer within its capacity. *)
(* What a receive leaves of the queue is a queue that fits. *)
LEMMA TailType ==
    ASSUME queue \in Seq(Jobs), Len(queue) \leq QueueSize, queue # <<>>
    PROVE  /\ Head(queue) \in Jobs
           /\ Tail(queue) \in Seq(Jobs)
           /\ Len(Tail(queue)) \leq QueueSize
BY HeadTailProperties, LenProperties, PoolAssumption

(* Steps of Clear keep the types. *)
LEMMA ClearType ==
    ASSUME TypeOK, NEW c \in Clearers, ClearStep(c)
    PROVE  TypeOK'
BY TailType DEF TypeOK, ClearStep, ClearBody, ClearBegin, ClearTake, ClearMark,
       ClearReturn, Statuses

(* Steps of the worker's loop keep the types. *)
LEMMA LoopType ==
    ASSUME TypeOK, NEW w \in Workers, LoopStep(w)
    PROVE  TypeOK'
<1>1. CASE Receive(w)
  BY <1>1, TailType DEF TypeOK, Receive, BusyPcs
<1>2. CASE ~Receive(w)
  BY <1>2 DEF TypeOK, LoopStep, GatePass, GatePark, ParkTimer, ParkShutdown,
     ReceiveClosed, GoTo, IdlePcs
<1> QED
  BY <1>1, <1>2

(* Steps of processJob keep the types. *)
LEMMA ProcessType ==
    ASSUME TypeOK, NEW w \in Workers, ProcessStep(w)
    PROVE  TypeOK'
<1>1. CASE ReadMode(w) \/ MarkProcessing(w)
  BY <1>1 DEF TypeOK, ReadMode, MarkProcessing, BusyPcs, Statuses
<1>2. CASE Resolve(w) \/ ResolveError(w)
  BY <1>2 DEF TypeOK, Resolve, ResolveError, AfterResolve, GoTo, BusyPcs
<1>3. CASE TgSynth(w) \/ TgSend(w) \/ TgSendError(w) \/ LocalSynth(w)
  BY <1>3 DEF TypeOK, TgSynth, TgSend, TgSendError, LocalSynth, Deliver, GoTo,
     BusyPcs, Effects
<1>4. CASE PlayRefused(w) \/ PlayBegin(w) \/ PlayEnd(w) \/ PlayError(w)
  BY <1>4 DEF TypeOK, PlayRefused, PlayBegin, PlayEnd, PlayError, Deliver, GoTo,
     BusyPcs, Effects
<1>5. CASE Finish(w) \/ FailJob(w)
  BY <1>5 DEF TypeOK, Finish, FailJob, SetOutcome, BusyPcs, Statuses
<1>6. CASE Count(w)
  BY <1>6 DEF TypeOK, Count, IdlePcs
<1> QED
  BY <1>1, <1>2, <1>3, <1>4, <1>5, <1>6 DEF ProcessStep

(* Every step keeps the types. *)
LEMMA NextType == TypeOK /\ [Next]_vars => TypeOK'
<1> SUFFICES ASSUME TypeOK, [Next]_vars PROVE TypeOK'
  OBVIOUS
<1>1. ASSUME NEW j \in Jobs, SubmitStep(j) PROVE TypeOK'
  BY <1>1, SubmitType
<1>2. ASSUME NEW s \in Stoppers, StopStep(s) PROVE TypeOK'
  BY <1>2, StopType
<1>3. ASSUME NEW c \in Clearers, ClearStep(c) PROVE TypeOK'
  BY <1>3, ClearType
<1>4. ASSUME NEW w \in Workers, WorkerStep(w) PROVE TypeOK'
  BY <1>4, LoopType, ProcessType DEF WorkerStep
<1>5. CASE Pause \/ Resume
  BY <1>5 DEF TypeOK, Pause, Resume
<1>6. CASE UNCHANGED vars
  BY <1>6 DEF TypeOK, vars
<1> QED
  BY <1>1, <1>2, <1>3, <1>4, <1>5, <1>6 DEF Next

(* Every reachable state of the pool has the declared types; in particular *)
(* the buffer never exceeds the queue size.                                *)
THEOREM PoolTypeCorrect == Spec => []TypeOK
BY InitType, NextType, PTL DEF Spec

-----------------------------------------------------------------------------
(* The locks: why nothing is sent on, and no channel closed, twice. *)

InStop == {"lock", "closeShutdown", "closeJobs", "unlock"}

Locking ==
    /\ writer # None => readers = {}
    /\ \A j \in Jobs : sub[j] \in {"locked", "sending"} => j \in readers
    /\ \A j \in Jobs : sub[j] = "sending" => ~closed
    /\ jobsClosed => closed

Closing ==
    /\ once = "new" =>
          /\ ~shutdownClosed /\ ~jobsClosed
          /\ \A s \in Stoppers : stopPc[s] = "idle"
    /\ \A s \in Stoppers : stopPc[s] \in InStop =>
          /\ once = "running"
          /\ \A t \in Stoppers : stopPc[t] \in InStop => t = s
    /\ \A s \in Stoppers :
          /\ stopPc[s] \in {"lock", "closeShutdown"} => ~shutdownClosed /\ ~jobsClosed
          /\ stopPc[s] = "closeJobs" => ~jobsClosed
          /\ stopPc[s] \in InStop \ {"lock"} => closed

LockInv == TypeOK /\ Locking /\ Closing /\ NoPanic

(* The locks are free and the channels open at first. *)
LEMMA LockInit == Init => LockInv
<1> SUFFICES ASSUME Init PROVE Locking /\ Closing /\ NoPanic
  BY InitType DEF LockInv
<1> QED
  BY DEF Init, Locking, Closing, NoPanic, InStop

(* Submit sends only under the read lock, to an open channel. *)
LEMMA LockSubmit ==
    ASSUME LockInv, NEW j \in Jobs, SubmitStep(j)
    PROVE  LockInv'
<1>1. TypeOK'
  BY SubmitType DEF LockInv
<1>2. Closing'
  BY SubmitFrame DEF LockInv, Closing
<1>3. Locking' /\ NoPanic'
  <2> USE DEF LockInv, TypeOK, Locking, NoPanic, SubPcs
  <2>1. CASE Record(j)
    BY <2>1 DEF Record
  <2>2. CASE SubmitLock(j)
    BY <2>2 DEF SubmitLock
  <2>3. CASE CheckClosed(j)
    BY <2>3 DEF CheckClosed
  <2>4. CASE Send(j)
    BY <2>4 DEF Send
  <2>5. CASE SubmitReturn(j)
    BY <2>5 DEF SubmitReturn
  <2> QED
    BY <2>1, <2>2, <2>3, <2>4, <2>5 DEF SubmitStep
<1> QED
  BY <1>1, <1>2, <1>3 DEF LockInv

(* Stop closes each channel once, under the write lock. *)
LEMMA LockStop ==
    ASSUME LockInv, NEW s \in Stoppers, StopStep(s)
    PROVE  LockInv'
<1>1. TypeOK'
  BY StopType DEF LockInv
<1>2. Locking' /\ Closing' /\ NoPanic'
  <2> USE PoolAssumption DEF LockInv, TypeOK, Locking, Closing, NoPanic, InStop, StopPcs
  <2>1. CASE StopEnter(s)
    BY <2>1 DEF StopEnter
  <2>2. CASE StopLock(s)
    BY <2>2 DEF StopLock
  <2>3. CASE StopCloseShutdown(s)
    BY <2>3 DEF StopCloseShutdown
  <2>4. CASE StopCloseJobs(s)
    BY <2>4 DEF StopCloseJobs
  <2>5. CASE StopUnlock(s)
    BY <2>5 DEF StopUnlock
  <2>6. CASE StopReturn(s)
    BY <2>6 DEF StopReturn
  <2> QED
    BY <2>1, <2>2, <2>3, <2>4, <2>5, <2>6 DEF StopStep, StopBody
<1> QED
  BY <1>1, <1>2 DEF LockInv

(* Every step keeps the locking discipline. *)
LEMMA LockNext == LockInv /\ [Next]_vars => LockInv'
<1> SUFFICES ASSUME LockInv, [Next]_vars PROVE LockInv'
  OBVIOUS
<1>1. ASSUME NEW j \in Jobs, SubmitStep(j) PROVE LockInv'
  BY <1>1, LockSubmit
<1>2. ASSUME NEW s \in Stoppers, StopStep(s) PROVE LockInv'
  BY <1>2, LockStop
<1>3. ASSUME UNCHANGED <<submitVars, stopVars, panicked>> PROVE LockInv'
  <2>1. TypeOK'
    BY NextType DEF LockInv
  <2>2. Locking' /\ Closing' /\ NoPanic'
    BY <1>3 DEF LockInv, Locking, Closing, NoPanic
  <2> QED
    BY <2>1, <2>2 DEF LockInv
<1>4. ASSUME NEW c \in Clearers, ClearStep(c) PROVE LockInv'
  BY <1>3, <1>4, ClearFrame
<1>5. ASSUME NEW w \in Workers, WorkerStep(w) PROVE LockInv'
  BY <1>3, <1>5, WorkerFrame
<1>6. CASE Pause \/ Resume \/ UNCHANGED vars
  BY <1>3, <1>6 DEF Pause, Resume, vars
<1> QED
  BY <1>1, <1>2, <1>4, <1>5, <1>6 DEF Next

(* submitMu keeps Submit's sends and Stop's closes apart, and stopOnce makes *)
(* repeated Stop calls harmless: however many there are and however they     *)
(* interleave, the pool never panics on a closed channel.                    *)
THEOREM PoolNeverPanics == Spec => []NoPanic
<1>1. Spec => []LockInv
  BY LockInit, LockNext, PTL DEF Spec
<1> QED
  BY <1>1, PTL DEF LockInv

-----------------------------------------------------------------------------
(* Ownership: who holds a job, and what its status then is. *)

StatusAt(p) ==
    CASE p \in {"mode", "mark"} -> "pending"
      [] p = "countOk"          -> "completed"
      [] p = "countFail"        -> "failed"
      [] OTHER                  -> "processing"

SubmitStatus ==
    \A j \in Jobs :
        /\ sub[j] = "new" => status[j] = "none"
        /\ sub[j] \in {"recorded", "locked", "sending"} => status[j] = "pending"
        /\ sub[j] = "rejected" => status[j] = "failed"

QueueStatus ==
    \A i \in DOMAIN queue : sub[queue[i]] = "accepted" /\ status[queue[i]] = "pending"

HeldStatus ==
    \A c \in Clearers :
        /\ clearPc[c] = "mark" <=> held[c] # None
        /\ held[c] # None => sub[held[c]] = "accepted" /\ status[held[c]] = "pending"

JobStatus ==
    \A w \in Workers :
        /\ pc[w] \in BusyPcs <=> job[w] # None
        /\ job[w] # None =>
              sub[job[w]] = "accepted" /\ status[job[w]] = StatusAt(pc[w])

OwnInv ==
    /\ LockInv
    /\ SubmitStatus /\ QueueStatus /\ HeldStatus /\ JobStatus
    /\ OneOwner /\ AcceptedAccounted

Draining == (\E w \in Workers : pc[w] = "drained") => queue = <<>> /\ jobsClosed

PauseInv ==
    /\ ~paused => overrun = {}
    /\ \A w \in overrun : pc[w] # "recv"

(* Receiving: the head leaves, the others move up by one. *)
LEMMA TakeHead ==
    ASSUME queue \in Seq(Jobs), queue # <<>>
    PROVE  /\ Head(queue) \in Jobs /\ Head(queue) = queue[1] /\ 1 \in DOMAIN queue
           /\ Tail(queue) \in Seq(Jobs)
           /\ \A i \in DOMAIN Tail(queue) :
                 i + 1 \in DOMAIN queue /\ Tail(queue)[i] = queue[i + 1] /\ i + 1 # 1
           /\ \A i \in DOMAIN queue :
                 i # 1 => i - 1 \in DOMAIN Tail(queue) /\ Tail(queue)[i - 1] = queue[i]
<1>1. /\ Len(queue) \in Nat /\ Len(queue) > 0 /\ DOMAIN queue = 1 .. Len(queue)
  BY LenProperties, EmptySeq
<1>2. /\ Tail(queue) \in Seq(Jobs) /\ Len(Tail(queue)) = Len(queue) - 1
      /\ \A i \in 1 .. Len(Tail(queue)) : Tail(queue)[i] = queue[i + 1]
  BY HeadTailProperties
<1>3. DOMAIN Tail(queue) = 1 .. (Len(queue) - 1)
  BY <1>1, <1>2, LenProperties
<1> QED
  BY <1>1, <1>2, <1>3, HeadTailProperties

(* Sending: the others stay, the new job is last. *)
LEMMA AppendLast ==
    ASSUME queue \in Seq(Jobs), NEW j \in Jobs
    PROVE  /\ DOMAIN Append(queue, j) = DOMAIN queue \cup {Len(queue) + 1}
           /\ \A i \in DOMAIN queue : Append(queue, j)[i] = queue[i]
           /\ Append(queue, j)[Len(queue) + 1] = j
           /\ Len(queue) + 1 \notin DOMAIN queue
<1>1. Len(queue) \in Nat /\ DOMAIN queue = 1 .. Len(queue)
  BY LenProperties
<1>2. /\ Append(queue, j) \in Seq(Jobs) /\ Len(Append(queue, j)) = Len(queue) + 1
      /\ \A i \in 1 .. Len(queue) : Append(queue, j)[i] = queue[i]
      /\ Append(queue, j)[Len(queue) + 1] = j
  BY AppendProperties
<1>3. DOMAIN Append(queue, j) = 1 .. (Len(queue) + 1)
  BY <1>2, LenProperties
<1> QED
  BY <1>1, <1>2, <1>3

(* A receiver takes exactly the head out of a queue without duplicates. *)
LEMMA TakeOne ==
    ASSUME queue \in Seq(Jobs), queue # <<>>, queue' = Tail(queue),
           \A i, k \in DOMAIN queue : queue[i] = queue[k] => i = k,
           NEW h \in Jobs, h = Head(queue)
    PROVE  /\ InQueue(h) /\ ~InQueue(h)'
           /\ \A k \in Jobs \ {h} : InQueue(k)' <=> InQueue(k)
           /\ \A i, k \in DOMAIN queue' : queue'[i] = queue'[k] => i = k
<1> USE DEF InQueue
<1>1. InQueue(h)
  BY TakeHead
<1>2. ~InQueue(h)'
  BY TakeHead
<1>3. ASSUME NEW k \in Jobs \ {h} PROVE InQueue(k)' <=> InQueue(k)
  <2>1. InQueue(k)' => InQueue(k)
    BY TakeHead
  <2>2. ASSUME InQueue(k) PROVE InQueue(k)'
    <3>1. PICK i \in DOMAIN queue : queue[i] = k
      BY <2>2
    <3>2. i # 1
      BY <3>1, TakeHead
    <3>3. i - 1 \in DOMAIN Tail(queue) /\ Tail(queue)[i - 1] = k
      BY <3>1, <3>2, TakeHead
    <3> QED
      BY <3>3
  <2> QED
    BY <2>1, <2>2
<1>4. \A i, k \in DOMAIN queue' : queue'[i] = queue'[k] => i = k
  <2>1. DOMAIN queue' \subseteq Int
    BY TakeHead, LenProperties
  <2> QED
    BY <2>1, TakeHead
<1> QED
  BY <1>1, <1>2, <1>3, <1>4

(* At first nobody owns a job. *)
LEMMA OwnInit == Init => OwnInv
<1> SUFFICES ASSUME Init PROVE OwnInv
  OBVIOUS
<1>1. DOMAIN queue = {}
  BY DEF Init
<1>2. LockInv
  BY LockInit
<1> QED
  BY <1>1, <1>2 DEF Init, OwnInv, SubmitStatus, QueueStatus, HeldStatus, JobStatus,
     OneOwner, AcceptedAccounted, InQueue, BusyPcs

(* Submit hands a job over to the queue, or keeps and fails it. *)
LEMMA OwnSubmit ==
    ASSUME OwnInv, NEW j \in Jobs, SubmitStep(j)
    PROVE  OwnInv'
<1> USE DEF OwnInv, LockInv, TypeOK, SubPcs, SubmitStatus, QueueStatus, HeldStatus,
        JobStatus, OneOwner, AcceptedAccounted, InQueue
<1>0. LockInv'
  BY LockSubmit
<1>1. UNCHANGED <<pc, localVars, clearVars>>
  BY SubmitFrame
<1>2. ASSUME UNCHANGED queue,
             \A k \in Jobs \ {j} : sub'[k] = sub[k] /\ status'[k] = status[k],
             sub[j] # "accepted" \/ UNCHANGED <<sub, status>>,
             sub'[j] # "accepted" \/ UNCHANGED <<sub, status>>,
             SubmitStatus'
      PROVE  OwnInv'
  <2>1. QueueStatus' /\ HeldStatus' /\ JobStatus'
    BY <1>1, <1>2
  <2>2. OneOwner'
    BY <1>1, <1>2
  <2>3. \A k \in Jobs : Owned(k)' <=> Owned(k)
    BY <1>1, <1>2 DEF Owned
  <2>4. ~UNCHANGED <<sub, status>> => ~Owned(j)
    BY <1>2, PoolAssumption DEF Owned
  <2>5. AcceptedAccounted'
    BY <1>2, <2>3, <2>4 DEF Terminal
  <2> QED
    BY <1>0, <1>2, <2>1, <2>2, <2>5
<1>3. CASE Record(j)
  BY <1>2, <1>3 DEF Record
<1>4. CASE SubmitLock(j)
  BY <1>2, <1>4 DEF SubmitLock
<1>5. CASE CheckClosed(j)
  BY <1>2, <1>5 DEF CheckClosed
<1>6. CASE Send(j)
  <2>1. CASE Len(queue) < QueueSize
    <3>1. /\ queue' = Append(queue, j)
          /\ sub' = [sub EXCEPT ![j] = "accepted"]
          /\ UNCHANGED status /\ sub[j] = "sending"
      BY <1>6, <2>1 DEF Send
    <3>2. SubmitStatus' /\ HeldStatus' /\ JobStatus'
      BY <1>1, <3>1
    <3>3. QueueStatus'
      BY <3>1, AppendLast
    <3>4. OneOwner'
      BY <1>1, <3>1, AppendLast
    <3>5. \A k \in Jobs : Owned(k)' <=> Owned(k) \/ k = j
      BY <1>1, <3>1, AppendLast DEF Owned
    <3>6. AcceptedAccounted'
      BY <3>1, <3>5
    <3> QED
      BY <1>0, <3>2, <3>3, <3>4, <3>6
  <2>2. CASE ~(Len(queue) < QueueSize)
    <3>1. /\ UNCHANGED queue /\ sub[j] = "sending"
          /\ sub' = [sub EXCEPT ![j] = "rejected"]
          /\ status' = [status EXCEPT ![j] = "failed"]
      BY <1>6, <2>2 DEF Send
    <3>2. SubmitStatus'
      BY <3>1
    <3>3. /\ \A k \in Jobs \ {j} : sub'[k] = sub[k] /\ status'[k] = status[k]
          /\ sub'[j] = "rejected"
      BY <3>1
    <3> QED
      BY <1>2, <3>1, <3>2, <3>3
  <2> QED
    BY <2>1, <2>2
<1>7. CASE SubmitReturn(j)
  BY <1>2, <1>7 DEF SubmitReturn
<1> QED
  BY <1>3, <1>4, <1>5, <1>6, <1>7 DEF SubmitStep

(* Stop changes no owner. *)
LEMMA OwnStop ==
    ASSUME OwnInv, NEW s \in Stoppers, StopStep(s)
    PROVE  OwnInv'
<1>1. LockInv'
  BY LockStop DEF OwnInv
<1> QED
  BY <1>1, StopFrame DEF OwnInv, SubmitStatus, QueueStatus, HeldStatus, JobStatus,
     OneOwner, AcceptedAccounted, Owned, InQueue

(* Clear takes a job out of the queue and settles it as cancelled. *)
LEMMA OwnClear ==
    ASSUME OwnInv, NEW c \in Clearers, ClearStep(c)
    PROVE  OwnInv'
<1> USE DEF OwnInv, LockInv, TypeOK, SubmitStatus, QueueStatus, HeldStatus, JobStatus,
        OneOwner, AcceptedAccounted, InQueue
<1>0. LockInv'
  BY LockNext DEF Next
<1>1. UNCHANGED <<sub, pc, job>>
  BY ClearFrame
<1>2. CASE ClearBegin(c) \/ ClearReturn(c)
  BY <1>0, <1>1, <1>2 DEF ClearBegin, ClearReturn, Owned
<1>3. CASE ClearTake(c)
  <2>0. PICK h \in Jobs : h = Head(queue)
    BY <1>3, TakeHead DEF ClearTake
  <2>1. /\ queue # <<>> /\ queue' = Tail(queue) /\ clearPc[c] = "loop"
        /\ held' = [held EXCEPT ![c] = h]
        /\ clearPc' = [clearPc EXCEPT ![c] = "mark"]
        /\ UNCHANGED status
    BY <1>3, <2>0 DEF ClearTake
  <2>2. /\ InQueue(h) /\ ~InQueue(h)'
        /\ \A k \in Jobs \ {h} : InQueue(k)' <=> InQueue(k)
        /\ \A i, k \in DOMAIN queue' : queue'[i] = queue'[k] => i = k
    BY <2>0, <2>1, TakeOne
  <2>3. SubmitStatus' /\ QueueStatus' /\ JobStatus'
    BY <1>1, <2>1, TakeHead
  <2>4. HeldStatus'
    BY <1>1, <2>0, <2>1, <2>2, PoolAssumption
  <2>5. OneOwner'
    BY <1>1, <2>1, <2>2
  <2>6. AcceptedAccounted'
    BY <1>1, <2>1, <2>2, PoolAssumption DEF Owned
  <2> QED
    BY <1>0, <2>3, <2>4, <2>5, <2>6
<1>4. CASE ClearMark(c)
  <2>1. /\ held[c] # None /\ held[c] \in Jobs
        /\ status' = [status EXCEPT ![held[c]] = "cancelled"]
        /\ held' = [held EXCEPT ![c] = None]
        /\ clearPc' = [clearPc EXCEPT ![c] = "loop"]
        /\ UNCHANGED queue
    BY <1>4 DEF ClearMark
  <2>2. SubmitStatus' /\ QueueStatus' /\ JobStatus'
    BY <1>1, <2>1
  <2>3. HeldStatus'
    BY <1>1, <2>1
  <2>4. OneOwner'
    BY <1>1, <2>1
  <2>5. \A k \in Jobs \ {held[c]} : Owned(k)' <=> Owned(k)
    BY <1>1, <2>1, PoolAssumption DEF Owned
  <2>6. AcceptedAccounted'
    <3>1. \A k \in Jobs \ {held[c]} : status'[k] = status[k]
      BY <2>1
    <3>2. sub[held[c]] = "accepted" /\ status'[held[c]] \in Terminal
      BY <2>1 DEF Terminal
    <3> QED
      BY <1>1, <2>5, <3>1, <3>2
  <2> QED
    BY <1>0, <2>2, <2>3, <2>4, <2>6
<1> QED
  BY <1>2, <1>3, <1>4 DEF ClearStep, ClearBody

(* A worker takes a job out of the queue. *)
LEMMA OwnLoop ==
    ASSUME OwnInv, NEW w \in Workers, LoopStep(w)
    PROVE  OwnInv'
<1> USE DEF OwnInv, LockInv, TypeOK, SubmitStatus, QueueStatus, HeldStatus, JobStatus,
        OneOwner, AcceptedAccounted
<1>0. LockInv'
  BY LockNext DEF Next, WorkerStep
<1>1. UNCHANGED <<sub, clearVars>>
  BY WorkerFrame DEF WorkerStep
<1>2. CASE Receive(w)
  <2>0. PICK h \in Jobs : h = Head(queue)
    BY <1>2, TakeHead DEF Receive
  <2>1. /\ queue # <<>> /\ queue' = Tail(queue) /\ pc[w] = "recv"
        /\ job' = [job EXCEPT ![w] = h]
        /\ pc' = [pc EXCEPT ![w] = "mode"]
        /\ UNCHANGED status
    BY <1>2, <2>0 DEF Receive
  <2>2. /\ InQueue(h) /\ ~InQueue(h)'
        /\ \A k \in Jobs \ {h} : InQueue(k)' <=> InQueue(k)
        /\ \A i, k \in DOMAIN queue' : queue'[i] = queue'[k] => i = k
    BY <2>0, <2>1, TakeOne
  <2>3. SubmitStatus' /\ QueueStatus' /\ HeldStatus'
    BY <1>1, <2>1, TakeHead
  <2>4. JobStatus'
    BY <1>1, <2>0, <2>1, <2>2, PoolAssumption DEF InQueue, StatusAt, BusyPcs
  <2>5. OneOwner'
    BY <1>1, <2>1, <2>2
  <2>6. AcceptedAccounted'
    <3>1. job[w] = None
      BY <2>1 DEF BusyPcs
    <3>2. \A k \in Jobs : Owned(k)' <=> Owned(k)
      BY <1>1, <2>1, <2>2, <3>1, PoolAssumption DEF Owned
    <3> QED
      BY <1>1, <2>1, <3>2
  <2> QED
    BY <1>0, <2>3, <2>4, <2>5, <2>6
<1>3. CASE ~Receive(w)
  <2>1. /\ pc[w] \in IdlePcs /\ UNCHANGED <<queue, job, status>>
        /\ \E p \in IdlePcs : pc' = [pc EXCEPT ![w] = p]
    BY <1>3 DEF LoopStep, GatePass, GatePark, ParkTimer, ParkShutdown, ReceiveClosed,
       GoTo, IdlePcs
  <2>2. JobStatus'
    <3>1. pc[w] \notin BusyPcs /\ pc'[w] \notin BusyPcs
      BY <2>1 DEF IdlePcs, BusyPcs
    <3> QED
      BY <1>1, <2>1, <3>1
  <2>3. OneOwner' /\ AcceptedAccounted'
    BY <1>1, <2>1 DEF Owned, InQueue
  <2> QED
    BY <1>0, <1>1, <2>1, <2>2, <2>3
<1> QED
  BY <1>2, <1>3

(* A worker's job goes on to its final status in the worker's hands. *)
LEMMA OwnProcess ==
    ASSUME OwnInv, NEW w \in Workers, ProcessStep(w)
    PROVE  OwnInv'
<1> USE DEF OwnInv, LockInv, TypeOK, SubmitStatus, QueueStatus, HeldStatus, JobStatus,
        OneOwner, AcceptedAccounted
<1>0. LockInv'
  BY LockNext DEF Next, WorkerStep
<1>1. UNCHANGED <<sub, clearVars>>
  BY WorkerFrame DEF WorkerStep
<1>2. /\ pc[w] \in BusyPcs /\ job[w] \in Jobs /\ job[w] # None /\ UNCHANGED queue
      /\ sub[job[w]] = "accepted"
  <2>1. pc[w] \in BusyPcs /\ UNCHANGED queue
    BY DEF ProcessStep, ReadMode, MarkProcessing, Resolve, ResolveError, TgSynth, TgSend,
       TgSendError, LocalSynth, PlayRefused, PlayBegin, PlayEnd, PlayError, Finish,
       FailJob, Count, GoTo, Deliver, SetOutcome, BusyPcs
  <2> QED
    BY <2>1
<1>3. ASSUME NEW p \in BusyPcs, pc' = [pc EXCEPT ![w] = p], UNCHANGED job,
             status' = [status EXCEPT ![job[w]] = StatusAt(p)]
      PROVE  OwnInv'
  <2>1. \A k \in Jobs \ {job[w]} : status'[k] = status[k]
    BY <1>3
  <2>2. status'[job[w]] = StatusAt(p)
    BY <1>2, <1>3
  <2>3. SubmitStatus'
    BY <1>1, <1>2, <2>1
  <2>4. QueueStatus' /\ HeldStatus'
    BY <1>1, <1>2, <2>1 DEF InQueue
  <2>5. JobStatus'
    BY <1>1, <1>2, <1>3, <2>1, <2>2
  <2>6. \A k \in Jobs : Owned(k)' <=> Owned(k)
    BY <1>1, <1>2, <1>3 DEF Owned, InQueue
  <2>7. AcceptedAccounted'
    BY <1>1, <1>2, <2>1, <2>6 DEF Owned
  <2>8. OneOwner'
    BY <1>1, <1>2, <1>3 DEF InQueue
  <2> QED
    BY <1>0, <2>3, <2>4, <2>5, <2>7, <2>8
<1>4. ASSUME NEW p \in BusyPcs, pc' = [pc EXCEPT ![w] = p], UNCHANGED <<job, status>>,
             StatusAt(p) = StatusAt(pc[w])
      PROVE  OwnInv'
  <2>1. status' = [status EXCEPT ![job[w]] = StatusAt(p)]
    BY <1>2, <1>4
  <2> QED
    BY <1>3, <1>4, <2>1
<1>5. CASE ReadMode(w)
  BY <1>4, <1>5 DEF ReadMode, BusyPcs, StatusAt
<1>6. CASE MarkProcessing(w)
  BY <1>3, <1>6 DEF MarkProcessing, BusyPcs, StatusAt
<1>7. CASE Resolve(w) \/ ResolveError(w)
  BY <1>4, <1>7 DEF Resolve, ResolveError, AfterResolve, GoTo, BusyPcs, StatusAt
<1>8. CASE TgSynth(w) \/ TgSend(w) \/ TgSendError(w) \/ LocalSynth(w)
  BY <1>4, <1>8 DEF TgSynth, TgSend, TgSendError, LocalSynth, Deliver, GoTo, BusyPcs,
     StatusAt
<1>9. CASE PlayRefused(w) \/ PlayBegin(w) \/ PlayEnd(w) \/ PlayError(w)
  BY <1>4, <1>9 DEF PlayRefused, PlayBegin, PlayEnd, PlayError, Deliver, GoTo, BusyPcs,
     StatusAt
<1>10. CASE Finish(w) \/ FailJob(w)
  BY <1>3, <1>10 DEF Finish, FailJob, SetOutcome, BusyPcs, StatusAt
<1>11. CASE Count(w)
  <2>1. /\ pc[w] \in {"countOk", "countFail"}
        /\ pc' = [pc EXCEPT ![w] = "gate"]
        /\ job' = [job EXCEPT ![w] = None]
        /\ UNCHANGED status
    BY <1>11 DEF Count
  <2>2. JobStatus'
    BY <1>1, <1>2, <2>1 DEF BusyPcs
  <2>3. \A k \in Jobs \ {job[w]} : Owned(k)' <=> Owned(k)
    BY <1>1, <1>2, <2>1, PoolAssumption DEF Owned, InQueue
  <2>4. status[job[w]] \in Terminal
    BY <1>2, <2>1 DEF StatusAt, Terminal
  <2>5. AcceptedAccounted'
    BY <1>1, <1>2, <2>1, <2>3, <2>4
  <2>6. OneOwner'
    BY <1>1, <1>2, <2>1 DEF InQueue
  <2> QED
    BY <1>0, <1>1, <1>2, <2>1, <2>2, <2>5, <2>6
<1> QED
  BY <1>5, <1>6, <1>7, <1>8, <1>9, <1>10, <1>11 DEF ProcessStep

(* Every step keeps one owner per job. *)
LEMMA OwnNext == OwnInv /\ [Next]_vars => OwnInv'
<1> SUFFICES ASSUME OwnInv, [Next]_vars PROVE OwnInv'
  OBVIOUS
<1>1. ASSUME NEW j \in Jobs, SubmitStep(j) PROVE OwnInv'
  BY <1>1, OwnSubmit
<1>2. ASSUME NEW s \in Stoppers, StopStep(s) PROVE OwnInv'
  BY <1>2, OwnStop
<1>3. ASSUME NEW c \in Clearers, ClearStep(c) PROVE OwnInv'
  BY <1>3, OwnClear
<1>4. ASSUME NEW w \in Workers, WorkerStep(w) PROVE OwnInv'
  BY <1>4, OwnLoop, OwnProcess DEF WorkerStep
<1>5. CASE Pause \/ Resume \/ UNCHANGED vars
  <2>1. LockInv'
    BY LockNext DEF OwnInv
  <2> QED
    BY <1>5, <2>1 DEF Pause, Resume, vars, OwnInv, SubmitStatus, QueueStatus, HeldStatus,
       JobStatus, OneOwner, AcceptedAccounted, Owned, InQueue
<1> QED
  BY <1>1, <1>2, <1>3, <1>4, <1>5 DEF Next

(* So ownership holds for ever. *)
LEMMA OwnCorrect == Spec => []OwnInv
BY OwnInit, OwnNext, PTL DEF Spec

(* No interleaving of workers and Clear calls lets a job have two owners:  *)
(* it is spoken at most once, and never both spoken and cancelled.         *)
THEOREM PoolOneOwner == Spec => []OneOwner
BY OwnCorrect, PTL DEF OwnInv

(* No accepted job is lost and no rejected job runs. *)
THEOREM PoolAccounted == Spec => []AcceptedAccounted
BY OwnCorrect, PTL DEF OwnInv

-----------------------------------------------------------------------------
(* Terminal statuses are final. *)

(* No step changes the status of a settled job. *)
LEMMA FinalStep ==
    ASSUME OwnInv, [Next]_vars, NEW j \in Jobs, status[j] \in Terminal
    PROVE  status'[j] = status[j]
<1> USE DEF OwnInv, LockInv, TypeOK, SubmitStatus, HeldStatus, JobStatus, Terminal
<1>1. ASSUME NEW k \in Jobs, SubmitStep(k) PROVE status'[j] = status[j]
  BY <1>1 DEF SubmitStep, Record, SubmitLock, CheckClosed, Send, SubmitReturn
<1>2. ASSUME NEW s \in Stoppers, StopStep(s) PROVE status'[j] = status[j]
  BY <1>2, StopFrame
<1>3. ASSUME NEW c \in Clearers, ClearStep(c) PROVE status'[j] = status[j]
  BY <1>3 DEF ClearStep, ClearBody, ClearBegin, ClearTake, ClearMark, ClearReturn
<1>4. ASSUME NEW w \in Workers, WorkerStep(w) PROVE status'[j] = status[j]
  <2>1. CASE MarkProcessing(w) \/ Finish(w) \/ FailJob(w)
    <3>1. /\ pc[w] \in {"mark", "finish", "fail"}
          /\ \E st \in Statuses : status' = [status EXCEPT ![job[w]] = st]
      BY <2>1 DEF MarkProcessing, Finish, FailJob, SetOutcome, Statuses
    <3>2. status[job[w]] \notin Terminal
      BY <3>1 DEF StatusAt, BusyPcs
    <3> QED
      BY <3>1, <3>2
  <2>2. CASE ~(MarkProcessing(w) \/ Finish(w) \/ FailJob(w))
    BY <1>4, <2>2 DEF WorkerStep, LoopStep, ProcessStep, GoTo, Deliver, GatePass, GatePark,
       ParkTimer, ParkShutdown, Receive, ReceiveClosed, ReadMode, Resolve, ResolveError,
       TgSynth, TgSend, TgSendError, LocalSynth, PlayRefused, PlayBegin, PlayEnd,
       PlayError, Count
  <2> QED
    BY <2>1, <2>2
<1>5. CASE Pause \/ Resume \/ UNCHANGED vars
  BY <1>5 DEF Pause, Resume, vars
<1> QED
  BY <1>1, <1>2, <1>3, <1>4, <1>5 DEF Next

(* Nothing completes a cancelled job, cancels a finished one or revives a *)
(* rejected one, however Clear, Submit, Stop and the workers interleave.  *)
THEOREM PoolStatusFinal == Spec => StatusFinal
<1>1. OwnInv /\ [Next]_vars =>
        [\A j \in Jobs : status[j] \in Terminal => status'[j] = status[j]]_vars
  BY FinalStep
<1> QED
  BY <1>1, OwnCorrect, PTL DEF Spec, StatusFinal

-----------------------------------------------------------------------------
(* What a pause lets through. *)

(* A worker in the overrun set has not gone back to the receive. *)
LEMMA PauseNext == TypeOK /\ PauseInv /\ [Next]_vars => PauseInv'
<1> SUFFICES ASSUME TypeOK, PauseInv, [Next]_vars PROVE PauseInv'
  OBVIOUS
<1> USE DEF PauseInv, TypeOK
<1>1. ASSUME NEW w \in Workers, WorkerStep(w) PROVE PauseInv'
  <2>1. CASE Receive(w)
    BY <2>1 DEF Receive
  <2>2. CASE GatePass(w)
    BY <2>2 DEF GatePass, GoTo
  <2>3. CASE ~Receive(w) /\ ~GatePass(w)
    <3>1. /\ UNCHANGED pauseVars
          /\ pc'[w] # "recv" /\ \A v \in Workers \ {w} : pc'[v] = pc[v]
      BY <1>1, <2>3 DEF WorkerStep, LoopStep, ProcessStep, GoTo, Deliver, SetOutcome,
         GatePark, ParkTimer, ParkShutdown, ReceiveClosed, ReadMode, MarkProcessing,
         Resolve, ResolveError, AfterResolve, TgSynth, TgSend, TgSendError, LocalSynth,
         PlayRefused, PlayBegin, PlayEnd, PlayError, Finish, FailJob, Count
    <3> QED
      BY <3>1
  <2> QED
    BY <2>1, <2>2, <2>3
<1>2. CASE Pause \/ Resume \/ UNCHANGED vars
  BY <1>2 DEF Pause, Resume, vars
<1>3. ASSUME UNCHANGED <<pauseVars, pc>> PROVE PauseInv'
  BY <1>3
<1> QED
  BY <1>1, <1>2, <1>3, SubmitFrame, StopFrame, ClearFrame DEF Next

(* During one pause no worker takes a second job, whenever it is resumed, *)
(* stopped or cleared: the pause flag read before the receive is stale at *)
(* most once per worker.                                                  *)
THEOREM PoolPauseBound == Spec => AtMostOnePerPause
<1>1. Init => PauseInv
  BY DEF Init, PauseInv
<1>2. PauseInv =>
        [\A w \in Workers :
            paused /\ pc[w] = "recv" /\ pc'[w] = "mode" => w \notin overrun]_vars
  BY DEF PauseInv
<1> QED
  BY <1>1, <1>2, PauseNext, PoolTypeCorrect, PTL DEF Spec, AtMostOnePerPause

-----------------------------------------------------------------------------
(* What Stop leaves behind. *)

(* Once a worker saw the channel closed and empty, it stays so. *)
LEMMA DrainNext == OwnInv /\ Draining /\ [Next]_vars => Draining'
<1> SUFFICES ASSUME OwnInv, Draining, [Next]_vars PROVE Draining'
  OBVIOUS
<1> USE DEF OwnInv, LockInv, TypeOK, Draining
<1>1. ASSUME NEW j \in Jobs, SubmitStep(j) PROVE Draining'
  <2>1. UNCHANGED <<pc, jobsClosed>>
    BY <1>1, SubmitFrame
  <2>2. jobsClosed => UNCHANGED queue
    BY <1>1 DEF Locking, SubmitStep, Record, SubmitLock, CheckClosed, Send, SubmitReturn
  <2> QED
    BY <2>1, <2>2
<1>2. ASSUME NEW s \in Stoppers, StopStep(s) PROVE Draining'
  BY <1>2 DEF StopStep, StopBody, StopEnter, StopLock, StopCloseShutdown, StopCloseJobs,
     StopUnlock, StopReturn
<1>3. ASSUME NEW c \in Clearers, ClearStep(c) PROVE Draining'
  BY <1>3 DEF ClearStep, ClearBody, ClearBegin, ClearTake, ClearMark, ClearReturn
<1>4. ASSUME NEW w \in Workers, WorkerStep(w) PROVE Draining'
  <2>1. CASE Receive(w) \/ ReceiveClosed(w)
    BY <2>1 DEF Receive, ReceiveClosed, GoTo
  <2>2. CASE ~(Receive(w) \/ ReceiveClosed(w))
    <3>1. /\ UNCHANGED <<queue, jobsClosed>>
          /\ pc'[w] # "drained" /\ \A v \in Workers \ {w} : pc'[v] = pc[v]
      BY <1>4, <2>2 DEF WorkerStep, LoopStep, ProcessStep, GoTo, Deliver, SetOutcome,
         GatePass, GatePark, ParkTimer, ParkShutdown, ReadMode, MarkProcessing, Resolve,
         ResolveError, AfterResolve, TgSynth, TgSend, TgSendError, LocalSynth,
         PlayRefused, PlayBegin, PlayEnd, PlayError, Finish, FailJob, Count
    <3> QED
      BY <3>1
  <2> QED
    BY <2>1, <2>2
<1>5. CASE Pause \/ Resume \/ UNCHANGED vars
  BY <1>5 DEF Pause, Resume, vars
<1> QED
  BY <1>1, <1>2, <1>3, <1>4, <1>5 DEF Next

(* A worker that leaves through the closed channel leaves it empty for good: *)
(* after that no Submit can add to it.                                       *)
THEOREM PoolDrains == Spec => []DrainedLeavesNothing
<1>1. Init => Draining
  BY DEF Init, Draining
<1>2. Draining => DrainedLeavesNothing
  BY DEF Draining, DrainedLeavesNothing
<1> QED
  BY <1>1, <1>2, DrainNext, OwnCorrect, PTL DEF Spec

-----------------------------------------------------------------------------
(* The counters. *)

AtPc(p) == {w \in Workers : pc[w] = p}
Completed == {j \in Jobs : status[j] = "completed"}
FailedInPool == {j \in Jobs : status[j] = "failed" /\ sub[j] = "accepted"}

(* The sets that the counters count are finite. *)
LEMMA CountSets ==
    /\ IsFiniteSet(AtPc("countOk")) /\ IsFiniteSet(AtPc("countFail"))
    /\ IsFiniteSet(Completed) /\ IsFiniteSet(FailedInPool)
BY FinitelyMany, FS_Subset DEF AtPc, Completed, FailedInPool

(* The sets behind the counters move only with the steps that set an outcome *)
(* and the step that counts it.                                              *)
LEMMA CountFrame ==
    ASSUME OwnInv, [Next]_vars,
           \A w \in Workers : ~(Finish(w) \/ FailJob(w) \/ Count(w))
    PROVE  /\ UNCHANGED <<processed, failed>>
           /\ AtPc("countOk")' = AtPc("countOk") /\ AtPc("countFail")' = AtPc("countFail")
           /\ Completed' = Completed /\ FailedInPool' = FailedInPool
<1> USE DEF OwnInv, LockInv, TypeOK, AtPc, Completed, FailedInPool
<1>1. ASSUME NEW j \in Jobs, SubmitStep(j)
      PROVE  /\ UNCHANGED <<processed, failed, pc>>
             /\ Completed' = Completed /\ FailedInPool' = FailedInPool
  <2>1. UNCHANGED <<processed, failed, pc>>
    BY <1>1, SubmitFrame
  <2>2. /\ sub[j] \notin {"accepted", "rejected"} \/ UNCHANGED <<sub, status>>
        /\ status'[j] # "completed" \/ UNCHANGED status
        /\ status'[j] = "failed" => sub'[j] # "accepted" \/ UNCHANGED <<sub, status>>
        /\ \A k \in Jobs \ {j} : status'[k] = status[k] /\ sub'[k] = sub[k]
    BY <1>1 DEF SubmitStep, Record, SubmitLock, CheckClosed, Send, SubmitReturn,
       SubmitStatus
  <2>3. status[j] \notin {"completed", "failed"} \/ UNCHANGED <<sub, status>>
    BY <2>2 DEF SubmitStatus, SubPcs
  <2> QED
    BY <2>1, <2>2, <2>3
<1>2. ASSUME NEW s \in Stoppers, StopStep(s)
      PROVE  UNCHANGED <<processed, failed, pc, status, sub>>
  BY <1>2, StopFrame
<1>3. ASSUME NEW c \in Clearers, ClearStep(c)
      PROVE  /\ UNCHANGED <<processed, failed, pc, sub>>
             /\ Completed' = Completed /\ FailedInPool' = FailedInPool
  <2>1. UNCHANGED <<processed, failed, pc, sub>>
    BY <1>3, ClearFrame
  <2>2. \/ UNCHANGED status
        \/ \E h \in Jobs : status[h] = "pending" /\ status' = [status EXCEPT ![h] = "cancelled"]
    BY <1>3 DEF ClearStep, ClearBody, ClearBegin, ClearTake, ClearMark, ClearReturn,
       HeldStatus
  <2> QED
    BY <2>1, <2>2
<1>4. ASSUME NEW w \in Workers, WorkerStep(w)
      PROVE  /\ UNCHANGED <<processed, failed, sub>>
             /\ AtPc("countOk")' = AtPc("countOk") /\ AtPc("countFail")' = AtPc("countFail")
             /\ Completed' = Completed /\ FailedInPool' = FailedInPool
  <2>1. /\ UNCHANGED <<processed, failed, sub>>
        /\ pc[w] \notin {"countOk", "countFail"} /\ pc'[w] \notin {"countOk", "countFail"}
        /\ \A v \in Workers \ {w} : pc'[v] = pc[v]
    BY <1>4 DEF WorkerStep, LoopStep, ProcessStep, GoTo, Deliver, GatePass, GatePark,
       ParkTimer, ParkShutdown, Receive, ReceiveClosed, ReadMode, MarkProcessing, Resolve,
       ResolveError, AfterResolve, TgSynth, TgSend, TgSendError, LocalSynth, PlayRefused,
       PlayBegin, PlayEnd, PlayError, Count
  <2>2. \/ UNCHANGED status
        \/ /\ status[job[w]] = "pending" /\ job[w] \in Jobs
           /\ status' = [status EXCEPT ![job[w]] = "processing"]
    BY <1>4 DEF WorkerStep, LoopStep, ProcessStep, GoTo, Deliver, GatePass, GatePark,
       ParkTimer, ParkShutdown, Receive, ReceiveClosed, ReadMode, MarkProcessing, Resolve,
       ResolveError, TgSynth, TgSend, TgSendError, LocalSynth, PlayRefused, PlayBegin,
       PlayEnd, PlayError, Count, JobStatus, StatusAt, BusyPcs
  <2> QED
    BY <2>1, <2>2
<1>5. CASE Pause \/ Resume \/ UNCHANGED vars
  BY <1>5 DEF Pause, Resume, vars
<1> QED
  BY <1>1, <1>2, <1>3, <1>4, <1>5 DEF Next

(* Every step keeps the counters equal to what they count. *)
LEMMA CountersNext == OwnInv /\ CountersExact /\ [Next]_vars => CountersExact'
<1> SUFFICES ASSUME OwnInv, CountersExact, [Next]_vars PROVE CountersExact'
  OBVIOUS
<1>0. CountersExact <=>
        /\ processed + Cardinality(AtPc("countOk")) = Cardinality(Completed)
        /\ failed + Cardinality(AtPc("countFail")) = Cardinality(FailedInPool)
  BY DEF CountersExact, AtPc, Completed, FailedInPool
<1>1. CountersExact' <=>
        /\ processed' + Cardinality(AtPc("countOk")') = Cardinality(Completed')
        /\ failed' + Cardinality(AtPc("countFail")') = Cardinality(FailedInPool')
  BY DEF CountersExact, AtPc, Completed, FailedInPool
<1>2. /\ Cardinality(AtPc("countOk")) \in Nat /\ Cardinality(AtPc("countFail")) \in Nat
      /\ Cardinality(Completed) \in Nat /\ Cardinality(FailedInPool) \in Nat
      /\ processed \in Nat /\ failed \in Nat
  BY CountSets, FS_CardinalityType DEF OwnInv, LockInv, TypeOK
<1>3. ASSUME NEW w \in Workers, Finish(w) PROVE CountersExact'
  <2>1. /\ pc[w] = "finish" /\ job[w] \in Jobs /\ status[job[w]] = "processing"
        /\ pc' = [pc EXCEPT ![w] = "countOk"]
        /\ status' = [status EXCEPT ![job[w]] = "completed"]
        /\ UNCHANGED <<processed, failed, sub>>
    BY <1>3 DEF Finish, SetOutcome, OwnInv, LockInv, TypeOK, JobStatus, StatusAt, BusyPcs
  <2>2. /\ AtPc("countOk")' = AtPc("countOk") \cup {w} /\ w \notin AtPc("countOk")
        /\ Completed' = Completed \cup {job[w]} /\ job[w] \notin Completed
        /\ AtPc("countFail")' = AtPc("countFail") /\ FailedInPool' = FailedInPool
    BY <2>1 DEF OwnInv, LockInv, TypeOK, AtPc, Completed, FailedInPool
  <2>3. /\ Cardinality(AtPc("countOk")') = Cardinality(AtPc("countOk")) + 1
        /\ Cardinality(Completed') = Cardinality(Completed) + 1
    BY <2>2, CountSets, FS_AddElement
  <2> QED
    BY <1>0, <1>1, <1>2, <2>1, <2>2, <2>3
<1>4. ASSUME NEW w \in Workers, FailJob(w) PROVE CountersExact'
  <2>1. /\ pc[w] = "fail" /\ job[w] \in Jobs /\ status[job[w]] = "processing"
        /\ sub[job[w]] = "accepted"
        /\ pc' = [pc EXCEPT ![w] = "countFail"]
        /\ status' = [status EXCEPT ![job[w]] = "failed"]
        /\ UNCHANGED <<processed, failed, sub>>
    BY <1>4 DEF FailJob, SetOutcome, OwnInv, LockInv, TypeOK, JobStatus, StatusAt, BusyPcs
  <2>2. /\ AtPc("countFail")' = AtPc("countFail") \cup {w} /\ w \notin AtPc("countFail")
        /\ FailedInPool' = FailedInPool \cup {job[w]} /\ job[w] \notin FailedInPool
        /\ AtPc("countOk")' = AtPc("countOk") /\ Completed' = Completed
    BY <2>1 DEF OwnInv, LockInv, TypeOK, AtPc, Completed, FailedInPool
  <2>3. /\ Cardinality(AtPc("countFail")') = Cardinality(AtPc("countFail")) + 1
        /\ Cardinality(FailedInPool') = Cardinality(FailedInPool) + 1
    BY <2>2, CountSets, FS_AddElement
  <2> QED
    BY <1>0, <1>1, <1>2, <2>1, <2>2, <2>3
<1>5. ASSUME NEW w \in Workers, Count(w) PROVE CountersExact'
  <2>1. /\ pc[w] \in {"countOk", "countFail"} /\ pc' = [pc EXCEPT ![w] = "gate"]
        /\ processed' = IF pc[w] = "countOk" THEN processed + 1 ELSE processed
        /\ failed' = IF pc[w] = "countFail" THEN failed + 1 ELSE failed
        /\ UNCHANGED <<status, sub>>
    BY <1>5, WorkerFrame DEF Count, WorkerStep, ProcessStep
  <2>2. Completed' = Completed /\ FailedInPool' = FailedInPool
    BY <2>1 DEF Completed, FailedInPool
  <2>3. ASSUME NEW p \in {"countOk", "countFail"}
        PROVE  AtPc(p)' = AtPc(p) \ {w}
    BY <2>1 DEF OwnInv, LockInv, TypeOK, AtPc
  <2>4. ASSUME NEW p \in {"countOk", "countFail"}
        PROVE  Cardinality(AtPc(p)') =
                  IF pc[w] = p THEN Cardinality(AtPc(p)) - 1 ELSE Cardinality(AtPc(p))
    <3>1. w \in AtPc(p) <=> pc[w] = p
      BY DEF AtPc
    <3>2. IsFiniteSet(AtPc(p))
      BY CountSets
    <3> QED
      BY <2>3, <3>1, <3>2, FS_RemoveElement
  <2>5. CASE pc[w] = "countOk"
    <3>1. /\ Cardinality(AtPc("countOk")') = Cardinality(AtPc("countOk")) - 1
          /\ Cardinality(AtPc("countFail")') = Cardinality(AtPc("countFail"))
          /\ processed' = processed + 1 /\ failed' = failed
      BY <2>1, <2>4, <2>5
    <3> QED
      BY <1>0, <1>1, <1>2, <2>2, <3>1
  <2>6. CASE pc[w] = "countFail"
    <3>1. /\ Cardinality(AtPc("countOk")') = Cardinality(AtPc("countOk"))
          /\ Cardinality(AtPc("countFail")') = Cardinality(AtPc("countFail")) - 1
          /\ processed' = processed /\ failed' = failed + 1
      BY <2>1, <2>4, <2>6
    <3> QED
      BY <1>0, <1>1, <1>2, <2>2, <3>1
  <2> QED
    BY <2>1, <2>5, <2>6
<1>6. CASE \A w \in Workers : ~(Finish(w) \/ FailJob(w) \/ Count(w))
  BY <1>0, <1>1, <1>6, CountFrame
<1> QED
  BY <1>3, <1>4, <1>5, <1>6

(* TotalProcessed and TotalFailed count every processed job once and lag the *)
(* job statuses only by the workers between the two updates.                 *)
THEOREM PoolCountersExact == Spec => []CountersExact
<1>1. Init => CountersExact
  <2> SUFFICES ASSUME Init PROVE CountersExact
    OBVIOUS
  <2>1. /\ AtPc("countOk") = {} /\ AtPc("countFail") = {}
        /\ Completed = {} /\ FailedInPool = {}
    BY DEF Init, AtPc, Completed, FailedInPool
  <2>2. /\ Cardinality(AtPc("countOk")) = 0 /\ Cardinality(AtPc("countFail")) = 0
        /\ Cardinality(Completed) = 0 /\ Cardinality(FailedInPool) = 0
    BY <2>1, FS_EmptySet
  <2>3. processed = 0 /\ failed = 0
    BY DEF Init
  <2> QED
    BY <2>2, <2>3 DEF CountersExact, AtPc, Completed, FailedInPool
<1> QED
  BY <1>1, CountersNext, OwnCorrect, PTL DEF Spec

-----------------------------------------------------------------------------
(* The pool implements the closable bounded FIFO of JobQueue. *)

phases == [j \in Jobs |-> Phase(j)]

(* The abstract variables stay as they are. *)
Stutter == UNCHANGED <<closed, queue, phases>>

(* An idle pool is an empty open queue. *)
LEMMA RefinesInit == Init => Abstract!Init
BY DEF Init, Abstract!Init, Phase

(* Submit only changes the abstract queue where it sends or rejects. *)
LEMMA RefinesSubmit ==
    ASSUME OwnInv, OwnInv', NEW j \in Jobs, SubmitStep(j)
    PROVE  Stutter \/ Abstract!Accept(j) \/ Abstract!Reject(j)
<1> USE DEF OwnInv, LockInv, TypeOK, Locking
<1>1. UNCHANGED <<closed, localVars, clearVars>>
  BY SubmitFrame
<1>2. ASSUME UNCHANGED <<queue, status>>, NEW p \in {"recorded", "locked", "sending"},
             sub[j] \notin {"accepted", "rejected"}, sub' = [sub EXCEPT ![j] = p]
      PROVE  Stutter
  <2>1. ASSUME NEW k \in Jobs PROVE Phase(k)' = Phase(k)
    BY <1>1, <1>2 DEF Phase
  <2> QED
    BY <1>1, <1>2, <2>1 DEF Stutter, phases
<1>3. ASSUME NEW p \in {"accepted", "rejected"},
             sub[j] \notin {"accepted", "rejected"}, sub' = [sub EXCEPT ![j] = p],
             \A k \in Jobs \ {j} : status'[k] = status[k]
      PROVE  /\ phases[j] = "new"
             /\ p = "rejected" => phases' = [phases EXCEPT ![j] = "rejected"]
             /\ p = "accepted" /\ UNCHANGED status =>
                   phases' = [phases EXCEPT ![j] = "waiting"]
  <2>1. \A k \in Jobs \ {j} : Phase(k)' = Phase(k)
    BY <1>1, <1>3 DEF Phase
  <2>2. Phase(j) = "new" /\ (p = "rejected" => Phase(j)' = "rejected")
    BY <1>3 DEF Phase
  <2>3. ASSUME p = "accepted", UNCHANGED status PROVE Phase(j)' = "waiting"
    <3>1. /\ \A c \in Clearers : held[c] # j
          /\ \A w \in Workers : job[w] # j
          /\ status[j] \in {"none", "pending"}
      BY <1>3, PoolAssumption DEF HeldStatus, JobStatus, SubmitStatus, SubPcs
    <3> QED
      BY <1>1, <1>3, <2>3, <3>1 DEF Phase
  <2> QED
    BY <2>1, <2>2, <2>3 DEF phases
<1>4. CASE Record(j)
  <2>1. ASSUME NEW k \in Jobs PROVE Phase(k)' = Phase(k)
    BY <1>1, <1>4 DEF Phase, Record
  <2> QED
    BY <1>1, <1>4, <2>1 DEF Stutter, phases, Record
<1>5. CASE SubmitLock(j)
  BY <1>2, <1>5 DEF SubmitLock
<1>6. CASE CheckClosed(j)
  <2>1. CASE closed
    <3>1. phases[j] = "new" /\ phases' = [phases EXCEPT ![j] = "rejected"]
      BY <1>3, <1>6, <2>1 DEF CheckClosed
    <3> QED
      BY <1>1, <1>6, <2>1, <3>1 DEF CheckClosed, Abstract!Reject, Abstract!Move, phases
  <2>2. CASE ~closed
    BY <1>2, <1>6, <2>2 DEF CheckClosed
  <2> QED
    BY <2>1, <2>2
<1>7. CASE Send(j)
  <2>1. CASE Len(queue) < QueueSize
    <3>1. phases[j] = "new" /\ phases' = [phases EXCEPT ![j] = "waiting"]
      BY <1>3, <1>7, <2>1 DEF Send
    <3>2. ~closed /\ queue' = Append(queue, j)
      BY <1>7, <2>1 DEF Send
    <3> QED
      BY <1>1, <2>1, <3>1, <3>2 DEF Abstract!Accept, Abstract!Move, phases
  <2>2. CASE ~(Len(queue) < QueueSize)
    <3>1. phases[j] = "new" /\ phases' = [phases EXCEPT ![j] = "rejected"]
      BY <1>3, <1>7, <2>2 DEF Send
    <3>2. Len(queue) = QueueSize /\ UNCHANGED queue
      BY <1>7, <2>2, LenProperties, PoolAssumption DEF Send
    <3> QED
      BY <1>1, <3>1, <3>2 DEF Abstract!Reject, Abstract!Move, phases
  <2> QED
    BY <2>1, <2>2
<1>8. CASE SubmitReturn(j)
  BY <1>1, <1>8 DEF SubmitReturn, Stutter, phases, Phase
<1> QED
  BY <1>4, <1>5, <1>6, <1>7, <1>8 DEF SubmitStep

(* Stop closes the abstract queue at the moment it sets closed. *)
LEMMA RefinesStop ==
    ASSUME OwnInv, NEW s \in Stoppers, StopStep(s)
    PROVE  Stutter \/ Abstract!Close
<1>1. UNCHANGED <<queue, phases>>
  BY StopFrame DEF phases, Phase
<1>2. closed' = closed \/ closed' = TRUE
  BY DEF StopStep, StopBody, StopEnter, StopLock, StopCloseShutdown, StopCloseJobs,
     StopUnlock, StopReturn
<1> QED
  BY <1>1, <1>2 DEF Stutter, Abstract!Close, phases, OwnInv, LockInv, TypeOK

(* Clear's receive withdraws the head; its other steps are invisible. *)
LEMMA RefinesClear ==
    ASSUME OwnInv, NEW c \in Clearers, ClearStep(c)
    PROVE  Stutter \/ Abstract!Take("withdrawn")
<1> USE DEF OwnInv, LockInv, TypeOK
<1>1. UNCHANGED <<closed, sub, job>>
  BY ClearFrame
<1>2. CASE ClearBegin(c) \/ ClearReturn(c)
  BY <1>1, <1>2 DEF ClearBegin, ClearReturn, Stutter, phases, Phase
<1>3. CASE ClearTake(c)
  <2>1. PICK h \in Jobs : h = Head(queue) /\ queue # <<>> /\ queue' = Tail(queue)
    BY <1>3, TakeHead DEF ClearTake
  <2>2. held[c] = None /\ held' = [held EXCEPT ![c] = h] /\ UNCHANGED status
    BY <1>3, <2>1 DEF ClearTake, HeldStatus
  <2>3. /\ InQueue(h) /\ sub[h] = "accepted" /\ status[h] = "pending"
        /\ \A d \in Clearers : held[d] # h
        /\ \A w \in Workers : job[w] # h
    <3>1. InQueue(h) /\ sub[h] = "accepted" /\ status[h] = "pending"
      BY <2>1, TakeHead DEF InQueue, QueueStatus
    <3> QED
      BY <3>1, PoolAssumption DEF OneOwner
  <2>4. Phase(h) = "waiting" /\ Phase(h)' = "withdrawn"
    BY <1>1, <2>2, <2>3 DEF Phase
  <2>5. \A k \in Jobs \ {h} : Phase(k)' = Phase(k)
    BY <1>1, <2>2, PoolAssumption DEF Phase
  <2>6. phases[h] = "waiting" /\ phases' = [phases EXCEPT ![h] = "withdrawn"]
    BY <2>4, <2>5 DEF phases
  <2> QED
    BY <1>1, <2>1, <2>6 DEF Abstract!Take, Abstract!Move, phases
<1>4. CASE ClearMark(c)
  <2>1. /\ held[c] # None /\ held[c] \in Jobs /\ sub[held[c]] = "accepted"
        /\ status' = [status EXCEPT ![held[c]] = "cancelled"]
        /\ held' = [held EXCEPT ![c] = None] /\ UNCHANGED queue
    BY <1>4 DEF ClearMark, HeldStatus
  <2>2. Phase(held[c]) = "withdrawn"
    BY <2>1 DEF Phase
  <2>3. ASSUME NEW k \in Jobs PROVE Phase(k)' = Phase(k)
    <3>1. CASE k = held[c]
      <4>1. status'[k] = "cancelled" /\ sub'[k] = "accepted"
        BY <1>1, <2>1, <3>1
      <4>2. Phase(k)' = "withdrawn"
        BY <4>1 DEF Phase
      <4> QED
        BY <2>2, <3>1, <4>2
    <3>2. CASE k # held[c]
      BY <1>1, <2>1, <3>2, PoolAssumption DEF Phase
    <3> QED
      BY <3>1, <3>2
  <2> QED
    BY <1>1, <2>1, <2>3 DEF Stutter, phases
<1> QED
  BY <1>2, <1>3, <1>4 DEF ClearStep, ClearBody

(* A worker's receive activates the head, its last step settles the job. *)
LEMMA RefinesWorker ==
    ASSUME OwnInv, OwnInv', NEW w \in Workers, WorkerStep(w)
    PROVE  \/ Stutter
           \/ Abstract!Take("active")
           \/ \E j \in Jobs : Abstract!Finish(j)
<1> USE DEF OwnInv, LockInv, TypeOK
<1>1. UNCHANGED <<closed, sub, clearVars>>
  BY WorkerFrame
<1>2. CASE Receive(w)
  <2>1. PICK h \in Jobs : h = Head(queue) /\ queue # <<>> /\ queue' = Tail(queue)
    BY <1>2, TakeHead DEF Receive
  <2>2. job[w] = None /\ job' = [job EXCEPT ![w] = h] /\ UNCHANGED status
    BY <1>2, <2>1 DEF Receive, JobStatus, BusyPcs
  <2>3. /\ sub[h] = "accepted" /\ status[h] = "pending"
        /\ \A d \in Clearers : held[d] # h
        /\ \A v \in Workers : job[v] # h
    <3>1. InQueue(h) /\ sub[h] = "accepted" /\ status[h] = "pending"
      BY <2>1, TakeHead DEF InQueue, QueueStatus
    <3> QED
      BY <3>1, PoolAssumption DEF OneOwner
  <2>4. Phase(h) = "waiting" /\ Phase(h)' = "active"
    BY <1>1, <2>2, <2>3 DEF Phase
  <2>5. \A k \in Jobs \ {h} : Phase(k)' = Phase(k)
    BY <1>1, <2>2, PoolAssumption DEF Phase
  <2>6. phases[h] = "waiting" /\ phases' = [phases EXCEPT ![h] = "active"]
    BY <2>4, <2>5 DEF phases
  <2> QED
    BY <1>1, <2>1, <2>6 DEF Abstract!Take, Abstract!Move, phases
<1>3. CASE Finish(w) \/ FailJob(w)
  <2>1. PICK j \in Jobs : j = job[w] /\ j # None
    BY <1>3 DEF Finish, FailJob, SetOutcome, JobStatus, BusyPcs
  <2>2. /\ sub[j] = "accepted" /\ status[j] = "processing"
        /\ \A c \in Clearers : held[c] # j
    BY <1>3, <2>1 DEF Finish, FailJob, SetOutcome, JobStatus, StatusAt, OneOwner
  <2>3. /\ \E st \in {"completed", "failed"} : status' = [status EXCEPT ![j] = st]
        /\ UNCHANGED <<queue, job>>
    BY <1>3, <2>1 DEF Finish, FailJob, SetOutcome
  <2>4. Phase(j) = "active" /\ Phase(j)' = "finished"
    BY <1>1, <2>1, <2>2, <2>3 DEF Phase
  <2>5. \A k \in Jobs \ {j} : Phase(k)' = Phase(k)
    BY <1>1, <2>3 DEF Phase
  <2>6. phases[j] = "active" /\ phases' = [phases EXCEPT ![j] = "finished"]
    BY <2>4, <2>5 DEF phases
  <2> QED
    BY <1>1, <2>3, <2>6 DEF Abstract!Finish, Abstract!Move, phases
<1>4. CASE Count(w)
  <2>1. /\ job[w] \in Jobs /\ status[job[w]] \in {"completed", "failed"}
        /\ job' = [job EXCEPT ![w] = None] /\ UNCHANGED <<queue, status>>
    BY <1>4 DEF Count, JobStatus, StatusAt, BusyPcs
  <2>2. ASSUME NEW k \in Jobs PROVE Phase(k)' = Phase(k)
    BY <1>1, <2>1, PoolAssumption DEF Phase
  <2> QED
    BY <1>1, <2>1, <2>2 DEF Stutter, phases
<1>5. CASE MarkProcessing(w)
  <2>1. /\ job[w] \in Jobs /\ status[job[w]] = "pending"
        /\ status' = [status EXCEPT ![job[w]] = "processing"]
        /\ UNCHANGED <<queue, job>>
    BY <1>5 DEF MarkProcessing, JobStatus, StatusAt, BusyPcs
  <2>2. ASSUME NEW k \in Jobs PROVE Phase(k)' = Phase(k)
    BY <1>1, <2>1 DEF Phase
  <2> QED
    BY <1>1, <2>1, <2>2 DEF Stutter, phases
<1>6. CASE ~(Receive(w) \/ Finish(w) \/ FailJob(w) \/ Count(w) \/ MarkProcessing(w))
  <2>1. UNCHANGED <<queue, job, status>>
    BY <1>6 DEF WorkerStep, LoopStep, ProcessStep, GoTo, Deliver, GatePass, GatePark,
       ParkTimer, ParkShutdown, ReceiveClosed, ReadMode, Resolve, ResolveError, TgSynth,
       TgSend, TgSendError, LocalSynth, PlayRefused, PlayBegin, PlayEnd, PlayError
  <2> QED
    BY <1>1, <2>1 DEF Stutter, phases, Phase
<1> QED
  BY <1>2, <1>3, <1>4, <1>5, <1>6

(* Every step of the pool is a step of the abstract queue or a stutter. *)
LEMMA RefinesNext ==
    ASSUME OwnInv, OwnInv', [Next]_vars
    PROVE  [Abstract!Next]_(Abstract!vars)
<1>1. ASSUME Stutter PROVE UNCHANGED Abstract!vars
  BY <1>1 DEF Stutter, Abstract!vars, phases
<1>2. ASSUME NEW j \in Jobs, SubmitStep(j) PROVE [Abstract!Next]_(Abstract!vars)
  BY <1>1, <1>2, RefinesSubmit DEF Abstract!Next
<1>3. ASSUME NEW s \in Stoppers, StopStep(s) PROVE [Abstract!Next]_(Abstract!vars)
  BY <1>1, <1>3, RefinesStop DEF Abstract!Next
<1>4. ASSUME NEW c \in Clearers, ClearStep(c) PROVE [Abstract!Next]_(Abstract!vars)
  BY <1>1, <1>4, RefinesClear DEF Abstract!Next
<1>5. ASSUME NEW w \in Workers, WorkerStep(w) PROVE [Abstract!Next]_(Abstract!vars)
  BY <1>1, <1>5, RefinesWorker DEF Abstract!Next
<1>6. CASE Pause \/ Resume \/ UNCHANGED vars
  <2>1. Stutter
    BY <1>6 DEF Pause, Resume, vars, Stutter, phases, Phase
  <2> QED
    BY <1>1, <2>1
<1> QED
  BY <1>2, <1>3, <1>4, <1>5, <1>6 DEF Next

(* Seen from its callers, the pool with its locks, channels, Stop, Pause and *)
(* Clear is a bounded FIFO that can be closed: it refuses a job only when it *)
(* is full or closed, and hands out every accepted job once, in order.       *)
THEOREM PoolImplementsJobQueue == Spec => ImplementsJobQueue
BY RefinesInit, RefinesNext, OwnCorrect, PTL DEF Spec, ImplementsJobQueue, Abstract!Spec

-----------------------------------------------------------------------------
(* What a worker has delivered when it reports a job completed or failed. *)

Sendable(w) == TelegramConfigured /\ format[w] = "mp3"

Delivered(m, d) ==
    /\ m \in VoiceModes
    /\ m = "off" => d = {}
    /\ m = "computer" => d = {"localSynth", "played"}
    /\ m = "phone" => d = {"tgSynth", "sent"}
    /\ m = "both" => d \cup {"sent"} = Effects

(* What has been done for the job when the worker stands at p. *)
DoneAt(w, p, m, d) ==
    /\ p \in {"mode", "mark", "resolve"} => d = {}
    /\ p \in BusyPcs \ {"mode"} => m \in VoiceModes
    /\ p = "resolve" => m # "off"
    /\ p = "tgSynth" => SendsTelegram(m) /\ Sendable(w) /\ d = {}
    /\ p = "tgSend" => SendsTelegram(m) /\ Sendable(w) /\ d = {"tgSynth"}
    /\ p = "localSynth" =>
          \/ m = "computer" /\ d = {}
          \/ m = "both" /\ d \cup {"sent"} = {"tgSynth", "sent"}
    /\ p \in {"play", "playing"} =>
          \/ m = "computer" /\ d = {"localSynth"}
          \/ m = "both" /\ d \cup {"sent"} = {"tgSynth", "sent", "localSynth"}
    /\ p \in {"finish", "countOk"} => Delivered(m, d)
    /\ p \in IdlePcs => d = {}
    /\ d # {} /\ SendsTelegram(m) => Sendable(w)

DoneInv == \A w \in Workers : DoneAt(w, pc[w], mode[w], done[w])

(* Every step keeps the record of what was delivered in line with the mode. *)
LEMMA DoneNext == TypeOK /\ DoneInv /\ [Next]_vars => DoneInv'
<1> SUFFICES ASSUME TypeOK, DoneInv, [Next]_vars PROVE DoneInv'
  OBVIOUS
<1>1. ASSUME UNCHANGED <<pc, localVars>> PROVE DoneInv'
  BY <1>1 DEF DoneInv, DoneAt, Sendable
<1>2. ASSUME NEW w \in Workers, WorkerStep(w) PROVE DoneInv'
  <2>1. \A v \in Workers \ {w} :
           pc'[v] = pc[v] /\ mode'[v] = mode[v] /\ format'[v] = format[v] /\ done'[v] = done[v]
    BY <1>2 DEF TypeOK, WorkerStep, LoopStep, ProcessStep, GoTo, Deliver, SetOutcome,
       GatePass, GatePark, ParkTimer, ParkShutdown, Receive, ReceiveClosed, ReadMode,
       MarkProcessing, Resolve, ResolveError, TgSynth, TgSend, TgSendError, LocalSynth,
       PlayRefused, PlayBegin, PlayEnd, PlayError, Finish, FailJob, Count
  <2> SUFFICES DoneAt(w, pc[w], mode[w], done[w])'
    BY <2>1 DEF DoneInv, DoneAt, Sendable
  <2> USE DEF TypeOK, Sendable, SendsTelegram, PlaysLocal, VoiceModes
  <2>2. DoneAt(w, pc[w], mode[w], done[w])
    BY DEF DoneInv
  <2>3. CASE LoopStep(w)
    BY <2>2, <2>3 DEF DoneAt, LoopStep, GatePass, GatePark, ParkTimer, ParkShutdown, Receive,
       ReceiveClosed, GoTo, IdlePcs, BusyPcs
  <2>4. CASE ReadMode(w)
    BY <2>2, <2>4, PoolAssumption DEF DoneAt, ReadMode, IdlePcs
  <2>5. CASE MarkProcessing(w)
    BY <2>2, <2>5 DEF DoneAt, MarkProcessing, BusyPcs, IdlePcs, Delivered
  <2>6. CASE Resolve(w) \/ ResolveError(w)
    <3>1. /\ pc[w] = "resolve" /\ UNCHANGED <<mode, done>>
          /\ \/ pc'[w] = "fail"
             \/ SendsTelegram(mode[w]) /\ Sendable(w)' /\ pc'[w] = "tgSynth"
             \/ ~SendsTelegram(mode[w]) /\ pc'[w] = "localSynth"
      BY <2>6 DEF Resolve, ResolveError, AfterResolve, GoTo
    <3>2. mode[w] \in VoiceModes \ {"off"} /\ done[w] = {}
      BY <2>2, <3>1 DEF DoneAt, BusyPcs
    <3> QED
      BY <3>1, <3>2 DEF DoneAt, IdlePcs
  <2>7. CASE TgSynth(w)
    BY <2>2, <2>7 DEF DoneAt, TgSynth, Deliver, BusyPcs, IdlePcs
  <2>8. CASE TgSend(w)
    <3>1. /\ pc[w] = "tgSend" /\ UNCHANGED <<mode, format>>
          /\ done'[w] = done[w] \cup {"sent"}
          /\ pc'[w] = IF PlaysLocal(mode[w]) THEN "localSynth" ELSE "finish"
      BY <2>8 DEF TgSend, Deliver
    <3>2. SendsTelegram(mode[w]) /\ Sendable(w) /\ done[w] = {"tgSynth"}
      BY <2>2, <3>1 DEF DoneAt
    <3>3. done'[w] = {"tgSynth", "sent"} /\ Sendable(w)'
      BY <3>1, <3>2
    <3> QED
      BY <3>1, <3>2, <3>3 DEF DoneAt, IdlePcs, Delivered
  <2>9. CASE TgSendError(w)
    BY <2>2, <2>9 DEF DoneAt, TgSendError, GoTo, BusyPcs, IdlePcs
  <2>10. CASE LocalSynth(w)
    <3>1. /\ pc[w] = "localSynth" /\ pc'[w] \in {"play", "fail"}
          /\ UNCHANGED <<mode, format>>
          /\ done'[w] = done[w] \cup {"localSynth"}
      BY <2>10 DEF LocalSynth, Deliver
    <3>2. CASE mode[w] = "computer"
      <4>1. done'[w] = {"localSynth"}
        BY <2>2, <3>1, <3>2 DEF DoneAt
      <4> QED
        BY <3>1, <3>2, <4>1 DEF DoneAt, IdlePcs
    <3>3. CASE mode[w] = "both"
      <4>1. done[w] \cup {"sent"} = {"tgSynth", "sent"}
        BY <2>2, <3>1, <3>3 DEF DoneAt
      <4>2. Sendable(w)
        <5>1. "tgSynth" \in done[w]
          BY <4>1
        <5> QED
          BY <2>2, <3>3, <5>1 DEF DoneAt
      <4>3. done'[w] \cup {"sent"} = {"tgSynth", "sent", "localSynth"}
        BY <3>1, <4>1
      <4> QED
        BY <3>1, <3>3, <4>2, <4>3 DEF DoneAt, IdlePcs
    <3> QED
      BY <2>2, <3>1, <3>2, <3>3 DEF DoneAt
  <2>11. CASE PlayRefused(w) \/ PlayBegin(w) \/ PlayError(w)
    BY <2>2, <2>11 DEF DoneAt, PlayRefused, PlayBegin, PlayError, GoTo, BusyPcs, IdlePcs
  <2>12. CASE PlayEnd(w)
    <3>1. /\ pc[w] = "playing" /\ pc'[w] = "finish" /\ UNCHANGED <<mode, format>>
          /\ done'[w] = done[w] \cup {"played"}
      BY <2>12 DEF PlayEnd, Deliver
    <3>2. CASE mode[w] = "computer"
      <4>1. done[w] = {"localSynth"}
        BY <2>2, <3>1, <3>2 DEF DoneAt
      <4>2. done'[w] = {"localSynth", "played"}
        BY <3>1, <4>1
      <4> QED
        BY <3>1, <3>2, <4>2 DEF DoneAt, IdlePcs, Delivered
    <3>3. CASE mode[w] = "both"
      <4>0. done[w] \cup {"sent"} = {"tgSynth", "sent", "localSynth"}
        BY <2>2, <3>1, <3>3 DEF DoneAt
      <4>1. Sendable(w)
        <5>1. "tgSynth" \in done[w]
          BY <4>0
        <5> QED
          BY <2>2, <3>3, <5>1 DEF DoneAt
      <4>2. done'[w] \cup {"sent"} = {"tgSynth", "sent", "localSynth", "played"}
        BY <3>1, <4>0
      <4> QED
        BY <3>1, <3>3, <4>1, <4>2 DEF DoneAt, IdlePcs, Delivered, Effects
    <3> QED
      BY <2>2, <3>1, <3>2, <3>3 DEF DoneAt
  <2>13. CASE Finish(w) \/ FailJob(w)
    BY <2>2, <2>13 DEF DoneAt, Finish, FailJob, SetOutcome, BusyPcs, IdlePcs
  <2>14. CASE Count(w)
    BY <2>14 DEF DoneAt, Count, BusyPcs
  <2> QED
    BY <1>2, <2>3, <2>4, <2>5, <2>6, <2>7, <2>8, <2>9, <2>10, <2>11, <2>12, <2>13, <2>14
       DEF WorkerStep, ProcessStep
<1>3. CASE Pause \/ Resume \/ UNCHANGED vars
  BY <1>1, <1>3 DEF Pause, Resume, vars
<1> QED
  BY <1>1, <1>2, <1>3, SubmitFrame, StopFrame, ClearFrame DEF Next

(* So the record is right for ever. *)
LEMMA DoneCorrect == Spec => []DoneInv
<1>1. Init => DoneInv
  BY DEF Init, DoneInv, DoneAt, BusyPcs
<1> QED
  BY <1>1, DoneNext, PoolTypeCorrect, PTL DEF Spec

(* A job is completed only after exactly the deliveries its mode asks for. *)
THEOREM PoolDeliveryMatchesMode == Spec => []DeliveryMatchesMode
<1>1. DoneInv => DeliveryMatchesMode
  <2> SUFFICES ASSUME DoneInv, NEW w \in Workers, pc[w] = "countOk"
               PROVE  CASE mode[w] = "off"      -> done[w] = {}
                        [] mode[w] = "computer" -> done[w] = {"localSynth", "played"}
                        [] mode[w] = "phone"    -> done[w] = {"tgSynth", "sent"}
                        [] mode[w] = "both"     -> done[w] \cup {"sent"} = Effects
    BY DEF DeliveryMatchesMode
  <2>1. Delivered(mode[w], done[w])
    BY DEF DoneInv, DoneAt
  <2> QED
    BY <2>1 DEF Delivered, VoiceModes
<1> QED
  BY <1>1, DoneCorrect, PTL

(* Nothing is synthesized for a Telegram delivery that cannot succeed. *)
THEOREM PoolNothingSpentInVain == Spec => []NothingSpentInVain
<1>1. DoneInv => NothingSpentInVain
  BY DEF DoneInv, DoneAt, NothingSpentInVain, Sendable
<1> QED
  BY <1>1, DoneCorrect, PTL
=============================================================================
