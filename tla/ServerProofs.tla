----------------------------- MODULE ServerProofs -----------------------------
(***************************************************************************)
(* The pool inside its process, with its player and with its status        *)
(* reports does what WorkerPool alone does, so its theorems hold of all    *)
(* three; an exit after a signal is graceful; the player keeps one         *)
(* playback at a time and leaves nothing behind; a status report adds up   *)
(* and never goes back.  All for any number of jobs, workers, Clear calls, *)
(* callers of the player and callers of GetStatus.                         *)
(***************************************************************************)
EXTENDS TTSServer, PoolPlayer, PoolStatus, WorkerPoolProofs

USE DEF submitVars, stopVars, pauseVars, localVars, clearVars, counters, workerVars,
        notSubmit, notStop, notClear, notWorker

-----------------------------------------------------------------------------
(* The compositions and their parts. *)

(* Every step of the process is one of the pool, or changes only the process. *)
LEMMA ServerStep == [ServerNext]_serverVars => [Next]_vars
BY DEF ServerNext, serverVars, ToolCall, HandleSpeak, HandleClear, HandlePause,
       HandleResume, Goroutines, SubmitGoesOn, Signalled, Exits, ServeEnds, Next, SubmitStep,
       StopStep, ClearStep

(* The pool of a server behaves as WorkerPool says, whatever tools are called *)
(* and however the process ends.                                              *)
THEOREM ServerRunsPool == ServerSpec => Spec
BY ServerStep, PTL DEF ServerSpec, ServerInit, Spec

(* Every step of the pool with its player is one of the player, whose callers *)
(* are the workers, or outside Play.                                          *)
LEMMA PoolPlayerPlayerStep == [PoolPlayerNext]_poolPlayerVars => [PlayerNext]_playerVars
BY CallersAssumption DEF PoolPlayerNext, PoolSteps, poolPlayerVars, PlaySteps, Call, Begin,
   Playing, Return, PlayerNext, Body

(* The workers use the player as Player says, so its theorems hold of them. *)
THEOREM PoolPlayerRunsPlayer == PoolPlayerSpec => PlayerSpec
BY PoolPlayerPlayerStep, PTL DEF PoolPlayerSpec, PoolPlayerInit, PlayerSpec

-----------------------------------------------------------------------------
(* Leaving gracefully. *)

(* What a Stop that has returned has waited for, and what an exit follows. *)
AllLeft == \A w \in Workers : pc[w] \in Exited
Waited == \A s \in Stoppers : stopPc[s] = "returned" => AllLeft
ExitInv == process = "stopped" => \E s \in Stoppers : stopPc[s] = "returned"

(* A worker that has left does not come back. *)
LEMMA LeftForGood == AllLeft /\ [Next]_vars => AllLeft'
<1> SUFFICES ASSUME AllLeft, [Next]_vars PROVE AllLeft'
  OBVIOUS
<1> USE DEF AllLeft, Exited
<1>1. ASSUME NEW w \in Workers, WorkerStep(w) PROVE FALSE
  BY <1>1 DEF WorkerStep, LoopStep, ProcessStep, GoTo, Deliver, SetOutcome, GatePass,
     GatePark, ParkTimer, ParkShutdown, Receive, ReceiveClosed, ReadMode, MarkProcessing,
     Resolve, ResolveError, TgSynth, TgSend, TgSendError, LocalSynth, PlayRefused,
     PlayBegin, PlayEnd, PlayError, Finish, FailJob, Count
<1>2. ASSUME NEW j \in Jobs, SubmitStep(j) PROVE UNCHANGED pc
  BY <1>2, SubmitFrame
<1>3. ASSUME NEW s \in Stoppers, StopStep(s) PROVE UNCHANGED pc
  BY <1>3, StopFrame
<1>4. ASSUME NEW c \in Clearers, ClearStep(c) PROVE UNCHANGED pc
  BY <1>4, ClearFrame
<1>5. CASE Pause \/ Resume \/ UNCHANGED vars
  BY <1>5 DEF Pause, Resume, vars
<1> QED
  BY <1>1, <1>2, <1>3, <1>4, <1>5 DEF Next

(* wg.Wait: Stop returns only when every worker has left. *)
LEMMA WaitedNext == TypeOK /\ Waited /\ [Next]_vars => Waited'
<1> SUFFICES ASSUME TypeOK, Waited, [Next]_vars, NEW s \in Stoppers, stopPc'[s] = "returned"
             PROVE  AllLeft'
  BY DEF Waited
<1>1. CASE stopPc[s] = "returned"
  BY <1>1, LeftForGood DEF Waited
<1>2. CASE stopPc[s] # "returned"
  <2>1. PICK t \in Stoppers : StopStep(t)
    <3>1. ASSUME NEW w \in Workers, WorkerStep(w) PROVE UNCHANGED stopPc
      BY <3>1, WorkerFrame
    <3>2. ASSUME NEW j \in Jobs, SubmitStep(j) PROVE UNCHANGED stopPc
      BY <3>2, SubmitFrame
    <3>3. ASSUME NEW c \in Clearers, ClearStep(c) PROVE UNCHANGED stopPc
      BY <3>3, ClearFrame
    <3>4. ASSUME Pause \/ Resume \/ UNCHANGED vars PROVE UNCHANGED stopPc
      BY <3>4 DEF Pause, Resume, vars
    <3> QED
      BY <1>2, <3>1, <3>2, <3>3, <3>4 DEF Next
  <2>2. StopReturn(t)
    BY <1>2, <2>1 DEF StopStep, StopBody, StopEnter, StopLock, StopCloseShutdown,
       StopCloseJobs, StopUnlock, TypeOK
  <2> QED
    BY <2>2, LeftForGood DEF StopReturn, AllLeft
<1> QED
  BY <1>1, <1>2

(* The exit follows the return of Stop, and nothing happens after it. *)
LEMMA ExitNext == ExitInv /\ [ServerNext]_serverVars => ExitInv'
BY DEF ExitInv, ServerNext, serverVars, vars, stopVars, Exits, ServeEnds

(* All that is left of the jobs when every worker is gone. *)
LEMMA NothingHeld ==
    ASSUME OwnInv, Draining, Waited, ExitInv
    PROVE  GracefulExit
<1> SUFFICES ASSUME process = "stopped", NEW j \in Jobs, sub[j] = "accepted",
                    status[j] \notin Terminal, \A c \in Clearers : held[c] # j
             PROVE  InQueue(j) /\ \A w \in Workers : pc[w] = "parkExit"
  BY DEF GracefulExit
<1>1. AllLeft
  BY DEF ExitInv, Waited
<1>2. \A w \in Workers : job[w] = None
  BY <1>1 DEF AllLeft, OwnInv, JobStatus, Exited, BusyPcs
<1>3. InQueue(j)
  BY <1>2, PoolAssumption DEF OwnInv, AcceptedAccounted, Owned
<1>4. queue # <<>>
  BY <1>3 DEF InQueue
<1> QED
  BY <1>1, <1>3, <1>4 DEF Draining, AllLeft, Exited

(* After a signal the process exits only when it has settled every job that *)
(* it has accepted, unless every worker left from the pause loop.           *)
THEOREM ServerExitsGracefully == ServerSpec => []GracefulExit
<1>1. Init => Waited /\ Draining
  BY DEF Init, Waited, Draining
<1>2. Spec => [](OwnInv /\ Draining /\ Waited)
  <2>1. OwnInv => TypeOK
    BY DEF OwnInv, LockInv
  <2> QED
    BY <1>1, <2>1, OwnCorrect, DrainNext, WaitedNext, PTL DEF Spec
<1>3. ServerInit => ExitInv
  BY DEF ServerInit, ExitInv
<1> QED
  BY <1>2, <1>3, ServerRunsPool, ExitNext, NothingHeld, PTL DEF ServerSpec

-----------------------------------------------------------------------------
(* The player, which its callers share. *)

(* Where a call of Play stands. *)
Inside == {"flag", "create", "write", "run", "remove", "clear", "unlock"}
Places == {"idle", "lock"} \cup Inside

(* The type invariant: what each variable of player.go may hold. *)
PlayerTypeOK ==
    /\ play \in [Callers -> Places]
    /\ playMu \in Callers \cup {"free"}
    /\ isPlaying \in BOOLEAN
    /\ tempFiles \subseteq Callers

(* The lock is held from Lock to Unlock. *)
HolderInv == \A p \in Callers : play[p] \in Inside <=> playMu = p

(* The flag is the holder's, from SetFlag to ClearFlag. *)
FlagInv ==
    isPlaying <=> \E p \in Callers : play[p] \in Inside \ {"flag", "unlock"}

(* A file is its caller's, from CreateTemp to RemoveTemp. *)
FileInv == \A p \in Callers : p \in tempFiles <=> play[p] \in {"write", "run", "remove"}

PlayerInv == PlayerTypeOK /\ HolderInv /\ FlagInv /\ FileInv

LEMMA PlayerInitInv == PlayerInit => PlayerInv
  BY PlayerAssumption
     DEF PlayerInit, PlayerInv, PlayerTypeOK, HolderInv, FlagInv, FileInv, Places, Inside

(* Each step moves one call only. *)
LEMMA StepMoves ==
    ASSUME PlayerTypeOK, NEW p \in Callers, NEW from, NEW to \in SUBSET Places,
           Step(p, from, to)
    PROVE  /\ play[p] = from
           /\ play' \in [Callers -> Places]
           /\ play'[p] \in to
           /\ \A q \in Callers \ {p} : play'[q] = play[q]
  BY DEF PlayerTypeOK, Step

LEMMA PlayerNextInv == PlayerInv /\ [PlayerNext]_playerVars => PlayerInv'
<1> SUFFICES ASSUME PlayerInv, [PlayerNext]_playerVars PROVE PlayerInv'
  OBVIOUS
<1> USE PlayerAssumption DEF PlayerInv
<1>1. CASE UNCHANGED playerVars
  BY <1>1 DEF playerVars, PlayerTypeOK, HolderInv, FlagInv, FileInv
<1>2. ASSUME NEW p \in Callers, CallPlay(p) \/ Lock(p) \/ Body(p) PROVE PlayerInv'
  <2> USE DEF PlayerTypeOK, HolderInv, FlagInv, FileInv, Places, Inside
  <2>1. CASE CallPlay(p)
    <3>1. Step(p, "idle", {"idle", "lock"}) BY <2>1 DEF CallPlay
    <3> QED BY <2>1, <3>1, StepMoves DEF CallPlay
  <2>2. CASE Lock(p)
    <3>1. Step(p, "lock", {"flag"}) BY <2>2 DEF Lock
    <3> QED BY <2>2, <3>1, StepMoves DEF Lock
  <2>3. CASE SetFlag(p)
    <3>1. Step(p, "flag", {"create"}) BY <2>3 DEF SetFlag
    <3> QED BY <2>3, <3>1, StepMoves DEF SetFlag
  <2>4. CASE CreateTemp(p)
    <3>1. CASE Step(p, "create", {"write"}) /\ tempFiles' = tempFiles \cup {p}
      BY <2>4, <3>1, StepMoves DEF CreateTemp
    <3>2. CASE Step(p, "create", {"clear"}) /\ UNCHANGED tempFiles
      BY <2>4, <3>2, StepMoves DEF CreateTemp
    <3> QED BY <2>4, <3>1, <3>2 DEF CreateTemp
  <2>5. CASE WriteTemp(p)
    <3>1. Step(p, "write", {"run", "remove"}) BY <2>5 DEF WriteTemp
    <3> QED BY <2>5, <3>1, StepMoves DEF WriteTemp
  <2>6. CASE RunEnds(p)
    <3>1. Step(p, "run", {"remove"}) BY <2>6 DEF RunEnds
    <3> QED BY <2>6, <3>1, StepMoves DEF RunEnds
  <2>7. CASE RemoveTemp(p)
    <3>1. Step(p, "remove", {"clear"}) BY <2>7 DEF RemoveTemp
    <3> QED BY <2>7, <3>1, StepMoves DEF RemoveTemp
  <2>8. CASE ClearFlag(p)
    <3>1. Step(p, "clear", {"unlock"}) BY <2>8 DEF ClearFlag
    <3>2. UNCHANGED <<playMu, tempFiles>>
      BY <2>8 DEF ClearFlag
    <3>3. play' \in [Callers -> Places] /\ HolderInv' /\ FileInv'
      BY <3>1, <3>2, StepMoves
    <3>4. \A q \in Callers : play'[q] \notin Inside \ {"flag", "unlock"}
      BY <3>1, StepMoves
    <3>5. isPlaying' = FALSE
      BY <2>8 DEF ClearFlag
    <3>6. FlagInv'
      BY <3>4, <3>5
    <3> QED BY <3>2, <3>3, <3>5, <3>6
  <2>9. CASE Unlock(p)
    <3>1. Step(p, "unlock", {"idle"}) BY <2>9 DEF Unlock
    <3> QED BY <2>9, <3>1, StepMoves DEF Unlock
  <2> QED
    BY <1>2, <2>1, <2>2, <2>3, <2>4, <2>5, <2>6, <2>7, <2>8, <2>9 DEF Body
<1> QED
  BY <1>1, <1>2 DEF PlayerNext

LEMMA PlayerInvariant == PlayerSpec => []PlayerInv
  BY PlayerInitInv, PlayerNextInv, PTL DEF PlayerSpec

(* The types of the player's variables are invariant. *)
THEOREM PlayerTypeCorrect == PlayerSpec => []PlayerTypeOK
<1>1. PlayerInv => PlayerTypeOK
  BY DEF PlayerInv
<1> QED
  BY <1>1, PlayerInvariant, PTL

(* "Only one audio plays at a time" (player.go:132), flagged throughout. *)
THEOREM PlayerOnePlayback == PlayerSpec => []OnePlaybackFlagged
<1>1. PlayerInv => OnePlaybackFlagged
  BY DEF PlayerInv, HolderInv, FlagInv, Inside, OnePlaybackFlagged
<1> QED
  BY <1>1, PlayerInvariant, PTL

(* Whatever step of Play fails, the flag and the file do not outlive it. *)
THEOREM PlayerCleansUp == PlayerSpec => []NothingLeftBehind
<1>1. PlayerInv => NothingLeftBehind
  BY PlayerAssumption
     DEF PlayerInv, PlayerTypeOK, HolderInv, FlagInv, FileInv, Inside, NothingLeftBehind
<1> QED
  BY <1>1, PlayerInvariant, PTL

-----------------------------------------------------------------------------
(* The pool with its player. *)

(* Who plays, for the pool, holds the player's lock. *)
Agree == TypeOK /\ PlayerInv /\ (playMu = "free" <=> player = None)

LEMMA AgreeStart == PoolPlayerInit => Agree
<1> SUFFICES ASSUME PoolPlayerInit PROVE Agree
  OBVIOUS
<1>1. TypeOK
  BY InitType DEF PoolPlayerInit
<1>2. PlayerInv
  BY PlayerInitInv DEF PoolPlayerInit
<1> QED
  BY <1>1, <1>2 DEF Agree, PoolPlayerInit, PlayerInit, Init

(* Outside Play, the pool leaves the player alone. *)
LEMMA PoolLeavesPlayer == Agree /\ PoolSteps => UNCHANGED player
<1> SUFFICES ASSUME Agree, PoolSteps PROVE UNCHANGED player
  OBVIOUS
<1> USE DEF Agree, TypeOK, PoolSteps
<1>1. ASSUME NEW w \in Workers, WorkerStep(w) PROVE UNCHANGED player
  <2>1. ~PlayBegin(w)
    BY DEF PlayBegin
  <2>2. ~PlayEnd(w)
    BY DEF PlayEnd, Deliver
  <2>3. ~PlayError(w)
    BY DEF PlayError
  <2> QED
    BY <1>1, <2>1, <2>2, <2>3
       DEF WorkerStep, LoopStep, ProcessStep, GoTo, Deliver, SetOutcome, GatePass, GatePark,
           ParkTimer, ParkShutdown, Receive, ReceiveClosed, ReadMode, MarkProcessing, Resolve,
           ResolveError, TgSynth, TgSend, TgSendError, LocalSynth, PlayRefused, Finish,
           FailJob, Count
<1>2. ASSUME NEW j \in Jobs, SubmitStep(j) PROVE UNCHANGED player
  BY <1>2, SubmitFrame
<1>3. ASSUME NEW s \in Stoppers, StopStep(s) PROVE UNCHANGED player
  BY <1>3, StopFrame
<1>4. ASSUME NEW c \in Clearers, ClearStep(c) PROVE UNCHANGED player
  BY <1>4, ClearFrame
<1>5. CASE Pause \/ Resume
  BY <1>5 DEF Pause, Resume
<1> QED
  BY <1>1, <1>2, <1>3, <1>4, <1>5 DEF Next

(* Every step is one of the pool, or inside Play: a worker that is granted *)
(* playMu finds nobody playing.                                            *)
LEMMA PoolPlayerStep ==
    Agree /\ [PoolPlayerNext]_poolPlayerVars => [Next]_vars /\ Agree'
<1> SUFFICES ASSUME Agree, [PoolPlayerNext]_poolPlayerVars PROVE [Next]_vars /\ Agree'
  OBVIOUS
<1> DEFINE Agreeing == (playMu = "free" <=> player = None)'
<1>1. ASSUME NEW w \in Workers, PlaySteps(w) PROVE [Next]_vars /\ Agreeing
  <2> USE PoolAssumption, PlayerAssumption, CallersAssumption DEF Agree
  <2>1. ASSUME PlayRefused(w) \/ PlayBegin(w) \/ PlayEnd(w) \/ PlayError(w) \/ UNCHANGED vars
        PROVE  [Next]_vars
    BY <2>1 DEF Next, WorkerStep, ProcessStep
  <2>2. CASE Call(w)
    <3>1. PlayRefused(w) \/ UNCHANGED vars
      BY <2>2 DEF Call
    <3>2. UNCHANGED <<playMu, player>>
      BY <2>2, <3>1 DEF Call, CallPlay, PlayRefused, GoTo, vars, workerVars
    <3> QED
      BY <2>1, <3>1, <3>2
  <2>3. CASE Begin(w)
    <3>1. PlayBegin(w)
      BY <2>3 DEF Begin, Lock, PlayBegin
    <3>2. playMu' # "free" /\ player' # None
      BY <2>3 DEF Begin, Lock
    <3> QED
      BY <2>1, <3>1, <3>2
  <2>4. CASE Playing(w)
    <3>1. UNCHANGED vars /\ ~Unlock(w)
      BY <2>4 DEF Playing, Unlock, Step, PlayerInv, PlayerTypeOK
    <3>2. UNCHANGED <<playMu, player>>
      BY <2>4, <3>1 DEF Playing, Body, SetFlag, CreateTemp, WriteTemp, RunEnds, RemoveTemp,
         ClearFlag, vars, workerVars
    <3> QED
      BY <2>1, <3>1, <3>2
  <2>5. CASE Return(w)
    <3>1. playMu' = "free" /\ player' = None
      BY <2>5 DEF Return, Unlock, PlayEnd, PlayError
    <3> QED
      BY <2>1, <2>5, <3>1 DEF Return
  <2> QED
    BY <1>1, <2>2, <2>3, <2>4, <2>5 DEF PlaySteps
<1>2. ASSUME PoolSteps PROVE [Next]_vars /\ Agreeing
  <2>1. UNCHANGED player
    BY <1>2, PoolLeavesPlayer
  <2>2. UNCHANGED playMu
    BY <1>2 DEF PoolSteps, playerVars
  <2> QED
    BY <1>2, <2>1, <2>2 DEF PoolSteps, Agree
<1>3. ASSUME UNCHANGED poolPlayerVars PROVE [Next]_vars /\ Agreeing
  BY <1>3 DEF poolPlayerVars, vars, workerVars, playerVars, Agree
<1>4. [Next]_vars /\ Agreeing
  BY <1>1, <1>2, <1>3 DEF PoolPlayerNext
<1>5. TypeOK'
  BY <1>4, NextType DEF Agree
<1>6. PlayerInv'
  BY PoolPlayerPlayerStep, PlayerNextInv DEF Agree
<1> QED
  BY <1>4, <1>5, <1>6 DEF Agree

(* Playing a clip with all of Play's steps changes nothing that the pool's *)
(* theorems are about.                                                     *)
THEOREM PoolPlayerRunsPool == PoolPlayerSpec => Spec
<1>1. PoolPlayerInit => Init
  BY DEF PoolPlayerInit
<1> QED
  BY <1>1, AgreeStart, PoolPlayerStep, PTL DEF PoolPlayerSpec, Spec
-----------------------------------------------------------------------------
(* Status reports: what a report and the one before it say of the pool. *)

Copies == [job : Jobs, status : Statuses]

StatusTypeOK ==
    /\ history \in Seq(Jobs) /\ Len(history) \leq HistoryCap
    /\ reading \in [Readers -> {"idle", "copy", "processed", "failed"}]
    /\ todo \in [Readers -> Seq(Jobs)]
    /\ report \in [Readers -> [shown : Seq(Copies), processed : Nat]]
    /\ last \in [Readers -> Seq(Copies)]

(* Status a may be followed by status b. *)
Behind(a, b) == Rank(a) \leq Rank(b) /\ (Rank(a) = 2 => b = a)

(* A job enters the history once, when Submit has created it. *)
HistoryInv ==
    /\ \A i \in DOMAIN history : sub[history[i]] # "new"
    /\ \A i, k \in DOMAIN history : history[i] = history[k] => i = k

(* What was copied was true of the job, which can only have gone on. *)
PastOf(copies) ==
    \A i \in DOMAIN copies :
        sub[copies[i].job] # "new" /\ Behind(copies[i].status, status[copies[i].job])

PastInv == \A r \in Readers : PastOf(report[r].shown) /\ PastOf(last[r])

(* While the history is locked, what is copied and what is still to copy make *)
(* up the newest jobs of the history.                                         *)
Copied(shown, rest, newest) ==
    /\ Len(shown) + Len(rest) = Len(newest)
    /\ \A i \in DOMAIN shown : shown[i].job = newest[i]
    /\ \A i \in DOMAIN rest : rest[i] = newest[Len(shown) + i]

CopyInv ==
    \A r \in Readers :
        /\ reading[r] = "copy" =>
              Copied(report[r].shown, todo[r], Newest(history, RecentCap))
        /\ reading[r] = "idle" => report[r].shown = <<>>

DistinctInv ==
    \A r \in Readers : LET shown == report[r].shown IN
        \A i, k \in DOMAIN shown : shown[i].job = shown[k].job => i = k

(* A job once shown is in the history until the history is full. *)
Kept(copies) ==
    \A i \in DOMAIN copies :
        Len(history) = HistoryCap \/ \E k \in DOMAIN history : history[k] = copies[i].job

KeptInv == \A r \in Readers : Kept(report[r].shown) /\ Kept(last[r])

(* A job of the last report is shown again, or room was made for newer ones. *)
AgainInv ==
    \A r \in Readers : \A i \in DOMAIN last[r] : LET shown == report[r].shown IN
        /\ reading[r] \in {"processed", "failed"} =>
              \/ \E k \in DOMAIN shown : shown[k].job = last[r][i].job
              \/ Len(shown) = RecentCap
        /\ \A k \in DOMAIN shown :
              shown[k].job = last[r][i].job => Behind(last[r][i].status, shown[k].status)

(* The counter was loaded after the jobs were copied. *)
LoadedInv ==
    \A r \in Readers : reading[r] = "failed" =>
        Showing(report[r].shown, "completed") \leq report[r].processed + Cardinality(Workers)

StatusInv ==
    /\ StatusTypeOK /\ HistoryInv /\ PastInv /\ CopyInv /\ DistinctInv
    /\ KeptInv /\ AgainInv /\ LoadedInv

(* Every step of the pool with its reports is one of the pool, or only reads. *)
LEMMA StatusStep == [StatusNext]_statusVars => [Next]_vars
BY DEF StatusNext, RecordJob, PoolStep, ReaderStep, StatusBegin, CopyJob, CopyEnd,
       LoadProcessed, LoadFailed, statusVars, Next, SubmitStep

(* Reading reports changes nothing of the pool. *)
THEOREM StatusRunsPool == StatusSpec => Spec
BY StatusStep, PTL DEF StatusSpec, StatusInit, Spec

(* Newest returns the last elements of a sequence, in their order. *)
LEMMA NewestElements ==
    ASSUME NEW S, NEW s \in Seq(S), NEW n \in Nat \ {0}
    PROVE  /\ Newest(s, n) \in Seq(S)
           /\ Len(Newest(s, n)) = IF Len(s) > n THEN n ELSE Len(s)
           /\ DOMAIN Newest(s, n) = 1 .. Len(Newest(s, n))
           /\ \A i \in DOMAIN Newest(s, n) :
                 LET k == Len(s) - Len(Newest(s, n)) + i
                 IN  k \in DOMAIN s /\ Newest(s, n)[i] = s[k]
<1> DEFINE m == IF Len(s) > n THEN Len(s) - n + 1 ELSE 1
<1>1. Len(s) \in Nat /\ DOMAIN s = 1 .. Len(s) /\ \A i \in 1 .. Len(s) : s[i] \in S
  BY LenProperties, ElementOfSeq
<1>2. m \in 1 .. (Len(s) + 1)
  BY <1>1
<1>3. /\ SubSeq(s, m, Len(s)) \in Seq(S)
      /\ Len(SubSeq(s, m, Len(s))) = Len(s) - m + 1
      /\ \A i \in 1 .. (Len(s) - m + 1) : SubSeq(s, m, Len(s))[i] = s[m + i - 1]
  <2>1. \A i \in m .. Len(s) : s[i] \in S
    BY <1>1, <1>2
  <2> HIDE DEF m
  <2> QED
    BY <1>1, <1>2, <2>1, SubSeqProperties
<1>4. Newest(s, n) = SubSeq(s, m, Len(s))
  BY DEF Newest
<1>5. DOMAIN Newest(s, n) = 1 .. Len(Newest(s, n))
  BY <1>3, <1>4, LenProperties
<1>6. Len(Newest(s, n)) = Len(s) - m + 1
  BY <1>3, <1>4
<1>7. ASSUME NEW i \in DOMAIN Newest(s, n)
      PROVE  LET k == Len(s) - Len(Newest(s, n)) + i
             IN  k \in DOMAIN s /\ Newest(s, n)[i] = s[k]
  <2> HIDE DEF m
  <2>0. m \in Int /\ Len(s) \in Int
    BY <1>1, <1>2
  <2>1. i \in 1 .. (Len(s) - m + 1) /\ Len(s) - (Len(s) - m + 1) + i = m + i - 1
    BY <2>0, <1>5, <1>6, <1>7
  <2>2. m + i - 1 \in DOMAIN s
    BY <1>1, <1>2, <2>1
  <2>3. Newest(s, n)[i] = s[m + i - 1]
    BY <1>3, <1>4, <2>1
  <2> QED
    BY <1>6, <2>1, <2>2, <2>3
<1>8. Newest(s, n) \in Seq(S)
  BY <1>3, <1>4
<1>9. Len(Newest(s, n)) = IF Len(s) > n THEN n ELSE Len(s)
  BY <1>1, <1>6
<1> QED
  BY <1>5, <1>7, <1>8, <1>9

(* Status a may be followed by status b, by way of any other. *)
LEMMA BehindOrder ==
    /\ \A a : Behind(a, a)
    /\ \A a, b, c : Behind(a, b) /\ Behind(b, c) => Behind(a, c)
BY DEF Behind, Rank

(* The status of a job that Submit has created only goes on. *)
LEMMA StatusGoesOn ==
    ASSUME OwnInv, [Next]_vars, NEW j \in Jobs, sub[j] # "new"
    PROVE  sub'[j] # "new" /\ Behind(status[j], status'[j])
<1> USE DEF OwnInv, LockInv, TypeOK
<1> DEFINE Onward == sub'[j] # "new" /\ (status'[j] = "pending" => status[j] = "pending")
<1>1. Onward
  <2>1. ASSUME NEW k \in Jobs, SubmitStep(k) PROVE Onward
    BY <2>1 DEF SubmitStep, Record, SubmitLock, CheckClosed, Send, SubmitReturn
  <2>2. ASSUME NEW s \in Stoppers, StopStep(s) PROVE Onward
    BY <2>2, StopFrame
  <2>3. ASSUME NEW c \in Clearers, ClearStep(c) PROVE Onward
    BY <2>3 DEF ClearStep, ClearBody, ClearBegin, ClearTake, ClearMark, ClearReturn
  <2>4. ASSUME NEW w \in Workers, WorkerStep(w) PROVE Onward
    <3>1. UNCHANGED sub
      BY <2>4, WorkerFrame
    <3>2. status' = status \/ \E st \in {"processing", "completed", "failed"} :
             status' = [status EXCEPT ![job[w]] = st]
      BY <2>4 DEF WorkerStep, LoopStep, ProcessStep, GoTo, Deliver, SetOutcome, GatePass,
         GatePark, ParkTimer, ParkShutdown, Receive, ReceiveClosed, ReadMode,
         MarkProcessing, Resolve, ResolveError, TgSynth, TgSend, TgSendError, LocalSynth,
         PlayRefused, PlayBegin, PlayEnd, PlayError, Finish, FailJob, Count
    <3> QED
      BY <3>1, <3>2
  <2>5. CASE Pause \/ Resume \/ UNCHANGED vars
    BY <2>5 DEF Pause, Resume, vars
  <2> QED
    BY <2>1, <2>2, <2>3, <2>4, <2>5 DEF Next
<1>2. status[j] \in {"pending", "processing"} \cup Terminal
  <2>1. CASE sub[j] # "accepted"
    BY <2>1 DEF SubmitStatus, SubPcs, Terminal
  <2>2. CASE sub[j] = "accepted"
    <3>1. Owned(j) \/ status[j] \in Terminal
      BY <2>2 DEF AcceptedAccounted
    <3>2. InQueue(j) => status[j] = "pending"
      BY DEF InQueue, QueueStatus
    <3>3. ASSUME NEW w \in Workers, job[w] = j
          PROVE  status[j] \in {"pending", "processing"} \cup Terminal
      BY <3>3, PoolAssumption DEF JobStatus, StatusAt, Terminal
    <3>4. ASSUME NEW c \in Clearers, held[c] = j PROVE status[j] = "pending"
      BY <3>4, PoolAssumption DEF HeldStatus
    <3> QED
      BY <3>1, <3>2, <3>3, <3>4 DEF Owned
  <2> QED
    BY <2>1, <2>2
<1>3. CASE status[j] \in Terminal
  BY <1>1, <1>3, FinalStep, BehindOrder
<1>4. CASE status[j] \in {"pending", "processing"}
  BY <1>1, <1>4 DEF Behind, Rank
<1> QED
  BY <1>2, <1>3, <1>4

(* A reader's step changes its own report and nothing else. *)
LEMMA ReaderFrame ==
    ASSUME StatusTypeOK, NEW r \in Readers, ReaderStep(r)
    PROVE  /\ UNCHANGED <<vars, history>>
           /\ \A q \in Readers \ {r} :
                 /\ reading'[q] = reading[q] /\ todo'[q] = todo[q]
                 /\ report'[q] = report[q] /\ last'[q] = last[q]
BY DEF StatusTypeOK, ReaderStep, StatusBegin, CopyJob, CopyEnd, LoadProcessed, LoadFailed


(* A step writes the history, or is a reader's, or leaves all of them alone. *)
LEMMA StatusCases ==
    ASSUME [StatusNext]_statusVars
    PROVE  \/ \E j \in Jobs : RecordJob(j)
           \/ \E r \in Readers : ReaderStep(r)
           \/ UNCHANGED <<history, readerVars>>
BY DEF StatusNext, PoolStep, statusVars, readerVars

(* The newest jobs of the history are jobs of it, each once. *)
LEMMA NewestJobs ==
    ASSUME StatusTypeOK, HistoryInv
    PROVE  LET n == Newest(history, RecentCap)
           IN  /\ n \in Seq(Jobs) /\ DOMAIN n = 1 .. Len(n)
               /\ Len(n) = IF Len(history) > RecentCap THEN RecentCap ELSE Len(history)
               /\ \A i \in DOMAIN n : \E k \in DOMAIN history : history[k] = n[i]
               /\ \A i, k \in DOMAIN n : n[i] = n[k] => i = k
               /\ Len(history) \leq RecentCap => n = history
<1> DEFINE n == Newest(history, RecentCap)
<1>1. history \in Seq(Jobs) /\ Len(history) \in Nat /\ DOMAIN history = 1 .. Len(history)
  BY LenProperties DEF StatusTypeOK
<1>2. /\ n \in Seq(Jobs) /\ DOMAIN n = 1 .. Len(n)
      /\ Len(n) = IF Len(history) > RecentCap THEN RecentCap ELSE Len(history)
      /\ \A i \in DOMAIN n : LET k == Len(history) - Len(n) + i
                             IN  k \in DOMAIN history /\ n[i] = history[k]
  BY <1>1, NewestElements, StatusAssumption
<1> HIDE DEF n
<1>3. \A i, k \in DOMAIN n : n[i] = n[k] => i = k
  <2> SUFFICES ASSUME NEW i \in DOMAIN n, NEW k \in DOMAIN n, n[i] = n[k] PROVE i = k
    OBVIOUS
  <2>1. Len(history) - Len(n) + i = Len(history) - Len(n) + k
    BY <1>2 DEF HistoryInv
  <2>2. Len(history) \in Int /\ Len(n) \in Int /\ i \in Int /\ k \in Int
    BY <1>1, <1>2, StatusAssumption
  <2> QED
    BY <2>1, <2>2
<1>4. Len(history) \leq RecentCap => n = history
  <2> SUFFICES ASSUME Len(history) \leq RecentCap PROVE n = history
    OBVIOUS
  <2>0. Len(n) = Len(history)
    <3>1. Len(history) \in Int /\ RecentCap \in Int
      BY <1>1, StatusAssumption
    <3>2. ~(Len(history) > RecentCap)
      BY <3>1
    <3> QED
      BY <1>2, <3>2
  <2>1. \A i \in 1 .. Len(n) : Len(history) - Len(n) + i = i
    BY <1>1, <2>0
  <2>2. \A i \in 1 .. Len(n) : n[i] = history[i]
    BY <1>2, <2>0, <2>1
  <2> QED
    BY <1>1, <1>2, <2>0, <2>2, SeqEqual
<1> QED
  BY <1>2, <1>3, <1>4 DEF n

(* Submit's job enters a history that holds it not yet; the jobs it does not *)
(* hold any more have made it full.                                          *)
LEMMA HistoryGrows ==
    ASSUME TypeOK, StatusTypeOK, HistoryInv, NEW j \in Jobs, RecordJob(j)
    PROVE  /\ history' \in Seq(Jobs) /\ Len(history') \leq HistoryCap
           /\ \A i \in DOMAIN history' :
                 history'[i] = j \/ \E k \in DOMAIN history : history'[i] = history[k]
           /\ \A i, k \in DOMAIN history' : history'[i] = history'[k] => i = k
           /\ \/ Len(history') = HistoryCap
              \/ /\ Len(history) # HistoryCap
                 /\ \A k \in DOMAIN history :
                       k \in DOMAIN history' /\ history'[k] = history[k]
<1> DEFINE h == Append(history, j)
<1>1. history \in Seq(Jobs) /\ Len(history) \in Nat /\ DOMAIN history = 1 .. Len(history)
  BY LenProperties DEF StatusTypeOK
<1>2. /\ h \in Seq(Jobs) /\ Len(h) = Len(history) + 1 /\ DOMAIN h = 1 .. (Len(history) + 1)
      /\ \A k \in DOMAIN history : h[k] = history[k]
      /\ h[Len(history) + 1] = j
  BY <1>1, AppendProperties, LenProperties
<1>3. /\ history' \in Seq(Jobs) /\ DOMAIN history' = 1 .. Len(history')
      /\ Len(history') = IF Len(h) > HistoryCap THEN HistoryCap ELSE Len(h)
      /\ \A i \in DOMAIN history' : LET k == Len(h) - Len(history') + i
                                    IN  k \in DOMAIN h /\ history'[i] = h[k]
  <2>1. history' = Newest(h, HistoryCap)
    BY DEF RecordJob
  <2>2. HistoryCap \in Nat \ {0}
    BY StatusAssumption
  <2> HIDE DEF h
  <2> QED
    BY <1>2, <2>1, <2>2, NewestElements
<1>4. \A k \in DOMAIN history : history[k] # j
  BY DEF RecordJob, Record, HistoryInv
<1> HIDE DEF h
<1>5. \A i, k \in DOMAIN h : h[i] = h[k] => i = k
  BY <1>1, <1>2, <1>4 DEF HistoryInv
<1>6. \A i \in DOMAIN history' :
         history'[i] = j \/ \E k \in DOMAIN history : history'[i] = history[k]
  <2> SUFFICES ASSUME NEW i \in DOMAIN h
               PROVE  h[i] = j \/ \E k \in DOMAIN history : h[i] = history[k]
    BY <1>3
  <2> QED
    BY <1>1, <1>2
<1>7. \A i, k \in DOMAIN history' : history'[i] = history'[k] => i = k
  <2> SUFFICES ASSUME NEW i \in DOMAIN history', NEW k \in DOMAIN history',
                      history'[i] = history'[k]
               PROVE  i = k
    OBVIOUS
  <2>1. Len(h) - Len(history') + i = Len(h) - Len(history') + k
    BY <1>3, <1>5
  <2>2. Len(h) \in Int /\ Len(history') \in Int /\ i \in Int /\ k \in Int
    BY <1>1, <1>2, <1>3, StatusAssumption
  <2> QED
    BY <2>1, <2>2
<1>8. ASSUME Len(history') # HistoryCap
      PROVE  /\ Len(history) # HistoryCap
             /\ \A k \in DOMAIN history : k \in DOMAIN history' /\ history'[k] = history[k]
  <2>1. Len(history') = Len(h) /\ Len(h) \leq HistoryCap
    BY <1>1, <1>2, <1>3, <1>8, StatusAssumption
  <2>2. ASSUME NEW k \in DOMAIN history
        PROVE  k \in DOMAIN history' /\ history'[k] = history[k]
    <3>1. k \in DOMAIN history' /\ Len(h) - Len(history') + k = k
      BY <1>1, <1>2, <1>3, <2>1
    <3> QED
      BY <1>2, <1>3, <3>1
  <2>3. Len(history) # HistoryCap
    <3>1. Len(history) \in Int /\ HistoryCap \in Int
      BY <1>1, StatusAssumption
    <3>2. Len(history) + 1 \leq HistoryCap
      BY <1>2, <2>1
    <3> QED
      BY <3>1, <3>2
  <2> QED
    BY <2>2, <2>3
<1>9. Len(history') \leq HistoryCap
  BY <1>1, <1>2, <1>3, StatusAssumption
<1> QED
  BY <1>3, <1>6, <1>7, <1>8, <1>9

(* A copy made under the history's lock is one of a job of the history. *)
LEMMA CopiedJob ==
    ASSUME TypeOK, StatusTypeOK, HistoryInv, CopyInv, NEW r \in Readers, CopyJob(r)
    PROVE  \E k \in DOMAIN history :
              LET copy == [job |-> history[k], status |-> status[history[k]]]
                  shown == report[r].shown
              IN  /\ Head(todo[r]) = history[k]
                  /\ history[k] \in Jobs /\ copy \in Copies
                  /\ todo'[r] = Tail(todo[r])
                  /\ report' = [report EXCEPT ![r].shown = Append(shown, copy)]
                  /\ report'[r].shown = Append(shown, copy)
                  /\ report'[r].shown \in Seq(Copies)
                  /\ DOMAIN report'[r].shown = DOMAIN shown \cup {Len(shown) + 1}
                  /\ \A i \in DOMAIN shown : report'[r].shown[i] = shown[i]
                  /\ report'[r].shown[Len(shown) + 1] = copy
                  /\ Len(report'[r].shown) = Len(shown) + 1
<1> DEFINE n == Newest(history, RecentCap)
           shown == report[r].shown
<1>1. /\ shown \in Seq(Copies) /\ Len(shown) \in Nat /\ DOMAIN shown = 1 .. Len(shown)
      /\ todo[r] \in Seq(Jobs) /\ Len(todo[r]) \in Nat /\ todo[r] # <<>>
      /\ DOMAIN todo[r] = 1 .. Len(todo[r])
      /\ report[r] = [shown |-> shown, processed |-> report[r].processed]
  BY LenProperties DEF StatusTypeOK, CopyJob
<1>2. Copied(shown, todo[r], n)
  BY DEF CopyInv, CopyJob
<1>3. 1 \in DOMAIN todo[r] /\ Head(todo[r]) = todo[r][1]
  BY <1>1, EmptySeq, HeadTailProperties
<1>4. Len(shown) + 1 \in DOMAIN n
  <2>1. DOMAIN n = 1 .. Len(n)
    BY NewestJobs
  <2>2. Len(shown) + Len(todo[r]) = Len(n)
    BY <1>2 DEF Copied
  <2>3. Len(shown) \in Nat /\ Len(todo[r]) \in Nat /\ 1 \leq Len(todo[r])
    BY <1>1, <1>3
  <2> HIDE DEF n, shown
  <2>4. Len(n) \in Int /\ 1 \leq Len(shown) + 1 /\ Len(shown) + 1 \leq Len(n)
    BY <2>2, <2>3
  <2>5. Len(shown) + 1 \in 1 .. Len(n)
    BY <2>3, <2>4
  <2> QED
    BY <2>1, <2>5
<1>5. Head(todo[r]) = todo[r][1] /\ todo[r][1] = n[Len(shown) + 1]
  BY <1>2, <1>3 DEF Copied
<1>6. PICK k \in DOMAIN history : history[k] = n[Len(shown) + 1]
  BY <1>4, NewestJobs
<1> DEFINE copy == [job |-> history[k], status |-> status[history[k]]]
<1>7. history[k] \in Jobs /\ copy \in Copies
  <2>1. history[k] \in Jobs
    BY ElementOfSeq, LenProperties DEF StatusTypeOK
  <2> QED
    BY <2>1 DEF TypeOK, Copies
<1>8. /\ report' = [report EXCEPT ![r].shown = Append(shown, copy)]
      /\ report'[r].shown = Append(shown, copy)
      /\ todo'[r] = Tail(todo[r])
  BY <1>5, <1>6 DEF CopyJob, StatusTypeOK
<1>9. /\ Append(shown, copy) \in Seq(Copies)
      /\ Len(Append(shown, copy)) = Len(shown) + 1
      /\ \A i \in 1 .. Len(shown) : Append(shown, copy)[i] = shown[i]
      /\ Append(shown, copy)[Len(shown) + 1] = copy
  BY <1>1, <1>7, AppendProperties
<1>10. DOMAIN Append(shown, copy) = 1 .. (Len(shown) + 1)
  BY <1>9, LenProperties
<1>11. DOMAIN Append(shown, copy) = DOMAIN shown \cup {Len(shown) + 1}
  BY <1>1, <1>10
<1>12. Head(todo[r]) = history[k]
  BY <1>5, <1>6
<1> WITNESS k \in DOMAIN history
<1> HIDE DEF copy, shown
<1> QED
  BY <1>1, <1>7, <1>8, <1>9, <1>11, <1>12 DEF copy, shown

(* The reports and the history keep their types. *)
LEMMA StatusTypeNext ==
    ASSUME OwnInv, StatusTypeOK, HistoryInv, CopyInv, [StatusNext]_statusVars
    PROVE  StatusTypeOK'
<1>0. TypeOK
  BY DEF OwnInv, LockInv
<1> USE DEF StatusTypeOK
<1>1. ASSUME NEW j \in Jobs, RecordJob(j) PROVE StatusTypeOK'
  <2>1. history' \in Seq(Jobs) /\ Len(history') \leq HistoryCap
    BY <1>0, <1>1, HistoryGrows
  <2> QED
    BY <1>1, <2>1 DEF RecordJob, readerVars
<1>2. ASSUME NEW r \in Readers, ReaderStep(r) PROVE StatusTypeOK'
  <2>1. CASE StatusBegin(r)
    BY <2>1, NewestJobs DEF StatusBegin
  <2>2. CASE CopyJob(r)
    <3>1. todo[r] # <<>> /\ Tail(todo[r]) \in Seq(Jobs)
      BY <2>2, HeadTailProperties DEF CopyJob
    <3>2. /\ report' = [report EXCEPT ![r].shown = report'[r].shown]
          /\ report'[r].shown \in Seq(Copies)
      BY <1>0, <2>2, CopiedJob
    <3>3. report' \in [Readers -> [shown : Seq(Copies), processed : Nat]]
      BY <3>2
    <3>4. todo' \in [Readers -> Seq(Jobs)]
      BY <2>2, <3>1 DEF CopyJob
    <3> QED
      BY <2>2, <3>3, <3>4 DEF CopyJob
  <2>3. CASE CopyEnd(r)
    BY <2>3 DEF CopyEnd
  <2>4. CASE LoadProcessed(r)
    BY <1>0, <2>4 DEF LoadProcessed, TypeOK
  <2>5. CASE LoadFailed(r)
    BY <2>5, EmptySeq DEF LoadFailed, NoReport
  <2> QED
    BY <1>2, <2>1, <2>2, <2>3, <2>4, <2>5 DEF ReaderStep
<1>3. CASE UNCHANGED <<history, readerVars>>
  BY <1>3 DEF readerVars
<1> QED
  BY <1>1, <1>2, <1>3, StatusCases

(* The history holds jobs that Submit has created, each once. *)
LEMMA HistoryNext ==
    ASSUME OwnInv, StatusTypeOK, HistoryInv, [StatusNext]_statusVars
    PROVE  HistoryInv'
<1> USE DEF HistoryInv
<1>0. TypeOK /\ \A i \in DOMAIN history : history[i] \in Jobs
  BY ElementOfSeq, LenProperties DEF OwnInv, LockInv, StatusTypeOK
<1>1. \A i \in DOMAIN history : sub'[history[i]] # "new"
  BY <1>0, StatusStep, StatusGoesOn
<1>2. ASSUME NEW j \in Jobs, RecordJob(j) PROVE HistoryInv'
  <2>1. sub'[j] # "new"
    BY <1>0, <1>2 DEF RecordJob, Record, TypeOK
  <2>2. \A i \in DOMAIN history' :
           history'[i] = j \/ \E k \in DOMAIN history : history'[i] = history[k]
    BY <1>0, <1>2, HistoryGrows
  <2>3. \A i, k \in DOMAIN history' : history'[i] = history'[k] => i = k
    BY <1>0, <1>2, HistoryGrows
  <2> QED
    BY <1>1, <2>1, <2>2, <2>3
<1>3. CASE UNCHANGED history
  BY <1>1, <1>3
<1> QED
  BY <1>2, <1>3, StatusCases, ReaderFrame

(* What was copied stays true of the past. *)
LEMMA PastNext ==
    ASSUME OwnInv, StatusTypeOK, HistoryInv, CopyInv, PastInv, [StatusNext]_statusVars
    PROVE  PastInv'
<1>0. TypeOK
  BY DEF OwnInv, LockInv
<1>1. ASSUME NEW copies \in Seq(Copies), PastOf(copies)
      PROVE  \A i \in DOMAIN copies :
                /\ sub'[copies[i].job] # "new"
                /\ Behind(copies[i].status, status'[copies[i].job])
  <2> SUFFICES ASSUME NEW i \in DOMAIN copies
               PROVE  /\ sub'[copies[i].job] # "new"
                      /\ Behind(copies[i].status, status'[copies[i].job])
    OBVIOUS
  <2>1. copies[i].job \in Jobs
    <3>1. copies[i] \in Copies
      BY ElementOfSeq, LenProperties
    <3> QED
      BY <3>1 DEF Copies
  <2>2. /\ sub[copies[i].job] # "new"
        /\ Behind(copies[i].status, status[copies[i].job])
    BY <1>1 DEF PastOf
  <2> QED
    BY <2>1, <2>2, StatusStep, StatusGoesOn, BehindOrder
<1>2. CASE UNCHANGED <<report, last>>
  BY <1>1, <1>2 DEF PastInv, PastOf, StatusTypeOK
<1>3. ASSUME NEW r \in Readers, ReaderStep(r) PROVE PastInv'
  <2>1. UNCHANGED <<sub, status>>
    BY <1>3, ReaderFrame DEF vars
  <2>2. \A q \in Readers \ {r} : PastOf(report'[q].shown) /\ PastOf(last'[q])
    BY <1>3, ReaderFrame DEF PastInv
  <2>3. PastOf(report[r].shown) /\ PastOf(last[r])
    BY DEF PastInv
  <2>4. PastOf(report'[r].shown) /\ PastOf(last'[r])
    <3>1. CASE CopyJob(r)
      <4>1. last' = last
        BY <3>1 DEF CopyJob
      <4>2. PICK k \in DOMAIN history :
               LET shown == report[r].shown IN
               /\ history[k] \in Jobs
               /\ DOMAIN report'[r].shown = DOMAIN shown \cup {Len(shown) + 1}
               /\ \A i \in DOMAIN shown : report'[r].shown[i] = shown[i]
               /\ report'[r].shown[Len(shown) + 1]
                    = [job |-> history[k], status |-> status[history[k]]]
        BY <1>0, <3>1, CopiedJob
      <4>3. sub[history[k]] # "new"
        BY DEF HistoryInv
      <4> QED
        BY <2>3, <4>1, <4>2, <4>3, BehindOrder DEF PastOf
    <3>2. CASE LoadFailed(r)
      <4>1. report'[r].shown = <<>> /\ last'[r] = report[r].shown
        BY <3>2 DEF LoadFailed, NoReport, StatusTypeOK
      <4> QED
        BY <2>3, <4>1 DEF PastOf
    <3>3. CASE StatusBegin(r) \/ CopyEnd(r) \/ LoadProcessed(r)
      <4>1. report'[r].shown = report[r].shown /\ last'[r] = last[r]
        BY <3>3 DEF StatusBegin, CopyEnd, LoadProcessed, StatusTypeOK
      <4> QED
        BY <2>3, <4>1
    <3> QED
      BY <1>3, <3>1, <3>2, <3>3 DEF ReaderStep
  <2> QED
    BY <2>1, <2>2, <2>4 DEF PastInv, PastOf
<1> QED
  BY <1>2, <1>3, StatusCases DEF RecordJob, readerVars

(* While the history is locked, copying goes through its newest jobs in order. *)
LEMMA CopyNext ==
    ASSUME TypeOK, StatusTypeOK, HistoryInv, CopyInv, [StatusNext]_statusVars
    PROVE  CopyInv'
<1> USE DEF CopyInv
<1>1. ASSUME NEW j \in Jobs, RecordJob(j) PROVE CopyInv'
  BY <1>1 DEF RecordJob, HistoryFree, readerVars
<1>2. ASSUME NEW r \in Readers, ReaderStep(r) PROVE CopyInv'
  <2> DEFINE n == Newest(history, RecentCap)
             shown == report[r].shown
             Right == /\ reading'[r] = "copy" => Copied(report'[r].shown, todo'[r], n)
                      /\ reading'[r] = "idle" => report'[r].shown = <<>>
  <2>1. UNCHANGED history
    BY <1>2, ReaderFrame
  <2> SUFFICES Right
    BY <1>2, <2>1, ReaderFrame
  <2>2. CASE StatusBegin(r)
    <3>1. shown = <<>> /\ report'[r].shown = shown /\ todo'[r] = n
          /\ reading'[r] = "copy"
      BY <2>2 DEF StatusBegin, StatusTypeOK
    <3>2. Len(n) \in Nat
      BY NewestJobs, LenProperties
    <3>3. DOMAIN n \subseteq Nat
      BY NewestJobs
    <3> HIDE DEF n
    <3> QED
      BY <3>1, <3>2, <3>3 DEF Copied
  <2>3. CASE CopyJob(r)
    <3>1. /\ Copied(shown, todo[r], n) /\ reading'[r] = "copy"
          /\ todo[r] # <<>> /\ todo[r] \in Seq(Jobs) /\ todo'[r] = Tail(todo[r])
          /\ Len(shown) \in Nat /\ DOMAIN shown = 1 .. Len(shown)
      BY <2>3, LenProperties DEF CopyJob, StatusTypeOK
    <3>2. PICK k \in DOMAIN history :
             LET copy == [job |-> history[k], status |-> status[history[k]]]
             IN  /\ Head(todo[r]) = history[k]
                 /\ DOMAIN report'[r].shown = DOMAIN shown \cup {Len(shown) + 1}
                 /\ Len(report'[r].shown) = Len(shown) + 1
                 /\ \A i \in DOMAIN shown : report'[r].shown[i] = shown[i]
                 /\ report'[r].shown[Len(shown) + 1] = copy
      BY <2>3, CopiedJob
    <3>3. /\ Head(todo[r]) = todo[r][1] /\ 1 \in DOMAIN todo[r]
          /\ Len(todo[r]) \in Nat /\ DOMAIN todo[r] = 1 .. Len(todo[r])
          /\ Len(Tail(todo[r])) = Len(todo[r]) - 1
          /\ DOMAIN Tail(todo[r]) = 1 .. (Len(todo[r]) - 1)
          /\ \A i \in DOMAIN Tail(todo[r]) : Tail(todo[r])[i] = todo[r][i + 1]
      BY <3>1, HeadTailProperties, LenProperties, EmptySeq
    <3>4. Len(report'[r].shown) + Len(todo'[r]) = Len(n)
      <4>1. Len(shown) + Len(todo[r]) = Len(n)
        BY <3>1 DEF Copied
      <4>2. Len(report'[r].shown) = Len(shown) + 1 /\ Len(todo'[r]) = Len(todo[r]) - 1
        BY <3>1, <3>2, <3>3
      <4>3. Len(shown) \in Int /\ Len(todo[r]) \in Int
        BY <3>1, <3>3
      <4>4. (Len(shown) + 1) + (Len(todo[r]) - 1) = Len(shown) + Len(todo[r])
        <5> DEFINE a == Len(shown)
                   b == Len(todo[r])
        <5> HIDE DEF a, b
        <5>1. a \in Int /\ b \in Int => (a + 1) + (b - 1) = a + b
          OBVIOUS
        <5> QED
          BY <4>3, <5>1 DEF a, b
      <4> QED
        BY <4>1, <4>2, <4>4
    <3>5. ASSUME NEW i \in DOMAIN report'[r].shown PROVE report'[r].shown[i].job = n[i]
      <4>1. CASE i \in DOMAIN shown
        BY <3>1, <3>2, <4>1 DEF Copied
      <4>2. CASE i = Len(shown) + 1
        <5>1. todo[r][1] = n[Len(shown) + 1]
          BY <3>1, <3>3 DEF Copied
        <5>2. report'[r].shown[i].job = history[k]
          BY <3>2, <4>2
        <5> QED
          BY <3>2, <3>3, <4>2, <5>1, <5>2
      <4> QED
        BY <3>2, <4>1, <4>2
    <3>6. ASSUME NEW i \in DOMAIN todo'[r]
          PROVE  todo'[r][i] = n[Len(report'[r].shown) + i]
      <4>1. i + 1 \in DOMAIN todo[r] /\ todo'[r][i] = todo[r][i + 1]
        BY <3>1, <3>3
      <4>2. Len(shown) + (i + 1) = Len(report'[r].shown) + i
        <5>1. Len(shown) \in Int /\ i \in Int /\ Len(report'[r].shown) = Len(shown) + 1
          BY <3>1, <3>2, <3>3
        <5> HIDE DEF shown
        <5> QED
          BY <5>1
      <4>3. todo[r][i + 1] = n[Len(shown) + (i + 1)]
        BY <3>1, <4>1 DEF Copied
      <4> QED
        BY <4>1, <4>2, <4>3
    <3> QED
      BY <3>1, <3>4, <3>5, <3>6 DEF Copied
  <2>4. CASE CopyEnd(r) \/ LoadProcessed(r)
    BY <2>4 DEF CopyEnd, LoadProcessed, StatusTypeOK
  <2>5. CASE LoadFailed(r)
    BY <2>5 DEF LoadFailed, NoReport, StatusTypeOK
  <2> QED
    BY <1>2, <2>2, <2>3, <2>4, <2>5 DEF ReaderStep
<1>3. CASE UNCHANGED <<history, readerVars>>
  BY <1>3 DEF readerVars
<1> QED
  BY <1>1, <1>2, <1>3, StatusCases

(* A report shows a job once. *)
LEMMA DistinctNext ==
    ASSUME TypeOK, StatusTypeOK, HistoryInv, CopyInv, DistinctInv, [StatusNext]_statusVars
    PROVE  DistinctInv'
<1> USE DEF DistinctInv
<1>1. ASSUME NEW r \in Readers, ReaderStep(r) PROVE DistinctInv'
  <2> DEFINE n == Newest(history, RecentCap)
             after == report'[r].shown
  <2> SUFFICES \A i, k \in DOMAIN after : after[i].job = after[k].job => i = k
    BY <1>1, ReaderFrame
  <2>1. CASE CopyJob(r)
    <3>1. UNCHANGED history /\ reading'[r] = "copy"
      BY <2>1 DEF CopyJob, StatusTypeOK
    <3>2. Copied(after, todo'[r], n)
      BY <3>1, CopyNext DEF CopyInv
    <3>3. Len(after) \in Nat /\ DOMAIN after = 1 .. Len(after) /\ Len(todo'[r]) \in Nat
      <4>1. after \in Seq(Copies)
        BY <2>1, CopiedJob
      <4>2. todo'[r] \in Seq(Jobs)
        BY <2>1, HeadTailProperties DEF CopyJob, StatusTypeOK
      <4> QED
        BY <4>1, <4>2, LenProperties
    <3>4. DOMAIN after \subseteq DOMAIN n
      <4>1. DOMAIN n = 1 .. Len(n) /\ Len(n) \in Nat
        BY NewestJobs, LenProperties
      <4>2. Len(after) + Len(todo'[r]) = Len(n)
        BY <3>2 DEF Copied
      <4> HIDE DEF n, after
      <4>3. Len(after) \leq Len(n)
        <5>1. \A a, b, c \in Nat : a + b = c => a \leq c
          OBVIOUS
        <5> QED
          BY <3>3, <4>1, <4>2, <5>1
      <4> QED
        BY <3>3, <4>1, <4>3
    <3>5. \A i, k \in DOMAIN n : n[i] = n[k] => i = k
      BY NewestJobs
    <3>6. \A i \in DOMAIN after : after[i].job = n[i]
      BY <3>2 DEF Copied
    <3> HIDE DEF n, after
    <3> QED
      BY <3>4, <3>5, <3>6
  <2>2. CASE ~CopyJob(r)
    <3>1. after = report[r].shown \/ after = <<>>
      BY <1>1, <2>2 DEF ReaderStep, StatusBegin, CopyEnd, LoadProcessed, LoadFailed, NoReport,
         StatusTypeOK
    <3> QED
      BY <3>1
  <2> QED
    BY <2>1, <2>2
<1> QED
  BY <1>1, StatusCases DEF RecordJob, readerVars

(* A job leaves the history only when the history is full. *)
LEMMA KeptNext ==
    ASSUME TypeOK, StatusTypeOK, HistoryInv, CopyInv, KeptInv, [StatusNext]_statusVars
    PROVE  KeptInv'
<1> USE DEF KeptInv, Kept
<1>1. ASSUME NEW j \in Jobs, RecordJob(j) PROVE KeptInv'
  <2>1. UNCHANGED <<report, last>>
    BY <1>1 DEF RecordJob, readerVars
  <2>2. \/ Len(history') = HistoryCap
        \/ /\ Len(history) # HistoryCap
           /\ \A k \in DOMAIN history : k \in DOMAIN history' /\ history'[k] = history[k]
    BY <1>1, HistoryGrows
  <2> QED
    BY <2>1, <2>2
<1>2. ASSUME NEW r \in Readers, ReaderStep(r) PROVE KeptInv'
  <2>1. UNCHANGED history
    BY <1>2, ReaderFrame
  <2> SUFFICES Kept(report'[r].shown) /\ Kept(last'[r])
    BY <1>2, <2>1, ReaderFrame
  <2>2. CASE CopyJob(r)
    <3>1. PICK k \in DOMAIN history :
             LET shown == report[r].shown
             IN  /\ DOMAIN report'[r].shown = DOMAIN shown \cup {Len(shown) + 1}
                 /\ \A i \in DOMAIN shown : report'[r].shown[i] = shown[i]
                 /\ report'[r].shown[Len(shown) + 1]
                      = [job |-> history[k], status |-> status[history[k]]]
      BY <2>2, CopiedJob
    <3>2. last' = last
      BY <2>2 DEF CopyJob
    <3> QED
      BY <3>1, <3>2
  <2>3. CASE LoadFailed(r)
    <3>1. report'[r].shown = <<>> /\ last'[r] = report[r].shown
      BY <2>3 DEF LoadFailed, NoReport, StatusTypeOK
    <3> QED
      BY <3>1
  <2>4. CASE StatusBegin(r) \/ CopyEnd(r) \/ LoadProcessed(r)
    <3>1. report'[r].shown = report[r].shown /\ last'[r] = last[r]
      BY <2>4 DEF StatusBegin, CopyEnd, LoadProcessed, StatusTypeOK
    <3> QED
      BY <3>1
  <2> QED
    BY <1>2, <2>2, <2>3, <2>4 DEF ReaderStep
<1>3. CASE UNCHANGED <<history, readerVars>>
  BY <1>3 DEF readerVars
<1> QED
  BY <1>1, <1>2, <1>3, StatusCases

(* The next report shows the jobs of the last one, unless it is full. *)
LEMMA AgainNext ==
    ASSUME TypeOK, StatusTypeOK, HistoryInv, CopyInv, PastInv, KeptInv, AgainInv,
           [StatusNext]_statusVars
    PROVE  AgainInv'
<1> USE DEF AgainInv
<1>1. ASSUME NEW r \in Readers, ReaderStep(r) PROVE AgainInv'
  <2> DEFINE shown == report[r].shown
             Again(i) == \E k \in DOMAIN shown : shown[k].job = last[r][i].job
  <2>1. CASE StatusBegin(r)
    <3>1. reading'[r] = "copy" /\ report'[r] = report[r] /\ last'[r] = last[r]
      BY <2>1 DEF StatusBegin, StatusTypeOK
    <3> QED
      BY <1>1, <3>1, ReaderFrame
  <2>2. CASE CopyJob(r)
    <3>1. reading'[r] = "copy" /\ last'[r] = last[r]
      BY <2>2 DEF CopyJob
    <3>2. PICK k \in DOMAIN history :
             /\ DOMAIN report'[r].shown = DOMAIN shown \cup {Len(shown) + 1}
             /\ \A i \in DOMAIN shown : report'[r].shown[i] = shown[i]
             /\ report'[r].shown[Len(shown) + 1]
                  = [job |-> history[k], status |-> status[history[k]]]
      BY <2>2, CopiedJob
    <3>3. \A i \in DOMAIN last[r] : Behind(last[r][i].status, status[last[r][i].job])
      BY DEF PastInv, PastOf
    <3>4. \A i \in DOMAIN last[r] : \A m \in DOMAIN report'[r].shown :
             report'[r].shown[m].job = last[r][i].job =>
                 Behind(last[r][i].status, report'[r].shown[m].status)
      BY <3>2, <3>3
    <3> QED
      BY <1>1, <3>1, <3>4, ReaderFrame
  <2>3. CASE CopyEnd(r)
    <3> DEFINE n == Newest(history, RecentCap)
    <3>1. report'[r] = report[r] /\ last'[r] = last[r]
      BY <2>3 DEF CopyEnd
    <3>2. /\ Len(shown) \in Nat /\ DOMAIN shown = 1 .. Len(shown)
          /\ Len(history) \in Nat /\ DOMAIN history = 1 .. Len(history)
          /\ Len(todo[r]) = 0
      BY <2>3, LenProperties, EmptySeq DEF StatusTypeOK, CopyEnd
    <3>3. Copied(shown, todo[r], n)
      BY <2>3 DEF CopyEnd, CopyInv
    <3>4. Len(shown) = Len(n)
      BY <3>2, <3>3 DEF Copied
    <3>5. CASE Len(history) > RecentCap
      <4>1. Len(shown) = RecentCap
        BY <3>4, <3>5, NewestJobs
      <4> QED
        BY <1>1, <3>1, <4>1, ReaderFrame
    <3>6. CASE ~(Len(history) > RecentCap)
      <4>1. Len(history) \leq RecentCap /\ (Len(history) = HistoryCap => Len(history) = RecentCap)
        BY <3>2, <3>6, StatusAssumption
      <4>2. n = history
        BY <4>1, NewestJobs
      <4>3. \A i \in DOMAIN last[r] : Again(i) \/ Len(shown) = RecentCap
        <5> SUFFICES ASSUME NEW i \in DOMAIN last[r], Len(shown) # RecentCap PROVE Again(i)
          OBVIOUS
        <5>1. PICK k \in DOMAIN history : history[k] = last[r][i].job
          BY <3>4, <4>1, <4>2 DEF KeptInv, Kept
        <5>2. k \in DOMAIN shown /\ shown[k].job = history[k]
          BY <3>2, <3>3, <3>4, <4>2 DEF Copied
        <5> QED
          BY <5>1, <5>2
      <4> QED
        BY <1>1, <3>1, <4>3, ReaderFrame
    <3> QED
      BY <3>5, <3>6
  <2>4. CASE LoadProcessed(r)
    <3>1. /\ report'[r].shown = shown /\ last'[r] = last[r]
          /\ reading[r] = "processed" /\ reading'[r] = "failed"
      BY <2>4 DEF LoadProcessed, StatusTypeOK
    <3> QED
      BY <1>1, <3>1, ReaderFrame
  <2>5. CASE LoadFailed(r)
    <3>1. report'[r].shown = <<>> /\ reading'[r] = "idle"
      BY <2>5 DEF LoadFailed, NoReport, StatusTypeOK
    <3> QED
      BY <1>1, <3>1, ReaderFrame
  <2> QED
    BY <1>1, <2>1, <2>2, <2>3, <2>4, <2>5 DEF ReaderStep
<1> QED
  BY <1>1, StatusCases DEF RecordJob, readerVars

(* Copies of different jobs that all lie in a set are no more than it holds. *)
LEMMA ShownBound ==
    ASSUME NEW shown \in Seq(Copies), NEW I \in SUBSET DOMAIN shown, NEW T, IsFiniteSet(T),
           \A i, k \in DOMAIN shown : shown[i].job = shown[k].job => i = k,
           \A i \in I : shown[i].job \in T
    PROVE  IsFiniteSet(I) /\ Cardinality(I) \in Nat /\ Cardinality(I) \leq Cardinality(T)
<1> DEFINE f == [i \in I |-> shown[i].job]
<1>1. f \in Injection(I, T)
  BY DEF Injection, IsInjective
<1>2. IsFiniteSet(I) /\ Cardinality(I) \leq Cardinality(T)
  BY <1>1, FS_Injection
<1> QED
  BY <1>2, FS_CardinalityType

(* A job shown at a terminal status has that status still. *)
LEMMA ShownStill ==
    ASSUME StatusTypeOK, PastInv, NEW r \in Readers, NEW i \in DOMAIN report[r].shown,
           report[r].shown[i].status \in {"completed", "failed"}
    PROVE  /\ report[r].shown[i].job \in Jobs
           /\ status[report[r].shown[i].job] = report[r].shown[i].status
           /\ sub[report[r].shown[i].job] # "new"
<1>1. report[r].shown[i] \in Copies
  BY ElementOfSeq, LenProperties DEF StatusTypeOK
<1> QED
  BY <1>1 DEF Copies, PastInv, PastOf, Behind, Rank

(* The jobs a worker has settled and not counted are at most the workers. *)
LEMMA CountedBut ==
    ASSUME TypeOK, CountersExact
    PROVE  /\ Cardinality(Completed) \in Nat /\ Cardinality(FailedInPool) \in Nat
           /\ Cardinality(Workers) \in Nat
           /\ Cardinality(Completed) \leq processed + Cardinality(Workers)
           /\ Cardinality(FailedInPool) \leq failed + Cardinality(Workers)
<1>1. /\ Cardinality(AtPc("countOk")) \in Nat /\ Cardinality(AtPc("countFail")) \in Nat
      /\ Cardinality(Completed) \in Nat /\ Cardinality(FailedInPool) \in Nat
      /\ Cardinality(Workers) \in Nat
  BY CountSets, FinitelyMany, FS_CardinalityType
<1>2. /\ Cardinality(AtPc("countOk")) \leq Cardinality(Workers)
      /\ Cardinality(AtPc("countFail")) \leq Cardinality(Workers)
  BY FinitelyMany, FS_Subset DEF AtPc
<1>3. /\ processed + Cardinality(AtPc("countOk")) = Cardinality(Completed)
      /\ failed + Cardinality(AtPc("countFail")) = Cardinality(FailedInPool)
  BY DEF CountersExact, AtPc, Completed, FailedInPool
<1>4. processed \in Nat /\ failed \in Nat
  BY DEF TypeOK
<1> QED
  BY <1>1, <1>2, <1>3, <1>4

(* The counter is loaded after the copies were made. *)
LEMMA LoadedNext ==
    ASSUME TypeOK, StatusTypeOK, CountersExact, PastInv, DistinctInv, LoadedInv,
           [StatusNext]_statusVars
    PROVE  LoadedInv'
<1> USE DEF LoadedInv
<1>1. ASSUME NEW r \in Readers, ReaderStep(r) PROVE LoadedInv'
  <2> SUFFICES ASSUME reading'[r] = "failed"
               PROVE  Showing(report'[r].shown, "completed")
                        \leq report'[r].processed + Cardinality(Workers)
    BY <1>1, ReaderFrame
  <2>1. LoadProcessed(r)
    BY <1>1 DEF ReaderStep, StatusBegin, CopyJob, CopyEnd, LoadFailed, StatusTypeOK
  <2>2. report'[r].shown = report[r].shown /\ report'[r].processed = processed
    BY <2>1 DEF LoadProcessed, StatusTypeOK
  <2> DEFINE shown == report[r].shown
             I == {i \in DOMAIN shown : shown[i].status = "completed"}
  <2>3. shown \in Seq(Copies) /\ \A i, k \in DOMAIN shown : shown[i].job = shown[k].job => i = k
    BY DEF StatusTypeOK, DistinctInv
  <2>4. \A i \in I : shown[i].job \in Completed
    BY ShownStill DEF Completed
  <2>5. IsFiniteSet(Completed)
    BY CountSets
  <2> HIDE DEF shown
  <2>6. Cardinality(I) \in Nat /\ Cardinality(I) \leq Cardinality(Completed)
    BY <2>3, <2>4, <2>5, ShownBound
  <2> HIDE DEF I
  <2>7. Cardinality(I) \leq processed + Cardinality(Workers)
    BY <2>6, CountedBut DEF TypeOK
  <2> QED
    BY <2>2, <2>7 DEF Showing, I, shown
<1> QED
  BY <1>1, StatusCases DEF RecordJob, readerVars

(* What the reports say holds at first, and every step keeps it. *)
LEMMA StatusFirst == StatusInit => StatusInv
<1> SUFFICES ASSUME StatusInit PROVE StatusInv
  OBVIOUS
<1>1. StatusTypeOK
  BY EmptySeq, StatusAssumption DEF StatusInit, StatusTypeOK, NoReport
<1>2. DOMAIN history = {} /\ \A r \in Readers :
         /\ DOMAIN last[r] = {} /\ report[r].shown = <<>> /\ DOMAIN report[r].shown = {}
         /\ reading[r] = "idle"
  BY DEF StatusInit, NoReport
<1> QED
  BY <1>1, <1>2 DEF StatusInv, HistoryInv, PastInv, PastOf, CopyInv, DistinctInv, KeptInv,
     Kept, AgainInv, LoadedInv

(* Every step of the server keeps what is known of its status reports. *)
LEMMA StatusInvNext ==
    OwnInv /\ CountersExact /\ StatusInv /\ [StatusNext]_statusVars => StatusInv'
BY StatusTypeNext, HistoryNext, PastNext, CopyNext, DistinctNext, KeptNext, AgainNext,
   LoadedNext DEF StatusInv, OwnInv, LockInv

(* So it is known for ever. *)
LEMMA StatusAlways == StatusSpec => [](OwnInv /\ CountersExact /\ StatusInv)
<1>1. StatusSpec => []OwnInv
  BY StatusRunsPool, OwnCorrect, PTL
<1>2. StatusSpec => []CountersExact
  BY StatusRunsPool, PoolCountersExact, PTL
<1> QED
  BY <1>1, <1>2, StatusFirst, StatusInvNext, PTL DEF StatusSpec

(* A report adds up although it is no snapshot: whatever it shows as         *)
(* completed is in its TotalProcessed but for one job per worker, and what   *)
(* it shows as failed is in its TotalFailed but for that and for the jobs it *)
(* shows that Submit refused (worker.go, GetStatus).                         *)
THEOREM StatusReportAddsUp == StatusSpec => ReportAddsUp
<1> DEFINE Sum(r) == LET shown == report[r].shown
                         refused == {i \in DOMAIN shown : sub[shown[i].job] = "rejected"} IN
               /\ Showing(shown, "completed") \leq report[r].processed + Cardinality(Workers)
               /\ Showing(shown, "failed") \leq
                      failed + Cardinality(Workers) + Cardinality(refused)
<1>1. ASSUME OwnInv, CountersExact, StatusInv, NEW r \in Readers, LoadFailed(r)
      PROVE  Sum(r)
  <2> USE DEF StatusInv
  <2> DEFINE shown == report[r].shown
             I == {i \in DOMAIN shown : shown[i].status = "failed"}
             refused == {i \in DOMAIN shown : sub[shown[i].job] = "rejected"}
  <2>0. TypeOK
    BY <1>1 DEF OwnInv, LockInv
  <2>1. shown \in Seq(Copies) /\ \A i, k \in DOMAIN shown : shown[i].job = shown[k].job => i = k
    BY <1>1 DEF StatusTypeOK, DistinctInv
  <2>2. \A i \in I \ refused : shown[i].job \in FailedInPool
    <3> SUFFICES ASSUME NEW i \in I \ refused
                 PROVE  shown[i].job \in FailedInPool
      OBVIOUS
    <3>1. /\ shown[i].job \in Jobs /\ status[shown[i].job] = "failed"
          /\ sub[shown[i].job] # "new" /\ sub[shown[i].job] # "rejected"
      BY <1>1, ShownStill
    <3> HIDE DEF shown
    <3> QED
      BY <1>1, <2>0, <3>1 DEF FailedInPool, OwnInv, SubmitStatus, TypeOK, SubPcs
  <2> HIDE DEF shown
  <2>3. /\ IsFiniteSet(DOMAIN shown)
    <3>1. DOMAIN shown = 1 .. Len(shown) /\ Len(shown) \in Nat
      BY <2>1, LenProperties
    <3> QED
      BY <3>1, FS_Interval
  <2>4. IsFiniteSet(FailedInPool)
    BY CountSets
  <2>5. /\ IsFiniteSet(I \ refused) /\ Cardinality(I \ refused) \in Nat
        /\ Cardinality(I \ refused) \leq Cardinality(FailedInPool)
    BY <2>1, <2>2, <2>4, ShownBound
  <2>6. /\ IsFiniteSet(I) /\ IsFiniteSet(refused) /\ IsFiniteSet(I \cap refused)
        /\ Cardinality(I \cap refused) \leq Cardinality(refused)
    BY <2>3, FS_Subset
  <2>7. Cardinality(I \ refused) = Cardinality(I) - Cardinality(I \cap refused)
    BY <2>6, FS_Difference
  <2>8. Cardinality(I) \in Nat /\ Cardinality(refused) \in Nat
        /\ Cardinality(I \cap refused) \in Nat
    BY <2>6, FS_CardinalityType
  <2>9. Cardinality(I) \leq failed + Cardinality(Workers) + Cardinality(refused)
    <3>1. Cardinality(I \ refused) \leq failed + Cardinality(Workers)
      BY <1>1, <2>0, <2>5, CountedBut DEF TypeOK
    <3>2. failed \in Nat /\ Cardinality(Workers) \in Nat
      BY <1>1, <2>0, CountedBut DEF TypeOK
    <3> HIDE DEF I, refused
    <3> QED
      BY <2>5, <2>6, <2>7, <2>8, <3>1, <3>2
  <2>10. Showing(shown, "completed") \leq report[r].processed + Cardinality(Workers)
    BY <1>1 DEF LoadedInv, LoadFailed, shown
  <2> QED
    BY <2>9, <2>10 DEF Showing, shown
<1>2. OwnInv /\ CountersExact /\ StatusInv /\ [StatusNext]_statusVars =>
        [\A r \in Readers : LoadFailed(r) => Sum(r)]_statusVars
  BY <1>1
<1> QED
  BY <1>2, StatusAlways, PTL DEF StatusSpec, ReportAddsUp

(* Between two reports of one caller no job goes back, and none disappears *)
(* but for RecentCap newer ones (worker.go, GetStatus).                    *)
THEOREM StatusReportsNeverGoBack == StatusSpec => ReportsNeverGoBack
<1> DEFINE Onward(r) == \A i \in DOMAIN last[r] :
              LET old == last[r][i]
                  shown == report[r].shown
                  again == {k \in DOMAIN shown : shown[k].job = old.job} IN
              /\ again = {} => Len(shown) = RecentCap
              /\ \A k \in again :
                    /\ Rank(old.status) \leq Rank(shown[k].status)
                    /\ Rank(old.status) = 2 => shown[k].status = old.status
<1>1. ASSUME StatusInv, NEW r \in Readers, LoadFailed(r) PROVE Onward(r)
  BY <1>1 DEF StatusInv, AgainInv, Behind, LoadFailed
<1>2. StatusInv /\ [StatusNext]_statusVars =>
        [\A r \in Readers : LoadFailed(r) => Onward(r)]_statusVars
  BY <1>1
<1> QED
  BY <1>2, StatusAlways, PTL DEF StatusSpec, ReportsNeverGoBack
=============================================================================
