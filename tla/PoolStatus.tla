----------------------------- MODULE PoolStatus -----------------------------
(***************************************************************************)
(* The history of the worker pool and GetStatus (internal/server/worker.go)*)
(* over WorkerPool.  A status report is read piece by piece while the pool *)
(* goes on: each recent job under its own lock, then the counters.         *)
(***************************************************************************)
EXTENDS WorkerPool

CONSTANTS
    Readers,        \* callers of GetStatus, each calling again and again
    HistoryCap,     \* the 100 of Submit
    RecentCap       \* the 10 of GetStatus

ASSUME StatusAssumption ==
    /\ HistoryCap \in Nat \ {0} /\ RecentCap \in Nat \ {0}
    /\ RecentCap \leq HistoryCap

VARIABLES
    history,        \* wp.jobHistory
    reading,        \* where each GetStatus call stands
    todo,           \* the jobs it has still to copy
    report,         \* the report it is building
    last            \* history: the jobs shown by the report it returned before

readerVars == <<reading, todo, report, last>>
statusVars == <<vars, history, readerVars>>

(* The jobs of a report are shown with the status they had when copied. *)
NoReport == [shown |-> <<>>, processed |-> 0]

StatusInit ==
    /\ Init
    /\ history = <<>>
    /\ reading = [r \in Readers |-> "idle"]
    /\ todo = [r \in Readers |-> <<>>]
    /\ report = [r \in Readers |-> NoReport]
    /\ last = [r \in Readers |-> <<>>]

(* The last n elements of s, or all of them. *)
Newest(s, n) == SubSeq(s, IF Len(s) > n THEN Len(s) - n + 1 ELSE 1, Len(s))

(* A reader between RLock and RUnlock of historyMu keeps Submit out. *)
HistoryFree == \A r \in Readers : reading[r] # "copy"

(* Fault variant: the trimming is off by one. *)
RecordJobTrimsEarly(j) ==
    /\ HistoryFree
    /\ Record(j)
    /\ history' = Newest(Append(history, j), HistoryCap - 1)
    /\ UNCHANGED readerVars

(* Submit's first step: the job enters the history, the oldest one leaves. *)
RecordJob(j) ==
    /\ HistoryFree
    /\ Record(j)
    /\ history' = Newest(Append(history, j), HistoryCap)
    /\ UNCHANGED readerVars

StatusBegin(r) ==
    /\ reading[r] = "idle"
    /\ todo' = [todo EXCEPT ![r] = Newest(history, RecentCap)]
    /\ reading' = [reading EXCEPT ![r] = "copy"]
    /\ UNCHANGED <<vars, history, report, last>>

(* One job is copied under its read lock. *)
CopyJob(r) ==
    /\ reading[r] = "copy"
    /\ todo[r] # <<>>
    /\ LET j == Head(todo[r]) IN
        report' = [report EXCEPT ![r].shown = Append(@, [job |-> j, status |-> status[j]])]
    /\ todo' = [todo EXCEPT ![r] = Tail(@)]
    /\ UNCHANGED <<vars, history, reading, last>>

(* historyMu.RUnlock *)
CopyEnd(r) ==
    /\ reading[r] = "copy"
    /\ todo[r] = <<>>
    /\ reading' = [reading EXCEPT ![r] = "processed"]
    /\ UNCHANGED <<vars, history, todo, report, last>>

(* Fault variant: the counter is not loaded again. *)
LoadProcessedCached(r) ==
    /\ reading[r] = "processed"
    /\ reading' = [reading EXCEPT ![r] = "failed"]
    /\ UNCHANGED <<vars, history, todo, report, last>>

(* The two counters are loaded one after the other; the queue length and the *)
(* flags, which nothing below relates to the rest, are left out.             *)
LoadProcessed(r) ==
    /\ reading[r] = "processed"
    /\ report' = [report EXCEPT ![r].processed = processed]
    /\ reading' = [reading EXCEPT ![r] = "failed"]
    /\ UNCHANGED <<vars, history, todo, last>>

(* The report is complete and returned. *)
LoadFailed(r) ==
    /\ reading[r] = "failed"
    /\ last' = [last EXCEPT ![r] = report[r].shown]
    /\ report' = [report EXCEPT ![r] = NoReport]
    /\ reading' = [reading EXCEPT ![r] = "idle"]
    /\ UNCHANGED <<vars, history, todo>>

ReaderStep(r) ==
    \/ StatusBegin(r) \/ CopyJob(r) \/ CopyEnd(r) \/ LoadProcessed(r) \/ LoadFailed(r)

(* Every step of the pool but Record, which RecordJob extends. *)
PoolStep ==
    /\ \/ \E j \in Jobs : SubmitLock(j) \/ CheckClosed(j) \/ Send(j) \/ SubmitReturn(j)
       \/ \E s \in Stoppers : StopStep(s)
       \/ \E c \in Clearers : ClearStep(c)
       \/ \E w \in Workers : WorkerStep(w)
       \/ Pause
       \/ Resume
    /\ UNCHANGED <<history, readerVars>>

StatusNext ==
    \/ \E j \in Jobs : RecordJob(j)
    \/ \E r \in Readers : ReaderStep(r)
    \/ PoolStep

StatusSpec == StatusInit /\ [][StatusNext]_statusVars

-----------------------------------------------------------------------------
(* Properties *)

(* The number of jobs a list of copies shows at status s. *)
Showing(shown, s) == Cardinality({i \in DOMAIN shown : shown[i].status = s})

(* A report adds up although it is not a snapshot: the jobs it shows as    *)
(* completed are counted in its TotalProcessed, but for those a worker has *)
(* not counted yet; failed ones likewise, but for those Submit refused.    *)
ReportAddsUp ==
    [][\A r \in Readers : LoadFailed(r) =>
          LET shown == report[r].shown
              refused == {i \in DOMAIN shown : sub[shown[i].job] = "rejected"} IN
          /\ Showing(shown, "completed") \leq report[r].processed + Cardinality(Workers)
          /\ Showing(shown, "failed") \leq
                 failed + Cardinality(Workers) + Cardinality(refused)]_statusVars

(* How far a status has gone. *)
Rank(s) == IF s = "pending" THEN 0 ELSE IF s = "processing" THEN 1 ELSE 2

(* Successive reports never go back: no job returns to an earlier status or *)
(* leaves a terminal one, and a job that is missing has made room for       *)
(* RecentCap newer ones.                                                    *)
ReportsNeverGoBack ==
    [][\A r \in Readers : LoadFailed(r) =>
          \A i \in DOMAIN last[r] :
              LET old == last[r][i]
                  shown == report[r].shown
                  again == {k \in DOMAIN shown : shown[k].job = old.job} IN
              /\ again = {} => Len(shown) = RecentCap
              /\ \A k \in again :
                    /\ Rank(old.status) \leq Rank(shown[k].status)
                    /\ Rank(old.status) = 2 => shown[k].status = old.status]_statusVars
=============================================================================
