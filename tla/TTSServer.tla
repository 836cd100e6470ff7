------------------------------- MODULE TTSServer -------------------------------
(***************************************************************************)
(* The MCP server process (internal/server/server.go, cmd/tts-server/main. *)
(* go) around the worker pool: the tool calls of the client, the signal    *)
(* goroutine that shuts the pool down and exits, and main, which returns   *)
(* as soon as serving stdio ends, whatever the pool is doing.  Stoppers    *)
(* has the one caller of Stop that a process has, its signal goroutine.    *)
(***************************************************************************)
EXTENDS WorkerPool

VARIABLE process    \* "up", or how the process has ended

serverVars == <<vars, process>>

(* New starts the workers and registers the tools before anything is served. *)
ServerInit == Init /\ process = "up"

-----------------------------------------------------------------------------
(* The tools.  A call whose arguments are wrong is answered with an error and *)
(* touches nothing; tts_status reads (PoolStatus), tts_output writes the      *)
(* state file that every process shares (VoiceModeStore).                     *)

HandleSpeak(j) == Record(j)

HandlePause == Pause

HandleResume == Resume

HandleClear(c) == ClearBegin(c)

ToolCall ==
    \/ \E j \in Jobs : HandleSpeak(j)
    \/ \E c \in Clearers : HandleClear(c)
    \/ HandlePause
    \/ HandleResume

-----------------------------------------------------------------------------
(* The process *)

(* The signal goroutine takes a signal; later ones find nobody. *)
Signalled(s) == StopEnter(s)

(* What the pool's goroutines and the handlers' calls into it go on with. *)
SubmitGoesOn(j) == SubmitLock(j) \/ CheckClosed(j) \/ Send(j) \/ SubmitReturn(j)

Goroutines ==
    \/ \E j \in Jobs : SubmitGoesOn(j)
    \/ \E c \in Clearers : ClearBody(c)
    \/ \E s \in Stoppers : StopBody(s)
    \/ \E w \in Workers : WorkerStep(w)

(* Fault variant: the exit does not wait for Shutdown. *)
ExitsAtOnce(s) ==
    /\ stopPc[s] # "idle"
    /\ process' = "stopped"
    /\ UNCHANGED vars

(* srv.Shutdown has returned, and the signal goroutine calls os.Exit. *)
Exits(s) ==
    /\ stopPc[s] = "returned"
    /\ process' = "stopped"
    /\ UNCHANGED vars

(* Serving stdio ends, the client having closed it, or fails: main returns, *)
(* or ends the process, and calls Stop in neither case.                     *)
ServeEnds ==
    /\ process' \in {"ended", "fatal"}
    /\ UNCHANGED vars

ServerNext ==
    /\ process = "up"
    /\ \/ (ToolCall \/ Goroutines \/ \E s \in Stoppers : Signalled(s)) /\ UNCHANGED process
       \/ \E s \in Stoppers : Exits(s)
       \/ ServeEnds

ServerSpec == ServerInit /\ [][ServerNext]_serverVars

(* The scheduler runs every goroutine that can go on, and the provider,   *)
(* Telegram and player calls return.  Nobody has to call a tool, send a   *)
(* signal or close stdin.                                                 *)
Runs(A) == process = "up" /\ A /\ UNCHANGED process

ServerFairSpec ==
    /\ ServerSpec
    /\ \A j \in Jobs : WF_serverVars(Runs(SubmitGoesOn(j)))
    /\ \A c \in Clearers : WF_serverVars(Runs(ClearBody(c)))
    /\ \A w \in Workers : WF_serverVars(Runs(WorkerStep(w)))
    /\ \A s \in Stoppers :
          WF_serverVars(Runs(StopBody(s))) /\ WF_serverVars(process = "up" /\ Exits(s))

-----------------------------------------------------------------------------
(* Properties *)

(* "TTS Server stopped gracefully" (main.go:44): a process that exits after *)
(* a signal has settled every job it has accepted, but for one that a Clear *)
(* is about to mark, unless every worker left from the pause loop.  A job   *)
(* is lost otherwise only when serving stdio ends first.                    *)
GracefulExit ==
    process = "stopped" =>
        \A j \in Jobs : sub[j] = "accepted" =>
            \/ status[j] \in Terminal
            \/ \E c \in Clearers : held[c] = j
            \/ InQueue(j) /\ \A w \in Workers : pc[w] = "parkExit"

(* A signal ends the process whatever the workers and submitters are doing, *)
(* paused or not: every worker is woken and leaves.                         *)
SignalEndsProcess == \A s \in Stoppers : stopPc[s] # "idle" ~> process # "up"

(* If the pool does not stay paused, every accepted job reaches a terminal *)
(* status, unless all workers left while parked or the process has ended.  *)
AcceptedSettles ==
    <>[](~paused) =>
        \A j \in Jobs : sub[j] = "accepted" ~>
            \/ status[j] \in Terminal
            \/ \A w \in Workers : pc[w] = "parkExit"
            \/ process # "up"
=============================================================================
