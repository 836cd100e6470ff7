# Verification of claude-code-tts

TLA+ models of the text-to-speech MCP server and of the relay that brings its
clips to a phone, with TLC runs on small instances and TLAPS proofs for all
instances.  Everything here is translated from the sources; `PROJECT.json`
names, for each definition, the lines it stands for.

    tlc -workers 2 -config PoolConcurrency.cfg MCPoolPlayer    # a run
    tlapm WorkerPoolProofs.tla                                  # a proof module

## 1. The system

The repository holds two long-running programs and a few small ones.

**tts-server** (`cmd/tts-server`, `internal/server`) is an MCP server on stdio.
Its `speak` tool submits a job to the *worker pool*; two workers resolve the
voice (*ttsconfig*), synthesize (*tts* providers), send a Telegram message
(*telegram*) and play the audio (*player*) as the *voice mode* says.
`tts_status`, `tts_pause`, `tts_resume`, `tts_clear` and `tts_output` act on the
pool and on the mode file.  A signal shuts the pool down and ends the process; the
end of stdin ends it without.  **speak-text** does the same for one text, without
a pool.

**relay** (`cmd/relay`, `internal/relay`) runs two HTTP servers that share a
*clip store* and an *event hub*.  The Stop hook posts text to the loopback
*ingest handler*, which synthesizes, stores the clip, broadcasts it to the
companion pages connected to `/events`, and, if nobody is connected, starts the
*push sender*.  The public server checks a *token* (with a *limiter* of failed
attempts) and serves the companion page, its events, clips and push
registrations.  Shell hooks start and stop the relay around a session.

| Component | State | Operations | Meets others through |
|---|---|---|---|
| worker pool `worker.go` | queue channel, job statuses, history, counters, paused, closed, two channels' closing | Submit, Stop, Clear, Pause, Resume, GetStatus, worker loop, processJob | MCP handlers call it concurrently; workers call registry, mode, Telegram, player |
| player `player.go` | playMu, isPlaying, a temporary file | Play, IsPlaying | called by both workers; the flag is read by GetStatus |
| voice mode `voicemode.go` | a JSON file and its temporary file | Get, Set | the pool reads it once per job; CLI and server both write it |
| ttsconfig `registry.go` | configuration, providers | Resolve, ResolveVoice, Default | pure but for the environment |
| MCP server `server.go`, `cmd/tts-server` | the process, one signal goroutine | tools, Start, Shutdown, exit | calls the pool |
| providers, Telegram | none | Synthesize, Send | network or child process |
| speak-text `cmd/speak-text` | none | runSpeak, mode, status | mode file, registry, Telegram, player |
| event hub `sse.go` | subscribers and their channels | Subscribe, cancel, Broadcast, Count | `/events` handlers subscribe, ingests broadcast |
| clip store `store.go` | clips, order | Add, Get, Close | ingests add, both servers get, shutdown closes |
| ingest handler `handler.go` | none of its own | handleIngest, handleRotateToken, handleClip | store, hub, presence, push sender, token store |
| push sender `push.go` | subscriptions | AddSubscription, Send | detached goroutines send while clients register |
| token store `auth.go` | the token in memory and on file | Current, LoadOrGenerate, Rotate | read on every public request |
| limiter `auth.go` | a bucket per client | allow, sweep | every failed request |
| VAPID store `vapid.go` | two key files | LoadOrGenerate | read by every push |
| process and hooks | pid file, signal handler | start, stop, shutdown order | sessions share one relay |
| companion page, service worker `web/` | locked or not, an event source, notifications | unlock, connect, play, push, tap | SSE, push service |

### What is hard in it

- *Worker pool.* Submit sends on a channel that Stop closes; Clear and the
  workers receive from the same channel; the pause flag is read before the
  blocking receive; workers leave by two different channels; statuses and
  counters change in separate steps; GetStatus reads all this piece by piece.
  Correct means: no panic, no job lost or done twice, final statuses final,
  exact counters, Stop returns, what was delivered is what the mode asked for,
  and reports that add up and do not go back.
- *Server process.* A signal goroutine stops the pool and exits, while main returns
  as soon as stdin ends, whatever the pool does.  Correct means: a signal ends the
  process, and only when what was accepted is settled.
- *Relay.* Storing, broadcasting, asking for the presence and pushing are
  separate critical sections, and clients come and go between them.  Correct
  means: no send to a closed channel, slots come back, a clip that is announced
  can be fetched, and a push replaces the stream instead of doubling it.
- *Phones.* A browser reconnects an event source by itself, the relay learns of a
  lost connection late or never, and pages come and go and are opened by
  notifications.  Correct means: no page plays a clip twice by itself, and the slot
  of a connection that is gone comes back.
- *Push sender.* A fan-out works on a copy while the list changes.  Correct
  means: accepted registrations survive, gone ones are dropped, one failure does
  not hide the others.
- *Files.* The token, the key pair and the mode are written in steps, and the
  process may die between any two; the mode is written by several processes.
  Correct means: no replaced token becomes valid again, the keys phones have
  registered for stay, the mode in force is the one set last.
- *Limiter.* The clock is read before the lock, and idle buckets are forgotten.
  Correct means: nobody gets more attempts than the bucket gives, and nobody is
  refused one it still has.
- *Hooks.* Sessions share a relay through a pid file that is probed, removed and
  written by scripts; a shutdown has five seconds for both servers.  Correct
  means: no second relay, no orphan, and a relay that is told to stop ends.
- *Player.* A lock, a flag and a file are released by deferred calls in a
  certain order, on every error path, under workers that wait for one another.

`PROJECT.json` lists these hazards line by line with the properties that cover
them, and says so where nothing does.

## 2. Modules

| Module | Models | Composes |
|---|---|---|
| `WorkerPool` | `worker.go`: Submit, Stop, Clear, Pause, Resume, worker, processJob | player and mode as far as a job sees them |
| `JobQueue` | what the pool promises: a closable bounded FIFO queue | |
| `WorkerPoolProofs` | proofs, the refinement among them | `WorkerPool`, `JobQueue` |
| `PoolStatus` | the history of jobs and GetStatus | `WorkerPool` |
| `Player` | `player.go`: Play with its deferred calls | |
| `PoolPlayer` | the workers as callers of Play | `WorkerPool`, `Player` |
| `TTSServer` | `server.go`, `cmd/tts-server`: tools, signal, end of stdin | `WorkerPool` |
| `ServerProofs` | proofs | `Player`, `PoolPlayer`, `TTSServer`, `PoolStatus` |
| `VoiceModeStore` | `voicemode.go`: Get, and Set by several processes | |
| `Providers` | voice lists, formats and outcomes of `internal/tts`, Telegram's Send, the platforms' players, as operators | |
| `VoiceResolution` | `config.go`, `registry.go` and the CLI's overrides, as operators | `Providers` |
| `SpeakText` | `cmd/speak-text`: runSpeak while the mode is being set | `VoiceModeStore`, `VoiceResolution` |
| `SpeakProofs` | proofs | `SpeakText` |
| `ClipFeed` | what the hub promises: a feed with a bounded number of places | |
| `SSEHub` | `sse.go` and `handleEvents` of `companion.go` | |
| `ClipStore` | `store.go` | |
| `Ingest` | `handleIngest`, `presence.go`, `Server.Shutdown` | `SSEHub`, `ClipStore`, `ClipFeed` |
| `Companion` | `web/`: the page, its event source, its service worker | `Ingest` |
| `IngestProofs` | proofs, the refinement among them | `Ingest`, `Companion` |
| `PushSender` | `push.go` with an external push service | |
| `PushProofs` | proofs | `PushSender` |
| `TokenStore` | the token of `auth.go` and `/rotate-token`, with crashes | |
| `VAPIDStore` | `vapid.go`: LoadOrGenerate of two files, with crashes | |
| `RelayFiles` | what main loads, and in which order | `TokenStore`, `VAPIDStore` |
| `RelayFilesProofs` | proofs | `RelayFiles` |
| `AuthLimiter` | the limiter of `auth.go` | |
| `LimiterProofs` | proofs | `AuthLimiter` |
| `RelayLifecycle` | `relay-start.sh`, `relay-stop.sh`, `cmd/relay/main.go` | |
| `LifecycleProofs` | proofs | `RelayLifecycle` |

`MCPoolPlayer`, `MCPoolStatus`, `MCPush`, `MCRelayFiles`, `MCLimiter` and
`MCLifecycle` make instances for TLC: symmetry, a set of registrations, and the
statements that the violation runs check.  No symmetry is used where a liveness
property is checked.

### How state and actions correspond to the code

**WorkerPool.** One action per atomic step of the Go code.  A Submit goes through
recording the job in the history (`Record`), taking the read lock
(`SubmitLock`), testing `closed` (`CheckClosed`), the non-blocking send (`Send`)
and returning.  Stop is `sync.Once`, the write lock, two closes, the unlock and
the wait for the workers.  A worker parks at the pause gate (`GatePark`), polls
(`ParkTimer`) or leaves (`ParkShutdown`), else blocks in the receive (`Receive`,
`ReceiveClosed`), then runs processJob: read the mode, mark the job, resolve,
the Telegram half, the local half, `Finish` or `FailJob`, and `Count`.
`status` is the jobs' status field, `queue` the channel's buffer, `held` a job
that Clear has received and not yet marked, `panicked` what the Go runtime would
do on a closed channel.  `done`, `overrun` are history variables; `done` has what
Telegram and the player reported as delivered, and an error leaves it alone whatever
they did.  Texts,
voices, errors and audio are left out; what remains of a provider's answer is
the format, or that it failed.

**PoolPlayer.** The callers of the player are the workers.  `Call` decides whether
Play is refused before it locks, `Begin` is the lock granted, which is the
pool's `PlayBegin` with nothing but `playMu` to wait for, `Playing` any step in between, `Return` the unlock together with what
the worker makes of the answer: `heard` says whether Play returned nil.  A worker
that is inside Play takes no other step of the pool.

**TTSServer.** Each tool is the pool's action it calls.  `Signalled` is the signal
goroutine's entry into Stop, `Exits` its `os.Exit` after Shutdown has returned,
`ServeEnds` the return, or the fatal end, of main when stdio is no longer served,
which may be at any time, since the MCP library ends it on a signal too;
once `process` is not "up" nothing happens.

**PoolStatus.** `RecordJob` is `Record` with the trimming of the history, which
waits for readers.  A GetStatus copies the newest jobs one by one, each under
the job's own lock (`CopyJob`), lets the history go and then loads the counters
(`LoadProcessed`, `LoadFailed`); the pool takes steps between any two.

**Ingest, SSEHub, ClipStore.** A connection handler subscribes or is refused,
takes messages from its channel and writes them, notices a dead peer at a
heartbeat or a failed write, or is told by its request's context; then its
deferred cancel takes the write lock.  A broadcast takes the read lock, visits
each subscriber with a non-blocking send, and unlocks: `sending` is the set of
read-lock holders.  A request stores, announces, looks for listeners and
decides on the push, each under its own lock, so the four are four actions.
`PeerDrops`, the silent loss of a peer, is the network's.

`ClipFeed` has none of this: listeners have a place or are refused one, and a clip
is owed to those who hold a place when it is published until they hear or miss it.
`Place`, `Said` and `Owed` are the mapping: a place is the handler's and is lost when
its peer, its request or the server goes; a clip is owed to the targets that the
broadcast has still to visit or whose channel holds it.  `before`, a history
variable, keeps which clips were still owed when a broadcast began, which is what
the abstract module's order of hearing speaks of.

**Companion.** A phone has one page or none: `page` is closed, locked behind the
button that enables audio, listening with an event source, refused (a 503 ends an
event source for good), or awake, enabled by a notification without an event
source.  `Connect` is the event source's request, the first one and each one after
a loss; `requests` is the phone's connections in order.  `Notify` is a fan-out that
ends with any set of registered phones showing its clip, `TapNotification` the
service worker's message or new window.  The hub, the store and the ingests are
`Ingest`'s, with its connections made and closed by phones only.

**PushSender.** `Snapshot`, `Call`, `LoopEnds` and `Prune` are Send;
`AddSubscription` is atomic under the mutex.  The list is a set of endpoints with
keys: its order decides only which is called first, and any may be.  `expired`
belongs to the push service, `ContextEnds` to the deadline.

**TokenStore, VAPIDStore, RelayFiles.** `os.WriteFile` is two steps, truncating
and writing, so that a crash can come between them; an error may leave the file
in any of its states.  A key pair stands for its private and its public key, so
that keys of different pairs can be told apart.  `RelayFiles` lets the token
come first, then the keys, and rotations only when both are loaded; a process
ends anywhere, and the next one starts from the files.

**VoiceModeStore, SpeakText.** Files are what they are in Unix: a path names a
file, an open file stays itself when its path is renamed, so two processes that
set the mode at once may write into one another's temporary file or rename it
away.  A mode written over a longer one is garbled, and read as the default,
`computer`.  `SpeakText` reads the mode once, resolves, synthesizes and delivers
while setters go on.  What it resolves comes from `Selections` of
`VoiceResolution`: every outcome the code can reach over all configurations
with one profile, all environments and all command lines of a small vocabulary.
`CallProvider` and the deliveries take their outcomes and formats from `Providers`,
where one voice stands for each provider's list.  An error of `Send` or `Play` says
nothing of what was delivered: Telegram may have taken a clip whose answer was lost
or late (`telegram.go:76-79`), a player may end with an error after it was heard, so
`delivered`, where the clip really is, grows or does not.

**AuthLimiter.** Time is in ticks and tokens are counted in ticks too, which
makes the refill exact where the code uses floating point.  `ReadClock` and
`Allow` are separate, so a call may come to the lock with an old reading.
`debt` and `lateness` are the reference: a bucket per client that nobody ever
forgets, and how far the readings were late.

**RelayLifecycle.** The commands of the hooks are steps; truncating and writing
the pid file is one.  Process ids are not reused, and each server has at most
one request in flight, since a shutdown asks only whether there is one.  A
hook that finds no binary leaves its session without a relay (`NotSpawned`), and a
process may give up while it boots (`BootFails`).  A
signal ends a process that boots and is noted by one that runs; the shutdown
closes and drains the ingest server, then the public one, and `main` may return
as soon as the latter's Serve does.

**Player.** Play between its lock and its unlock, with the deferred calls as
steps in the order Go runs them; any call it makes may fail, but for the removal of
the temporary file, whose error the code ignores too.

### Fault variants

Operators introduced by "Fault variant" are not part of any specification: each
is an action as a plausible mistake would have left it (a lock not taken, a
missing reset, an off-by-one), and replacing the action by it breaks the
property that `PROJECT.json` pairs it with.  They show that the properties can
fail.

## 3. Runs

| Run | Instance | Shows |
|---|---|---|
| `pool_concurrency` | 3 jobs, 2 workers that share the player, 2 Stop, 1 Clear, queue of 1 | no panic, one owner per job, all accepted jobs accounted for, exact counters, final statuses, at most one job per worker and pause; one playback, flagged throughout, and nothing left behind; the pool implements `JobQueue` |
| `tts_server` | 2 jobs, 1 worker, 1 signal, 1 Clear, end of stdin, all modes, with Telegram | what a job reported completed has delivered is what its mode asks; nothing is synthesized for a phone that cannot have it; a signal ends the process, and only when accepted jobs are settled; accepted jobs settle |
| `pool_status` | 3 jobs, 1 worker, a history and reports of 2, a reader of GetStatus, modes off and phone without Telegram, so that jobs complete and fail | reports add up and never go back |
| `speak` | 2 setters, 1 run of speak-text | the mode in force is the last set; a clip goes only where it is asked for, and everywhere there on success or once the speakers have played it; off and impossible deliveries cost nothing; voices are vetted |
| `companion` | 1 phone that connects twice, for 1 slot, 2 clips, store of 1, channels of 1, shutdown | no panic, slots accounted for, the hub implements `ClipFeed`; the store keeps the newest, what is announced can be fetched, what is pushed is not streamed; broadcasts end, dead peers are freed, every clip is left to the stream or pushed in the end |
| `push` | 3 endpoints, one with two sets of keys, for 2 places, 2 fan-outs | no duplicates, the cap, accepted registrations kept with their newest keys; gone endpoints pruned, the others called |
| `relay_files` | 5 tokens, 3 pairs, 2 rotations, failing writes, crashes | replaced tokens stay replaced; the keys stay |
| `limiter` | 2 clients, 2 calls, 2 tokens of 2 ticks, 8 ticks, a sweep every 5 above 1 bucket | never too many attempts; refused only when spent |
| `lifecycle` | 2 sessions, 2 processes, a missing binary, failing boots | no orphan, no duplicate, a relay told to stop ends |

The remaining runs check one statement of the documents each, which the code
does not keep; `PROJECT.json` quotes it under `findings`:

| Run | Statement | What happens |
|---|---|---|
| `restart_claim` | "SessionStart → relay-start.sh starts the relay" (`README.md:286`) | the pid file goes before the old relay has drained; a new relay cannot listen on the port it still holds, and ends |
| `suppressed_claim` | "When HasLiveListener returns true, the clip already auto-plays in the companion" (`presence.go:7-8`) | a phone connects between the broadcast and the look at the listeners: its presence suppresses the push of a clip that nobody was sent |
| `drain_claim` | the stop hook gives "the relay a chance to flush/close connections before exiting" (`relay-stop.sh:5-6`) | `Serve` returns as soon as its shutdown begins, and `main` with it: public requests in flight are cut off |

### Limits of the code the properties are worded around

Each is behaviour of the code that the wording of a property excepts:

- a worker that is already in its receive takes a job submitted during a pause,
  so "Queued jobs will wait until resumed" (`server.go:81`) holds but for one
  job per worker: `AtMostOnePerPause`;
- workers still in the pause poll when Stop comes, after a Resume too, leave queued
  jobs behind (`worker.go:147-149`), so `GracefulExit` and `AcceptedSettles` except
  the exit where all of them left that way, and `DrainedLeavesNothing` speaks of
  workers that left through the closed channel;
- when stdin ends, or serving it fails, main ends without Stop
  (`cmd/tts-server/main.go`), and with it queued and playing jobs: `GracefulExit`
  speaks of exits after a signal;
- a listener that is sent a clip and leaves before the presence check gets the
  push too, so `PushedNotStreamed` speaks of the connections that stand, not of
  every clip ever streamed ("no clip is ever both auto-played and delivered as a
  push", `presence_gaps_test.go:446`);
- a tap on a notification plays its clip whatever the page has played before, so
  `AutoplaysOnce` counts what the event source brings;
- a relay that shuts down does not wait for its fan-outs, and ends with requests
  that outlast the deadline, so `ClipSettles` speaks of one that serves;
- `speak-text` may exit with an error although the clip was delivered, since an
  error of Telegram or of the player does not say: `SpokenAsAsked` promises nothing
  of a failed run but that it has not delivered elsewhere, or to the speakers
  without the phone.  `DeliveryMatchesMode` likewise speaks of jobs reported
  completed;
- an event source that is answered 503 ends for good, although
  `companion.html:177` leaves reconnecting to the browser, and a page enabled by a
  notification while it was locked never opens one (`companion.html:114-120`): no
  property says that a phone that wants to listen gets to;
- push registrations are kept in memory only: a relay that starts again knows none
  until the phones register anew;
- a registration renewed between the 410 of its endpoint and the end of the
  fan-out is pruned with the one it replaced, so `AcceptedKept` speaks of
  endpoints that have not answered 410; a fan-out that copied the list earlier
  still calls an endpoint that has answered 410 to another one, "never retried"
  (`push.go:93-95`) or not;
- rotations that overlap may finish in different orders in file and memory, so
  a restart can bring back a replaced token (`docs/relay.md:48`);
  `RetiredStaysRetired` excepts it;
- two processes that set the mode at the same time may leave a mode that neither
  set, or garbage: `ModeInForce` excepts them;
- hooks that overlap may start two relays, which `relay-start.sh:18-20` accepts:
  `NoOrphan` and `SpawnOnlyWhenNeeded` except them, and a session that is killed
  without its hook for the former;
- `CLAUDE_TTS_VOICE` over a profile is not validated: `VoiceVetted` excepts it;
- two relays that generate keys together may mix their pairs: `RelayFiles` has
  one relay at a time.

### Bounds

The code has no recursion and its data is opaque, so what matters is how many
actors meet and when something is full.  Two workers is the number the server
starts, and both share the player (the server and status runs have one, since
their questions are about a worker against its callers); three jobs with a queue
of one give a job in the queue, one in work and one refused at the same time, and
two Stops and a Clear race all of them.  `pool_concurrency` is in one mode, which
plays, and leaves what the four modes deliver to `tts_server`.  The real queue
(50), history (100), hub (100, channels of 4), store (10) and subscription list
(100) behave at their limit as the small ones do: each rule looks only at whether
it is full.  Two clips in a store of one evict; two connections for one slot
refuse, and are a phone's first and the one that replaces it; two broadcasts
overlap and fill a channel of one.  That a page plays nothing twice by itself
(`AutoplaysOnce`) asks for two slots, so that both connections of a phone are
subscribed together, and with a third connection to be refused that is too much for
the run with its liveness: no run checks it, it is proved
(`CompanionAutoplaysOnce`).  In channels of one no two clips
wait, so the order of hearing asks little of this instance; `IngestHeardInOrder` has
channels of any size.  The properties of `companion` also hold of
two phones with one clip, too much to add to two clips and a shutdown.  Two
fan-outs and a registration are the least with which a renewal meets a concurrent
pruning, new keys for one endpoint are what a stale copy could bring back, and
three endpoints for two places are refused.  Five tokens allow a first one and
four rotations or new starts, three pairs two starts that are cut off.
`MaxClock` and `Skew` bound the limiter's time: the clock passes several refills,
a sweep and the life of a bucket.  Two processes are one relay and the one that
comes after or beside it.  Each clip, connection, job, Set and Send happens once,
which bounds the histories without a counter; pauses, status reports, pages, taps
and crashes are unbounded.  The proofs remove the bounds for the properties they
cover.

### Fairness

`TTSServer`: weak fairness, one group of actions per goroutine while the process
is up: the Go scheduler runs ready goroutines, and provider, Telegram and player
calls end (they have time-outs or are child processes that end).  Nothing is
assumed of who wins a channel or a lock, which is why the run has one worker.
Nothing is assumed of the client either: it need not call a tool, send a signal
or close stdin, only what it has begun goes on.  `Companion`: an accepted request and its fan-out
go on, the fan-out having a deadline of its own, a heartbeat to a dead peer fails in the end (TCP gives up), a broadcast
goes on, and cancel gets its lock (strongly: Go's mutexes hand over to a waiter
that has starved); phones need never open a page, read or tap.  `PushSender`: a
started fan-out goes on, since each call has a time-out of 10 s and the whole
30 s.  `RelayLifecycle`: the deadline passes and the steps of the shutdown run;
requests may take for ever.  The other specifications have none.

## 4. Proofs

All theorems are about the specifications TLC runs, for any values of the
constants.  They rest on the assumptions the modules name: sizes are numbers and
positive where the code's are (`PoolAssumption`, `HubAssumption`,
`StoreAssumption`, `StatusAssumption`, `PushAssumption`, `LimiterAssumption`); a job, caller, token,
key pair, setter or process is not one of the words the models use for there
being none (`PoolAssumption`, `PlayerAssumption`, `TokenAssumption`,
`PairsAssumption`, `SettersAssumption`, `LifecycleAssumption`); the callers of the
player are the workers (`CallersAssumption`); and there are finitely many jobs and
workers (`FinitelyMany`, for the counters and the reports) and sessions
(`LifecycleAssumption`).

**WorkerPoolProofs.**  Safety of the pool rests on one inductive invariant built
in two layers.  `LockInv` is the locking discipline: a sender holds the read lock and
has seen `closed = FALSE`; a closed jobs channel implies `closed`; at most one
Stop is inside the Once, and each close happens at one point of it.  From it:
no panic (`PoolNeverPanics`).  `OwnInv` adds who owns a job and what its status
must then be: `SubmitStatus`, `QueueStatus`, `HeldStatus` (Clear) and `JobStatus`
(workers), with the property itself, `OneOwner` and `AcceptedAccounted`.  None of
these is inductive alone: that Clear's job is not also a worker's needs the
queue to be without duplicates, which needs each Submit to send a job once, which
needs its status to follow its program counter.  `PauseInv`, `Draining`
and the counters' invariant are proved on top of it; the counters need that
`Finish` and `FailJob` move a job into the counted set exactly when the worker
reaches its `Count` step.  With `OwnInv`, each step of the pool is a step of
`JobQueue` or a stutter (`PoolImplementsJobQueue`): recording is invisible, `Send`
accepts or rejects, the two receives take the head, the last step of a worker
settles, and Stop's setting of `closed` closes.  `DoneInv` says what has been
delivered at each point of processJob; at the end it is `DeliveryMatchesMode`.

**ServerProofs.**  The server and the pool with its player behave as `WorkerPool`
says (`ServerRunsPool`, `PoolPlayerRunsPool`), so that all of the above holds of
them, and the workers use the player as `Player` says (`PoolPlayerRunsPlayer`).
That the player's own lock is enough to make the pool's playbacks exclude one another
is the invariant `Agree`.
`GracefulExit` then follows from who waits for whom: a Stop that has returned has
seen every worker leave, and a worker that left through the closed channel found
it empty.  For the player, `HolderInv`, `FlagInv` and `FileInv` say between which
two steps of Play the lock, the flag and the file are a call's; since the lock is
the outermost of the three, both properties follow.
A report of GetStatus is no snapshot, and `StatusInv` says what its pieces are worth
all the same.  `HistoryInv` keeps the jobs of the history distinct and submitted;
`CopyInv` says that what is copied and what is still to copy make up the newest jobs,
since the history cannot be trimmed while it is read; `KeptInv`, that a job once shown is
in the history until that is full; and `AgainInv`, that a job of the last report
is there again, or RecentCap others are.  By `PastInv` a copied status may be stale but
never ahead of the job's own, because final statuses are final, and the counters are loaded after the copies: so the exact
counters of the pool (`PoolCountersExact`) bound what a report shows, which is
`StatusReportAddsUp`, and `StatusReportsNeverGoBack` follows from `AgainInv`.

**IngestProofs.**  `SlotInv` ties the subscribers to the handlers, `LockInv` says
that what a broadcast has still to visit is subscribed (cancel waits for the read
lock), `StreamInv` that only those a broadcast found are ever sent its clip,
`PushInv` that a push was decided when they had all gone.  From these:
`IngestPushedNotStreamed` and `IngestNoHubPanic`.  On top of them, `BoundInv` gives
`IngestSlotsAccounted`.  For
the store, `AddedInv` says that each request adds its clip once, between the two
steps around `StoreClip`: without it, evicting the oldest entry of the order could
take a newer clip out of the map.  With it `StoreKeepsNewest` is inductive, and
an announced clip is in the history, hence among the newest or followed by
Capacity others (`IngestAnnouncedIsFetchable`).  `OnceInv` adds that what a
broadcast has still to visit has neither got nor waits for its message, which makes
`AtMostOnce` inductive.  With them, and with `OrderInv`, each step of the hub is a step
of `ClipFeed` or a stutter (`IngestImplementsClipFeed`).  What a visit decides takes
most of it: a send that finds a full channel misses, and the messages in that
channel are as many other clips as the listener may be behind, since a channel holds
none twice (`FullIsBehind`); a handler that takes the head of its channel hears it,
and is owed nothing published before, since `OrderInv` keeps a channel, and what is received
before it, in the order of the broadcasts that did not overlap, and a broadcast that is over has nothing left to
visit.  The same invariant gives `IngestHeardInOrder`.  The phones only choose when connections come and go
(`CompanionRunsIngest`), so the theorems hold under them; with `PhoneInv`, that all
of a phone's connections but the last are over and that a broadcast which reached
one has not found a later one, no page plays a clip twice (`CompanionAutoplaysOnce`).

**PushProofs.**  `ListInv` makes the list finite and gives `DistinctWithinCap`, since
a registration replaces its endpoint or adds one below the cap, and a pruning only
removes.  `KeptInv` is `AcceptedKept`: a pruning removes no endpoint that did not
answer 410, and nothing ever writes a fan-out's copy back into the list.

**SpeakProofs.**  `FilesInv` says what the two paths of the mode may name: never the
same file.  `AloneInv`, as long as no two processes set the mode at once, gives the
one that does the temporary file, so the rename brings in what it wrote.  That
what is resolved is vetted is a lemma about `Selections` for every configuration
(`SelectionsVet`); `RunInv` carries it, and what was delivered so far, through
runSpeak: nothing before the phone's turn, exactly the phone's message before the
speakers' turn, and behind an error no more than the call that reported it may have
added.

**LimiterProofs.**  `Owes` relates one bucket to the debt of its client: what the
bucket would hold if it were refilled now is what the debt leaves of a full one,
give or take the lateness of the clock readings, and a bucket that late readings
leave below zero is not further below than that.  A bucket that a sweep forgets
would be full, so a client without one owes no more than its lateness.  Both
properties are read off at the call that admits or refuses.

**RelayFilesProofs.**  For the token, `FreshInv` (a generated token that is not yet
in memory was never valid and is no one else's) and `FileInv` (as long as
rotations do not overlap, the file never holds a replaced token, not even in the
middle of a rotation) carry `RetiredStaysRetired` over crashes.  `SavedIsServed` is the
other half: between rotations the file holds the token that is served, so a restart
locks nobody out; a write that fails may leave it otherwise, which the theorem
excepts and the code answers with a 500.  For the keys,
`PairInv` says that the public file, written last, is only there with its private
one.

**LifecycleProofs.**  As long as hooks do not overlap: what a hook has read from the
pid file is still in it, and when it is about to spawn or to remove the file no
relay runs that was not told to stop (`HookKnows`); a running relay is the one of
the pid file, or about to be (`Tracked`); and it has a session (`Wanted`), if none
was killed.  Processes only end of themselves, which disturbs none of these.
`LifecycleOneRelay` reads off the same invariant that there is one relay and that a
stop hook will find it.  `PortsInv`, who may hold a port, brings in the sockets:
once every session has ended through its hook, only relays that were told to stop
hold one (`LifecyclePortsOnlyOfStopping`).

**Only model-checked.**  The liveness properties, which need fairness and `ENABLED`:
`SignalEndsProcess`, `AcceptedSettles`, `BroadcastEnds`, `DeadPeerFreed`,
`ClipSettles`, `AllNotified`, `GonePruned` and `TermEnds`; and the three statements that the
violation runs refute.  Every safety invariant, action property and refinement that
a passing run checks is also proved.

## 5. Not modelled

- *Logging*: files of wording, their rotation and clean-up; nothing the programs do
  depends on them, and the order of lines in a shared file matters to no one.
- *QR code and synthesizer of the relay*: output, and an adapter whose one outcome
  `Ingest` has.
- *Wire formats*: HTTP, MCP and multipart bodies, authentication headers, the checks
  of arguments that answer with an error and touch nothing, the push encryption,
  and the guarded dialler, which is one call with an outcome.
- *Providers' calls*: the HTTP requests, the Piper process and the clamped speed
  (`ClampSpeed` lets NaN through: it compares), which are real numbers without state.
- *The page's playing*: fetching a clip, the audio element, media controls and the
  buttons are the browser's; two fetches that overlap may play in either order.
- *Two relays at once over the files*: two that generate keys together may leave one
  file of each pair; `relay-start.sh:18-20` accepts that two start.
- *The whole relay's end as one module*: the ingest server's shutdown clears the
  store while the public server still hands out clips, and fan-outs are cut off by
  the end of the process.  `Companion` has the first and `RelayLifecycle` the
  second; together their states are beyond a run, and no statement of the code is
  about the two.
- *Clear against Submits without end*: Clear drains until it finds the queue empty,
  and a client that submits for ever could keep it going; the models have finitely
  many jobs.
