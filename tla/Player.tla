-------------------------------- MODULE Player --------------------------------
(***************************************************************************)
(* The local audio player (internal/audio/player.go).  Every member of     *)
(* Callers is a goroutine that calls Play again and again (a pool worker); *)
(* IsPlaying reads the atomic flag without the lock.                       *)
(***************************************************************************)
EXTENDS Naturals, FiniteSets

CONSTANT Callers

ASSUME PlayerAssumption == "free" \notin Callers

VARIABLES
    play,           \* where each call of Play stands
    playMu,         \* the holder of p.playMu, or "free"
    isPlaying,      \* p.isPlaying
    tempFiles,      \* the callers whose temporary file exists
    heard           \* the callers whose command ended well

playerVars == <<play, playMu, isPlaying, tempFiles, heard>>

PlayerInit ==
    /\ play = [p \in Callers |-> "idle"]
    /\ playMu = "free"
    /\ isPlaying = FALSE
    /\ tempFiles = {}
    /\ heard = {}

Step(p, from, to) ==
    /\ play[p] = from
    /\ play' \in {[play EXCEPT ![p] = t] : t \in to}

(* An unsupported format is refused before the lock is taken. *)
CallPlay(p) ==
    /\ Step(p, "idle", {"idle", "lock"})
    /\ UNCHANGED <<playMu, isPlaying, tempFiles, heard>>

Lock(p) ==
    /\ Step(p, "lock", {"flag"})
    /\ playMu = "free"
    /\ playMu' = p
    /\ UNCHANGED <<isPlaying, tempFiles, heard>>

SetFlag(p) ==
    /\ Step(p, "flag", {"create"})
    /\ isPlaying' = TRUE
    /\ UNCHANGED <<playMu, tempFiles, heard>>

(* Without a temporary file there is nothing to remove. *)
CreateTemp(p) ==
    /\ \/ Step(p, "create", {"write"}) /\ tempFiles' = tempFiles \cup {p}
       \/ Step(p, "create", {"clear"}) /\ UNCHANGED tempFiles
    /\ UNCHANGED <<playMu, isPlaying, heard>>

(* Fault variant: the removal is deferred after the write. *)
WriteTempLeaks(p) ==
    /\ Step(p, "write", {"run", "clear"})
    /\ UNCHANGED <<playMu, isPlaying, tempFiles, heard>>

(* Write and close the file, and find a player; each may fail. *)
WriteTemp(p) ==
    /\ Step(p, "write", {"run", "remove"})
    /\ UNCHANGED <<playMu, isPlaying, tempFiles, heard>>

(* The command ends, well or not. *)
RunEnds(p) ==
    /\ Step(p, "run", {"remove"})
    /\ heard' \in {heard, heard \cup {p}}
    /\ UNCHANGED <<playMu, isPlaying, tempFiles>>

(* Fault variant: the lock is released before the flag is cleared. *)
RemoveTempUnlocks(p) ==
    /\ Step(p, "remove", {"clear"})
    /\ tempFiles' = tempFiles \ {p}
    /\ playMu' = "free"
    /\ UNCHANGED <<isPlaying, heard>>

(* The deferred calls, last one first. *)
RemoveTemp(p) ==
    /\ Step(p, "remove", {"clear"})
    /\ tempFiles' = tempFiles \ {p}
    /\ UNCHANGED <<playMu, isPlaying, heard>>

ClearFlag(p) ==
    /\ Step(p, "clear", {"unlock"})
    /\ isPlaying' = FALSE
    /\ UNCHANGED <<playMu, tempFiles, heard>>

Unlock(p) ==
    /\ Step(p, "unlock", {"idle"})
    /\ playMu' = "free"
    /\ heard' = heard \ {p}
    /\ UNCHANGED <<isPlaying, tempFiles>>

Body(p) ==
    \/ SetFlag(p) \/ CreateTemp(p) \/ WriteTemp(p) \/ RunEnds(p)
    \/ RemoveTemp(p) \/ ClearFlag(p) \/ Unlock(p)

PlayerNext == \E p \in Callers : CallPlay(p) \/ Lock(p) \/ Body(p)

PlayerSpec == PlayerInit /\ [][PlayerNext]_playerVars

-----------------------------------------------------------------------------
(* Properties *)

(* "Only one audio plays at a time" (player.go:132), and IsPlaying says so *)
(* all the while: no call clears the flag under another's playback.        *)
OnePlaybackFlagged ==
    /\ \A p, q \in Callers : play[p] = "run" /\ play[q] = "run" => p = q
    /\ \A p \in Callers : play[p] = "run" => isPlaying

(* Whatever step of a call fails, when nobody holds the player it is       *)
(* reported idle and no temporary file is left behind.                     *)
NothingLeftBehind ==
    /\ playMu = "free" => ~isPlaying
    /\ tempFiles \subseteq {playMu}
=============================================================================
