---------------------------- MODULE VoiceModeStore ----------------------------
(***************************************************************************)
(* The saved voice mode (internal/voicemode/voicemode.go): a state file    *)
(* that Set replaces by renaming a temporary file over it.  The mutex of a *)
(* Store keeps out only the goroutines of one process, so every member of  *)
(* Setters, a process that calls Set once, works on the same two paths.    *)
(* os.WriteFile opens and truncates, then writes; a path names a file that *)
(* stays what it is for whoever has opened it.                             *)
(***************************************************************************)
EXTENDS Naturals, FiniteSets

CONSTANT Setters

VARIABLES
    content,        \* what each file holds; a setter's name is the file it creates
    statePath,      \* the file the path of the state names, or "missing"
    tmpPath,        \* the same for the path of the temporary file
    set,            \* where each Set stands
    want,           \* the mode each Set writes
    fd,             \* the file each Set has opened
    setsOverlap,    \* history: two Set calls have run at the same time
    lastSet         \* history: the mode of the last Set that succeeded

setVars == <<set, want, fd>>
modeVars == <<content, statePath, tmpPath, setVars, setsOverlap, lastSet>>

Modes == {"off", "computer", "phone", "both"}
Original == "original"      \* the state file there was at first

ASSUME SettersAssumption == {Original, "missing"} \cap Setters = {}

ModeLength == [off |-> 3, both |-> 4, phone |-> 5, computer |-> 8]
HoldsLonger(there, m) == there \in Modes /\ ModeLength[there] > ModeLength[m]

ModeInit ==
    /\ content \in [Setters \cup {Original} -> {"empty"} \cup Modes]
    /\ \A s \in Setters : content[s] = "empty"
    /\ content[Original] # "empty"
    /\ statePath \in {Original, "missing"}
    /\ tmpPath = "missing"
    /\ set = [s \in Setters |-> "idle"]
    /\ want = [s \in Setters |-> "off"]
    /\ fd = [s \in Setters |-> Original]
    /\ setsOverlap = FALSE
    /\ lastSet = IF statePath = "missing" THEN "computer" ELSE content[Original]

(* Get: a file that is missing, empty or garbled counts as "computer". *)
Get ==
    IF statePath = "missing" \/ content[statePath] \notin Modes THEN "computer"
    ELSE content[statePath]

-----------------------------------------------------------------------------

(* Fault variant: a temporary file that is left over is not truncated. *)
OpenTempUntruncated(s) ==
    /\ set[s] = "idle"
    /\ want' \in {[want EXCEPT ![s] = m] : m \in Modes}
    /\ fd' = [fd EXCEPT ![s] = IF tmpPath = "missing" THEN s ELSE tmpPath]
    /\ tmpPath' = fd'[s]
    /\ set' = [set EXCEPT ![s] = "write"]
    /\ setsOverlap' = (setsOverlap \/ \E r \in Setters : set[r] \in {"write", "rename"})
    /\ UNCHANGED <<content, statePath, lastSet>>

(* Create the temporary file, or truncate the one that is there. *)
OpenTemp(s) ==
    /\ set[s] = "idle"
    /\ want' \in {[want EXCEPT ![s] = m] : m \in Modes}
    /\ fd' = [fd EXCEPT ![s] = IF tmpPath = "missing" THEN s ELSE tmpPath]
    /\ tmpPath' = fd'[s]
    /\ content' = [content EXCEPT ![fd'[s]] = "empty"]
    /\ set' = [set EXCEPT ![s] = "write"]
    /\ setsOverlap' = (setsOverlap \/ \E r \in Setters : set[r] \in {"write", "rename"})
    /\ UNCHANGED <<statePath, lastSet>>

(* Written over a longer mode, a mode leaves the other's end behind it; *)
(* over such a garbled file it may be long enough or not.               *)
WriteTemp(s) ==
    /\ set[s] = "write"
    /\ \E after \in {want[s], "garbled"} :
          /\ content' = [content EXCEPT ![fd[s]] = after]
          /\ content[fd[s]] # "garbled" =>
                (after = "garbled" <=> HoldsLonger(content[fd[s]], want[s]))
    /\ set' = [set EXCEPT ![s] = "rename"]
    /\ UNCHANGED <<statePath, tmpPath, want, fd, setsOverlap, lastSet>>

(* The rename takes whatever the temporary path names, and fails when *)
(* another Set has taken it.                                          *)
Rename(s) ==
    /\ set[s] = "rename"
    /\ IF tmpPath = "missing"
       THEN /\ set' = [set EXCEPT ![s] = "failed"]
            /\ UNCHANGED <<statePath, lastSet>>
       ELSE /\ set' = [set EXCEPT ![s] = "done"]
            /\ statePath' = tmpPath
            /\ lastSet' = want[s]
    /\ tmpPath' = "missing"
    /\ UNCHANGED <<content, want, fd, setsOverlap>>

(* A file operation fails or the process ends; only a failed rename cleans up. *)
SetFails(s) ==
    /\ set[s] \in {"write", "rename"}
    /\ tmpPath' \in IF set[s] = "rename" THEN {tmpPath, "missing"} ELSE {tmpPath}
    /\ set' = [set EXCEPT ![s] = "failed"]
    /\ UNCHANGED <<content, statePath, want, fd, setsOverlap, lastSet>>

ModeStep(s) == OpenTemp(s) \/ WriteTemp(s) \/ Rename(s) \/ SetFails(s)

-----------------------------------------------------------------------------
(* "atomically writes it to the state file" (voicemode.go:93): at any time, *)
(* also in the middle of a Set and after some that failed or died half-way, *)
(* the mode read is the one of the last Set that succeeded, as long as no   *)
(* two processes ever set the mode at the same time.                        *)
ModeInForce == ~setsOverlap => Get = lastSet
=============================================================================
