------------------------------ MODULE TokenStore ------------------------------
(***************************************************************************)
(* The relay's bearer token (internal/relay/auth.go, TokenStore): a copy   *)
(* in memory that every request is checked against and a file that         *)
(* survives the process.  LoadOrGenerate runs once, before the servers     *)
(* start (cmd/relay/main.go); POST /rotate-token calls Rotate, and the     *)
(* ingest server runs its requests concurrently.  The process may crash at *)
(* any moment.  os.WriteFile truncates the file and then writes it.        *)
(***************************************************************************)
EXTENDS Naturals, FiniteSets

CONSTANTS
    Tokens,         \* the uuids there are; each is generated at most once
    Rotators,       \* the calls of Rotate that may run at the same time
    WritesFail      \* whether file operations may fail

ASSUME TokenAssumption ==
    /\ WritesFail \in BOOLEAN
    /\ Tokens \cap {"unset", "empty", "missing"} = {}

VARIABLES
    file,           \* the token file: a token, "empty" or "missing"
    current,        \* s.current: a token or "unset"
    loader,         \* LoadOrGenerate, and with it the process
    rotate,         \* where each Rotate stands
    fresh,          \* the token a Rotate, or LoadOrGenerate, has generated
    used,           \* tokens generated so far
    lastLive,       \* history: the token that was valid last
    retired,        \* history: tokens that were valid and were replaced
    overlap         \* history: have two Rotate calls ever run at the same time?

genVars    == <<fresh, used>>
liveVars   == <<current, lastLive, retired>>
rotateVars == <<rotate, overlap>>
tokenVars  == <<file, loader, genVars, liveVars, rotateVars>>

NoToken  == {"empty", "missing"}
Loading  == "loading"       \* the name of LoadOrGenerate in "fresh"

TokenInit ==
    /\ file \in Tokens \cup NoToken
    /\ current = "unset"
    /\ loader = "read"
    /\ rotate = [r \in Rotators |-> "idle"]
    /\ fresh = [r \in Rotators \cup {Loading} |-> "unset"]
    /\ used = {file} \ NoToken
    /\ lastLive = "unset"
    /\ retired = {}
    /\ overlap = "never"

Generate(r) ==
    \E t \in Tokens \ used :
        /\ fresh' = [fresh EXCEPT ![r] = t]
        /\ used' = used \cup {t}

(* s.current = t, under the lock; the history notes what it replaces. *)
Activate(t) ==
    /\ current' = t
    /\ lastLive' = t
    /\ retired' = retired \cup ({lastLive} \ {t, "unset"})

-----------------------------------------------------------------------------
(* LoadOrGenerate *)

Load ==
    /\ loader = "read"
    /\ IF file \in Tokens
       THEN /\ Activate(file)
            /\ loader' = "serving"
            /\ UNCHANGED genVars
       ELSE /\ Generate(Loading)
            /\ loader' = "truncate"
            /\ UNCHANGED liveVars
    /\ UNCHANGED <<rotateVars, file>>

LoadTruncate ==
    /\ loader = "truncate"
    /\ file' = "empty"
    /\ loader' = "write"
    /\ UNCHANGED <<liveVars, genVars, rotateVars>>

LoadWrite ==
    /\ loader = "write"
    /\ file' = fresh[Loading]
    /\ loader' = "activate"
    /\ UNCHANGED <<liveVars, genVars, rotateVars>>

LoadActivate ==
    /\ loader = "activate"
    /\ Activate(fresh[Loading])
    /\ loader' = "serving"
    /\ UNCHANGED <<genVars, rotateVars, file>>

-----------------------------------------------------------------------------
(* Rotate *)

(* The history notes the calls that join another one, in this life of the *)
(* process or in an earlier one.                                          *)
RotateBegin(r) ==
    /\ loader = "serving"
    /\ rotate[r] = "idle"
    /\ Generate(r)
    /\ rotate' = [rotate EXCEPT ![r] = "truncate"]
    /\ overlap' = IF overlap = "never" /\ \E q \in Rotators : rotate[q] # "idle"
                  THEN "now" ELSE overlap
    /\ UNCHANGED <<liveVars, file, loader>>

(* Fault variant: the file is left for later, the memory comes first. *)
RotateTruncateLate(r) ==
    /\ rotate[r] = "truncate"
    /\ Activate(fresh[r])
    /\ rotate' = [rotate EXCEPT ![r] = "write"]
    /\ UNCHANGED <<genVars, file, loader, overlap>>

RotateTruncate(r) ==
    /\ rotate[r] = "truncate"
    /\ file' = "empty"
    /\ rotate' = [rotate EXCEPT ![r] = "write"]
    /\ UNCHANGED <<liveVars, genVars, loader, overlap>>

RotateWrite(r) ==
    /\ rotate[r] = "write"
    /\ file' = fresh[r]
    /\ rotate' = [rotate EXCEPT ![r] = "activate"]
    /\ UNCHANGED <<liveVars, genVars, loader, overlap>>

(* Making the directory, opening the file, writing or closing it fails: *)
(* the answer is 500, and the file is what the failure left of it.      *)
RotateFails(r) ==
    /\ WritesFail
    /\ rotate[r] \in {"truncate", "write", "activate"}
    /\ rotate' = [rotate EXCEPT ![r] = "idle"]
    /\ UNCHANGED <<liveVars, genVars, file, loader, overlap>>

RotateActivate(r) ==
    /\ rotate[r] = "activate"
    /\ Activate(fresh[r])
    /\ rotate' = [rotate EXCEPT ![r] = "idle"]
    /\ UNCHANGED <<genVars, file, loader, overlap>>

(* The process dies, or LoadOrGenerate fails and main gives up; it is *)
(* started again later.                                               *)
Crash ==
    /\ current' = "unset"
    /\ loader' = "read"
    /\ rotate' = [r \in Rotators |-> "idle"]
    /\ fresh' = [r \in Rotators \cup {Loading} |-> "unset"]
    /\ overlap' = IF overlap = "now" THEN "before" ELSE overlap
    /\ UNCHANGED <<file, used, lastLive, retired>>

RotateStep(r) ==
    \/ RotateBegin(r) \/ RotateTruncate(r) \/ RotateWrite(r)
    \/ RotateFails(r) \/ RotateActivate(r)

-----------------------------------------------------------------------------
(* Properties *)

(* "The previous token is immediately invalidated" (auth.go:162-164), for  *)
(* good: a replaced token is never valid again while the process lives,    *)
(* whatever rotations run at the same time, nor after a crash in the       *)
(* middle of one, when the next start reads whatever the file holds.  Only *)
(* rotations of an earlier life that ran at the same time may have left    *)
(* the file of one and the memory of the other.                            *)
RetiredStaysRetired == overlap # "before" => current \notin retired
=============================================================================
