-------------------------- MODULE RelayFilesProofs --------------------------
(***************************************************************************)
(* What survives the relay: a replaced token stays replaced and the keys   *)
(* stay, for any number of tokens, key pairs and rotations.                *)
(***************************************************************************)
EXTENDS RelayFiles, TLAPS

USE DEF genVars, liveVars, rotateVars

-----------------------------------------------------------------------------
(* The keys *)

Writing == {"truncPriv", "writePriv", "truncPub", "writePub"}

(* The type invariant of the key files, but for the keys in memory. *)
VAPIDTypeOK ==
    /\ privFile \in Pairs \cup NoPair
    /\ pubFile \in Pairs \cup NoPair
    /\ vapid \in {"read", "keep", "loaded"} \cup Writing
    /\ vapid \in {"keep"} \cup Writing => newPair \in Pairs

(* The public file is written last, so it is only there with its private   *)
(* file; and once a start has come through, neither changes.               *)
PairInv ==
    /\ pubFile \in NoPair \/ pubFile = privFile
    /\ vapid \in Writing => pubFile \in NoPair
    /\ vapid \in {"truncPub", "writePub"} => privFile = newPair
    /\ vapid = "keep" => privFile = newPair /\ pubFile = newPair
    /\ firstKeys # "unset" =>
          /\ firstKeys = <<privFile, pubFile>>
          /\ pubFile \in Pairs
          /\ vapid \in {"read", "loaded"}
    /\ keys # "unset" => keys = firstKeys /\ firstKeys # "unset"

KeysInv == VAPIDTypeOK /\ PairInv

LEMMA KeysInit == VAPIDInit => KeysInv
  BY PairsAssumption DEF VAPIDInit, KeysInv, VAPIDTypeOK, PairInv, NoPair, Writing

LEMMA KeysStep == KeysInv /\ (VAPIDStep \/ VAPIDLost \/ UNCHANGED vapidVars) => KeysInv'
<1> SUFFICES ASSUME KeysInv, VAPIDStep \/ VAPIDLost \/ UNCHANGED vapidVars PROVE KeysInv'
  OBVIOUS
<1> USE PairsAssumption DEF KeysInv, VAPIDTypeOK, PairInv, NoPair, Writing
<1>1. CASE ReadKeys
  <2>1. CASE privFile \notin NoPair /\ pubFile \notin NoPair
    BY <1>1, <2>1 DEF ReadKeys, LoadKeys
  <2>2. CASE ~(privFile \notin NoPair /\ pubFile \notin NoPair)
    BY <1>1, <2>2 DEF ReadKeys, GeneratePair
  <2> QED
    BY <2>1, <2>2
<1>2. CASE WritePriv
  BY <1>2 DEF WritePriv
<1>3. CASE WritePub
  BY <1>3 DEF WritePub
<1>4. CASE KeepKeys
  BY <1>4 DEF KeepKeys, LoadKeys
<1>5. CASE VAPIDLost
  BY <1>5 DEF VAPIDLost
<1>6. CASE UNCHANGED vapidVars
  BY <1>6 DEF vapidVars
<1> QED
  BY <1>1, <1>2, <1>3, <1>4, <1>5, <1>6 DEF VAPIDStep

-----------------------------------------------------------------------------
(* The token *)

LoadPlaces == {"read", "truncate", "write", "activate", "serving"}
InRotate == {"truncate", "write", "activate"}

(* The type invariant of the token, in memory and on file. *)
TokenTypeOK ==
    /\ file \in used \cup NoToken
    /\ current \in used \cup {"unset"}
    /\ lastLive \in used \cup {"unset"}
    /\ used \subseteq Tokens /\ retired \subseteq used
    /\ loader \in LoadPlaces
    /\ rotate \in [Rotators -> {"idle"} \cup InRotate]
    /\ fresh \in [Rotators \cup {Loading} -> used \cup {"unset"}]
    /\ overlap \in {"never", "now", "before"}

(* While a token is loaded, nothing rotates it and none is in memory. *)
ServingInv ==
    /\ loader # "serving" =>
          current = "unset" /\ overlap # "now" /\ \A r \in Rotators : rotate[r] = "idle"
    /\ loader = "serving" => current = lastLive

(* A token that was generated and is not yet in memory was never valid, and *)
(* is no one else's.                                                        *)
FreshInv ==
    /\ \A r \in Rotators : rotate[r] # "idle" =>
          fresh[r] \in Tokens \ (retired \cup {lastLive})
    /\ \A q, r \in Rotators : q # r /\ rotate[q] # "idle" /\ rotate[r] # "idle" =>
          fresh[q] # fresh[r]
    /\ loader \in InRotate => fresh[Loading] \in Tokens \ (retired \cup {lastLive})

(* As long as rotations do not overlap, the file never holds a token that   *)
(* was replaced, not even in the middle of a rotation.                      *)
FileInv ==
    /\ overlap # "before" => lastLive \notin retired
    /\ overlap = "never" =>
          /\ file \notin retired
          /\ loader = "activate" => file = fresh[Loading]
          /\ \A r \in Rotators : rotate[r] = "activate" => file = fresh[r]
          /\ \A q, r \in Rotators : rotate[q] # "idle" /\ rotate[r] # "idle" => q = r

(* The token that is served is the one a restart would read, once no        *)
(* rotation is under way: what Rotate writes is what it then puts in        *)
(* memory (auth.go, Rotate and LoadOrGenerate).  A rotation that failed     *)
(* leaves the file empty, or with a token that is not served, and one that  *)
(* overlapped another may have left the other's: both are excepted.         *)
SavedIsServed ==
    ~WritesFail /\ overlap = "never" /\ loader = "serving"
        /\ (\A r \in Rotators : rotate[r] = "idle")
      => file = current /\ file \in Tokens

TokenInv == TokenTypeOK /\ ServingInv /\ FreshInv /\ FileInv /\ SavedIsServed

LEMMA TokenInvInit == TokenInit => TokenInv
  BY TokenAssumption
     DEF TokenInit, TokenInv, TokenTypeOK, ServingInv, FreshInv, FileInv, SavedIsServed,
         NoToken, LoadPlaces, InRotate

LEMMA TokenLoadInv ==
    TokenInv /\ (Load \/ LoadTruncate \/ LoadWrite \/ LoadActivate) => TokenInv'
<1> SUFFICES ASSUME TokenInv, Load \/ LoadTruncate \/ LoadWrite \/ LoadActivate
             PROVE  TokenInv'
  OBVIOUS
<1> USE TokenAssumption
    DEF TokenInv, TokenTypeOK, ServingInv, FreshInv, FileInv, SavedIsServed, NoToken,
        LoadPlaces, InRotate
<1>1. CASE Load
  <2>1. CASE file \in Tokens
    BY <1>1, <2>1 DEF Load, Activate
  <2>2. CASE file \notin Tokens
    BY <1>1, <2>2 DEF Load, Generate
  <2> QED
    BY <2>1, <2>2
<1>2. CASE LoadTruncate
  BY <1>2 DEF LoadTruncate
<1>3. CASE LoadWrite
  BY <1>3 DEF LoadWrite
<1>4. CASE LoadActivate
  BY <1>4 DEF LoadActivate, Activate
<1> QED
  BY <1>1, <1>2, <1>3, <1>4

LEMMA TokenRotateInv ==
    ASSUME TokenInv, loader = "serving", NEW r \in Rotators, RotateStep(r)
    PROVE  TokenInv'
<1> USE TokenAssumption
    DEF TokenInv, TokenTypeOK, ServingInv, FreshInv, FileInv, SavedIsServed, NoToken,
        LoadPlaces, InRotate
<1>1. CASE RotateBegin(r)
  BY <1>1 DEF RotateBegin, Generate
<1>2. CASE RotateTruncate(r)
  BY <1>2 DEF RotateTruncate
<1>3. CASE RotateWrite(r)
  BY <1>3 DEF RotateWrite
<1>4. CASE RotateFails(r)
  BY <1>4 DEF RotateFails
<1>5. CASE RotateActivate(r)
  BY <1>5 DEF RotateActivate, Activate
<1> QED
  BY <1>1, <1>2, <1>3, <1>4, <1>5 DEF RotateStep

LEMMA TokenCrashInv == TokenInv /\ Crash => TokenInv'
  BY TokenAssumption
     DEF TokenInv, TokenTypeOK, ServingInv, FreshInv, FileInv, SavedIsServed,
         NoToken, LoadPlaces, InRotate, Crash

-----------------------------------------------------------------------------
(* Both *)

LEMMA FilesInvInit == FilesInit => TokenInv /\ KeysInv
  BY TokenInvInit, KeysInit DEF FilesInit

LEMMA FilesInvNext ==
    TokenInv /\ KeysInv /\ [FilesNext]_filesVars => TokenInv' /\ KeysInv'
<1> SUFFICES ASSUME TokenInv, KeysInv, [FilesNext]_filesVars PROVE TokenInv' /\ KeysInv'
  OBVIOUS
<1>1. ASSUME UNCHANGED tokenVars PROVE TokenInv'
  BY <1>1 DEF tokenVars, TokenInv, TokenTypeOK, ServingInv, FreshInv, FileInv, SavedIsServed
<1>2. CASE TokenLoad
  BY <1>2, TokenLoadInv, KeysStep DEF TokenLoad
<1>3. CASE VAPIDLoad
  BY <1>3, <1>1, KeysStep DEF VAPIDLoad
<1>4. CASE Serve
  BY <1>4, TokenRotateInv, KeysStep DEF Serve, Booted
<1>5. CASE ProcessEnds
  BY <1>5, TokenCrashInv, KeysStep DEF ProcessEnds
<1>6. CASE UNCHANGED filesVars
  BY <1>6, <1>1, KeysStep DEF filesVars
<1> QED
  BY <1>2, <1>3, <1>4, <1>5, <1>6 DEF FilesNext

LEMMA FilesInvariant == FilesSpec => [](TokenInv /\ KeysInv)
  BY FilesInvInit, FilesInvNext, PTL DEF FilesSpec

(* The types of the token's and the key files' variables are invariant. *)
THEOREM FilesTypeCorrect == FilesSpec => [](TokenTypeOK /\ VAPIDTypeOK)
<1>1. TokenInv /\ KeysInv => TokenTypeOK /\ VAPIDTypeOK
  BY DEF TokenInv, KeysInv
<1> QED
  BY <1>1, FilesInvariant, PTL

(* A token that POST /rotate-token replaced is never valid again, however   *)
(* the relay ends and starts, unless rotations overlapped.                  *)
THEOREM FilesRetiredStaysRetired == FilesSpec => []RetiredStaysRetired
<1>1. TokenInv => RetiredStaysRetired
  BY TokenAssumption
     DEF TokenInv, TokenTypeOK, ServingInv, FileInv, LoadPlaces, RetiredStaysRetired
<1> QED
  BY <1>1, FilesInvariant, PTL

(* A relay at rest would start again with the token its clients know, for   *)
(* any number of rotations and restarts, if no write failed and no two      *)
(* rotations overlapped.                                                    *)
THEOREM FilesSavedIsServed == FilesSpec => []SavedIsServed
<1>1. TokenInv => SavedIsServed
  BY DEF TokenInv
<1> QED
  BY <1>1, FilesInvariant, PTL

(* The keys that phones have registered for stay, and belong together.      *)
THEOREM FilesKeysStay == FilesSpec => []KeysStay
<1>1. KeysInv => KeysStay
  BY PairsAssumption DEF KeysInv, VAPIDTypeOK, PairInv, NoPair, KeysStay
<1> QED
  BY <1>1, FilesInvariant, PTL
=============================================================================
