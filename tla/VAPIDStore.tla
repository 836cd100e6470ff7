------------------------------ MODULE VAPIDStore ------------------------------
(***************************************************************************)
(* The VAPID key pair of the relay (internal/relay/vapid.go): two files    *)
(* that are written one after the other.  A pair stands for both its keys. *)
(* os.WriteFile truncates and then writes.                                 *)
(***************************************************************************)
EXTENDS Naturals, FiniteSets

CONSTANT Pairs      \* the key pairs there are; each is generated at most once

ASSUME PairsAssumption == Pairs \cap {"empty", "missing"} = {}

VARIABLES
    privFile,       \* a pair, "empty" or "missing"
    pubFile,
    keys,           \* the private and the public key in memory, or "unset"
    vapid,          \* where LoadOrGenerate stands
    newPair,        \* the pair it has generated
    madePairs,      \* the pairs generated so far
    firstKeys       \* history: the keys of the first start that came through

vapidVars == <<privFile, pubFile, keys, vapid, newPair, madePairs, firstKeys>>

NoPair == {"empty", "missing"}

VAPIDInit ==
    /\ privFile = "missing" /\ pubFile = "missing"
    /\ keys = "unset" /\ vapid = "read" /\ newPair = "unset"
    /\ madePairs = {}
    /\ firstKeys = "unset"

LoadKeys(priv, pub) ==
    /\ keys' = <<priv, pub>>
    /\ firstKeys' = IF firstKeys = "unset" THEN <<priv, pub>> ELSE firstKeys
    /\ vapid' = "loaded"

GeneratePair ==
    \E p \in Pairs \ madePairs :
        /\ newPair' = p
        /\ madePairs' = madePairs \cup {p}
        /\ vapid' = "truncPriv"
        /\ UNCHANGED <<keys, firstKeys>>

(* Fault variant: one file is enough. *)
ReadKeysEither ==
    /\ vapid = "read"
    /\ IF privFile \in Pairs THEN LoadKeys(privFile, pubFile) /\ UNCHANGED <<newPair, madePairs>>
       ELSE GeneratePair
    /\ UNCHANGED <<privFile, pubFile>>

(* Both files are there and hold something, or a new pair is made. *)
ReadKeys ==
    /\ vapid = "read"
    /\ IF privFile \notin NoPair /\ pubFile \notin NoPair
       THEN LoadKeys(privFile, pubFile) /\ UNCHANGED <<newPair, madePairs>>
       ELSE GeneratePair
    /\ UNCHANGED <<privFile, pubFile>>

WritePriv ==
    /\ \/ vapid = "truncPriv" /\ privFile' = "empty" /\ vapid' = "writePriv"
       \/ vapid = "writePriv" /\ privFile' = newPair /\ vapid' = "truncPub"
    /\ UNCHANGED <<pubFile, keys, newPair, madePairs, firstKeys>>

WritePub ==
    /\ \/ vapid = "truncPub" /\ pubFile' = "empty" /\ vapid' = "writePub"
       \/ vapid = "writePub" /\ pubFile' = newPair /\ vapid' = "keep"
    /\ UNCHANGED <<privFile, keys, newPair, madePairs, firstKeys>>

KeepKeys ==
    /\ vapid = "keep"
    /\ LoadKeys(newPair, newPair)
    /\ UNCHANGED <<privFile, pubFile, newPair, madePairs>>

VAPIDStep == ReadKeys \/ WritePriv \/ WritePub \/ KeepKeys

(* The process is gone, or a file operation failed and main gave up. *)
VAPIDLost ==
    /\ keys' = "unset" /\ vapid' = "read" /\ newPair' = "unset"
    /\ UNCHANGED <<privFile, pubFile, madePairs, firstKeys>>

-----------------------------------------------------------------------------
(* "on subsequent calls the existing files are read back unchanged"         *)
(* (vapid.go:55-56): wherever earlier starts were cut off, the two keys in  *)
(* memory belong together and are those of the first start that came        *)
(* through, for which phones have registered.                               *)
KeysStay == keys # "unset" => keys = firstKeys /\ keys[1] = keys[2]
=============================================================================
