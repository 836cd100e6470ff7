------------------------------ MODULE RelayFiles ------------------------------
(***************************************************************************)
(* The two stores that a relay keeps on disk, in the order in which main   *)
(* loads them (cmd/relay/main.go): the token, then the key pair, and only  *)
(* then the servers, whose requests may rotate the token.  One relay runs  *)
(* at a time, and may end anywhere.                                        *)
(***************************************************************************)
EXTENDS TokenStore, VAPIDStore

filesVars == <<tokenVars, vapidVars>>

FilesInit == TokenInit /\ VAPIDInit

Booted == loader = "serving" /\ vapid = "loaded"

TokenLoad == (Load \/ LoadTruncate \/ LoadWrite \/ LoadActivate) /\ UNCHANGED vapidVars

VAPIDLoad == loader = "serving" /\ VAPIDStep /\ UNCHANGED tokenVars

Serve == Booted /\ (\E r \in Rotators : RotateStep(r)) /\ UNCHANGED vapidVars

ProcessEnds == Crash /\ VAPIDLost

FilesNext == TokenLoad \/ VAPIDLoad \/ Serve \/ ProcessEnds

FilesSpec == FilesInit /\ [][FilesNext]_filesVars
=============================================================================
