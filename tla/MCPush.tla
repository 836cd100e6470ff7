-------------------------------- MODULE MCPush --------------------------------
(* The push sender for TLC: three endpoints, one of which registers again   *)
(* with new keys.                                                           *)
EXTENDS PushSender

CONSTANTS e1, e2, e3, old, new

Registrations ==
    {[endpoint |-> e1, key |-> old], [endpoint |-> e1, key |-> new],
     [endpoint |-> e2, key |-> old], [endpoint |-> e3, key |-> old]}
=============================================================================
