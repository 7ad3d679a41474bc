--------------------------- MODULE MCAlertPlayback ---------------------------
(***************************************************************************)
(* A TLC instance of AlertPlayback.  One profile has a test alert with a   *)
(* sound, and a silent alert that may interrupt it; the other profile has  *)
(* an alert with a sound and a spoken text, which competes for the one     *)
(* audio runtime.                                                          *)
(***************************************************************************)
EXTENDS AlertPlayback, TLC

CONSTANTS p1, p2, test, raid, other, u1

MCPieces      == test :> 1 @@ raid :> 0 @@ other :> 2
MCProfileOf   == test :> p1 @@ raid :> p1 @@ other :> p2
MCPriority    == test :> 1 @@ raid :> 2 @@ other :> 1
MCEvents      == {{raid}, {other}}
MCMaxCommands == p1 :> 2 @@ p2 :> 0
=============================================================================
