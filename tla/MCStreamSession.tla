-------------------------- MODULE MCStreamSession --------------------------
(***************************************************************************)
(* TLC instances of StreamSession: a grace window and a retention of one   *)
(* or two units of a short clock, so that a session can be interrupted,    *)
(* resumed, closed, pruned and recovered.                                  *)
(***************************************************************************)
EXTENDS StreamSession, TLC
=============================================================================
