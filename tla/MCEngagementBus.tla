--------------------------- MODULE MCEngagementBus ---------------------------
(***************************************************************************)
(* TLC instances of EngagementBus: a ring and channels of one or two       *)
(* events, so that eviction, overflow and wrap-around happen at once.      *)
(***************************************************************************)
EXTENDS EngagementBus, TLC
=============================================================================
