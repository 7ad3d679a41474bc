---------------------------- MODULE IngestSource ----------------------------
(***************************************************************************)
(* What the MediaMTX supervisor promises to those who read its snapshots   *)
(* (IngestSource in internal/runtime/branch): whether a publisher is       *)
(* connected.  BranchManager is driven by it; MediaMTXSupervisor           *)
(* implements it.                                                          *)
(***************************************************************************)

VARIABLE ingest  \* "absent", "receiving", or "stopping": MediaMTX is not ready,
                 \* and the last ingest snapshot still says "receiving"

Init == ingest = "absent"

Lost     == ingest = "receiving" /\ ingest' \in {"absent", "stopping"}
Cleared  == ingest = "stopping" /\ ingest' = "absent"
Received == ingest \in {"absent", "stopping"} /\ ingest' = "receiving"

Next == Lost \/ Cleared \/ Received

Spec == Init /\ [][Next]_ingest
=============================================================================
