------------------------ MODULE MCMediaMTXSupervisor ------------------------
(* MediaMTXSupervisor for TLC *)
EXTENDS MediaMTXSupervisor, TLC

\* Workers and clients are interchangeable (no liveness property uses this)
Symmetry == Permutations(Workers) \cup Permutations(Clients)
=============================================================================
