-------------------------- MODULE MCBranchManager --------------------------
(***************************************************************************)
(* TLC instances of BranchManager.  The policy is scaled down: a delay of  *)
(* 1 doubles once to its maximum, and one or two restarts fill the window. *)
(***************************************************************************)
EXTENDS BranchManager, TLC

\* Workers and clients are interchangeable; used by safety runs only
Symmetry == Permutations(Workers) \cup Permutations(Clients)
=============================================================================
