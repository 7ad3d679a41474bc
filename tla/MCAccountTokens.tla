--------------------------- MODULE MCAccountTokens ---------------------------
(* A TLC instance of AccountTokens: two requests beside the validation worker. *)
EXTENDS AccountTokens, TLC

CONSTANTS a1, a2, c1, c2

=============================================================================
