----------------------------- MODULE MCManager -----------------------------
(* A standalone module s, whose id sorts before that of a, which the       *)
(* manager starts.                                                         *)
EXTENDS Manager

CONSTANTS s, a

MCMixed == <<s, a>>
=============================================================================
