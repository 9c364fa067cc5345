--------------------------- MODULE MCSecAggClient ---------------------------
(* Instance of SecAggClient for TLC; the callers of Abort are alike.       *)
EXTENDS SecAggClient, TLC

AborterSymmetry == Permutations(Aborters)
=============================================================================
