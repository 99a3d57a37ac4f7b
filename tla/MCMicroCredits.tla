--------------------------- MODULE MCMicroCredits ---------------------------
(* Small instances of MicroCredits for TLC; amounts in instalments.        *)
EXTENDS MicroCredits, TLC

MCSymetrie == Permutations(Requetes)
=============================================================================
