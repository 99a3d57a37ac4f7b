--------------------------- MODULE MCCotisations ---------------------------
(* Small instances of Cotisations for TLC, amounts in thousands of FCFA.   *)
EXTENDS Cotisations, TLC

MCSymetrie == Permutations(Requetes)
=============================================================================
