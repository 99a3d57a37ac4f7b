----------------------------- MODULE MCRetraits -----------------------------
(* Small instance of Retraits for TLC, with amounts in thousands of FCFA.  *)
EXTENDS RetraitsLivre, TLC

MCMontants   == {20, 50}
MCFraisAgent == (20 :> 1) @@ (50 :> 2)
MCSymetrie   == Permutations(Requetes) \cup Permutations(RetraitIds)
=============================================================================
