-------------------------- MODULE MCGroupeTontine --------------------------
(* Small instances of GroupeTontine for TLC; amounts in shares of a turn.  *)
EXTENDS GroupeTontine, TLC

MCSymetrie == Permutations(Requetes) \cup Permutations(Membres)

(* Bound: one accident of each behaviour is followed, and one in the       *)
(* preparation of the group only until the activation.                     *)
MCUnAccident ==
    /\ Cardinality({x \in DOMAIN courseVars : courseVars[x]}) <= 1
    /\ courseOrdre => statut = "CREATION"
=============================================================================
