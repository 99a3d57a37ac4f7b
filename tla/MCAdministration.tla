-------------------------- MODULE MCAdministration --------------------------
(* Small instance of Administration for TLC.                               *)
EXTENDS Administration, TLC

MCSymetrie == Permutations(Requetes) \cup Permutations(Clients) \cup Permutations(Collecteurs)

\* Bound: at the desk of the links one client moves at a time; each handler
\* there writes the row of one client and reads that of no other client.
MCUnClient ==
    sujet = "liens" =>
       Cardinality({k \in Clients : equipe[k].de # Personne
                                      \/ \E q \in Requetes : loc[q].qui = k}) <= 1
=============================================================================
