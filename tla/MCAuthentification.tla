------------------------- MODULE MCAuthentification -------------------------
(* Small instance of Authentification for TLC.                             *)
EXTENDS Authentification, TLC

\* Inscriptions and resets, logins and refreshes, devices: each with the
\* decisions of an administrator or the resets that meet it.
MCUsages ==
    { [existe |-> FALSE, otps |-> 2, sessions |-> 1,
       operations |-> {"inscription", "statut"}],
      [existe |-> TRUE, otps |-> 1, sessions |-> 1,
       operations |-> {"reset", "connexion"}],
      [existe |-> TRUE, otps |-> 0, sessions |-> 2,
       operations |-> {"connexion", "rafraichir", "deconnecter"}],
      [existe |-> TRUE, otps |-> 0, sessions |-> 2,
       operations |-> {"connexion", "changerPin", "empreinte", "configurer"}] }

MCSymetrie == Permutations(Requetes) \cup Permutations(Appareils)

\* At most one of the accidents the history flags record.
MCUnAccident ==
    Cardinality({f \in {<<1, courseCode>>, <<2, courseEchecs>>, <<3, courseReset>>,
                        <<4, courseEmpreinte>>} : f[2]}) <= 1
=============================================================================
