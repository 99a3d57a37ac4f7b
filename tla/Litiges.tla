------------------------------- MODULE Litiges -------------------------------
(***************************************************************************)
(* Disputes of a client over his transactions (litiges.service.ts).        *)
(***************************************************************************)
EXTENDS Guichets

StatutLitige == {"OUVERT", "EN_EXAMEN", "RESOLU", "REJETE"}
Litige  == [transaction : Transactions, statut : StatutLitige, commentaires : 0 .. MaxCommentaires]
Clos    == {"RESOLU", "REJETE"}
Ouverts(t) == {l \in DOMAIN litiges : litiges[l].transaction = t /\ litiges[l].statut \notin Clos}

horsLitiges == <<terrain, dates, documents, kycVerifie, compte, livre, alertes,
                 sujet, ecritures, calme>>

OuvrirLitige(q) ==
    /\ sujet = "litige"
    /\ \E t \in Transactions :
          /\ Ouverts(t) = {}
          /\ Commencer(q, "creerLitige", [Repos EXCEPT !.op = "ouverture", !.cible = t])
          /\ Ajouter("ouverture", \E p \in Requetes : loc[p].op = "ouverture" /\ loc[p].cible = t)
    /\ UNCHANGED <<litiges, horsLitiges>>

\* mutant: a dispute is created with the statut of a document
CreerLitigeEnAttente(q) ==
    /\ pc[q] = "creerLitige" /\ Len(litiges) < MaxLitiges
    /\ litiges' = Append(litiges, [transaction |-> loc[q].cible, statut |-> "EN_ATTENTE",
                                   commentaires |-> 0])
    /\ Repondre(q)
    /\ UNCHANGED <<courses, horsLitiges>>

CreerLitige(q) ==
    /\ pc[q] = "creerLitige" /\ Len(litiges) < MaxLitiges
    /\ litiges' = Append(litiges, [transaction |-> loc[q].cible, statut |-> "OUVERT",
                                   commentaires |-> 0])
    /\ Repondre(q)
    /\ UNCHANGED <<courses, horsLitiges>>

\* mutant: rejeter takes a dispute that was resolved
AdmetSaufResolu(statut, suite) ==
    CASE suite = "EN_EXAMEN" -> statut = "OUVERT"
      [] suite = "REJETE"    -> statut # "REJETE"
      [] OTHER               -> statut \notin Clos

\* examiner wants a dispute nobody took, resoudre, rejeter and the comment
\* one that is not closed.
Admet(statut, suite) ==
    CASE suite = "EN_EXAMEN" -> statut = "OUVERT"
      [] OTHER               -> statut \notin Clos

LireLitige(q) ==
    /\ sujet = "litige"
    /\ \E l \in DOMAIN litiges, suite \in {"EN_EXAMEN", "RESOLU", "REJETE", "commentaire"} :
          /\ Admet(litiges[l].statut, suite)
          /\ Commencer(q, "ecrireLitige", [Repos EXCEPT !.op = "litige", !.n = l, !.cible = suite])
          /\ Ajouter("litige", Croise(q, "litige", l))
    /\ UNCHANGED <<litiges, horsLitiges>>

EcrireLitige(q) ==
    /\ pc[q] = "ecrireLitige"
    /\ LET l == loc[q].n IN
       IF loc[q].cible = "commentaire"
       THEN /\ litiges[l].commentaires < MaxCommentaires
            /\ litiges' = [litiges EXCEPT ![l].commentaires = @ + 1]
       ELSE litiges' = [litiges EXCEPT ![l].statut = loc[q].cible]
    /\ Repondre(q)
    /\ UNCHANGED <<courses, horsLitiges>>

\* A closed dispute stays as it was closed and takes no comment, and a
\* transaction has one open dispute, unless two requests had read the same
\* dispute: a stale examiner reopens it, a stale comment lands after the end.
LitigeTranche ==
    [][/\ "litige" \in courses' \/
            \A l \in DOMAIN litiges : litiges[l].statut \in Clos => litiges'[l] = litiges[l]
       /\ courses' \cap {"litige", "ouverture"} # {} \/
            \A t \in Transactions : Cardinality(Ouverts(t)') <= 1]_vars
=============================================================================
