------------------------------ MODULE Echeances ------------------------------
(***************************************************************************)
(* The dates of one tontine: the end of a PROJET, which a job closes, and  *)
(* the date that unlocks a BLOQUE one, set when it is created and changed  *)
(* by its owner (tontines.service.ts 70-114, 189-252, 430-509 and          *)
(* 1144-1205, cron.service.ts 1236-1288).                                  *)
(***************************************************************************)
EXTENDS Guichets, Calendrier

Politique == {"FLEXIBLE", "BLOQUE"}
Echeance  == [projet : BOOLEAN, statut : {"CREATION", "ACTIVE", "TERMINEE"},
              frequence : Frequence, cotisations : Nat,  \* needed for its objective
              politique : Politique, verrou : Nat, fin : Nat,
              pose : Nat]    \* history: the day the configuration was checked

horsEcheances == <<terrain, documents, kycVerifie, litiges, compte, livre, alertes,
                   facturations, sujet, calme>>
Modifie(q) == loc[q].op = "modification"
Cloture(q) == loc[q].op = "dissolution"

\* mutant: the frequency the tontine had is used, not the one it gets
VerrouAdmisAncien(t, suite) ==
    suite.politique = "BLOQUE" =>
       suite.verrou > jour /\ suite.verrou >= DateFinEstimee(jour, suite.cotisations, t.frequence)

\* verifierConfigurationPolitiqueRetrait, on what is stored and what is asked
VerrouAdmis(t, suite) ==
    suite.politique = "BLOQUE" =>
       suite.verrou > jour
         /\ suite.verrou >= DateFinEstimee(jour, suite.cotisations, suite.frequence)

\* creer.  Bound: one or two contributions, dates within the next three days
\* or a week away.
EcheanceInitiale(n) ==
    {t \in [projet : BOOLEAN, statut : {"CREATION"}, frequence : {"JOURNALIER", "HEBDOMADAIRE"},
            cotisations : {1}, politique : Politique, verrou : {n + 1, n + 7},
            fin : {n + 1, n + 2}, pose : {n}] :
        t.politique = "BLOQUE" => t.verrou >= DateFinEstimee(n, t.cotisations, t.frequence)}
-----------------------------------------------------------------------------
\* activerTontine: the end of a project must not be past
LireActivation(q) ==
    /\ sujet = "echeance" /\ echeance.statut = "CREATION"
    /\ echeance.projet => echeance.fin > jour
    /\ Commencer(q, "activer", [Repos EXCEPT !.op = "activation"])
    /\ UNCHANGED <<echeance, jour, horsEcheances, courses, ecritures>>

EcrireActivation(q) ==
    /\ pc[q] = "activer"
    /\ echeance' = [echeance EXCEPT !.statut = "ACTIVE"]
    /\ Repondre(q)
    /\ UNCHANGED <<jour, horsEcheances, courses, ecritures>>

\* modifier: the row is read and checked with what is asked; the update writes
\* the fields that were asked, and no other.
Demandes ==
    [champ : {"frequence"}, valeur : {"JOURNALIER", "HEBDOMADAIRE"}]
      \cup [champ : {"cotisations"}, valeur : {1, 2}]
      \cup [champ : {"politique"}, valeur : Politique]
      \cup [champ : {"verrou"}, valeur : {jour + 1, jour + 7}]
      \cup [champ : {"fin"}, valeur : {jour + 1}]

LireModification(q) ==
    /\ sujet = "echeance" /\ echeance.statut # "TERMINEE" /\ ecritures < MaxChangements
    /\ \E d \in Demandes :
          /\ d.valeur # echeance[d.champ]
          /\ VerrouAdmis(echeance, [echeance EXCEPT ![d.champ] = d.valeur])
          /\ Commencer(q, "modifier",
                       [Repos EXCEPT !.op = "modification", !.photo = {d}, !.n = jour])
    /\ Ajouter("modification", \E p \in Requetes : Modifie(p))
    /\ ecritures' = ecritures + 1
    /\ UNCHANGED <<echeance, jour, horsEcheances>>

Modifier(q) ==
    /\ pc[q] = "modifier"
    /\ \E d \in loc[q].photo :
          /\ echeance' = [echeance EXCEPT ![d.champ] = d.valeur, !.pose = loc[q].n]
          /\ Ajouter("projet", d.champ = "fin" /\ \E p \in Requetes : Cloture(p))
    /\ Repondre(q)
    /\ UNCHANGED <<jour, horsEcheances, ecritures>>
-----------------------------------------------------------------------------
(* dissoudreProjetsEchus, every morning at six                             *)

Echu(t) == t.projet /\ t.statut = "ACTIVE" /\ t.fin <= jour

ListerEchus(q) ==
    /\ sujet = "echeance" /\ Echu(echeance)
    /\ Commencer(q, "dissoudre", [Repos EXCEPT !.op = "dissolution"])
    /\ UNCHANGED <<echeance, jour, horsEcheances, courses, ecritures>>

Dissoudre(q) ==
    /\ pc[q] = "dissoudre"
    /\ echeance' = [echeance EXCEPT !.statut = "TERMINEE"]
    /\ Repondre(q)
    /\ UNCHANGED <<jour, horsEcheances, courses, ecritures>>
-----------------------------------------------------------------------------
\* The job closes a project whose end is past, unless the owner moved the end
\* after the job had made its list.  A blocked tontine stays blocked at least
\* until its objective can be reached, counted from the day its configuration
\* was last checked, unless two modifications met: each was checked without
\* what the other writes.
EcheancesTenues ==
    [][/\ \A q \in Requetes :
             pc[q] = "dissoudre" /\ echeance' # echeance /\ "projet" \notin courses =>
                echeance.fin <= jour
       /\ echeance'.politique = "BLOQUE" /\ "modification" \notin courses' =>
             echeance'.verrou >= DateFinEstimee(echeance'.pose, echeance'.cotisations,
                                                echeance'.frequence)]_vars
=============================================================================
