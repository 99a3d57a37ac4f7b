---------------------------- MODULE Surveillance ----------------------------
(***************************************************************************)
(* The nightly accounting check of one tontine and the alerts it opens and *)
(* resolves, with the administrators who do the same by hand               *)
(* (cron.service.ts 1029-1215, alertes.service.ts 85-165).                 *)
(***************************************************************************)
EXTENDS Guichets

Montant == 2      \* of every movement: above the tolerance of 1 FCFA
Livre   == [solde : Int, cotise : Nat, retire : Nat, distribue : Nat]

horsAlertes == <<terrain, dates, documents, kycVerifie, litiges, compte, sujet>>
Ouvertes    == {a \in DOMAIN alertes : alertes[a] = "OUVERTE"}
Ecart(solde, calcule) == LET e == solde - calcule IN IF e < 0 THEN -e ELSE e
EcartReel   == Ecart(livre.solde, livre.cotise - livre.retire - livre.distribue)
Controle(q) == loc[q].op = "controle"
-----------------------------------------------------------------------------
(* Each movement changes the balance and its row in one transaction, but   *)
(* the second of two copies of a webhook, which credits the same row.      *)

Ecrire(suite) ==
    /\ sujet = "surveillance" /\ ecritures < MaxEcritures
    /\ livre' = suite
    /\ ecritures' = ecritures + 1
    /\ calme' = FALSE
    /\ UNCHANGED <<alertes, horsAlertes, courses, procVars>>

Crediter   == Ecrire([livre EXCEPT !.solde = @ + Montant, !.cotise = @ + Montant])
Recrediter == livre.cotise > 0 /\ Ecrire([livre EXCEPT !.solde = @ + Montant])
Debiter    == livre.solde > 0
    /\ Ecrire([livre EXCEPT !.solde = @ - Montant, !.retire = @ + Montant])
Distribuer == livre.solde > 0
    /\ Ecrire([livre EXCEPT !.solde = 0, !.distribue = @ + livre.solde])
-----------------------------------------------------------------------------
(* verifierCoherenceComptable: the balance was read with all the others,   *)
(* then three sums one after the other.                                    *)

LireSolde(q) ==
    /\ sujet = "surveillance" /\ ~\E p \in Requetes : Controle(p)
    /\ Commencer(q, "sommerCotisations", [Repos EXCEPT !.op = "controle", !.solde = livre.solde])
    /\ calme' = (\A p \in Requetes : loc[p].op = "aucune")
    /\ UNCHANGED <<livre, alertes, horsAlertes, courses, ecritures>>

Sommer(q, de, vers, somme) ==
    /\ pc[q] = de
    /\ loc' = [loc EXCEPT ![q].somme = @ + somme]
    /\ Vers(q, vers)
    /\ UNCHANGED <<livre, alertes, horsAlertes, courses, ecritures, calme>>

SommerCotisations(q)   == Sommer(q, "sommerCotisations", "sommerRetraits", livre.cotise)
SommerRetraits(q)      == Sommer(q, "sommerRetraits", "sommerDistributions", -livre.retire)

\* mutant: the distributions of a group are left out of the sum
SommerSansDistributions(q) ==
    Sommer(q, "sommerDistributions", "comparer", 0)

SommerDistributions(q) ==
    Sommer(q, "sommerDistributions", "comparer", -livre.distribue)

\* creerOuMettreAJourAlerteCoherence reads an open alert; without a gap every
\* open one is resolved.
Comparer(q) ==
    /\ pc[q] = "comparer"
    /\ IF Ecart(loc[q].solde, loc[q].somme) > 1
       THEN /\ IF Ouvertes = {} THEN Vers(q, "creerAlerte") /\ UNCHANGED loc ELSE Repondre(q)
            /\ UNCHANGED alertes
       ELSE /\ alertes' = [a \in DOMAIN alertes |-> "RESOLUE"]
            /\ Repondre(q)
    /\ UNCHANGED <<livre, horsAlertes, courses, ecritures, calme>>

CreerAlerte(q) ==
    /\ pc[q] = "creerAlerte" /\ Len(alertes) < MaxAlertes
    /\ alertes' = Append(alertes, "OUVERTE")
    /\ Repondre(q)
    /\ UNCHANGED <<livre, horsAlertes, courses, ecritures, calme>>

(* alertes.service.ts: resoudre and rouvrir                                *)

LireAlerte(q) ==
    /\ sujet = "surveillance"
    /\ \E a \in DOMAIN alertes :
          /\ Commencer(q, "ecrireAlerte", [Repos EXCEPT !.op = "alerte", !.n = a,
                !.cible = IF alertes[a] = "OUVERTE" THEN "RESOLUE" ELSE "OUVERTE"])
    /\ calme' = FALSE
    /\ UNCHANGED <<livre, alertes, horsAlertes, courses, ecritures>>

EcrireAlerte(q) ==
    /\ pc[q] = "ecrireAlerte"
    /\ alertes' = [alertes EXCEPT ![loc[q].n] = loc[q].cible]
    /\ calme' = FALSE
    /\ Repondre(q)
    /\ UNCHANGED <<livre, horsAlertes, courses, ecritures>>
-----------------------------------------------------------------------------
\* After a check an alert is open exactly when the books do not add up,
\* unless money moved or an administrator acted since it began: the
\* balance and the three sums are then of different moments, and the alert, or
\* its absence, is only put right a night later.
AlerteJuste ==
    calme /\ (\A q \in Requetes : ~Controle(q)) /\ sujet = "surveillance" =>
       /\ (Ouvertes # {}) <=> EcartReel > 1
=============================================================================
