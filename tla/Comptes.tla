------------------------------- MODULE Comptes -------------------------------
(***************************************************************************)
(* The end of a tontine and of an account: a client deletes his tontine or *)
(* closes his account, an administrator removes a user, while payments and *)
(* credits of the client go on (utilisateurs.service.ts 428-609,           *)
(* tontines.service.ts 1352-1366).  Amounts are counted in payments.       *)
(***************************************************************************)
EXTENDS Guichets

StatutCredit == {"AUCUN", "EN_ATTENTE", "ACTIF", "EN_DEFAUT", "TERMINE"}
Compte == [statut : {"ACTIF", "BANNI"}, present : BOOLEAN, anonyme : BOOLEAN,
           origine : {"inscrit", "inacheve", "enrole"},
           tontine : BOOLEAN, solde : Nat, enAttente : Nat,
           orphelins : Nat,           \* pending payments whose tontineId was set to null
           perdu : Nat,               \* paid and in no balance
           retraits : BOOLEAN, transactions : BOOLEAN, credit : StatutCredit]

\* who signed up, who never finished (no session, his codes were cleaned), and
\* who was enrolled by a collector, with a tontine and without a PIN
CompteInitial == {[statut |-> "ACTIF", present |-> TRUE, anonyme |-> FALSE, origine |-> o,
                   tontine |-> o = "enrole", solde |-> 0, enAttente |-> 0, orphelins |-> 0,
                   perdu |-> 0, retraits |-> FALSE, transactions |-> FALSE,
                   credit |-> "AUCUN"] : o \in {"inscrit", "inacheve", "enrole"}}

horsCompte == <<terrain, dates, documents, kycVerifie, litiges, livre, alertes, sujet, calme>>
EnCredit   == {"ACTIF", "EN_DEFAUT"}
Ferme(q)   == loc[q].op = "fermeture"
Efface(q)  == loc[q].op = "tontine"
-----------------------------------------------------------------------------
(* What the other services do to him meanwhile, a request each.            *)

Evoluer(suite) ==
    /\ sujet = "compte" /\ compte.present /\ ecritures < MaxEcritures
    /\ compte' = suite
    /\ ecritures' = ecritures + 1
    /\ courses' = courses
         \cup (IF \E q \in Requetes : Ferme(q) THEN {"fermeture"} ELSE {})
         \cup (IF suite.enAttente > 0 /\ \E q \in Requetes : Efface(q) THEN {"paiement"} ELSE {})
    /\ UNCHANGED <<horsCompte, procVars>>

Inscrit == compte.origine = "inscrit"
TerminerInscription == compte.origine = "inacheve" /\ Evoluer([compte EXCEPT !.origine = "inscrit"])
CreerTontine == Inscrit /\ ~compte.tontine /\ Evoluer([compte EXCEPT !.tontine = TRUE])
Cotiser == Inscrit /\ compte.tontine
    /\ Evoluer([compte EXCEPT !.enAttente = @ + 1, !.transactions = TRUE])
\* initierCotisationAssistee: the transaction is there and its payment asked
\* when the row of the operation is refused (a field montant it does not have).
CotiserAssiste == compte.tontine
    /\ Evoluer([compte EXCEPT !.enAttente = @ + 1, !.transactions = TRUE])
Retirer == Inscrit /\ compte.tontine /\ compte.solde > 0
    /\ Evoluer([compte EXCEPT !.solde = 0, !.retraits = TRUE])
DemanderCredit == Inscrit /\ compte.credit \notin EnCredit \cup {"EN_ATTENTE"}
    /\ Evoluer([compte EXCEPT !.credit = "EN_ATTENTE"])
ValiderCredit == compte.credit = "EN_ATTENTE" /\ Evoluer([compte EXCEPT !.credit = "ACTIF"])
FinirCredit == \E s \in {"EN_DEFAUT", "TERMINE"} :
    compte.credit = "ACTIF" /\ Evoluer([compte EXCEPT !.credit = s])

\* traiterSucces increments the balance only if the transaction still has a
\* tontine.
ConfirmerPaiement ==
    \/ compte.enAttente > 0
       /\ Evoluer([compte EXCEPT !.enAttente = @ - 1, !.solde = @ + 1])
    \/ compte.orphelins > 0
       /\ Evoluer([compte EXCEPT !.orphelins = @ - 1, !.perdu = @ + 1])
-----------------------------------------------------------------------------
(* supprimerTontine                                                        *)

LireTontine(q) ==
    /\ sujet = "compte" /\ Inscrit /\ compte.tontine /\ compte.solde = 0
    /\ Commencer(q, "effacerTontine", [Repos EXCEPT !.op = "tontine"])
    /\ Ajouter("paiement", compte.enAttente > 0)
    /\ UNCHANGED <<compte, horsCompte, ecritures>>

\* A withdrawal keeps the row (ON DELETE RESTRICT); a transaction only loses
\* its tontine (ON DELETE SET NULL).
EffacerTontine(q) ==
    /\ pc[q] = "effacerTontine"
    /\ compte' = IF ~compte.tontine \/ compte.retraits THEN compte
                 ELSE [compte EXCEPT !.tontine = FALSE, !.solde = 0, !.enAttente = 0,
                                     !.orphelins = @ + compte.enAttente,
                                     !.perdu = @ + compte.solde]
    /\ Repondre(q)
    /\ UNCHANGED <<horsCompte, courses, ecritures>>
-----------------------------------------------------------------------------
(* supprimerMonCompte: balance, then credit, then the update or the delete *)

LireSoldes(q) ==
    /\ sujet = "compte" /\ compte.present /\ Inscrit /\ compte.solde = 0
    /\ Commencer(q, "lireCredit", [Repos EXCEPT !.op = "fermeture",
                                    !.n = IF compte.credit = "AUCUN" THEN 0 ELSE 1])
    /\ UNCHANGED <<compte, horsCompte, courses, ecritures>>

\* mutant: only a credit in progress keeps the account
CreditEnCoursSeul == compte.credit = "ACTIF"

CreditEnCours == compte.credit \in EnCredit

LireCredit(q) ==
    /\ pc[q] = "lireCredit"
    /\ IF CreditEnCours THEN Repondre(q) ELSE Vers(q, "fermerCompte") /\ UNCHANGED loc
    /\ UNCHANGED <<compte, horsCompte, courses, ecritures>>

\* aHistorique counts the credits alone.  Without one the row is deleted, and
\* the sessions of the client forbid it.
FermerCompte(q) ==
    /\ pc[q] = "fermerCompte"
    /\ compte' = IF loc[q].n > 0 THEN [compte EXCEPT !.statut = "BANNI", !.anonyme = TRUE]
                 ELSE compte
    /\ Repondre(q)
    /\ UNCHANGED <<horsCompte, courses, ecritures>>
-----------------------------------------------------------------------------
(* supprimerUtilisateur                                                    *)

Historique == compte.transactions \/ compte.tontine \/ compte.credit # "AUCUN"

LireUtilisateur(q) ==
    /\ sujet = "compte" /\ compte.present
    /\ Commencer(q, IF Historique THEN "bannir" ELSE "effacer",
                 [Repos EXCEPT !.op = "suppression"])
    /\ UNCHANGED <<compte, horsCompte, courses, ecritures>>

Bannir(q) ==
    /\ pc[q] = "bannir"
    /\ compte' = [compte EXCEPT !.statut = "BANNI"]
    /\ Repondre(q)
    /\ UNCHANGED <<horsCompte, courses, ecritures>>

\* Any row that names him forbids it: a tontine or a transaction that came in
\* between, and the sessions of whoever ever logged in.
Effacer(q) ==
    /\ pc[q] = "effacer"
    /\ compte' = IF compte.origine = "inacheve" /\ ~Historique
                 THEN [compte EXCEPT !.present = FALSE] ELSE compte
    /\ Repondre(q)
    /\ UNCHANGED <<horsCompte, courses, ecritures>>
-----------------------------------------------------------------------------
\* An account is closed by its owner with nothing on it and no credit running,
\* and no payment ends in no balance.  Unless he was paid or granted something
\* while his request was under way, and unless a payment was pending when the
\* tontine was deleted: neither is looked at.
FinSansArgent ==
    [][/\ compte'.anonyme /\ ~compte.anonyme /\ "fermeture" \notin courses =>
             compte.solde = 0 /\ compte.credit \notin EnCredit
       /\ compte'.perdu > compte.perdu => "paiement" \in courses]_vars
=============================================================================
