------------------------------ MODULE Guichets ------------------------------
(***************************************************************************)
(* What the desks of the administration share: the tables they decide on   *)
(* and the requests in progress.  KYC documents, disputes, closing of      *)
(* accounts, the accounting check, the collectors, their subscriptions and *)
(* the dates of tontines are modules of their own that extend this one;    *)
(* Administration puts them together.                                      *)
(*                                                                         *)
(* Every service reads a row, looks at it, and then updates it by its id   *)
(* without looking again.  A request that its first read refuses changes   *)
(* nothing, so a slot starts with the read that accepts it; pc[q] is its   *)
(* next awaited call and loc[q] what it has read.                          *)
(***************************************************************************)
EXTENDS Integers, Sequences, FiniteSets

CONSTANTS
    Requetes,                  \* slots that run one request or job each
    Types,                     \* typeDocument of a KYC document
    Transactions,              \* transactions of the client
    Clients, Collecteurs,      \* the people of one supervisor
    Superviseur, Personne,     \* the supervisor; no one
    MaxDocuments, MaxLitiges, MaxCommentaires, MaxEcritures, MaxAlertes,
    MaxChangements, MaxJours   \* bounds

ASSUME GuichetsAssumption ==
    /\ {MaxDocuments, MaxLitiges, MaxCommentaires, MaxEcritures, MaxAlertes,
        MaxChangements, MaxJours} \subseteq Nat
    /\ Requetes # {} /\ IsFiniteSet(Requetes) /\ IsFiniteSet(Clients)

VARIABLES
    documents,    \* rows of documentKYC of one client, oldest first
    kycVerifie,   \* Utilisateur.kycVerifie
    litiges,      \* rows of litige, oldest first
    compte,       \* the client as the closing of an account sees him
    livre,        \* one tontine: its balance and the sums of its rows
    alertes,      \* statut of the COHERENCE_COMPTABLE alerts of the tontine
    equipe,       \* role, statut, collecteurId or superviseurId of each person
    qr,           \* qRCodeCollecteur of each collector
    visites,      \* rows <<collector, client>> of presenceCollecteur, today
    commissions,  \* soldeCommissionFcfa of each collector, what he earned and got
    facturations, \* facturationAgent of each collector
    echeance,     \* the dates of one tontine
    jour,         \* today
    pc, loc       \* progress of the slots

VARIABLES         \* history and bounds: read by no handler
    sujet,        \* the desk this behaviour is about
    courses,      \* what requests met one another over
    ecritures,    \* movements of money so far
    calme         \* nothing was written since the last accounting check began

procVars == <<pc, loc>>
histVars == <<sujet, courses, ecritures, calme>>
terrain  == <<equipe, qr, visites, commissions>>
dates    == <<facturations, echeance, jour>>
bureau   == <<documents, kycVerifie, litiges, compte, livre, alertes, dates>>
tables   == <<bureau, terrain>>
vars     == <<tables, procVars, histVars>>

Sujets == {"kyc", "litige", "compte", "surveillance", "liens", "tournee", "commissions",
            "abonnement", "echeance", "calendrier"}
Repos  == [op |-> "aucune", n |-> 0, cible |-> "aucune", somme |-> 0, solde |-> 0,
           qui |-> Personne, a |-> Personne, photo |-> {}]

Ajouter(c, quand) == courses' = courses \cup (IF quand THEN {c} ELSE {})

Commencer(q, etape, travail) ==
    /\ pc[q] = "libre"
    /\ pc' = [pc EXCEPT ![q] = etape] /\ loc' = [loc EXCEPT ![q] = travail]

Vers(q, etape) == pc' = [pc EXCEPT ![q] = etape]
Repondre(q)    == Vers(q, "libre") /\ loc' = [loc EXCEPT ![q] = Repos]

\* another slot is at work on the same row
Croise(q, op, n) == \E p \in Requetes \ {q} : loc[p].op = op /\ loc[p].n = n

\* The process dies; the connections are taken up again by nobody.
Panne ==
    /\ \E q \in Requetes : pc[q] # "libre"
    /\ pc' = [q \in Requetes |-> "libre"] /\ loc' = [q \in Requetes |-> Repos]
    /\ calme' = FALSE
    /\ Ajouter("panne", \E q \in Requetes : pc[q] \in {"debiter", "prelever"})
    /\ UNCHANGED <<tables, sujet, ecritures>>
=============================================================================
