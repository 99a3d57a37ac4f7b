----------------------------- MODULE Abonnements -----------------------------
(***************************************************************************)
(* Subscriptions of the collectors (facturation.service.ts) and the job    *)
(* that bills them on the first of the month (cron.service.ts 940-998).    *)
(***************************************************************************)
EXTENDS Guichets, Calendrier

Plan   == {"STANDARD", "PRO"}
Facturation == [plan : Plan \cup {"AUCUN"}, dernier : Nat, prochain : Nat,
                attendu : BOOLEAN, preleves : Nat]   \* history: found, billed by the job
SansFacturation == [plan |-> "AUCUN", dernier |-> 0, prochain |-> 0, attendu |-> FALSE,
                    preleves |-> 0]

horsFactures == <<terrain, documents, kycVerifie, litiges, compte, livre, alertes, echeance,
                  sujet, calme>>
Abonne(c) == facturations[c].plan # "AUCUN"
Facture(q) == loc[q].op = "facturation"

Payee(c, plan) ==
    [facturations EXCEPT ![c] = [@ EXCEPT !.plan = plan, !.dernier = jour,
                                          !.prochain = DecalerMois(jour, 1)]]
-----------------------------------------------------------------------------
\* monStatut: a collector who looks at his subscription for the first time
\* gets one; agentId is unique, the second of two creations is an error.
LireFacturation(q) ==
    /\ sujet = "abonnement"
    /\ \E c \in Collecteurs :
          ~Abonne(c) /\ Commencer(q, "creerFacturation",
                                  [Repos EXCEPT !.op = "statut", !.qui = c])
    /\ UNCHANGED <<facturations, jour, horsFactures, courses, ecritures>>

CreerFacturation(q) ==
    /\ pc[q] = "creerFacturation"
    /\ facturations' = IF Abonne(loc[q].qui) THEN facturations
                       ELSE Payee(loc[q].qui, "STANDARD")
    /\ Repondre(q)
    /\ UNCHANGED <<jour, horsFactures, courses, ecritures>>

\* payerAbonnement: one upsert.  No payment is asked for.
PayerAbonnement ==
    /\ sujet = "abonnement" /\ ecritures < MaxChangements
    /\ \E c \in Collecteurs, plan \in Plan : facturations' = Payee(c, plan)
    /\ ecritures' = ecritures + 1
    /\ UNCHANGED <<jour, horsFactures, courses, procVars>>

\* upgrader: the plan is read, then written
LirePlan(q) ==
    /\ sujet = "abonnement"
    /\ \E c \in Collecteurs :
          facturations[c].plan = "STANDARD"
             /\ Commencer(q, "passerPro", [Repos EXCEPT !.op = "upgrade", !.qui = c])
    /\ UNCHANGED <<facturations, jour, horsFactures, courses, ecritures>>

PasserPro(q) ==
    /\ pc[q] = "passerPro"
    /\ facturations' = Payee(loc[q].qui, "PRO")
    /\ Repondre(q)
    /\ UNCHANGED <<jour, horsFactures, courses, ecritures>>
-----------------------------------------------------------------------------
(* facturerAbonnementsCollecteurs: all rows are read, then each is billed. *)
(* Its payment request is made in the tick of the update and is not waited *)
(* for.                                                                    *)

LireFacturations(q) ==
    /\ \E c \in Collecteurs : Abonne(c)
    /\ facturations' = [c \in Collecteurs |-> [facturations[c] EXCEPT !.attendu = @ \/ Abonne(c)]]
    /\ Commencer(q, "prelever", [Repos EXCEPT !.op = "facturation",
                                              !.photo = {c \in Collecteurs : Abonne(c)}])

\* nine o'clock on the first; missed when the server is down
FacturerLePremier(q) ==
    /\ sujet = "abonnement" /\ JourDuMois(jour) = 1 /\ "cron" \notin courses
    /\ LireFacturations(q)
    /\ courses' = courses \cup {"cron"}
    /\ UNCHANGED <<jour, horsFactures, ecritures>>

\* declencherFacturationManuellement, on any day
FacturerAlaMain(q) ==
    /\ sujet = "abonnement" /\ ecritures < MaxChangements
    /\ LireFacturations(q)
    /\ courses' = courses \cup {"manuel"}
    /\ ecritures' = ecritures + 1
    /\ UNCHANGED <<jour, horsFactures>>

Prelevee(c) ==
    [facturations EXCEPT ![c] = [@ EXCEPT !.dernier = jour, !.prochain = jour + 30,
                                          !.preleves = facturations[c].preleves + 1]]

\* mutant: the error of one collector ends the loop
PreleverEtArreter(q) ==
    /\ pc[q] = "prelever"
    /\ \E c \in loc[q].photo : facturations' = Prelevee(c)
    /\ Repondre(q)
    /\ UNCHANGED <<jour, horsFactures, courses, ecritures>>

Prelever(q) ==
    /\ pc[q] = "prelever"
    /\ \E c \in loc[q].photo :
          /\ facturations' = Prelevee(c)
          /\ IF loc[q].photo = {c} THEN Repondre(q)
             ELSE loc' = [loc EXCEPT ![q].photo = @ \ {c}] /\ UNCHANGED pc
    /\ UNCHANGED <<jour, horsFactures, courses, ecritures>>
-----------------------------------------------------------------------------
\* The next payment of a subscription lies 28 to 31 days after the last one,
\* at the end of a month too.  Once the job of the month is over, every collector
\* it had found has been billed by it, exactly once, and nobody else: unless the
\* job was also started by hand (every collector pays twice) or the server died
\* under it (those who were left are not billed this month).
AbonnementsJustes ==
    \A c \in Collecteurs :
       LET f == facturations[c] IN
       /\ Abonne(c) => f.prochain - f.dernier \in 28 .. 31
       /\ f.preleves > 0 => f.attendu
       /\ "manuel" \notin courses =>
             /\ f.preleves <= 1
             /\ f.attendu /\ "panne" \notin courses /\ (\A q \in Requetes : ~Facture(q)) =>
                   f.preleves = 1
=============================================================================
