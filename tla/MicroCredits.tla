---------------------------- MODULE MicroCredits ----------------------------
(***************************************************************************)
(* Micro-credits: the demand, the client's consent by SMS or PIN and the   *)
(* decision of an administrator (micro-credits.service.ts), the jobs that  *)
(* expire a demand and debit the instalments (cron.service.ts), and the    *)
(* webhook of an instalment (transactions.service.ts).                     *)
(*                                                                         *)
(* As in Retraits a handler or a job advances from one awaited call to the *)
(* next and the others interleave with it; kkiapay's functions are not     *)
(* awaited, so a call of theirs is part of the step before.  All credits   *)
(* are of one client and one amount.  Rows are numbered in the order of    *)
(* creeLe and payeLe.  The score and the PIN only refuse a request and are *)
(* left out.                                                               *)
(***************************************************************************)
EXTENDS Integers, Sequences, FiniteSets

CONSTANTS
    Requetes,        \* slots that serve one request or run one job at a time
    Total,           \* montantTotalFcfa of a credit
    Journalier,      \* paiementJournalierFcfa
    SeuilDefaut,     \* failures that put a credit in default, 3 in the code
    Methodes,        \* methodeConsentement to explore: SMS, SMARTPHONE
    MaxCredits,      \* bound: rows of microCredit
    MaxPrelevements, \* bound: rows of remboursementCredit
    MaxDoublons,     \* bound: webhooks sent again without need
    MaxPannes,       \* bound: crashes of the server
    ErreursPossibles \* whether the insert of an instalment may fail

ASSUME MicroCreditsAssumption ==
    /\ IsFiniteSet(Requetes)
    /\ Total \in Nat \ {0} /\ Journalier \in Nat \ {0} /\ SeuilDefaut \in Nat \ {0}
    /\ Methodes \subseteq {"SMS", "SMARTPHONE"}
    /\ MaxCredits \in Nat /\ MaxPrelevements \in Nat /\ MaxDoublons \in Nat
    /\ MaxPannes \in Nat /\ ErreursPossibles \in BOOLEAN

VARIABLES
    credits,         \* rows of microCredit, oldest first
    rembs,           \* rows of remboursementCredit, oldest first
    vieux,           \* credits created over 30 minutes ago
    pc, loc,         \* progress and local variables of the handlers
    decaissements,   \* credit |-> disbursements the provider received
    issues,          \* instalment |-> outcome at the provider, "" at first
    recus,           \* instalments whose webhook was answered with 200
    doublons, pannes \* webhooks sent without need, crashes, so far

VARIABLES            \* history: what happened, read by no action
    courseDecision,  \* two handlers were deciding on one credit
    courseRemb       \* two handlers were settling instalments of one credit

tableVars   == <<credits, rembs>>
procVars    == <<pc, loc>>
kkiapayVars == <<decaissements, issues, recus, doublons, pannes>>
courseVars  == <<courseDecision, courseRemb>>
vars == <<tableVars, vieux, procVars, kkiapayVars, courseVars>>

CreditIds == 1..MaxCredits
RembIds   == 1..MaxPrelevements
Etapes == {"libre", "chercherActif", "creer", "chercherSms", "lirePin", "consentir",
           "lireValider", "activer", "lireRefus", "refuser", "expirer",
           "listerExpires", "expirerLot", "listerActifs", "prelever", "compterJob",
           "defautJob", "recevoir", "regler", "echec", "compter", "defaut", "accuser"}

MicroCredit == [statut : {"EN_ATTENTE", "ACTIF", "EN_DEFAUT", "TERMINE", "REFUSE",
                          "EXPIRE"},
                methode : Methodes, consenti : BOOLEAN, restant : Nat, jours : Nat]
Remboursement == [credit : CreditIds, statut : {"EN_ATTENTE", "SUCCES", "ECHEC"}]
Locales == [credit : Nat, remb : Nat, choix : {"", "1", "2"} \cup Methodes,
            lot : SUBSET CreditIds, restant : Nat, jours : Nat]

Requete(c, r, choix) == [credit |-> c, remb |-> r, choix |-> choix, lot |-> {},
                         restant |-> 0, jours |-> 0]
Repos == Requete(0, 0, "")

Init ==
    /\ credits = <<>> /\ rembs = <<>> /\ vieux = {}
    /\ pc = [q \in Requetes |-> "libre"]
    /\ loc = [q \in Requetes |-> Repos]
    /\ decaissements = [c \in CreditIds |-> 0]
    /\ issues = [r \in RembIds |-> ""] /\ recus = {}
    /\ doublons = 0 /\ pannes = 0
    /\ courseDecision = FALSE /\ courseRemb = FALSE

-----------------------------------------------------------------------------
EnStatut(s) == {c \in DOMAIN credits : credits[c].statut = s}
De(c, s)    == {r \in DOMAIN rembs : rembs[r].credit = c /\ rembs[r].statut = s}
PosMax(n)   == IF n > 0 THEN n ELSE 0     \* Math.max(0, n)

Vers(q, etape) == pc' = [pc EXCEPT ![q] = etape]
Repondre(q)    == Vers(q, "libre") /\ loc' = [loc EXCEPT ![q] = Repos]
Statut(S, s) ==
    credits' = [c \in DOMAIN credits |->
                  IF c \in S THEN [credits[c] EXCEPT !.statut = s] ELSE credits[c]]

\* Between reading that credit c is pending and writing what was decided.
Decide(q, c) ==
    \/ /\ loc[q].credit = c
       /\ pc[q] \in {"consentir", "activer", "refuser", "expirer"}
    \/ pc[q] = "expirerLot" /\ c \in loc[q].lot
MarquerCourse(S) ==
    courseDecision' = (courseDecision \/
                       \E p \in Requetes, c \in S : Decide(p, c))

\* Between reading an instalment of credit c with its credit and settling it.
Regle(q, c) == pc[q] = "regler" /\ rembs[loc[q].remb].credit = c

Commencer(q, etape, champs) ==
    /\ pc[q] = "libre"
    /\ Vers(q, etape)
    /\ loc' = [loc EXCEPT ![q] = champs]
    /\ UNCHANGED <<tableVars, vieux, courseVars>>

-----------------------------------------------------------------------------
(* demander                                                                *)

CreditsPrevus ==
    Len(credits) + Cardinality({q \in Requetes : pc[q] \in {"chercherActif", "creer"}})

Demander(q) ==
    /\ CreditsPrevus < MaxCredits
    /\ \E m \in Methodes : Commencer(q, "chercherActif", Requete(0, 0, m))
    /\ UNCHANGED kkiapayVars

ChercherActif(q) ==
    /\ pc[q] = "chercherActif"
    /\ IF EnStatut("ACTIF") # {} THEN Repondre(q)
       ELSE Vers(q, "creer") /\ UNCHANGED loc
    /\ UNCHANGED <<tableVars, vieux, kkiapayVars, courseVars>>

Creer(q) ==
    /\ pc[q] = "creer"
    /\ credits' = Append(credits, [statut |-> "EN_ATTENTE", methode |-> loc[q].choix,
                                   consenti |-> FALSE, restant |-> Total, jours |-> 0])
    /\ Repondre(q)
    /\ UNCHANGED <<rembs, vieux, kkiapayVars, courseVars>>

-----------------------------------------------------------------------------
(* The consent of the client: an SMS "1" or "2", or the PIN.               *)

SansReponse == {c \in EnStatut("EN_ATTENTE") : /\ credits[c].methode = "SMS"
                                               /\ ~credits[c].consenti}

ConsentementSms(q) ==
    /\ \E reponse \in {"1", "2"} : Commencer(q, "chercherSms", Requete(0, 0, reponse))
    /\ UNCHANGED kkiapayVars

\* Only the newest demand is answered; too late, and it expires.
ChercherSms(q) ==
    /\ pc[q] = "chercherSms"
    /\ \/ SansReponse = {} /\ Repondre(q) /\ UNCHANGED courseDecision
       \/ \E c \in SansReponse :
            /\ \A d \in SansReponse : d <= c
            /\ Vers(q, CASE c \in vieux -> "expirer"
                         [] c \notin vieux /\ loc[q].choix = "1" -> "consentir"
                         [] c \notin vieux /\ loc[q].choix = "2" -> "refuser")
            /\ loc' = [loc EXCEPT ![q] = Requete(c, 0, "")]
            /\ MarquerCourse({c})
    /\ UNCHANGED <<tableVars, vieux, kkiapayVars, courseRemb>>

ConfirmerPin(q) ==
    /\ \E c \in DOMAIN credits : Commencer(q, "lirePin", Requete(c, 0, ""))
    /\ UNCHANGED kkiapayVars

LirePin(q) ==
    LET c == loc[q].credit IN
    /\ pc[q] = "lirePin"
    /\ IF credits[c].statut = "EN_ATTENTE" /\ ~credits[c].consenti
       THEN Vers(q, "consentir") /\ MarquerCourse({c}) /\ UNCHANGED loc
       ELSE Repondre(q) /\ UNCHANGED courseDecision
    /\ UNCHANGED <<tableVars, vieux, kkiapayVars, courseRemb>>

Consentir(q) ==
    /\ pc[q] = "consentir"
    /\ credits' = [credits EXCEPT ![loc[q].credit].consenti = TRUE]
    /\ Repondre(q)
    /\ UNCHANGED <<rembs, vieux, kkiapayVars, courseVars>>

-----------------------------------------------------------------------------
(* The decision of an administrator.                                       *)

Valider(q) ==
    /\ \E c \in DOMAIN credits : Commencer(q, "lireValider", Requete(c, 0, ""))
    /\ UNCHANGED kkiapayVars

\* mutant: a consent is enough, whatever was decided since
PeutValiderSansStatut(c) == credits[c].consenti

PeutValider(c) == credits[c].consenti /\ credits[c].statut = "EN_ATTENTE"

\* The transfer is started in the same step as the check.
LireValider(q) ==
    LET c == loc[q].credit IN
    /\ pc[q] = "lireValider"
    /\ IF PeutValider(c)
       THEN /\ decaissements' = [decaissements EXCEPT ![c] = @ + 1]
            /\ Vers(q, "activer") /\ MarquerCourse({c}) /\ UNCHANGED loc
       ELSE Repondre(q) /\ UNCHANGED <<decaissements, courseDecision>>
    /\ UNCHANGED <<tableVars, vieux, issues, recus, doublons, pannes, courseRemb>>

Activer(q) ==
    /\ pc[q] = "activer"
    /\ Statut({loc[q].credit}, "ACTIF")
    /\ Repondre(q)
    /\ UNCHANGED <<rembs, vieux, kkiapayVars, courseVars>>

Refuser(q) ==
    /\ \E c \in DOMAIN credits : Commencer(q, "lireRefus", Requete(c, 0, ""))
    /\ UNCHANGED kkiapayVars

LireRefus(q) ==
    LET c == loc[q].credit IN
    /\ pc[q] = "lireRefus"
    /\ IF credits[c].statut = "EN_ATTENTE"
       THEN Vers(q, "refuser") /\ MarquerCourse({c}) /\ UNCHANGED loc
       ELSE Repondre(q) /\ UNCHANGED courseDecision
    /\ UNCHANGED <<tableVars, vieux, kkiapayVars, courseRemb>>

\* The refusal of the administrator or of the client's SMS.
EcrireRefus(q) ==
    /\ pc[q] = "refuser"
    /\ Statut({loc[q].credit}, "REFUSE")
    /\ Repondre(q)
    /\ UNCHANGED <<rembs, vieux, kkiapayVars, courseVars>>

EcrireExpiration(q) ==
    /\ pc[q] = "expirer"
    /\ Statut({loc[q].credit}, "EXPIRE")
    /\ Repondre(q)
    /\ UNCHANGED <<rembs, vieux, kkiapayVars, courseVars>>

-----------------------------------------------------------------------------
(* expirerCreditsConsentementExpires                                       *)

LancerExpiration(q) ==
    Commencer(q, "listerExpires", Repos) /\ UNCHANGED kkiapayVars

AExpirer == SansReponse \cap vieux

ListerExpires(q) ==
    /\ pc[q] = "listerExpires"
    /\ IF AExpirer = {} THEN Repondre(q) /\ UNCHANGED courseDecision
       ELSE /\ Vers(q, "expirerLot")
            /\ loc' = [loc EXCEPT ![q].lot = AExpirer]
            /\ MarquerCourse(AExpirer)
    /\ UNCHANGED <<tableVars, vieux, kkiapayVars, courseRemb>>

ExpirerLot(q) ==
    /\ pc[q] = "expirerLot"
    /\ Statut(loc[q].lot, "EXPIRE")
    /\ Repondre(q)
    /\ UNCHANGED <<rembs, vieux, kkiapayVars, courseVars>>

-----------------------------------------------------------------------------
(* preleverRemboursementsJournaliers                                       *)

LancerPrelevements(q) ==
    Commencer(q, "listerActifs", Repos) /\ UNCHANGED kkiapayVars

\* Bound: the lot never asks for more instalments than the model has rows.
PrelevementsPrevus ==
    Len(rembs) + Cardinality({e \in Requetes \X CreditIds :
                                 /\ pc[e[1]] \in {"prelever", "compterJob", "defautJob"}
                                 /\ e[2] \in loc[e[1]].lot})

ListerActifs(q) ==
    LET actifs == EnStatut("ACTIF") IN
    /\ pc[q] = "listerActifs"
    /\ IF actifs = {} \/ PrelevementsPrevus + Cardinality(actifs) > MaxPrelevements
       THEN Repondre(q)
       ELSE Vers(q, "prelever") /\ loc' = [loc EXCEPT ![q].lot = actifs]
    /\ UNCHANGED <<tableVars, vieux, kkiapayVars, courseVars>>

\* On to the next credit of the lot.
Suivant(q, lot) ==
    IF lot = {} THEN Repondre(q)
    ELSE /\ Vers(q, "prelever")
         /\ loc' = [loc EXCEPT ![q] = [Repos EXCEPT !.lot = lot]]

Prelever(q) ==
    /\ pc[q] = "prelever"
    /\ \E c \in loc[q].lot :
          /\ rembs' = Append(rembs, [credit |-> c, statut |-> "EN_ATTENTE"])
          /\ Suivant(q, loc[q].lot \ {c})
    /\ UNCHANGED <<credits, vieux, kkiapayVars, courseVars>>

\* The insert failed: gererEchecRemboursement records a failure instead.
PreleverEnErreur(q) ==
    /\ ErreursPossibles /\ pc[q] = "prelever"
    /\ \E c \in loc[q].lot :
          /\ rembs' = Append(rembs, [credit |-> c, statut |-> "ECHEC"])
          /\ Vers(q, "compterJob")
          /\ loc' = [loc EXCEPT ![q] = [Repos EXCEPT !.lot = loc[q].lot \ {c},
                                                     !.credit = c]]
    /\ UNCHANGED <<credits, vieux, kkiapayVars, courseVars>>

\* The newest failures of a credit that no other instalment interrupts.
EchecsConsecutifs(c) ==
    {r \in De(c, "ECHEC") :
        \A s \in DOMAIN rembs : s > r /\ rembs[s].credit = c => rembs[s].statut = "ECHEC"}

CompterJob(q) ==
    /\ pc[q] = "compterJob"
    /\ IF Cardinality(EchecsConsecutifs(loc[q].credit)) >= SeuilDefaut
       THEN Vers(q, "defautJob") /\ UNCHANGED loc
       ELSE Suivant(q, loc[q].lot)
    /\ UNCHANGED <<tableVars, vieux, kkiapayVars, courseVars>>

EcrireDefautJob(q) ==
    /\ pc[q] = "defautJob"
    /\ Statut({loc[q].credit}, "EN_DEFAUT")
    /\ Suivant(q, loc[q].lot)
    /\ UNCHANGED <<rembs, vieux, kkiapayVars, courseVars>>

-----------------------------------------------------------------------------
(* traiterWebhookRemboursement                                             *)

\* mutant: every webhook is settled
EstATraiterToujours(r) == TRUE

EstATraiter(r) == rembs[r].statut = "EN_ATTENTE"

\* The row is read with its credit, and what the credit becomes is computed
\* from that.
Recevoir(q) ==
    LET r == loc[q].remb  c == rembs[r].credit IN
    /\ pc[q] = "recevoir"
    /\ \/ /\ ~EstATraiter(r)
          /\ Vers(q, "accuser") /\ UNCHANGED <<loc, courseRemb>>
       \/ /\ EstATraiter(r) /\ issues[r] = "SUCCESS"
          /\ Vers(q, "regler")
          /\ loc' = [loc EXCEPT ![q].restant = PosMax(credits[c].restant - Journalier),
                                ![q].jours = credits[c].jours + 1]
          /\ courseRemb' = (courseRemb \/ \E p \in Requetes : Regle(p, c))
       \/ /\ EstATraiter(r) /\ issues[r] = "FAILED"
          /\ Vers(q, "echec") /\ UNCHANGED <<loc, courseRemb>>
    /\ UNCHANGED <<tableVars, vieux, kkiapayVars, courseDecision>>

StatutApresInconnu(restant) == IF restant <= 0 THEN "SOLDE" ELSE "ACTIF"

StatutApres(restant) == IF restant <= 0 THEN "TERMINE" ELSE "ACTIF"

\* One $transaction, with the values computed before.
Regler(q) ==
    LET l == loc[q]  c == rembs[l.remb].credit IN
    /\ pc[q] = "regler"
    /\ rembs' = [rembs EXCEPT ![l.remb].statut = "SUCCES"]
    /\ credits' = [credits EXCEPT ![c] =
         [statut |-> StatutApres(l.restant), methode |-> @.methode,
          consenti |-> @.consenti, restant |-> l.restant, jours |-> l.jours]]
    /\ Vers(q, "accuser")
    /\ loc' = [loc EXCEPT ![q] = Requete(0, l.remb, "")]
    /\ UNCHANGED <<vieux, kkiapayVars, courseVars>>

MarquerEchec(q) ==
    /\ pc[q] = "echec"
    /\ rembs' = [rembs EXCEPT ![loc[q].remb].statut = "ECHEC"]
    /\ Vers(q, "compter")
    /\ UNCHANGED <<loc, credits, vieux, kkiapayVars, courseVars>>

\* The failures of the credit, `take: 3`: consecutive or not.
CompterEchecs(q) ==
    /\ pc[q] = "compter"
    /\ Vers(q, IF Cardinality(De(rembs[loc[q].remb].credit, "ECHEC")) >= SeuilDefaut
               THEN "defaut" ELSE "accuser")
    /\ UNCHANGED <<loc, tableVars, vieux, kkiapayVars, courseVars>>

EcrireDefaut(q) ==
    /\ pc[q] = "defaut"
    /\ Statut({rembs[loc[q].remb].credit}, "EN_DEFAUT")
    /\ Vers(q, "accuser")
    /\ UNCHANGED <<loc, rembs, vieux, kkiapayVars, courseVars>>

Accuser(q) ==
    /\ pc[q] = "accuser"
    /\ recus' = recus \cup {loc[q].remb}
    /\ Repondre(q)
    /\ UNCHANGED <<tableVars, vieux, decaissements, issues, doublons, pannes, courseVars>>

-----------------------------------------------------------------------------
(* The environment: the payment provider, time and crashes.                *)

Payer(r, issue) ==
    /\ r \in DOMAIN rembs /\ rembs[r].statut = "EN_ATTENTE" /\ issues[r] = ""
    /\ issues' = [issues EXCEPT ![r] = issue]
    /\ UNCHANGED <<tableVars, vieux, procVars, decaissements, recus, doublons, pannes,
                   courseVars>>

EnVol(r) == \E q \in Requetes : loc[q].remb = r

\* A webhook that was not answered with 200 is sent again.
Livrer(q, r) ==
    /\ issues[r] # "" /\ r \notin recus /\ ~EnVol(r)
    /\ Commencer(q, "recevoir", Requete(0, r, ""))
    /\ UNCHANGED kkiapayVars

Doubler(q, r) ==
    /\ doublons < MaxDoublons /\ issues[r] # "" /\ (r \in recus \/ EnVol(r))
    /\ Commencer(q, "recevoir", Requete(0, r, ""))
    /\ doublons' = doublons + 1
    /\ UNCHANGED <<decaissements, issues, recus, pannes>>

Vieillir ==
    /\ \E c \in DOMAIN credits \ vieux : vieux' = vieux \cup 1..c
    /\ UNCHANGED <<tableVars, procVars, kkiapayVars, courseVars>>

Panne ==
    /\ pannes < MaxPannes /\ \E q \in Requetes : pc[q] # "libre"
    /\ pannes' = pannes + 1
    /\ pc' = [q \in Requetes |-> "libre"]
    /\ loc' = [q \in Requetes |-> Repos]
    /\ UNCHANGED <<tableVars, vieux, decaissements, issues, recus, doublons, courseVars>>

-----------------------------------------------------------------------------
Recevables(q) ==
    \/ Demander(q) \/ ConsentementSms(q) \/ ConfirmerPin(q) \/ Valider(q) \/ Refuser(q)
    \/ LancerExpiration(q) \/ LancerPrelevements(q)
    \/ \E r \in RembIds : Livrer(q, r) \/ Doubler(q, r)

Poursuivre(q) ==
    \/ ChercherActif(q) \/ Creer(q) \/ ChercherSms(q) \/ LirePin(q) \/ Consentir(q)
    \/ LireValider(q) \/ Activer(q) \/ LireRefus(q) \/ EcrireRefus(q)
    \/ EcrireExpiration(q) \/ ListerExpires(q) \/ ExpirerLot(q)
    \/ ListerActifs(q) \/ Prelever(q) \/ PreleverEnErreur(q) \/ CompterJob(q)
    \/ EcrireDefautJob(q)
    \/ Recevoir(q) \/ Regler(q) \/ MarquerEchec(q) \/ CompterEchecs(q)
    \/ EcrireDefaut(q) \/ Accuser(q)

Next ==
    \/ \E q \in Requetes : Recevables(q) \/ Poursuivre(q)
    \/ \E r \in RembIds, issue \in {"SUCCESS", "FAILED"} : Payer(r, issue)
    \/ Vieillir \/ Panne

Spec == Init /\ [][Next]_vars
-----------------------------------------------------------------------------
(* Properties.                                                             *)

\* Every column and local variable has its type.
TypeOK ==
    /\ credits \in Seq(MicroCredit) /\ Len(credits) <= MaxCredits
    /\ rembs \in Seq(Remboursement)
    /\ vieux \subseteq DOMAIN credits
    /\ pc \in [Requetes -> Etapes] /\ loc \in [Requetes -> Locales]
    /\ decaissements \in [CreditIds -> Nat]
    /\ issues \in [RembIds -> {"", "SUCCESS", "FAILED"}] /\ recus \subseteq RembIds
    /\ doublons \in Nat /\ pannes \in Nat
    /\ courseDecision \in BOOLEAN /\ courseRemb \in BOOLEAN

\* What is left to pay and the days paid follow from the instalments recorded
\* as SUCCES, whatever is repeated, late or cut by a crash: the absolute
\* writes lose an instalment only when two of one credit are settled together.
\* A credit with nothing left to pay is not debited as an active one again.
RestantJuste ==
    \A c \in DOMAIN credits :
        LET payes == Cardinality(De(c, "SUCCES")) IN
        \/ /\ credits[c].restant = PosMax(Total - payes * Journalier)
           /\ credits[c].jours = payes
           /\ credits[c].restant = 0 => credits[c].statut # "ACTIF" \/ courseDecision
        \/ courseRemb

\* The principal is sent only with the client's consent, once, and never for
\* a demand that ends refused or expired, unless two handlers decided on it
\* at the same time or a crash came between the transfer and the update.  A
\* demand the client agreed to does not expire, unless the two crossed.
DecaissementLegitime ==
    \A c \in DOMAIN credits :
        /\ decaissements[c] > 0 =>
              /\ credits[c].consenti
              /\ \/ decaissements[c] = 1 /\ credits[c].statut \notin {"REFUSE", "EXPIRE"}
                 \/ courseDecision \/ pannes > 0
        /\ credits[c].statut = "EXPIRE" /\ credits[c].consenti => courseDecision
=============================================================================
