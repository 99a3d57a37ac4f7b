-------------------------------- MODULE Score --------------------------------
(***************************************************************************)
(* The credit score of one client and what hangs on it: the row and its    *)
(* history, the PADME file generated from it and its way through the       *)
(* administration, the badges (cron.service.ts 200-522, score.service.ts,  *)
(* padme.service.ts, badges.service.ts).                                   *)
(*                                                                         *)
(* calculerEtMettreAJourScore is run by the nightly job, by the webhook of *)
(* a last instalment and by hand, so that two runs for one client may      *)
(* meet.  pc[q] is the next awaited call of a slot, loc[q] what it has     *)
(* read.  SMS and notifications never throw and are not steps, but the one *)
(* that announces the eligibility, which a crash may lose.                 *)
(*                                                                         *)
(* The columns of doubles are fractions of small integers here: the score  *)
(* is rounded once, from their exact sum.                                  *)
(***************************************************************************)
EXTENDS Integers, Sequences, FiniteSetsExt

CONSTANTS
    Requetes,                  \* slots that run one scoring or request each
    Profils,                   \* what the tables say of the client, in turn
    Bareme,                    \* profiles the formula is compared on
    MaxCalculs, MaxDossiers    \* bounds: scorings begun, files generated

SEUIL_SCORE_MICRO_CREDIT == 60
SEUIL_SCORE_PADME == 70

\* joursCotises of the last 30, months since the inscription, credits by
\* statut, and whether a tontine has reached its target
Profil == [jours : 0 .. 30, mois : Nat, termines : Nat, actifs : Nat, defauts : Nat,
           objectif : BOOLEAN]

ASSUME ScoreAssumption ==
    /\ Profils \subseteq Profil /\ Profils # {} /\ Bareme \subseteq Profil
    /\ MaxCalculs \in Nat /\ MaxDossiers \in Nat

VARIABLES
    profil,       \* the rows of the client in the other tables
    ligne,        \* the row of scoreCredit
    historique,   \* the scores of historiqueScore, oldest first
    dossiers,     \* rows of dossierPADME, oldest first
    badges,       \* levels of badgeClient, oldest first
    pc, loc       \* progress of the slots

VARIABLES         \* history and bounds: read by no handler
    enCours,      \* FALSE: only the formula is looked at
    calculs,
    aJour,        \* the tables are as the last scoring read them
    annonce,      \* the client was told that he is eligible
    courseScore, courseDossier

rowVars  == <<ligne, historique, dossiers, badges>>
histVars == <<enCours, calculs, aJour, annonce, courseScore, courseDossier>>
procVars == <<pc, loc>>
vars == <<profil, rowVars, histVars, procVars>>

StatutDossierPADME == {"GENERE", "VALIDE_ADMIN", "SOUMIS_PADME", "ACCEPTE", "REJETE"}
DossierPADME == [statut : StatutDossierPADME, recent : BOOLEAN, pdf : BOOLEAN,
                 score : 0 .. 100, commissions : Nat]
Niveaux == 1 .. 4      \* ordreBadge: BRONZE, ARGENT, OR, DIAMANT
Ligne   == [presente : BOOLEAN, score : 0 .. 100, mois : Nat, jours : 0 .. 30]
Vide    == [presente |-> FALSE, score |-> 0, mois |-> 0, jours |-> 0]
Repos   == [op |-> "aucune", lu |-> Vide, ancien |-> Vide, n |-> 0, statut |-> "AUCUN"]
-----------------------------------------------------------------------------
(* The formula.                                                            *)

PlusPetit(a, b) == IF a < b THEN a ELSE b
\* Math.round of num / den
Arrondi(num, den) == (2 * num + den) \div (2 * den)

Credits(p) == p.termines + p.actifs + p.defauts
PointsAnciennete(p) == PlusPetit(2 * p.mois, 20)
\* scoreRemboursement is a share of the credits, halved by a default
NumRemboursement(p) == IF Credits(p) = 0 THEN 2
                       ELSE (IF p.defauts > 0 THEN 1 ELSE 2) * p.termines
DenRemboursement(p) == 2 * Max({1, Credits(p)})
PointsObjectif(p) == IF p.objectif THEN 10 ELSE 0

\* mutant: the share of repaid credits counts the ones in default as well
ScoreDefautsComptes(p) ==
    LET d == DenRemboursement(p) IN
    Arrondi(40 * p.jours * d + 30 * d * (PointsAnciennete(p) + PointsObjectif(p))
              + 900 * (NumRemboursement(p) + 2 * p.defauts), 30 * d)

Score(p) ==
    LET d == DenRemboursement(p) IN
    Arrondi(40 * p.jours * d + 30 * d * (PointsAnciennete(p) + PointsObjectif(p))
              + 900 * NumRemboursement(p), 30 * d)

Eligible(s)      == s >= SEUIL_SCORE_MICRO_CREDIT
EligiblePADME(s) == s >= SEUIL_SCORE_PADME

\* The SMS of a new eligibility and the limit of a demand are two tables.
MontantAnnonce(s) == CASE s >= 90 -> 100000 [] s \in 80 .. 89 -> 50000
                       [] s \in 70 .. 79 -> 25000 [] OTHER -> 10000
getPlafondMicroCredit(s) == CASE s >= 90 -> 100000 [] s \in 80 .. 89 -> 50000
                       [] s \in 70 .. 79 -> 25000 [] s \in 60 .. 69 -> 10000 [] OTHER -> 0

\* monScore: the components as the client sees them, each rounded
PointsAffiches(p) ==
    Arrondi(40 * p.jours, 30) + PointsAnciennete(p)
      + Arrondi(30 * NumRemboursement(p), DenRemboursement(p)) + PointsObjectif(p)

ProchainSeuil(s) == CASE ~Eligible(s) -> SEUIL_SCORE_MICRO_CREDIT
                      [] Eligible(s) /\ ~EligiblePADME(s) -> SEUIL_SCORE_PADME
                      [] OTHER -> 90

\* projection: months until the threshold at the pace it assumes, -1 for never
MoisPour(s, mois, seuil) ==
    LET gain == IF mois < 10 THEN 3 ELSE 1
        atteints == {i \in 1 .. 24 : PlusPetit(s + i * gain, 100) >= seuil}
    IN  CASE s >= seuil -> 0 [] s < seuil /\ atteints # {} -> Min(atteints)
          [] OTHER -> -1

\* REGLES_BADGES, the highest first; regulariteMin in days of 30
MoisRequis  == <<1, 3, 6, 12>>
JoursRequis == <<15, 18, 21, 24>>
NiveauxOuverts(l) == {n \in Niveaux : l.mois >= MoisRequis[n] /\ l.jours >= JoursRequis[n]}
-----------------------------------------------------------------------------
Init ==
    /\ enCours \in BOOLEAN
    /\ profil \in IF enCours THEN Profils ELSE Bareme
    /\ ligne = Vide /\ historique = <<>> /\ dossiers = <<>> /\ badges = <<>>
    /\ pc = [q \in Requetes |-> "libre"] /\ loc = [q \in Requetes |-> Repos]
    /\ calculs = 0 /\ aJour = FALSE /\ annonce = FALSE
    /\ courseScore = FALSE /\ courseDossier = FALSE

Vers(q, etape) == pc' = [pc EXCEPT ![q] = etape]
Repondre(q)    == Vers(q, "libre") /\ loc' = [loc EXCEPT ![q] = Repos]
Calcule(p)     == loc[p].op = "calcul"
Decide(p)      == loc[p].op = "decision"

-----------------------------------------------------------------------------
(* calculerEtMettreAJourScore                                              *)

LireStatistiques(q) ==
    /\ enCours /\ pc[q] = "libre" /\ calculs < MaxCalculs
    /\ calculs' = calculs + 1
    /\ Vers(q, "lireAncien")
    /\ loc' = [loc EXCEPT ![q] = [Repos EXCEPT !.op = "calcul",
                 !.lu = [presente |-> TRUE, score |-> Score(profil), mois |-> profil.mois,
                         jours |-> profil.jours]]]
    /\ aJour' = TRUE
    /\ courseScore' = (courseScore \/ \E p \in Requetes : Calcule(p))
    /\ UNCHANGED <<profil, rowVars, enCours, annonce, courseDossier>>

LireAncien(q) ==
    /\ pc[q] = "lireAncien"
    /\ loc' = [loc EXCEPT ![q].ancien = ligne]
    /\ Vers(q, "ecrireScore")
    /\ UNCHANGED <<profil, rowVars, histVars>>

EcrireScore(q) ==
    /\ pc[q] = "ecrireScore"
    /\ ligne' = loc[q].lu
    /\ annonce' = (annonce /\ Eligible(ligne'.score))
    /\ Vers(q, "notifier")
    /\ UNCHANGED <<profil, historique, dossiers, badges, enCours, calculs, aJour,
                   courseScore, courseDossier, loc>>

DevientEligible(q) == Eligible(loc[q].lu.score) /\ ~Eligible(loc[q].ancien.score)

Notifier(q) ==
    /\ pc[q] = "notifier"
    /\ annonce' = (annonce \/ DevientEligible(q))
    /\ Vers(q, "historiser")
    /\ UNCHANGED <<profil, rowVars, enCours, calculs, aJour, courseScore,
                   courseDossier, loc>>

\* mutant: the snapshot is the score that was there before
HistoriserAncien(q) ==
    /\ pc[q] = "historiser"
    /\ historique' = Append(historique, loc[q].ancien.score)
    /\ Vers(q, IF EligiblePADME(loc[q].lu.score) THEN "chercherDossier" ELSE "lireBadge")
    /\ UNCHANGED <<profil, ligne, dossiers, badges, histVars, loc>>

Historiser(q) ==
    /\ pc[q] = "historiser"
    /\ historique' = Append(historique, loc[q].lu.score)
    /\ Vers(q, IF EligiblePADME(loc[q].lu.score) THEN "chercherDossier" ELSE "lireBadge")
    /\ UNCHANGED <<profil, ligne, dossiers, badges, histVars, loc>>

EnTraitement == {"GENERE", "VALIDE_ADMIN", "SOUMIS_PADME"}

\* mutant: a submitted file no longer keeps a second one away
DossierRecentNonSoumis(d) == dossiers[d].recent /\ dossiers[d].statut # "SOUMIS_PADME"

DossierRecent(d) == dossiers[d].recent /\ dossiers[d].statut \in EnTraitement

ChercherDossier(q) ==
    /\ pc[q] = "chercherDossier"
    /\ Vers(q, IF \E d \in DOMAIN dossiers : DossierRecent(d) THEN "lireBadge"
               ELSE "creerDossier")
    /\ UNCHANGED <<profil, rowVars, histVars, loc>>

\* mutant: a file is created with the statut of a document
CreerDossierEnAttente(q) ==
    /\ pc[q] = "creerDossier" /\ Len(dossiers) < MaxDossiers
    /\ dossiers' = Append(dossiers, [statut |-> "EN_ATTENTE", recent |-> TRUE, pdf |-> FALSE,
                                     score |-> loc[q].lu.score, commissions |-> 0])
    /\ loc' = [loc EXCEPT ![q].n = Len(dossiers')]
    /\ Vers(q, "sauverPdf")
    /\ UNCHANGED <<profil, ligne, historique, badges, histVars>>

CreerDossier(q) ==
    /\ pc[q] = "creerDossier" /\ Len(dossiers) < MaxDossiers
    /\ dossiers' = Append(dossiers, [statut |-> "GENERE", recent |-> TRUE, pdf |-> FALSE,
                                     score |-> loc[q].lu.score, commissions |-> 0])
    /\ loc' = [loc EXCEPT ![q].n = Len(dossiers')]
    /\ Vers(q, "sauverPdf")
    /\ UNCHANGED <<profil, ligne, historique, badges, histVars>>

\* Writing the file may fail: the exception ends the scoring.
SauverPdf(q) ==
    /\ pc[q] = "sauverPdf"
    /\ \/ /\ dossiers' = [dossiers EXCEPT ![loc[q].n].pdf = TRUE]
          /\ Vers(q, "lireBadge") /\ UNCHANGED loc
       \/ Repondre(q) /\ UNCHANGED dossiers
    /\ UNCHANGED <<profil, ligne, historique, badges, histVars>>

\* badgeExistant is the newest one
DejaAtteint(n) == badges # <<>> /\ badges[Len(badges)] >= n

\* attribuerBadgesSiEligible reads the row again
LireBadge(q) ==
    /\ pc[q] = "lireBadge"
    /\ LET ouverts == NiveauxOuverts(ligne) IN
       IF ouverts # {} /\ ~DejaAtteint(Max(ouverts))
       THEN Vers(q, "creerBadge") /\ loc' = [loc EXCEPT ![q].n = Max(ouverts)]
       ELSE Repondre(q)
    /\ UNCHANGED <<profil, rowVars, histVars>>

CreerBadge(q) ==
    /\ pc[q] = "creerBadge"
    /\ badges' = Append(badges, loc[q].n)
    /\ Repondre(q)
    /\ UNCHANGED <<profil, ligne, historique, dossiers, histVars>>

-----------------------------------------------------------------------------
(* padme.service.ts: one read, one update that does not look again.        *)

\* mutant: resultat may be called again on a file that has one
SuitesResultatRepete ==
    [GENERE |-> {"VALIDE_ADMIN"}, VALIDE_ADMIN |-> {"SOUMIS_PADME"},
     SOUMIS_PADME |-> {"ACCEPTE", "REJETE"}, ACCEPTE |-> {"ACCEPTE", "REJETE"}]

Suites == [GENERE |-> {"VALIDE_ADMIN"}, VALIDE_ADMIN |-> {"SOUMIS_PADME"},
           SOUMIS_PADME |-> {"ACCEPTE", "REJETE"}]

SuitesDe(statut) == IF statut \in DOMAIN Suites THEN Suites[statut] ELSE {}

LireDossier(q) ==
    /\ enCours /\ pc[q] = "libre"
    /\ \E d \in DOMAIN dossiers : \E s \in SuitesDe(dossiers[d].statut) :
          loc' = [loc EXCEPT ![q] = [Repos EXCEPT !.op = "decision", !.n = d,
                                                  !.statut = s]]
    /\ Vers(q, "ecrireDossier")
    /\ courseDossier' = (courseDossier \/ \E p \in Requetes : Decide(p))
    /\ UNCHANGED <<profil, rowVars, enCours, calculs, aJour, annonce, courseScore>>

\* montantAccorde is optional: without it there is no commission.
EcrireDossier(q) ==
    /\ pc[q] = "ecrireDossier"
    /\ dossiers' = [dossiers EXCEPT ![loc[q].n].statut = loc[q].statut]
    /\ \/ loc[q].statut = "ACCEPTE" /\ Vers(q, "commission") /\ UNCHANGED loc
       \/ Repondre(q)
    /\ UNCHANGED <<profil, ligne, historique, badges, histVars>>

\* The row needs a transaction of the client: without one the insert fails and
\* the failure is ignored.
CreerCommission(q) ==
    /\ pc[q] = "commission"
    /\ \/ dossiers' = [dossiers EXCEPT ![loc[q].n].commissions = @ + 1]
       \/ UNCHANGED dossiers
    /\ Repondre(q)
    /\ UNCHANGED <<profil, ligne, historique, badges, histVars>>

-----------------------------------------------------------------------------
(* The other tables, time and crashes.                                     *)

Evoluer ==
    /\ enCours
    /\ \E p \in Profils : p # profil /\ p.mois >= profil.mois /\ profil' = p
    /\ aJour' = FALSE
    /\ UNCHANGED <<rowVars, enCours, calculs, annonce, courseScore, courseDossier,
                   procVars>>

Vieillir ==
    /\ \E d \in DOMAIN dossiers :
          dossiers[d].recent /\ dossiers' = [dossiers EXCEPT ![d].recent = FALSE]
    /\ UNCHANGED <<profil, ligne, historique, badges, histVars, procVars>>

\* An eligibility that was written and not announced is never announced later.
Panne ==
    /\ \E q \in Requetes : pc[q] # "libre"
    /\ pc' = [q \in Requetes |-> "libre"] /\ loc' = [q \in Requetes |-> Repos]
    /\ aJour' = FALSE
    /\ annonce' = (annonce \/ \E q \in Requetes : pc[q] = "notifier")
    /\ UNCHANGED <<profil, rowVars, enCours, calculs, courseScore, courseDossier>>

-----------------------------------------------------------------------------
Poursuivre(q) ==
    \/ LireAncien(q) \/ EcrireScore(q) \/ Notifier(q) \/ Historiser(q)
    \/ ChercherDossier(q) \/ CreerDossier(q) \/ SauverPdf(q) \/ LireBadge(q)
    \/ CreerBadge(q) \/ EcrireDossier(q) \/ CreerCommission(q)

Next ==
    \/ \E q \in Requetes : LireStatistiques(q) \/ LireDossier(q) \/ Poursuivre(q)
    \/ Evoluer \/ Vieillir \/ Panne

Spec == Init /\ [][Next]_vars
-----------------------------------------------------------------------------
(* Properties.                                                             *)

\* Every row and local variable has its type.
TypeOK ==
    /\ profil \in Profil /\ ligne \in Ligne
    /\ historique \in Seq(0 .. 100) /\ dossiers \in Seq(DossierPADME)
    /\ badges \in Seq(Niveaux)
    /\ calculs \in 0 .. MaxCalculs
    /\ \A q \in Requetes : loc[q].lu \in Ligne /\ loc[q].ancien \in Ligne

\* The formula over every profile of the table: a day more or a target reached
\* never costs points, a credit that ends well never gives less than one that
\* fails, the components shown add up to the score but for one point, the amount
\* announced by SMS is the one a demand is granted, and the next threshold and
\* the months until it are in order.
Ordonne(p) ==
    LET s == Score(p) IN
    /\ s \in 0 .. 100
    /\ p.jours < 30 => s <= Score([p EXCEPT !.jours = @ + 1])
    /\ ~p.objectif => s <= Score([p EXCEPT !.objectif = TRUE])
    /\ p.actifs > 0 =>
         LET fini == [p EXCEPT !.actifs = @ - 1, !.termines = @ + 1]
             echu == [p EXCEPT !.actifs = @ - 1, !.defauts = @ + 1]
         IN  Score(echu) <= s /\ s <= Score(fini)
    /\ PointsAffiches(p) - s \in -1 .. 1
    /\ Eligible(s) <=> getPlafondMicroCredit(s) > 0
    /\ Eligible(s) => MontantAnnonce(s) = getPlafondMicroCredit(s)
    /\ s < 90 => ProchainSeuil(s) > s
    /\ LET m(seuil) == MoisPour(s, p.mois, seuil) IN
       m(90) # -1 => 0 <= m(60) /\ m(60) <= m(70) /\ m(70) <= m(90)

BaremeOrdonne == Ordonne(profil)

\* With no scoring under way the row, the last snapshot and the tables agree,
\* and an eligible client was told so, unless two scorings of the client met or
\* the tables changed since the last one.
ScoreAJour ==
    (\A q \in Requetes : ~Calcule(q)) /\ aJour /\ ~courseScore =>
       /\ ligne.score = Score(profil)
       /\ historique[Len(historique)] = ligne.score
       /\ Eligible(ligne.score) => annonce

\* A client has one recent file in the administration, and his badges rise,
\* unless two scorings of the client met: both look and then create.  A file
\* that two administrators put back into progress may join a newer one.
RienEnDouble ==
    courseScore \/
      /\ courseDossier \/ Cardinality({d \in DOMAIN dossiers : dossiers[d].recent
                                       /\ dossiers[d].statut \in EnTraitement}) <= 1
      /\ \A i, j \in DOMAIN badges : i < j => badges[i] < badges[j]

Rang == [GENERE |-> 0, VALIDE_ADMIN |-> 1, SOUMIS_PADME |-> 2, ACCEPTE |-> 3, REJETE |-> 3]

\* A file goes step by step to one result and pays one commission, unless two
\* administrators decided together: resultat, valider and soumettre write a
\* statut they decided on from an earlier read.
DossierAvance ==
    [][\A d \in DOMAIN dossiers :
         \/ courseDossier'
         \/ /\ Rang[dossiers'[d].statut] - Rang[dossiers[d].statut] \in 0 .. 1
            /\ Rang[dossiers[d].statut] = 3 => dossiers'[d].statut = dossiers[d].statut
            /\ dossiers'[d].commissions <= 1
      ]_vars
=============================================================================
