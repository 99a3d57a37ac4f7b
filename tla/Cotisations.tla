---------------------------- MODULE Cotisations ----------------------------
(***************************************************************************)
(* Contributions to a tontine (transactions.service.ts): cotiser creates a *)
(* pending transaction and starts a mobile money payment, the webhook of   *)
(* the payment provider confirms it or fails it.                           *)
(*                                                                         *)
(* As in Retraits a handler advances from one awaited call to the next and *)
(* the others interleave with it.  One client, one tontine and the         *)
(* client's collector are modelled.  Rows of transaction are numbered in   *)
(* the order of creeLe, so "older than" is "smaller than".                 *)
(*                                                                         *)
(* The provider is modelled from how the code uses it: a payment has at    *)
(* most one successful outcome, a webhook is sent until it is answered     *)
(* with 200 and may be sent more than once.  Reading the users and the     *)
(* tontine at the start of cotiser only refuses the request, and is left   *)
(* out; so are the notifications, whose failure changes no row.            *)
(***************************************************************************)
EXTENDS Integers, Sequences, FiniteSetsExt

CONSTANTS
    Requetes,        \* slots that serve one HTTP request at a time
    Montants,        \* amounts a client pays in
    Cles,            \* idempotency keys chosen by the client
    Nul,             \* a column that is null
    Sandboxes,       \* the values of KKIAPAY_SANDBOX to explore
    Caution,         \* cautionMontantFcfa of an INDEPENDANT collector, else 0
    SeuilEchecs,     \* SEUIL_ECHECS of the circuit breaker
    SoldeInitial,    \* soldeActuelFcfa when the model starts
    MaxTransactions, \* bound: rows of transaction
    MaxDoublons,     \* bound: webhooks sent again without need
    MaxPannes,       \* bound: crashes of the server
    MaxDebits,       \* bound: sum withdrawn meanwhile
    NouvelEssai      \* whether a failed payment may be tried again

ASSUME CotisationsAssumption ==
    /\ IsFiniteSet(Requetes) /\ Montants \subseteq Nat \ {0} /\ Sandboxes \subseteq BOOLEAN
    /\ Caution \in Nat /\ SeuilEchecs \in Nat \ {0} /\ SoldeInitial \in Nat
    /\ MaxTransactions \in Nat /\ MaxDoublons \in Nat /\ MaxPannes \in Nat
    /\ MaxDebits \in Nat /\ NouvelEssai \in BOOLEAN
    /\ Nul \notin Cles

VARIABLES
    sandbox,         \* KKIAPAY_SANDBOX of this deployment
    tx,              \* rows of transaction, oldest first
    solde,           \* tontine.soldeActuelFcfa
    suspendu,        \* utilisateur.statut is SUSPENDU
    alertes,         \* open SEUIL_CAUTION alerts of the collector
    disjonctions,    \* CIRCUIT_BREAKER alerts of the client
    debutMois,       \* rows 1..debutMois were created before this month
    anciennes,       \* rows 1..anciennes were created over 60 s ago
    pc, loc,         \* progress and local variables of the handlers
    issues,          \* row |-> outcomes of the payment at the provider
    recus,           \* row |-> outcomes whose webhook was answered with 200
    doublons, pannes \* webhooks sent without need, crashes, so far

VARIABLES            \* history: what happened, read by no action
    credite,         \* row |-> how often it was added to solde
    debits,          \* sum withdrawn from the tontine
    courseWebhook,   \* two handlers were settling one row
    courseChaine,    \* settlements overlapped, or an older row came later
    courseCaution,   \* a cotisation was checked while another was not settled
    courseAlerte     \* two handlers looked for an alert at the same time

tableVars   == <<sandbox, tx, solde, suspendu, alertes, disjonctions>>
tempsVars   == <<debutMois, anciennes>>
procVars    == <<pc, loc>>
kkiapayVars == <<issues, recus, doublons, pannes>>
courseVars  == <<courseWebhook, courseChaine, courseCaution, courseAlerte>>
histVars    == <<credite, debits, courseVars>>
vars == <<tableVars, tempsVars, procVars, kkiapayVars, histVars>>

TxIds  == 1..MaxTransactions
Etapes == {"libre", "idempotence", "caution", "chercherAlerte", "ouvrirAlerte",
           "derniere", "creer", "ref", "recevoir", "echec", "compter",
           "suspendre", "alerter", "chaine", "crediter", "accuser"}
GENESIS == -1      \* hashPrecedent of the first row, 0 stands for null

Transaction == [statut : {"EN_ATTENTE", "SUCCES", "ECHOUE"}, montant : Montants,
                cle : Cles \cup {Nul}, ref : BOOLEAN, precedent : Int, hash : Nat]
Locales == [op : {"aucune", "cotiser", "webhook"}, montant : Montants \cup {0},
            cle : Cles \cup {Nul}, tx : Nat, issue : {"aucune", "SUCCESS", "FAILED"},
            hash : Int]

Requete(op, m, k, t, i) ==
    [op |-> op, montant |-> m, cle |-> k, tx |-> t, issue |-> i, hash |-> 0]
Repos == Requete("aucune", 0, Nul, 0, "aucune")

Init ==
    /\ sandbox \in Sandboxes
    /\ tx = <<>> /\ solde = SoldeInitial
    /\ suspendu = FALSE /\ alertes = 0 /\ disjonctions = 0
    /\ debutMois = 0 /\ anciennes = 0
    /\ pc = [q \in Requetes |-> "libre"]
    /\ loc = [q \in Requetes |-> Repos]
    /\ issues = [t \in TxIds |-> {}] /\ recus = [t \in TxIds |-> {}]
    /\ doublons = 0 /\ pannes = 0
    /\ credite = [t \in TxIds |-> 0] /\ debits = 0
    /\ courseWebhook = FALSE /\ courseChaine = FALSE
    /\ courseCaution = FALSE /\ courseAlerte = FALSE

-----------------------------------------------------------------------------
Reussies == {t \in DOMAIN tx : tx[t].statut = "SUCCES"}
Somme(S) == SumFunctionOnSet([t \in DOMAIN tx |-> tx[t].montant], S)

Vers(q, etape) == pc' = [pc EXCEPT ![q] = etape]
Repondre(q)    == Vers(q, "libre") /\ loc' = [loc EXCEPT ![q] = Repos]

\* Between reading that row t is pending and settling it.
Regle(q, t) == loc[q].tx = t /\ pc[q] \in {"echec", "chaine", "crediter"}

\* Between checking the ceiling of the collector and creating the row.
Verifie(q) == pc[q] \in {"chercherAlerte", "ouvrirAlerte", "derniere", "creer"}

Commencer(q, etape, champs) ==
    /\ pc[q] = "libre"
    /\ Vers(q, etape)
    /\ loc' = [loc EXCEPT ![q] = champs]
    /\ UNCHANGED <<tableVars, tempsVars, histVars>>

-----------------------------------------------------------------------------
(* cotiser                                                                 *)

\* Rows that exist or that a request under way may still create.
LignesPrevues ==
    Len(tx) + Cardinality({q \in Requetes : loc[q].op = "cotiser" /\
                                            loc[q].tx = 0})

Cotiser(q) ==
    /\ LignesPrevues < MaxTransactions
    /\ \E m \in Montants, k \in Cles \cup {Nul} :
          Commencer(q, IF k = Nul THEN "caution" ELSE "idempotence",
                    Requete("cotiser", m, k, 0, "aucune"))
    /\ UNCHANGED kkiapayVars

ChercherCle(q) ==
    /\ pc[q] = "idempotence"
    /\ IF \E t \in DOMAIN tx : tx[t].cle = loc[q].cle
       THEN Repondre(q)
       ELSE Vers(q, "caution") /\ UNCHANGED loc
    /\ UNCHANGED <<tableVars, tempsVars, kkiapayVars, histVars>>

\* What the collector has collected this month, the new payment included.
Collecte(m) == m + Somme({t \in Reussies : t > debutMois})

\* mutant: the payment being asked for is not counted
PlafondAtteintSansMontant(m) == Caution > 0 /\ Collecte(m) - m >= Caution

PlafondAtteint(m) == Caution > 0 /\ Collecte(m) >= Caution
ProcheDuPlafond(m) == Caution > 0 /\ 100 * Collecte(m) >= 80 * Caution

VerifierCaution(q) ==
    LET m == loc[q].montant IN
    /\ pc[q] = "caution"
    /\ \/ /\ PlafondAtteint(m)
          /\ Repondre(q)
          /\ UNCHANGED courseCaution
       \/ /\ ~PlafondAtteint(m)
          /\ Vers(q, IF ProcheDuPlafond(m) THEN "chercherAlerte" ELSE "derniere")
          /\ courseCaution' = (courseCaution
                \/ \E p \in Requetes : Verifie(p)
                \/ \E t \in DOMAIN tx : t > debutMois /\ tx[t].statut = "EN_ATTENTE")
          /\ UNCHANGED loc
    /\ UNCHANGED <<tableVars, tempsVars, kkiapayVars, credite, debits,
                   courseWebhook, courseChaine, courseAlerte>>

ChercherAlerte(q) ==
    /\ pc[q] = "chercherAlerte"
    /\ Vers(q, IF alertes > 0 THEN "derniere" ELSE "ouvrirAlerte")
    /\ courseAlerte' = (courseAlerte \/
                        \E p \in Requetes : pc[p] = "ouvrirAlerte")
    /\ UNCHANGED <<loc, tableVars, tempsVars, kkiapayVars, credite, debits,
                   courseWebhook, courseChaine, courseCaution>>

OuvrirAlerte(q) ==
    /\ pc[q] = "ouvrirAlerte"
    /\ alertes' = alertes + 1
    /\ Vers(q, "derniere")
    /\ UNCHANGED <<loc, sandbox, tx, solde, suspendu, disjonctions, tempsVars,
                   kkiapayVars, histVars>>

\* lastTransaction, of any statut; `|| 'GENESIS'`
LireDerniere(q) ==
    LET n == Len(tx) IN
    /\ pc[q] = "derniere"
    /\ Vers(q, "creer")
    /\ loc' = [loc EXCEPT ![q].hash =
                 IF n = 0 THEN GENESIS
                 ELSE IF tx[n].hash = 0 THEN GENESIS ELSE tx[n].hash]
    /\ UNCHANGED <<tableVars, tempsVars, kkiapayVars, histVars>>

CleLibre(k) == k # Nul => \A t \in DOMAIN tx : tx[t].cle # k

Creer(q) ==
    LET l == loc[q] IN
    /\ pc[q] = "creer"
    /\ IF ~CleLibre(l.cle) THEN Repondre(q) /\ UNCHANGED tx
       ELSE /\ tx' = Append(tx, [statut |-> "EN_ATTENTE", montant |-> l.montant,
                                 cle |-> l.cle, ref |-> FALSE,
                                 precedent |-> l.hash, hash |-> 0])
            /\ Vers(q, "ref")
            /\ loc' = [loc EXCEPT ![q] =
                         Requete("cotiser", l.montant, l.cle, Len(tx) + 1, "aucune")]
    /\ UNCHANGED <<sandbox, solde, suspendu, alertes, disjonctions, tempsVars,
                   kkiapayVars, histVars>>

\* The reference is stored; the sandbox then settles the row at once, any
\* other deployment sends the client to the payment page.
StockerRef(q) ==
    /\ pc[q] = "ref"
    /\ tx' = [tx EXCEPT ![loc[q].tx].ref = TRUE]
    /\ IF sandbox THEN Vers(q, "chaine") /\ UNCHANGED loc ELSE Repondre(q)
    /\ UNCHANGED <<sandbox, solde, suspendu, alertes, disjonctions, tempsVars,
                   kkiapayVars, histVars>>

-----------------------------------------------------------------------------
(* traiterWebhook                                                          *)

\* mutant: every webhook is processed, whatever became of the row
TraiterSansStatut(t) == TRUE

EstATraiter(t) == tx[t].statut = "EN_ATTENTE"

Suite(issue) == IF issue = "SUCCESS" THEN "chaine" ELSE "echec"

Recevoir(q) ==
    LET t == loc[q].tx IN
    /\ pc[q] = "recevoir"
    /\ IF EstATraiter(t)
       THEN /\ Vers(q, Suite(loc[q].issue))
            /\ courseWebhook' = (courseWebhook \/ \E p \in Requetes : Regle(p, t))
       ELSE Vers(q, "accuser") /\ UNCHANGED courseWebhook
    /\ UNCHANGED <<loc, tableVars, tempsVars, kkiapayVars, credite, debits,
                   courseChaine, courseCaution, courseAlerte>>

\* mutant: the wrong value of StatutTransaction
MarquerRembourse(q) ==
    /\ pc[q] = "echec"
    /\ tx' = [tx EXCEPT ![loc[q].tx].statut = "REMBOURSE"]
    /\ Vers(q, "compter")
    /\ UNCHANGED <<loc, sandbox, solde, suspendu, alertes, disjonctions, tempsVars,
                   kkiapayVars, histVars>>

MarquerEchec(q) ==
    /\ pc[q] = "echec"
    /\ tx' = [tx EXCEPT ![loc[q].tx].statut = "ECHOUE"]
    /\ Vers(q, "compter")
    /\ UNCHANGED <<loc, sandbox, solde, suspendu, alertes, disjonctions, tempsVars,
                   kkiapayVars, histVars>>

\* rows created within the last minute and failed
EchecsRecents == {t \in DOMAIN tx : t > anciennes /\ tx[t].statut = "ECHOUE"}

\* mutant: the failure just recorded does not count itself
TropDEchecsSansDernier == Cardinality(EchecsRecents) > SeuilEchecs

TropDEchecs == Cardinality(EchecsRecents) >= SeuilEchecs

CompterEchecs(q) ==
    /\ pc[q] = "compter"
    /\ Vers(q, IF TropDEchecs THEN "suspendre" ELSE "accuser")
    /\ UNCHANGED <<loc, tableVars, tempsVars, kkiapayVars, histVars>>

Suspendre(q) ==
    /\ pc[q] = "suspendre"
    /\ suspendu' = TRUE
    /\ Vers(q, "alerter")
    /\ UNCHANGED <<loc, sandbox, tx, solde, alertes, disjonctions, tempsVars,
                   kkiapayVars, histVars>>

Alerter(q) ==
    /\ pc[q] = "alerter"
    /\ disjonctions' = disjonctions + 1
    /\ Vers(q, "accuser")
    /\ UNCHANGED <<loc, sandbox, tx, solde, suspendu, alertes, tempsVars,
                   kkiapayVars, histVars>>

-----------------------------------------------------------------------------
(* traiterSucces: the chain of hashes, then the transaction that settles.  *)

\* The newest settled row, 0 when there is none.
DerniereReussie ==
    IF Reussies = {} THEN 0 ELSE Max(Reussies)

LireChaine(q) ==
    /\ pc[q] = "chaine"
    /\ loc' = [loc EXCEPT ![q].hash =
                 IF DerniereReussie = 0 THEN 0 ELSE tx[DerniereReussie].hash]
    /\ Vers(q, "crediter")
    /\ courseChaine' = (courseChaine
          \/ \E p \in Requetes : pc[p] = "crediter"
          \/ DerniereReussie > loc[q].tx)
    /\ UNCHANGED <<tableVars, tempsVars, kkiapayVars, credite, debits,
                   courseWebhook, courseCaution, courseAlerte>>

\* The hash covers the row and the time: every settlement makes a new one.
NouveauHash == 1 + SumFunction(credite)

\* mutant: the two updates without $transaction
CrediterEnDeuxTemps(q) ==
    LET t == loc[q].tx IN
    /\ pc[q] = "crediter"
    /\ IF tx[t].statut # "SUCCES"
       THEN /\ tx' = [tx EXCEPT ![t].statut = "SUCCES",
                                ![t].precedent = loc[q].hash,
                                ![t].hash = NouveauHash]
            /\ UNCHANGED <<solde, credite, pc>>
       ELSE /\ solde' = solde + tx[t].montant
            /\ credite' = [credite EXCEPT ![t] = @ + 1]
            /\ Vers(q, IF loc[q].op = "webhook" THEN "accuser" ELSE "libre")
            /\ UNCHANGED tx
    /\ UNCHANGED <<loc, sandbox, suspendu, alertes, disjonctions, tempsVars,
                   kkiapayVars, debits, courseVars>>

\* mutant: the chain is only set when the row is created
CrediterSansPrecedent(q) ==
    LET t == loc[q].tx IN
    /\ pc[q] = "crediter"
    /\ tx' = [tx EXCEPT ![t].statut = "SUCCES", ![t].hash = NouveauHash]
    /\ solde' = solde + tx[t].montant
    /\ credite' = [credite EXCEPT ![t] = @ + 1]
    /\ IF loc[q].op = "webhook" THEN Vers(q, "accuser") /\ UNCHANGED loc
       ELSE Repondre(q)
    /\ UNCHANGED <<sandbox, suspendu, alertes, disjonctions, tempsVars, kkiapayVars,
                   debits, courseVars>>

\* One $transaction: neither update looks at the statut of the row again.
Crediter(q) ==
    LET t == loc[q].tx IN
    /\ pc[q] = "crediter"
    /\ tx' = [tx EXCEPT ![t].statut = "SUCCES", ![t].precedent = loc[q].hash,
                        ![t].hash = NouveauHash]
    /\ solde' = solde + tx[t].montant
    /\ credite' = [credite EXCEPT ![t] = @ + 1]
    /\ IF loc[q].op = "webhook" THEN Vers(q, "accuser") /\ UNCHANGED loc
       ELSE Repondre(q)
    /\ UNCHANGED <<sandbox, suspendu, alertes, disjonctions, tempsVars, kkiapayVars,
                   debits, courseVars>>

\* 200 OK
Accuser(q) ==
    /\ pc[q] = "accuser"
    /\ recus' = [recus EXCEPT ![loc[q].tx] = @ \cup {loc[q].issue}]
    /\ Repondre(q)
    /\ UNCHANGED <<tableVars, tempsVars, issues, doublons, pannes, histVars>>

-----------------------------------------------------------------------------
(* The environment: the payment provider, time, withdrawals, crashes.      *)

\* The client pays, or the payment fails; the sandbox never gets that far.
Payer(t, issue) ==
    /\ ~sandbox /\ t \in DOMAIN tx /\ tx[t].ref
    /\ issues[t] = {} \/ (NouvelEssai /\ issues[t] = {"FAILED"} /\ issue = "SUCCESS")
    /\ issues' = [issues EXCEPT ![t] = @ \cup {issue}]
    /\ UNCHANGED <<tableVars, tempsVars, procVars, recus, doublons, pannes, histVars>>

EnVol(t, issue) ==
    \E q \in Requetes : /\ loc[q].op = "webhook" /\ loc[q].tx = t
                        /\ loc[q].issue = issue

\* A webhook that was not answered with 200 is sent again.
Livrer(q, t) ==
    \E issue \in issues[t] \ recus[t] :
        /\ ~EnVol(t, issue)
        /\ Commencer(q, "recevoir", Requete("webhook", 0, Nul, t, issue))
        /\ UNCHANGED kkiapayVars

Doubler(q, t) ==
    /\ doublons < MaxDoublons
    /\ \E issue \in issues[t] :
          /\ issue \in recus[t] \/ EnVol(t, issue)
          /\ Commencer(q, "recevoir", Requete("webhook", 0, Nul, t, issue))
    /\ doublons' = doublons + 1
    /\ UNCHANGED <<issues, recus, pannes>>

\* A withdrawal is executed (Retraits).
Debiter ==
    \E m \in Montants :
        /\ debits + m <= MaxDebits
        /\ solde' = solde - m /\ debits' = debits + m
        /\ UNCHANGED <<sandbox, tx, suspendu, alertes, disjonctions, tempsVars,
                       procVars, kkiapayVars, credite, courseVars>>

\* Only matters to a collector with a ceiling.
NouveauMois ==
    /\ Caution > 0 /\ debutMois < Len(tx) /\ debutMois' = Len(tx)
    /\ UNCHANGED <<tableVars, anciennes, procVars, kkiapayVars, histVars>>

Vieillir ==
    /\ \E n \in (anciennes + 1)..Len(tx) : anciennes' = n
    /\ UNCHANGED <<tableVars, debutMois, procVars, kkiapayVars, histVars>>

Panne ==
    /\ pannes < MaxPannes /\ \E q \in Requetes : pc[q] # "libre"
    /\ pannes' = pannes + 1
    /\ pc' = [q \in Requetes |-> "libre"]
    /\ loc' = [q \in Requetes |-> Repos]
    /\ UNCHANGED <<tableVars, tempsVars, issues, recus, doublons, histVars>>

-----------------------------------------------------------------------------
Poursuivre(q) ==
    \/ ChercherCle(q) \/ VerifierCaution(q) \/ ChercherAlerte(q)
    \/ OuvrirAlerte(q) \/ LireDerniere(q) \/ Creer(q) \/ StockerRef(q)
    \/ Recevoir(q) \/ MarquerEchec(q) \/ CompterEchecs(q) \/ Suspendre(q)
    \/ Alerter(q) \/ LireChaine(q) \/ Crediter(q) \/ Accuser(q)

Next ==
    \/ \E q \in Requetes :
          \/ Cotiser(q) \/ Poursuivre(q)
          \/ \E t \in TxIds : Livrer(q, t) \/ Doubler(q, t)
    \/ \E t \in TxIds, issue \in {"SUCCESS", "FAILED"} : Payer(t, issue)
    \/ Debiter \/ NouveauMois \/ Vieillir \/ Panne

Spec == Init /\ [][Next]_vars

\* The event loop resumes every handler, and the provider keeps sending a
\* webhook that was not answered with 200.
FairSpec ==
    /\ Spec
    /\ \A q \in Requetes : WF_vars(Poursuivre(q))
    /\ \A t \in TxIds : WF_vars(\E q \in Requetes : Livrer(q, t))
-----------------------------------------------------------------------------
(* Properties.                                                             *)

\* Every column and local variable has its type.
TypeOK ==
    /\ sandbox \in BOOLEAN /\ suspendu \in BOOLEAN
    /\ courseWebhook \in BOOLEAN /\ courseChaine \in BOOLEAN
    /\ courseCaution \in BOOLEAN /\ courseAlerte \in BOOLEAN
    /\ tx \in Seq(Transaction) /\ Len(tx) <= MaxTransactions
    /\ solde \in Int /\ alertes \in Nat /\ disjonctions \in Nat /\ debits \in Nat
    /\ debutMois \in Nat /\ anciennes \in Nat /\ doublons \in Nat /\ pannes \in Nat
    /\ issues \in [TxIds -> SUBSET {"SUCCESS", "FAILED"}]
    /\ recus \in [TxIds -> SUBSET {"SUCCESS", "FAILED"}]
    /\ credite \in [TxIds -> Nat]
    /\ pc \in [Requetes -> Etapes] /\ loc \in [Requetes -> Locales]

\* What verifierCoherenceComptable recomputes every night: as long as no two
\* handlers settled the same row at the same time the balance is the sum of
\* the successful rows minus the withdrawals, whatever crashed in between; and
\* every row on it was paid at the provider, one row at most for each key.
SoldeCoherent ==
    /\ solde = SoldeInitial - debits + Somme(Reussies) \/ courseWebhook
    /\ \A t \in TxIds : credite[t] > 0 => sandbox \/ "SUCCESS" \in issues[t]
    /\ \A s, t \in DOMAIN tx :
          s # t /\ tx[s].cle # Nul /\ tx[s].cle = tx[t].cle
            => credite[s] = 0 \/ credite[t] = 0

\* Two rows of one client that the nightly check finds next to each other.
Voisines(s, t) ==
    /\ s \in Reussies /\ t \in Reussies /\ s < t
    /\ \A u \in Reussies : ~(s < u /\ u < t)

Rupture ==
    \E s, t \in DOMAIN tx : /\ Voisines(s, t)
                            /\ tx[t].precedent # 0
                            /\ tx[t].precedent # tx[s].hash

\* The nightly check of the hash chain finds no break unless settlements
\* overlapped or a payment was confirmed after a younger one.
ChaineIntacte == Rupture => courseChaine \/ courseWebhook

\* The ceiling of an independent collector is respected unless a payment was
\* let through while another one of the month was not settled yet; and he has
\* one open alert about it unless two requests looked for it together.
PlafondRespecte ==
    /\ Caution > 0 => \/ Somme({t \in Reussies : t > debutMois}) < Caution
                      \/ courseCaution \/ courseWebhook
    /\ alertes <= 1 \/ courseAlerte

\* When the failures have been handled without a crash and there are enough
\* recent ones the account is suspended, also when they came all at once.
DisjoncteurDeclenche ==
    /\ pannes = 0
    /\ \A q \in Requetes : pc[q] \notin {"compter", "suspendre"}
    /\ Cardinality(EchecsRecents) >= SeuilEchecs
    => suspendu

\* A payment whose only outcome is a success ends up on the balance, even
\* when the server crashes on the way.
PayeFinitCredite ==
    \A t \in TxIds : issues[t] = {"SUCCESS"} ~> credite[t] > 0

\* The comment of traiterWebhook, "Déjà traitée → idempotence": no payment is
\* credited twice.
CreditIdempotent == \A t \in TxIds : credite[t] <= 1
=============================================================================
