# TontinePro backend: TLA+ models, checks and proofs

TontinePro is a NestJS and Prisma service for rotating savings ("tontines"):
clients pay small amounts through a mobile money provider (KKiaPay), withdraw
them, take micro-credits and share group tontines; collectors, supervisors and
administrators work on the same database. The code under `src/src/modules` is a
set of request handlers and scheduled jobs over one PostgreSQL database.

The one fact that shapes every model: **a handler is a sequence of awaited
database calls, and any other handler may run at each await**. Almost no update
repeats the condition under which it was decided, so the code is full of
check-then-act windows. Only `prisma.$transaction([...])` and single statements
are atomic. The models therefore keep one program counter and one record of
local variables per request, and a step per awaited call.

## Inventory

| component | state | operations | what is hard | module |
|---|---|---|---|---|
| Withdrawals (`retraits`) | balance, withdrawal codes, rows of `retrait`, transfers sent | demanderOtp, confirmer, valider, rejeter, executer | balance read before the debit, code used twice, key repeated, two administrators, crash after the transfer | `Retraits`, `Livre`, `RetraitsLivre` |
| Contributions (`transactions`) | rows of `transaction`, balance, hash chain, ceiling of the collector, circuit breaker | cotiser, traiterWebhook, traiterSucces | webhooks repeated, late, out of order; crash while one is handled | `Cotisations` |
| Micro-credits (`micro-credits`, `cron`, `transactions`) | rows of `microCredit`, instalments | demander, consentementSms, confirmerPin, valider, refuser, expiry, daily debit, instalment webhook | absolute writes from stale rows, expiry racing consent | `MicroCredits` |
| Group tontines (`tontines`, `cron`) | members, order of the draw, current turn, defaults | rejoindre, quitter, definirOrdreTirage, distribuer, detecterDefaillancesGroupe | one turn distributed twice, members leaving the order | `GroupeTontine` |
| Dates of a tontine (`tontines`, `cron`) | statut, end, unlocking date, frequency | activerTontine, modifier, dissoudreProjetsEchus | two modifications checked apart, a list made before | `Echeances` |
| Authentication (`auth`, `utilisateurs`) | codes and attempts, PIN and lock, sessions, devices, statut | inscription, verifierOtp, creerPin, connexion, reset, changerPin, rafraichirToken, deconnexion, fingerprint | lost attempt counts, reset against login, three calls for one device | `Authentification` |
| Score, badges, PADME files (`cron`, `score`, `badges`, `padme`) | row of `scoreCredit`, its history, badges, files | calculerEtMettreAJourScore, valider, soumettre, resultat | two scorings of one client, crash before the announcement, rounding and thresholds in five places | `Score` |
| KYC documents (`kyc`) | documents, kycVerifie | uploadEtSoumettre, soumettre, valider, rejeter | two administrators decide together | `Kyc` |
| Disputes (`litiges`) | disputes, comments | ouvrirLitige, examiner, resoudre, rejeter, ajouterCommentaire | a closed dispute reopened from a stale read | `Litiges` |
| End of tontines and accounts (`utilisateurs`, `tontines`) | account, tontine, pending payments, credit | supprimerTontine, supprimerMonCompte, supprimerUtilisateur | money that arrives between check and delete | `Comptes` |
| Accounting check and alerts (`cron`, `alertes`) | alerts, snapshot of balances | verifierCoherenceComptable, resoudre, rouvrir | sums read after the balances; false alerts block withdrawals | `Surveillance` |
| Collectors (`utilisateurs`, `qrcode`, `collecteur-terrain`, `commissions`) | links, QR codes, visits, commission balance | reassignerClient, assignerSuperviseur, lierCollecteur, checkIn, clientsDuJour, retirer | links older than the role they were checked on, two withdrawals of one balance | `Portefeuilles` |
| Subscriptions (`facturation`, `cron`) | row of `facturationAgent` | monStatut, payer, upgrader, the monthly job | crash in the loop, job started twice | `Abonnements` |
| Dates of screens and reports | none | six- and twelve-month series, next contribution, pay date, periods | `setMonth` on the 29th to the 31st, bounds that keep the hour of now | `Calendrier` |
| Assisted operations (`operations-assistees`) | transaction, operation with a code | initierCotisationAssistee | its row cannot be inserted, see below | in `Comptes` |
| Fees and constants | none | calculerFraisRetrait, ... | rounding of doubles | parameters |
| Notifications, reports, analytics, PDF, zones, support, audit, settings | single rows, I/O | | little control worth a model | |

Components interact through the database only: a contribution raises the
balance a withdrawal debits, the accounting check opens the alert that blocks
withdrawals, an executed withdrawal raises the commission of the collector, an
instalment webhook arrives at the same endpoint as a contribution webhook. The
provider is outside: it receives transfers, and it sends webhooks until it gets
a 200.

## Modules

### Retraits

`Retraits.tla` models `retraits.service.ts` for one tontine and its owner.
`Requetes` are slots that each serve one HTTP request; `pc[q]` is the awaited
call the handler is about to make, `loc[q]` what it read so far. `retraits`,
`otps`, `solde`, `commission` are database columns; `envois` counts the
transfers the provider received. The type of a code contains the tontine and
the amount, so one tontine suffices to study codes.

| action | code |
|---|---|
| DemanderOtp, LireTontine, Verifier, InvaliderOtps, CreerOtp | demanderOtp, verifierRetraitPossible, creerOtpRetrait |
| Confirmer, ChercherCle, ChercherOtp, ConsommerOtp | confirmer |
| LireTontine, Verifier, CreerRetrait | demander |
| Transferer, Enregistrer | executer (provider call, then `$transaction`) |
| Valider, LireRetrait, LireSolde, MarquerValide | valider |
| Rejeter, LireRetrait, MarquerRejete | rejeter |
| Crediter, ChangerAlerte, PasserDate, ExpirerOtp, Panne | payments, the accounting alert, time, a crash |

`Livre.tla` is what a withdrawal promises, without handlers: it is accepted,
decided by an administrator when it is large, paid once and booked once, after
it was paid; the booking debits the tontine and pays the collector in one step.
`RetraitsLivre` maps `Retraits` to it (`statut` and `montant` from the rows,
`payes` from the transfers, `comptes` from the bookings) and states the
refinement `LivreTenu == Registre!Spec`. The ledger has one way out,
`Contester`: after two administrators decided on one row together it promises
nothing more, because the code does not keep it.

The variables `enregistres`, `credits`, `course...` are history: no action
reads them. A `course` flag records that two handlers were in one window
together; the invariants say that what goes wrong goes wrong *only* then, which
separates the races the code really has from every other way to reach the same
bad state (crashes, retries, stale validations, expired codes).

### Cotisations

`Cotisations.tla` models `cotiser`, `traiterWebhook` and `traiterSucces` for one
client, the client's tontine and collector. Rows are numbered in the order of
`creeLe`. The provider is `issues` (what became of a payment) and `recus`
(which webhook was answered with 200): `Livrer` sends a webhook until it is
answered, `Doubler` sends it again for no reason. `Sandboxes` chooses between
the deployment where `cotiser` settles the row itself and the one where the
provider does. The hash of a row is a fresh number, because the code hashes the
time and the row into it. `debutMois` and `anciennes` abstract the calendar:
which rows are older than this month, and older than the 60 seconds of the
circuit breaker.

Left out: the reads of users and tontine that only refuse a request, the
notifications after a settlement (a failing one changes no row) and the HMAC of
the webhook; the webhook of an instalment is in `MicroCredits`.

### MicroCredits

`MicroCredits.tla` models `micro-credits.service.ts`, the two jobs of
`cron.service.ts` that work on credits and the instalment half of
`transactions.service.ts`, for the credits of one client. A slot serves a
request, a job or a webhook. `kkiapay`'s functions are called without `await`
and do nothing but answer, so a disbursement belongs to the step before it.

| action | code |
|---|---|
| Demander, ChercherActif, Creer | demander |
| ConsentementSms, ChercherSms | traiterConsentementSms |
| ConfirmerPin, LirePin, EcrireExpiration | confirmerConsentementPin |
| Consentir, EcrireRefus | the updates that end a consent or a refusal |
| Valider, LireValider, Activer | valider (status checked, transfer sent, row updated) |
| Refuser, LireRefus | refuser |
| LancerExpiration, ListerExpires, ExpirerLot | expirerCreditsConsentementExpires |
| LancerPrelevements, ListerActifs, Prelever | preleverRemboursementsJournaliers |
| PreleverEnErreur, CompterJob, EcrireDefautJob | gererEchecRemboursement |
| Recevoir, Regler, MarquerEchec, CompterEchecs, EcrireDefaut, Accuser | traiterWebhookRemboursement, confirmerRemboursementSucces, confirmerRemboursementEchec |
| Payer, Livrer, Doubler, Vieillir, Panne | the provider, time, a crash |

A webhook keeps the values it computed from the row it read (`loc[q].restant`,
`loc[q].jours`) and writes them later, as the code does; `courseRemb` records
that two webhooks of one credit were in that window together and
`courseDecision` that two handlers were deciding on one credit.

Left out: the score and the PIN (they only refuse), notifications, and the
branch of the daily job for credits in default, which cannot run because the job
lists active credits only.

### GroupeTontine

`GroupeTontine.tla` models one group: `tontines.service.ts` from the first
member to the end, and `detecterDefaillancesGroupe` of `cron.service.ts`. The
owner is not a member, as in the code. A request begins with its first read; one
that this read refuses changes nothing and is not modelled. `ordre` holds the
rows of `ordreTirage` in the order they were created and `tirages` how often
they were all written anew, so that a handler that kept the id of a deleted row
fails as its database transaction does.

| action | code |
|---|---|
| Rejoindre, VerifierAdhesion, Inscrire, ChercherPlace, CreerPlace | rejoindre, rejoindreParCode |
| Quitter, Partir | quitter |
| Ordonner, ListerActifs, EcrireOrdre | definirOrdreTirage, randomiserOrdreTirage |
| ActiverTontine, CompterActifs, RelireOrdre, CompterPlaces, EcrireStatut | activerTontine, with the draw it calls |
| TerminerTontine, CompterNonServis, Suspendre, Reactiver, EcrireStatut | terminerTontine, suspendre, reactiver |
| Distribuer, CompterParts, Choisir, CompterRestants, Enregistrer | distribuer (provider call, then `$transaction`) |
| Detecter, Examiner, Defaillir | detecterDefaillancesGroupe |
| Payer, Retirer, Panne | contributions, a withdrawal of the owner, a crash |

Which members the job finds to have paid is left open, since a payment of any
amount counts. An open alert or the policy of the tontine may refuse a
distribution (`CompterParts`); who pays, and in which statut, is not restricted,
as in `cotiser`.

The history flags name the windows of this code: money that moves while a
distribution holds a balance it will reset to 0 (`courseSolde`), two
distributions, a row of a member or the order changed under another handler, two
changes of the statut. Two of the flags are not races: `coupure`, a crash after
the transfer or before a new member has a place, and `defautCreation`, a default
the job records before the group was activated: such a member is not in an order
written meanwhile, and `activer` compares only the number of places with the
number of active members, so that the group can start with an active member who
has no place.

Left out: modifier and supprimer, fees, tourActuel (nothing reads it),
notifications.

### Authentification

`Authentification.tla` models one account. A PIN is the number of the time it
was set, a session knows which reset its check had seen (`epoque`), a code how
many wrong tries it took. `Usages` says which requests come in a behaviour, so
that each run of handlers is explored with the ones that share its rows.

| action | code |
|---|---|
| Inscription, RepriseInscription, DemanderResetPin, InvaliderOtps, CreerOtp | inscription, renvoyerOtpInscription, demanderResetPin |
| VerifierOtp, EcrireOtp | verifierOtp, verifierOtpResetPin |
| CreerPin, PoserPin, OuvrirSession, GenererTokens | creerPin |
| Connexion, EcrireConnexion, OuvrirSession, GenererTokens | connexion |
| DemanderNouveauPin, Reinitialiser | reinitialiserPin (one `$transaction`) |
| ChangerPin, EcrirePin, ConfigurerEmpreinte | utilisateurs: changerPin, configurerEmpreinte |
| Rafraichir, Deconnecter | rafraichirToken; deconnexion, deconnexionTout, revoquerSession |
| EnregistrerAppareil, InscrireAppareil, RevoquerAppareil, DesactiverAppareil, CompterAppareils, EcrireEmpreinte | registration and revocation of a device |
| ConnexionBiometrique, LireAppareil | connexionBiometrique |
| ChangerStatut, Expirer, Debloquer, DebloquerPin, Panne | an administrator, time, the hourly job, a crash |

`bcrypt` reads 72 bytes. Of a refresh token these are the header and the
beginning of `sub`, the same in every token of one user, so that the comparison
in `rafraichirToken` always holds and the branch that revokes every session is
not a step of the model. What a session stores is therefore only whether it has
a hash.

### Score

`Score.tla` models `calculerEtMettreAJourScore` of `cron.service.ts` with what it
calls, for one client: the formula, the row, the announcement, the history, the
PADME file and the badge; and `padme.service.ts` on the files. Two scorings may
meet: the night job, the webhook of a last instalment and the administrator
start them. Statistics are a member of `Profils`; the tables move on by
`Evoluer`. With `enCours = FALSE` a behaviour only looks at one profile of
`Bareme` and checks the formula on it. Doubles are exact fractions rounded once.

| action | code |
|---|---|
| LireStatistiques, LireAncien, EcrireScore, Notifier, Historiser | calculerEtMettreAJourScore |
| ChercherDossier, CreerDossier, SauverPdf | genererDossierPADME |
| LireBadge, CreerBadge | attribuerBadgesSiEligible |
| LireDossier, EcrireDossier, CreerCommission | padme: valider, soumettre, resultat |
| Evoluer, Vieillir, Panne | the other tables, time, a crash |

### Administration

`Guichets.tla` declares the tables and slots the desks of the administration
share; each desk extends it and `Administration.tla` composes them. The desks
share no table, so a behaviour is about one of them (`sujet`), chosen at the
start: their interleavings would add nothing. A request that its first read
refuses changes nothing and is not modelled, so a slot starts with the read that
accepts it. `courses` collects what requests met one another over.

| module | actions | code |
|---|---|---|
| `Kyc` | Soumettre, CreerDocument; LireDocument, Decider | soumettre, uploadEtSoumettre; valider, rejeter |
| `Litiges` | OuvrirLitige, CreerLitige; LireLitige, EcrireLitige | ouvrirLitige; examiner, resoudre, rejeter, ajouterCommentaire |
| `Comptes` | LireTontine, EffacerTontine | tontines: supprimerTontine |
| | LireSoldes, LireCredit, FermerCompte | utilisateurs: supprimerMonCompte |
| | LireUtilisateur, Bannir, Effacer | utilisateurs: supprimerUtilisateur |
| | CreerTontine, Cotiser, CotiserAssiste, Retirer, DemanderCredit, ValiderCredit, FinirCredit, ConfirmerPaiement, TerminerInscription | what the other services do to the client meanwhile |
| `Surveillance` | LireSolde, SommerCotisations, SommerRetraits, SommerDistributions, Comparer, CreerAlerte | cron: verifierCoherenceComptable, creerOuMettreAJourAlerteCoherence, resoudreAlerteCoherence |
| | LireAlerte, EcrireAlerte | alertes: resoudre, rouvrir |
| | Crediter, Recrediter, Debiter, Distribuer | payments, a webhook handled twice, withdrawals, distributions |
| `Portefeuilles` | Reassigner, LireCollecteur, Lier; LireAgent, LireSuperviseur, Lier | reassignerClient; assignerSuperviseur |
| | LireQr, Lier, EcrireCode, ExpirerCode | qrcode: lierCollecteur, monCode, regenerer |
| | LireClient, Pointer; ListerClients, ListerVisites, Afficher | collecteur-terrain: checkIn; clientsDuJour |
| | LireCommission, DebiterCommission, Gagner | commissions: retirer; executer |
| | ChangerStatutMembre, ChangerRole | utilisateurs: changerStatut, changerRole |
| `Abonnements` | LireFacturation, CreerFacturation; PayerAbonnement; LirePlan, PasserPro | facturation: monStatut, payerAbonnement, upgrader |
| | FacturerLePremier, FacturerAlaMain, Prelever | cron: facturerAbonnementsCollecteurs |
| `Echeances` | LireActivation, EcrireActivation; LireModification, Modifier | tontines: activerTontine, modifier |
| | ListerEchus, Dissoudre | cron: dissoudreProjetsEchus |
| `Calendrier` | none, operators on day numbers | the date arithmetic of score, analytics, utilisateurs, collecteur-terrain, tontines, commissions, rapports |

In `Calendrier` a day is a number and a month is a number. `DecalerMois` carries a
day that does not fit, as `setMonth` of JavaScript does; leap years are those of the
Gregorian calendar. The process is taken to run in UTC, and a screen to read the
clock once. An instant is a day with an hour, of which only the order counts:
the bound `sixMoisDate` of the score, client, collector and revenue screens is
`setMonth` and `setDate(1)` of now and so keeps the hour of now (`DebutAffiche`), while
`calendrierRegularite` sets the hours to zero (`DebutRegularite`). `Compte6` and
`CompteRegularite` are the rows each of them counts.

Left out: the rating of a collector, profile fields, and `operations-assistees`
beyond its first insert. Its two `initier...`
functions pass a field `montant` where the schema has `montantFcfa`, so the
insert is refused; the confirmation by the client and the withdrawal after it
are never reached. What a call leaves behind (a transaction and a payment
request) is `CotiserAssiste`.

## Runs

| run | bounds | shows |
|---|---|---|
| `retraits` | 2 requests, 2 rows, amounts 20 and 50 (the threshold), 2 codes, 1 key, 1 credit, blocked tontine, crashes | type, the ledger of `Livre` (`LivreTenu`), overdraft only in a race, one withdrawal per code, authorised amounts, one payment per demand, threshold and policy |
| `retraits_vivacite` | 2 requests, 1 row, flexible and programmed, alerts, no crash | an accepted withdrawal is executed |
| `cotisations` | 2 requests, 2 rows, 1 key, 1 repeated webhook, 1 crash, retried payments, circuit breaker at 2 | balance, rows and keys agree, circuit breaker |
| `cotisations_plafond` | 3 rows of 40 against a ceiling of 100, change of month, sandbox and provider, 1 crash | ceiling and its alert, hash chain |
| `cotisations_vivacite` | 1 row, 2 crashes, repeated webhook | a paid contribution is credited |
| `cotisations_doublon` (violation) | 1 row | one payment credited twice |
| `microcredits` | 1 credit by SMS or PIN, 2 handlers or jobs, 2 instalments of 2 for a debt of 3, a failing insert, 1 repeated webhook, 1 crash | amount left, days paid and end of a credit; disbursement and expiry |
| `groupe` | 2 members, 2 handlers or jobs, 2 payments of 2 shares, 1 order written anew, 2 runs of the job, 1 crash between two writes; at most one accident in a behaviour, and one in the preparation followed until the activation (`MCUnAccident`) | money of the group, one distribution per member, nobody unserved at the end |
| `authentification` | 2 requests, 2 devices, limits of 2 wrong codes and PINs, 2 PINs, up to 2 codes or sessions by usage, 1 lock that runs out, 1 decision; at most one accident (`MCUnAccident`) | limits of codes and PIN, what a reset closes, devices |
| `authentification_statut` (violation) | 1 request, 1 decision | a suspended account activates itself |
| `score` | 2 slots, 3 profiles in turn, 2 scorings, 2 files, a crash at any step; formula on 10044 profiles (`MCBareme`) | formula, row against tables, doubles, way of a file |
| `administration` | 2 requests at one desk, 2 clients, 2 collectors, 3 documents, 2 disputes, 5 movements of money, 2 alerts, 2 changes; days around the ends of January and February 2024 for subscriptions and tontines, every day from January 2024 to March 2025 and from January to March 2100 for the calendar, with two hours a day (`MaxHeure`); at the desk of the links one client moves at a time (`MCUnClient`) | documents, disputes, closing, alerts, links, round and commissions, subscriptions, dates of tontines, calendar |

Why the bounds are enough: every property relates at most two handlers and two
rows (three rows for neighbours in the chain), so two slots make each window
overlap and two rows make each pair. The amounts straddle the threshold of the
administrator, the balance covers one withdrawal but not two, and the target of
the blocked tontine is reached only after a payment. The circuit breaker is
scaled from 10 to 2 failures, and so are the attempts of codes and PINs, from 3.
A debt of 3 in instalments of 2 ends below zero before `Math.max`. In the group
one payment covers a turn of two members, so that two payments make a whole
cycle, and two missed runs make an exclusion. An accident excuses most
properties, so a second one in the same behaviour would add little. Fifteen
months hold a February of 28 and one of 29 days and every pair of neighbouring
months, 2100 is the first century that is no leap year, and two hours are enough
for a row made earlier in the day than now, at the same time or later. At the
desk of the links each handler writes the row of one client and reads that of no
other, so that two clients who move would only multiply the states. The state
machines stop when their bounds are used up, which is why deadlock is not checked.

Each property of a passing run has a mutant (a definition marked `mutant` in the
module) that TLC refutes under the same configuration.

## Fairness

`WF_vars(Poursuivre(q))`: the event loop resumes a handler whose database call
returned. The liveness run of withdrawals excludes crashes, because nothing in
the code resumes a handler that died; `LivreTenu` says what a crash may leave
behind (a payment that is not booked, never a booking without a payment). For
contributions crashes are allowed: the provider repeats an unanswered webhook
(`WF` of `Livrer`, per row), which is what the comment of `traiterWebhook`
("200 OK (éviter les retentatives KKiaPay)") takes for granted. No other module
promises progress: what a client or an administrator does next is up to him, and
a job that failed is not tried again before its next time.

## Proofs

Eight modules prove, for every value of the constants their module allows (any
sets of requests, rows, codes, members and amounts, any number of crashes), every
invariant and every action property of the passing runs, and the refinement of the
ledger by the withdrawals; only liveness is left to TLC. TLC checked every inductive
invariant below on the instance of its run before it was proved.

The proofs have one shape. `TypeInv` adds to `TypeOK` what a handler holds at each
step. Lemmas then say once what a step does: it moves one handler (`UnSeul`,
`Mouvement`), it writes a table only in a few named actions (`QuiEcrit...`), and the
step a handler reaches tells where it came from (`Transitions`, `Arrivees`,
`Origine...`). Each invariant is proved from those, not from the actions again.
An invariant that a race of the code breaks has the form `course \/ Facts`; a lemma
shows that a flag which is raised stays raised (`CoursesRestent`, `Accidents`).

`RetraitsProofs`:

* `TypeCorrect`: `Spec => []TypeOK`. `TypeOK` is not inductive: a handler
  writes `retraits[loc[q].retrait]` and marks `otps[loc[q].code]`, so the
  invariant `TypeInv` adds `EtapeOK` (at each step the local variables that the
  step uses are set, and point to existing rows and codes) and `LignesOK`.
* `SansDecouvert`: `Spec => []DecouvertSeulementSiCourse`. The strengthening
  `DecouvertInv` says that without a race at most one handler is between its
  balance check and its debit, and that the balance still covers the amount it
  checked; payments only raise the balance and a debit ends the window.

Who may take money out rests on lemmas about what every step keeps (`UnSeul`: a
step moves one handler; `LignesGardees`: a row keeps its amount, key, code and
administrator; `CodesGardes`: a used code stays used):

* `SortiesLegitimes`: `Spec => []SortieLegitime`, from `GrosMontantsValides` (a
  handler at the transfer holds a row that is below the threshold or has an
  administrator, and the row keeps both facts) and `PolitiqueTenueToujours` (the
  check uses a balance read before, so the invariant bounds every balance read by
  what was ever paid in; what the policy asked for then stays true).
* `RetraitsAutorises`: `Spec => []RetraitAutorise`. From the moment a handler
  marked its code until its row exists, that code is used and is for its amount.
* `UnSeulRetraitParOtp`: `Spec => []UnRetraitParOtp`. Without the race a code
  is carried by one handler or by one row; a handler finds only unused codes,
  and the codes of rows and of handlers past `consommer` are used (`CodesInv`).

And that a demand is paid once, which is also what the refinement rests on:

* `UnPaiementParDemande`: `Spec => []UnSeulPaiement`, from `PayeUneSeuleFois` and
  `ClePayeeUneFois`. Both follow from `PaiementInv`: a row that two
  administrators did not decide on together (or that needs none) is held by one
  handler at a time, at a step that fits its status, and was not paid before the
  transfer; no two rows have one key.
* `RetraitsTiennentLeLivre`: `Spec => LivreTenu`, the refinement. `LivreNext` shows
  that a step of the handlers is a step of the ledger or a stutter, action by action
  (`LivreCreer`, `LivreDecider`, `LivrePayer`, `LivreComptabiliser`, `LivreAutres`).
  Besides `PaiementInv` it needs `MontantTenu` (a handler that decides, pays or
  books uses the amount of its row, which it copied several awaits before) and
  `ComptesInv` (a row is booked when it is executed and not before, and a handler
  books what was paid): without them a booking of the handlers might be none of the
  ledger.

`CotisationsProofs`. `Passe` is the table of the steps of a handler and of what it
takes along, `Effet` the table of what a step writes: one new row, or one row
(`TraiterAvance` and `EffetDe` prove that every action is in both).

* `CotisationsTypes`: `Spec => []TypeOK`. `TypeInv` adds what each step holds
  (`EtapeBonne`), that the provider only knows rows whose reference was stored
  (`IssuesOK`), and that there is room for the rows of the requests under way.
* `ComptesTenus`: `Spec => []ComptesInv`, what the next three share. No row of
  `cotiser` is held twice, or by a webhook, before it is settled (`DemandesInv`), so
  that without the race of two webhooks a row has one handler and is pending until
  it settles it (`ReglementInv`).
* `SoldeJuste`: `Spec => []SoldeCoherent`. The sum over the settled rows gains the
  amount of the one row that joins them, and is not touched otherwise
  (`SommeLignes`); a row is credited by who holds a success of the provider, and
  keys are unique (`CreditInv`).
* `ChaineTenue`: `Spec => []ChaineIntacte`. `ChaineInv`: without an overlap one handler
  at a time is between reading the end of the chain and adding to it, and what it
  read is still the end, older than its row.
* `PlafondTenu`: `Spec => []PlafondRespecte`. `PlafondInv`: without the race one request
  that passed the check, or one pending row, is alone with the room that is left;
  a new month starts from nothing (`MoisNouveau`). `AlerteInv` is the same for the alert.
* `DisjoncteurTenu`: `Spec => []DisjoncteurDeclenche`. Only a failure that is going to
  be counted adds to the recent ones (`EchecsRecule`).

`Sommes` holds what the library lacks: a sum over a finite set (a fold of the
community modules) gains what an element joins (`SommeAvec`), depends on the values
on the set alone (`SommeEgale`), and the greatest element of a bounded set exists
(`PlusGrand`). They are proved by induction on the size of the set; since the
induction theorems take a predicate, which the provers cannot instantiate, the
induction is the least element of a set of naturals (`PlusPetitElement`, `Recurrence`).

`MicroCreditsProofs`:

* `CreditsTypes`: `Spec => []TypeOK`. The number of credits is bounded by
  `MaxCredits` only if the handlers about to create one are counted too, hence the
  last conjunct of `TypeInv`. An instalment recorded as paid was paid at the
  provider (`RembOK`).
* `DecaissementsLegitimes`: `Spec => []DecaissementLegitime`. Two handlers never
  decide on one demand without the race, and only a demand that was accepted is
  debited (`DecisionInv`); nothing is sent without consent (`ConsentiInv`, which no
  race excuses); a principal that was sent belongs to a credit that is active or
  that its handler is about to activate (`DecaissementInv`).
* `RestantsJustes`: `Spec => []RestantJuste`. The amount left is written from a row
  read earlier; `SoldesInv` says that what the handler holds is what must be written,
  since no other handler settles the same credit. The closed form
  `PosMax(Total - n * Journalier)` for `n` paid instalments is the counting lemma
  `PosMaxSuite` with the cardinality of the paid rows. `SoldeFerme` says that a
  finished credit has nothing left.

`AuthentificationProofs`:

* `ComptesTypes`: `Spec => []TypeOK`, with `CodeOK` (a live code has tries left).
* `EssaisSontLimites`: `Spec => []EssaisLimites`. The limits are on the tries that
  were *made*, the code counts those it *wrote*: `CodesInv` and `PinInv` relate both,
  with one try more while a handler is between its comparison and its write. The
  PIN needs three cases, as the lock was never set, is set, or has run out but the
  failures are still written in the row.
* `ResetsFermentLesSessions`: `Spec => []ResetFermeSessions`, from `SessionsInv`: a
  handler that will open a session saw the account after the last reset.
* `AppareilsSontUtilisables`: `Spec => []AppareilUtilisable`, from `EmpreinteInv`: one
  handler at a time changes the fingerprint, and it is on unless there is no device
  or a device was registered just now.

`GroupeTontineProofs`:

* `GroupeTypes`: `Spec => []TypeOK`. `TypeInv` says that the place a distribution holds
  is in the order, provided the order was not written anew.
* `GroupeTenu`: `Spec => []GroupeInv`, the invariants that the next three share. The
  group does not go back to its creation (`PhaseInv`), so that the order, made by one
  handler at a time before the activation and naming each client once (`OrdreInv`),
  is fixed afterwards.
* `BalanceJuste`: `Spec => []ArgentConserve`: the balance a distribution read is still
  the balance when it is reset to 0 (`ArgentInv`).
* `PotUneFois`: `Spec => []UneDistribution`. A client who received the pot has a place
  that is served or being served, and one distribution runs at a time (`DistInv`);
  no handler works on the row of a client who was served (`MembreInv`).
* `FinServie`: `Spec => []TermineeServie`. Whoever ends the group has counted right
  (`FinInv`), and every member who still must pay has a place or is about to get one
  (`PlacesInv`): that no place is left unserved would say nothing of a member
  without a place.

`ScoreProofs`. First the arithmetic, then the states:

* `FormuleOrdonnee`: every profile is `Ordonne`, where the run only meets a grid of
  them. A rounding is characterised by the interval it lies in (`ArrondiDit`); it
  grows, is moved by whole numbers, and two roundings are within one of the rounding
  of the sum (`ArrondiCroit`, `ArrondiDecale`, `ArrondiSomme`), so that the rounded
  components add up to the score up to one point, and that a day of
  contribution more, a finished credit or an instalment reached never lowers it.
  `BaremeTenu` is its consequence, `Spec => []BaremeOrdonne`.
* `ScoreTypes`: `Spec => []Typage`, `TypeOK` with what each step holds.
  `PasseCalcul` and `PasseDecision` are the tables of the steps of a scoring and of a
  decision, `EcrireDossierDit` and the like say which columns a step writes.
* `ScoreSuivi`: `Spec => []ScoreAJour`. `ScoreTenu` says what the scoring under way
  read and wrote as long as two scorings do not meet; the score of the
  row and the last line of the history then differ only while that scoring is
  between both, or after a crash there.
* `RienDeuxFois`: `Spec => []RienEnDouble`, from `BadgesTenus` (a badge that was
  looked for and not found is still missing) and `UnDossierTenu` (a file on its way
  is one, and its creator looked for one when there was none).
* `DossiersAvancent`: `Spec => DossierAvance`, the action property. `DossiersTenus`: what
  an administrator read of a file still holds when it writes, and a
  file has a commission only from `ACCEPTE` on, once.

`AdministrationProofs`, for all the desks at once:

* `DatesDeChaqueJour`: `DatesDuJour(n)` for every day n from 1 January 2024 on, for
  ever, and for as many hours a day as one likes, where the run meets eighteen
  months and two hours. A leap year has one day more (`AnneeBissextile`, with its
  three quotients), months follow one another
  without a gap (`DebutSuivant`, by the place of a month in its year), so that the
  month of a day exists, is one and is found by `Mois` (`MoisDit`, `MoisEst`); `DecalerDit`
  says where `setMonth` lands; each screen and each date follows from
  those (`MoisAffichesDit`, `LigneDite`, `Compte6Dit`, `TotalDit`, `ProchaineDit`, `PaieDit`,
  `PeriodesDites`). `DatesJustesTenues` is `Spec => []DatesJustes`.
* `InvariantTenu`: `Spec => [](Typage /\ GuichetsTenus)`. `Typage` is `TypeOK` with what a
  slot holds at each step (`EtapeOK`: the rows it will write exist, its decision is one of
  its desk) and the desk the step belongs to (`Bureaux`). `GuichetsTenus` has one
  conjunct for each desk, and all but the properties themselves say the same thing:
  as long as no flag of `courses` is up, what a request read still holds when it
  writes, and nobody else is about to write that row.
* For each desk: what each action does (`...Dit`), that the desk leaves the tables of the
  others alone (`Hors...`), that it keeps the types (`Typage...`) and its invariant
  (`...Induit`), and that the invariant needs nothing but its tables when nobody
  is at that desk (`...Tables`). A request at work is at the desk of its step
  (`EtapeAuGuichet`); so a step at one desk keeps the invariants of the others
  (`AilleursTenu`), and so does a crash (`PanneTenue`), after which nobody is at any.
* `TypesTenus`, `KycFondeTenu`, `AlerteJusteTenue`, `CollecteurServiTenu`,
  `AbonnementsJustesTenus`: the invariants. A check that began in quiet
  has added up the sums as far as its step says (`Somme`); the balance of a
  collector counts the withdrawals not yet booked (`Du`), a sum that grows and
  shrinks by one request at a time; the job of the month has the collectors it has
  not billed yet in its hands, and nobody else has (`AbonnementsInv`).
* `LitigeTrancheTenu`, `FinSansArgentTenue`, `LiensFondesTenus`, `EcheancesDuesTenues`: the
  action properties, each from the invariant of its desk before the step, and
  after it (`PasTenu`).

What the proofs changed in the models: `TermineeServie` holds whatever changes of
the statut cross, so the flag that excused them is gone; `ArgentConserve` says
what the balance is while a distribution runs as well, not only between two; and
the bounds of the runs (`MaxTirages` and the others) stand in guards alone, no
theorem rests on their values. `Cotisations` writes its sums with the sums of
functions of the community modules, which take a function and no operator, and so
do the sums of `CommissionsJustes` and `TotalJours`; `Prelevee` names the counter it
increments, because the prover misreads an `@` inside an `@`; `DatesDuJour` is the
body of `DatesJustes` under a name.

Assumed: only the named assumptions on the constants, which TLC evaluates in every
run. Some sets are assumed finite because the proofs count them: the requests
served at a time in `MicroCredits`, `Cotisations` and `Guichets` (the connections of one
server; `Guichets` serves at least one), the members of the group in `GroupeTontine`
(`nbMembresMax`), and the clients of the collectors in `Guichets` (rows of one table).

Model-checked only: liveness (`retraits_vivacite`, `cotisations_vivacite`), which needs
`ENABLED` and is out of reach of the prover.

## What disagrees with the code's own words

Two runs state what the code says of itself and are refuted:

* A webhook handled twice at once credits twice, although the code comments the
  test as idempotence (`cotisations_doublon`).
* A suspended or banned user who has not chosen a PIN yet becomes active by
  choosing one, although a suspended user is told to ask the support
  (`authentification_statut`).

Read in the code, and seen in counterexamples while the properties above were
written:

* `rejeter` can overwrite an executed withdrawal, although both decisions refuse
  what is not pending. `PayeUneFois` and the ledger name this race.
* The chain of hashes breaks when payments are confirmed in another order than
  they were started; the nightly alert then suspects a direct modification of
  the database (`ChaineIntacte` names this race too). The check takes the oldest
  500 rows, its comment says the last ones (`cron.service.ts:1101`).
* A micro-credit goes into default "après 3 échecs consécutifs", but the last
  three failures are counted whatever was paid in between
  (`transactions.service.ts:629`).
* `aHistorique` counts the micro-credits alone, its comment promises the whole
  financial history (`utilisateurs.service.ts:590`); without a credit the row is
  to be deleted, which the foreign keys refuse.
* The SMS of the subscription job says "prélevé", but the job only makes a
  payment link and waits for no answer; the statut of a subscription never
  becomes inactive (`cron.service.ts:959`).
* `calendrierRegularite` and the score, client, collector and revenue screens all
  start "sur 6 mois" on the first of a month, but only the calendar sets the bound
  to midnight (`score.service.ts:281`). The others keep the hour of now
  (`score.service.ts:66`, `utilisateurs.service.ts:289`, `collecteur-terrain.service.ts:230`,
  `analytics.service.ts:253`): what was paid on that first day before this hour is
  missing. `DatesJustes` names exactly these rows (`Omises`).
* `creer-tontine.dto.ts:48` limits the fixed day to 28 ("garanti dans tous les
  mois"), `modifier-tontine.dto.ts:39` allows 31; the day is then skipped in the
  shorter months. The end of a blocked tontine is estimated with 30 days a month.

Observations without a statement to compare with: the token of
`connexionBiometrique` names its session in a field that the strategy does not
read, so that it opens nothing; a change of PIN closes no session, a reset leaves
the devices; one failing score ends the whole night job
(`cron.service.ts:211`); a refused PADME file is generated anew the next night;
the
first credit of a client lowers his score by up to 30 points; on the 31st the
six-month screens leave out the months of 30 days, and the calendar of regularity
counts another month twice (`DatesJustes` says which).

## Plan

1. Done: `Retraits` with its proofs and the ledger it implements, `Cotisations`,
   `MicroCredits`, `GroupeTontine`, `Authentification`, `Score`, and the desks of
   `Administration`.
2. Proved: every invariant and every action property of the passing runs, and the
   refinement `LivreTenu`. Next: the ledger of contributions as an abstract
   specification of its own, as `Livre` is for withdrawals.
3. Left to model: two credits of one client (a larger state space), a group of
   three members (activated with a member without a place), the rounding of the
   fee functions.

Not modelled and why: notifications, reports, analytics, PDF, zones, support,
audit and settings are I/O, queries or single-row writes; signatures and password
hashes are abstracted to "matches or not"; the fee functions are arithmetic of
doubles, which TLA+ has not; clean-up jobs delete rows nobody reads any more; the
confirmation of an assisted operation cannot be reached.
