--------------------------- MODULE GroupeTontine ---------------------------
(***************************************************************************)
(* A group tontine: members join and leave, the owner fixes the order of   *)
(* the draw, activates the group and distributes the pot to one member     *)
(* after the other (tontines.service.ts), while a daily job marks the      *)
(* members that did not pay (cron.service.ts, detecterDefaillancesGroupe). *)
(*                                                                         *)
(* As in Retraits a handler advances from one awaited call to the next and *)
(* the others interleave with it; a request starts with its first read, and *)
(* one that this read refuses changes nothing and is left out.  One group  *)
(* is modelled, whose settings do not change.  Fees are left out: what     *)
(* leaves the group in a distribution is the pot.  tourActuel, which       *)
(* nothing reads, is left out too.                                         *)
(***************************************************************************)
EXTENDS Integers, SequencesExt

CONSTANTS
    Requetes,      \* slots that serve one request or run one job at a time
    Membres,       \* clients that may join; the owner is not one of them
    Personne,      \* no client
    NbMembresMax,  \* nbMembresMax of the tontine
    Part,          \* montantParMembreFcfa, a member's share of a turn
    Journalier,    \* montantJournalierFcfa, what a missed day costs
    Cautions,      \* deposits a member may leave
    Montants,      \* amounts to pay in or withdraw
    Modes,         \* modeTirage at the creation: MANUEL, ALEATOIRE
    MaxPaiements,  \* bound: payments into the group
    MaxTirages,    \* bound: times the order is written anew
    MaxJobs        \* bound: runs of the daily job

ASSUME GroupeAssumption ==
    /\ Personne \notin Membres /\ IsFiniteSet(Membres)
    /\ NbMembresMax \in Nat /\ Part \in Nat \ {0} /\ Journalier \in Nat \ {0}
    /\ Cautions \subseteq Nat /\ Montants \subseteq Nat \ {0}
    /\ Modes \subseteq {"MANUEL", "ALEATOIRE"}
    /\ MaxPaiements \in Nat /\ MaxTirages \in Nat /\ MaxJobs \in Nat

VARIABLES
    statut, mode, solde,  \* columns of tontine
    membres,       \* client |-> row of membreTontineGroupe, AUCUN if none
    ordre,         \* rows of ordreTirage, as created
    tirages,       \* times the order was written anew: identifies its rows
    pc, loc,       \* progress and local variables of the handlers
    versements,    \* client |-> transfers the provider received for them
    paiements, jobs  \* payments and runs of the job so far

VARIABLES          \* history: what happened, read by no action
    attendu,       \* paid in, less what was withdrawn and transferred
    defautCreation,\* the job marked a default before the activation
    coupure,       \* a crash between two writes of a handler
    courseSolde,   \* money moved while a distribution had read the balance
    courseDistribution,  \* two distributions ran together
    courseMembre,  \* a row was written that another handler was working on
    courseOrdre    \* the order was changed while another handler used it

argentVars == <<solde, attendu, versements>>
ordreVars  == <<ordre, tirages, mode>>
procVars   == <<pc, loc>>
bornesVars == <<paiements, jobs>>
courseVars == <<defautCreation, coupure, courseSolde, courseDistribution,
                courseMembre, courseOrdre>>
vars == <<statut, argentVars, membres, ordreVars, procVars, bornesVars, courseVars>>

Rejoint   == {"lireMembre", "compterMembres", "inscrire"}
Place     == {"chercherPlace", "compterOrdre", "creerPlace"}
Ordonne   == {"relireOrdre", "listerActifs", "ecrireOrdre"}
Active    == {"compterActifs", "compterPlaces", "activer"}
Transfere == {"compterRestants", "enregistrer"}
Distribue == {"compterParts", "choisir"} \cup Transfere
Etapes == Rejoint \cup Place \cup Ordonne \cup Active \cup Distribue \cup
          {"libre", "quitter", "compterNonServis", "terminer", "suspendre",
           "reactiver", "cloturer", "examiner", "defaillir"}

Membre == [statut : {"AUCUN", "ACTIF", "A_RECU", "DEFAILLANT", "EXCLU"},
           nb : Nat, caution : Int]
Rang   == [qui : Membres, position : Nat, aRecu : BOOLEAN]
(* What the job read of a member.                                          *)
Lu     == [qui : Membres, paye : BOOLEAN, nb : Nat, caution : Int]
(* montant: the balance read, or the deposit offered; n: a number counted; *)
(* place, tirage: the id of the row of ordreTirage being served.           *)
Locales == [qui : Membres \cup {Personne}, montant : Int, n : Nat, place : Nat,
            tirage : Nat, mode : {"MANUEL", "ALEATOIRE", "ACTIVATION"},
            suite : Seq(Membres), lot : SUBSET Lu]
Repos == [qui |-> Personne, montant |-> 0, n |-> 0, place |-> 0, tirage |-> 0,
          mode |-> "MANUEL", suite |-> <<>>, lot |-> {}]

Init ==
    /\ statut = "CREATION" /\ mode \in Modes /\ solde = 0
    /\ membres = [m \in Membres |-> [statut |-> "AUCUN", nb |-> 0, caution |-> 0]]
    /\ ordre = <<>> /\ tirages = 0
    /\ pc = [q \in Requetes |-> "libre"]
    /\ loc = [q \in Requetes |-> Repos]
    /\ versements = [m \in Membres |-> 0] /\ attendu = 0
    /\ paiements = 0 /\ jobs = 0
    /\ defautCreation = FALSE /\ coupure = FALSE /\ courseSolde = FALSE
    /\ courseDistribution = FALSE /\ courseMembre = FALSE
    /\ courseOrdre = FALSE

-----------------------------------------------------------------------------
Actifs    == {m \in Membres : membres[m].statut = "ACTIF"}
\* mutant: the places already served are not left aside
NonServisTous == DOMAIN ordre
NonServis == {p \in DOMAIN ordre : ~ordre[p].aRecu}
PlusPetit(x, y) == IF x < y THEN x ELSE y

Vers(q, etape)  == pc' = [pc EXCEPT ![q] = etape]
Repondre(q)     == Vers(q, "libre") /\ loc' = [loc EXCEPT ![q] = Repos]
Si(q, ok, etape) == IF ok THEN Vers(q, etape) /\ UNCHANGED loc ELSE Repondre(q)
Commencer(q, etape, locales) ==
    pc[q] = "libre" /\ Vers(q, etape) /\ loc' = [loc EXCEPT ![q] = locales]
Autre(q, etapes) == \E p \in Requetes \ {q} : pc[p] \in etapes

Adhere  == Rejoint \cup Place
MarquerOrdre(q, m) ==      \* clients joining together do not conflict
    courseOrdre' = (courseOrdre \/ Autre(q, Ordonne \cup Active)
                       \/ \E p \in Requetes \ {q} : pc[p] \in Adhere
                                                  /\ m \in {loc[p].qui, Personne})
(* A handler that will write the row of m from what it read before.        *)
Tient(p, m) ==
    \/ pc[p] \in Rejoint \cup {"quitter", "defaillir"} /\ loc[p].qui = m
    \/ \E x \in loc[p].lot : x.qui = m
MarquerMembre(q, m) ==
    courseMembre' = (courseMembre \/ \E p \in Requetes \ {q} : Tient(p, m))
MarquerSolde ==
    courseSolde' = (courseSolde \/ \E p \in Requetes : pc[p] \in Distribue)

-----------------------------------------------------------------------------
(* rejoindre and quitter                                                   *)

Rejoindre(q) ==
    /\ statut = "CREATION"
    /\ \E m \in Membres, c \in Cautions :
         /\ Commencer(q, "lireMembre", [Repos EXCEPT !.qui = m, !.montant = c])
         /\ MarquerOrdre(q, m)
    /\ UNCHANGED <<statut, argentVars, membres, ordreVars, bornesVars,
                   defautCreation, coupure, courseSolde, courseDistribution,
                   courseMembre>>

(* Every row counts for the maximum, also that of a client who left.       *)
VerifierAdhesion(q) ==
    /\ \/ pc[q] = "lireMembre" /\ Si(q, loc[q].qui \notin Actifs, "compterMembres")
       \/ /\ pc[q] = "compterMembres"
          /\ LET lignes == {m \in Membres : membres[m].statut # "AUCUN"} IN
             Si(q, Cardinality(lignes) < NbMembresMax, "inscrire")
    /\ UNCHANGED <<statut, argentVars, membres, ordreVars, bornesVars, courseVars>>

(* upsert: nombreDefaillances keeps its value.                             *)
Inscrire(q) ==
    LET m == loc[q].qui IN
    /\ pc[q] = "inscrire"
    /\ membres' = [membres EXCEPT ![m].statut = "ACTIF", ![m].caution = loc[q].montant]
    /\ Vers(q, "chercherPlace")
    /\ MarquerMembre(q, m)
    /\ UNCHANGED <<statut, argentVars, ordreVars, loc, bornesVars,
                   defautCreation, coupure, courseSolde, courseDistribution,
                   courseOrdre>>

ChercherPlace(q) ==
    /\ \/ /\ pc[q] = "chercherPlace"
          /\ Si(q, \A p \in DOMAIN ordre : ordre[p].qui # loc[q].qui, "compterOrdre")
       \/ /\ pc[q] = "compterOrdre"
          /\ Vers(q, "creerPlace")
          /\ loc' = [loc EXCEPT ![q].n = Len(ordre)]
    /\ UNCHANGED <<statut, argentVars, membres, ordreVars, bornesVars, courseVars>>

CreerPlace(q) ==
    /\ pc[q] = "creerPlace"
    /\ ordre' = Append(ordre, [qui |-> loc[q].qui, position |-> loc[q].n + 1,
                               aRecu |-> FALSE])
    /\ Repondre(q)
    /\ UNCHANGED <<statut, argentVars, membres, tirages, mode, bornesVars,
                   courseVars>>

Quitter(q) ==
    /\ \E m \in Actifs : Commencer(q, "quitter", [Repos EXCEPT !.qui = m])
    /\ UNCHANGED <<statut, argentVars, membres, ordreVars, bornesVars, courseVars>>

(* The place of the client in the order stays.                             *)
Partir(q) ==
    LET m == loc[q].qui IN
    /\ pc[q] = "quitter"
    /\ membres' = [membres EXCEPT ![m].statut = "EXCLU"]
    /\ Repondre(q)
    /\ MarquerMembre(q, m)
    /\ UNCHANGED <<statut, argentVars, ordreVars, bornesVars, defautCreation,
                   coupure, courseSolde, courseDistribution, courseOrdre>>

-----------------------------------------------------------------------------
(* definirOrdreTirage (MANUEL), randomiserOrdreTirage (ALEATOIRE) and the   *)
(* latter called by activerTontine (ACTIVATION)                            *)

TiragesPrevus == tirages + Cardinality({q \in Requetes : pc[q] \in Ordonne})

Ordonner(q) ==
    /\ statut = "CREATION" /\ TiragesPrevus < MaxTirages
    /\ \E choix \in {"MANUEL", "ALEATOIRE"} :
         Commencer(q, "listerActifs", [Repos EXCEPT !.mode = choix])
    /\ MarquerOrdre(q, Personne)
    /\ UNCHANGED <<statut, argentVars, membres, ordreVars, bornesVars,
                   defautCreation, coupure, courseSolde, courseDistribution,
                   courseMembre>>

RelireOrdre(q) ==
    /\ pc[q] = "relireOrdre"
    /\ Si(q, statut = "CREATION", "listerActifs")
    /\ UNCHANGED <<statut, argentVars, membres, ordreVars, bornesVars, courseVars>>

(* The owner's list, of two clients or more, names every active member      *)
(* once; a draw has any order.                                             *)
ListerActifs(q) ==
    /\ pc[q] = "listerActifs"
    /\ IF Cardinality(Actifs) < 2 THEN Repondre(q)
       ELSE \E s \in SetToSeqs(Actifs) :
              Vers(q, "ecrireOrdre") /\ loc' = [loc EXCEPT ![q].suite = s]
    /\ UNCHANGED <<statut, argentVars, membres, ordreVars, bornesVars, courseVars>>

EcrireOrdre(q) ==
    LET s == loc[q].suite IN
    /\ pc[q] = "ecrireOrdre"
    /\ ordre' = [i \in DOMAIN s |-> [qui |-> s[i], position |-> i, aRecu |-> FALSE]]
    /\ tirages' = tirages + 1
    /\ mode' = IF loc[q].mode = "MANUEL" THEN "MANUEL" ELSE "ALEATOIRE"
    /\ Si(q, loc[q].mode = "ACTIVATION", "activer")
    /\ UNCHANGED <<statut, argentVars, membres, bornesVars, courseVars>>

-----------------------------------------------------------------------------
(* activerTontine, terminerTontine, suspendre, reactiver                   *)

ActiverTontine(q) ==
    /\ statut = "CREATION"
    /\ Commencer(q, "compterActifs", [Repos EXCEPT !.mode = mode])
    /\ MarquerOrdre(q, Personne)
    /\ UNCHANGED <<statut, argentVars, membres, ordreVars, bornesVars,
                   defautCreation, coupure, courseSolde, courseDistribution,
                   courseMembre>>

CompterActifs(q) ==
    /\ pc[q] = "compterActifs"
    /\ LET n == Cardinality(Actifs) IN
       \/ n < 2 /\ Repondre(q)
       \/ /\ n >= 2 /\ loc[q].mode = "MANUEL"
          /\ Vers(q, "compterPlaces") /\ loc' = [loc EXCEPT ![q].n = n]
       \/ /\ n >= 2 /\ loc[q].mode = "ALEATOIRE" /\ TiragesPrevus < MaxTirages
          /\ Vers(q, "relireOrdre") /\ loc' = [loc EXCEPT ![q].mode = "ACTIVATION"]
    /\ UNCHANGED <<statut, argentVars, membres, ordreVars, bornesVars, courseVars>>

CompterPlaces(q) ==
    /\ pc[q] = "compterPlaces"
    /\ Si(q, Len(ordre) >= loc[q].n, "activer")
    /\ UNCHANGED <<statut, argentVars, membres, ordreVars, bornesVars, courseVars>>

(* The balance read by the first step is the one that counts.              *)
TerminerTontine(q) ==
    /\ statut = "ACTIVE" /\ solde <= 0
    /\ Commencer(q, "compterNonServis", Repos)
    /\ UNCHANGED <<statut, argentVars, membres, ordreVars, bornesVars,
                   defautCreation, coupure, courseSolde, courseDistribution,
                   courseMembre, courseOrdre>>

CompterNonServis(q) ==
    /\ pc[q] = "compterNonServis"
    /\ Si(q, NonServis = {}, "terminer")
    /\ UNCHANGED <<statut, argentVars, membres, ordreVars, bornesVars, courseVars>>

Suspendre(q) ==
    /\ statut = "ACTIVE" /\ Commencer(q, "suspendre", Repos)
    /\ UNCHANGED <<statut, argentVars, membres, ordreVars, bornesVars,
                   defautCreation, coupure, courseSolde, courseDistribution,
                   courseMembre, courseOrdre>>

Reactiver(q) ==
    /\ statut = "SUSPENDUE" /\ Commencer(q, "reactiver", Repos)
    /\ UNCHANGED <<statut, argentVars, membres, ordreVars, bornesVars,
                   defautCreation, coupure, courseSolde, courseDistribution,
                   courseMembre, courseOrdre>>

(* The statut is written as it was decided, whatever it is by now.         *)
EcrireStatut(q) ==
    /\ \/ pc[q] \in {"activer", "reactiver"} /\ statut' = "ACTIVE"
       \/ pc[q] = "suspendre" /\ statut' = "SUSPENDUE"
       \/ pc[q] \in {"terminer", "cloturer"} /\ statut' = "TERMINEE"
    /\ Repondre(q)
    /\ UNCHANGED <<argentVars, membres, ordreVars, bornesVars, courseVars>>

-----------------------------------------------------------------------------
(* distribuer                                                              *)

Distribuer(q) ==
    /\ statut = "ACTIVE" /\ solde > 0
    /\ Commencer(q, "compterParts", [Repos EXCEPT !.montant = solde])
    /\ courseDistribution' = (courseDistribution \/ Autre(q, Distribue))
    /\ UNCHANGED <<statut, argentVars, membres, ordreVars, bornesVars,
                   defautCreation, coupure, courseSolde, courseMembre, courseOrdre>>

(* The policy of the tontine or an accounting alert may refuse as well.    *)
CompterParts(q) ==
    /\ pc[q] = "compterParts"
    /\ \/ Si(q, Cardinality(Actifs) * Part <= loc[q].montant, "choisir")
       \/ Repondre(q)
    /\ UNCHANGED <<statut, argentVars, membres, ordreVars, bornesVars, courseVars>>

(* The first place not yet served, whatever became of its member; the      *)
(* transfer is a call that does not wait.                                  *)
Choisir(q) ==
    /\ pc[q] = "choisir"
    /\ \/ /\ NonServis = {}
          /\ Vers(q, "cloturer")
          /\ UNCHANGED <<loc, versements, attendu>>
       \/ \E p \in NonServis :
            /\ \A r \in NonServis : ordre[p].position <= ordre[r].position
            /\ versements' = [versements EXCEPT ![ordre[p].qui] = @ + 1]
            /\ attendu' = attendu - loc[q].montant
            /\ loc' = [loc EXCEPT ![q].place = p, ![q].tirage = tirages]
            /\ Vers(q, "compterRestants")
    /\ UNCHANGED <<statut, solde, membres, ordreVars, bornesVars, courseVars>>

\* mutant: the place being served is left out of the count
CompterRestantsSuivants(q) ==
    /\ pc[q] = "compterRestants"
    /\ loc' = [loc EXCEPT ![q].n = Cardinality(NonServis) - 1]
    /\ Vers(q, "enregistrer")
    /\ UNCHANGED <<statut, argentVars, membres, ordreVars, bornesVars, courseVars>>

CompterRestants(q) ==
    /\ pc[q] = "compterRestants"
    /\ loc' = [loc EXCEPT ![q].n = Cardinality(NonServis)]
    /\ Vers(q, "enregistrer")
    /\ UNCHANGED <<statut, argentVars, membres, ordreVars, bornesVars, courseVars>>

\* mutant: the balance is not reset
EnregistrerSansSolde(q) ==
    LET m == ordre[loc[q].place].qui IN
    /\ pc[q] = "enregistrer" /\ loc[q].tirage = tirages
    /\ ordre' = [ordre EXCEPT ![loc[q].place].aRecu = TRUE]
    /\ membres' = [membres EXCEPT ![m].statut = "A_RECU"]
    /\ statut' = IF loc[q].n = 1 THEN "TERMINEE" ELSE statut
    /\ MarquerMembre(q, m) /\ Repondre(q)
    /\ UNCHANGED <<argentVars, tirages, mode, bornesVars, defautCreation, coupure,
                   courseSolde, courseDistribution, courseOrdre>>

(* One database transaction; it fails when the row of the order is gone.   *)
Enregistrer(q) ==
    /\ pc[q] = "enregistrer"
    /\ \/ /\ loc[q].tirage # tirages
          /\ UNCHANGED <<statut, solde, membres, ordre, courseMembre>>
       \/ LET m == ordre[loc[q].place].qui IN
          /\ loc[q].tirage = tirages
          /\ ordre' = [ordre EXCEPT ![loc[q].place].aRecu = TRUE]
          /\ membres' = [membres EXCEPT ![m].statut = "A_RECU"]
          /\ solde' = 0
          /\ statut' = IF loc[q].n = 1 THEN "TERMINEE" ELSE statut
          /\ MarquerMembre(q, m)
    /\ Repondre(q)
    /\ UNCHANGED <<attendu, versements, tirages, mode, bornesVars,
                   defautCreation, coupure, courseSolde, courseDistribution,
                   courseOrdre>>

-----------------------------------------------------------------------------
(* detecterDefaillancesGroupe: a cron job, run once a day whatever the     *)
(* statut of the group                                                     *)

AListes == {m \in Membres : membres[m].statut \in {"ACTIF", "DEFAILLANT"}}

(* The job looks for a payment of the last 24 hours, of any amount: who     *)
(* made one is left open.  A member that did and had no default needs no   *)
(* write.                                                                  *)
Detecter(q) ==
    /\ jobs < MaxJobs /\ jobs' = jobs + 1
    /\ ~Autre(q, {"examiner", "defaillir"})
    /\ \E payeurs \in SUBSET AListes :
         LET lus == {[qui |-> m, paye |-> m \in payeurs, nb |-> membres[m].nb,
                      caution |-> membres[m].caution] : m \in AListes}
             lot == {x \in lus : \/ ~x.paye \/ x.nb > 0
                                 \/ membres[x.qui].statut = "DEFAILLANT"}
         IN lot # {} /\ Commencer(q, "examiner", [Repos EXCEPT !.lot = lot])
    /\ UNCHANGED <<statut, argentVars, membres, ordreVars, paiements, courseVars>>

MembreSuivant(q, lot) ==
    IF lot = {} THEN Repondre(q)
    ELSE Vers(q, "examiner") /\ loc' = [loc EXCEPT ![q] = [Repos EXCEPT !.lot = lot]]

Examiner(q) ==
    /\ pc[q] = "examiner"
    /\ \E x \in loc[q].lot :
         LET m == x.qui  lot == loc[q].lot \ {x} IN
         /\ MarquerMembre(q, m)
         /\ \/ /\ x.paye
               /\ membres' = [membres EXCEPT ![m].statut = "ACTIF", ![m].nb = 0]
               /\ MembreSuivant(q, lot)
            \/ /\ ~x.paye
               /\ membres' = [membres EXCEPT
                                ![m].caution = @ - PlusPetit(x.caution, Journalier)]
               /\ Vers(q, "defaillir")
               /\ loc' = [loc EXCEPT ![q] =
                            [Repos EXCEPT !.qui = m, !.n = x.nb, !.lot = lot]]
    /\ UNCHANGED <<statut, argentVars, ordreVars, bornesVars, defautCreation,
                   coupure, courseSolde, courseDistribution, courseOrdre>>

Defaillir(q) ==
    LET m == loc[q].qui  nb == loc[q].n + 1 IN
    /\ pc[q] = "defaillir"
    /\ membres' = [membres EXCEPT
                     ![m].statut = IF nb >= 2 THEN "EXCLU" ELSE "DEFAILLANT",
                     ![m].nb = nb]
    /\ MembreSuivant(q, loc[q].lot)
    /\ MarquerMembre(q, m)
    /\ defautCreation' = (defautCreation \/ statut = "CREATION")
    /\ UNCHANGED <<statut, argentVars, ordreVars, bornesVars, coupure,
                   courseSolde, courseDistribution, courseOrdre>>

-----------------------------------------------------------------------------
(* Around the group: any client pays, whatever the statut, the owner       *)
(* withdraws in one step (Retraits has its races), the server crashes.     *)

Payer ==
    /\ paiements < MaxPaiements /\ paiements' = paiements + 1
    /\ \E m \in Montants : solde' = solde + m /\ attendu' = attendu + m
    /\ MarquerSolde
    /\ UNCHANGED <<statut, versements, membres, ordreVars, procVars, jobs,
                   defautCreation, coupure, courseDistribution, courseMembre,
                   courseOrdre>>

\* mutant: the balance is not looked at
RetirerSansSolde ==
    /\ \E m \in Montants : solde' = solde - m /\ attendu' = attendu - m
    /\ MarquerSolde
    /\ UNCHANGED <<statut, versements, membres, ordreVars, procVars, bornesVars,
                   defautCreation, coupure, courseDistribution, courseMembre,
                   courseOrdre>>

Retirer ==
    /\ \E m \in Montants :
         solde >= m /\ solde' = solde - m /\ attendu' = attendu - m
    /\ MarquerSolde
    /\ UNCHANGED <<statut, versements, membres, ordreVars, procVars, bornesVars,
                   defautCreation, coupure, courseDistribution, courseMembre,
                   courseOrdre>>

(* Bound: one crash cuts a handler between two writes.                     *)
Panne ==
    /\ \E q \in Requetes : pc[q] # "libre"
    /\ LET coupe == \E q \in Requetes : pc[q] \in Place \cup Transfere IN
       ~(coupure /\ coupe) /\ coupure' = (coupure \/ coupe)
    /\ pc' = [q \in Requetes |-> "libre"]
    /\ loc' = [q \in Requetes |-> Repos]
    /\ UNCHANGED <<statut, argentVars, membres, ordreVars, bornesVars,
                   defautCreation, courseSolde, courseDistribution, courseMembre,
                   courseOrdre>>

Traiter(q) ==
    \/ Rejoindre(q) \/ VerifierAdhesion(q) \/ Inscrire(q) \/ ChercherPlace(q)
    \/ CreerPlace(q) \/ Quitter(q) \/ Partir(q)
    \/ Ordonner(q) \/ RelireOrdre(q) \/ ListerActifs(q) \/ EcrireOrdre(q)
    \/ ActiverTontine(q) \/ CompterActifs(q) \/ CompterPlaces(q)
    \/ TerminerTontine(q) \/ CompterNonServis(q) \/ Suspendre(q) \/ Reactiver(q)
    \/ EcrireStatut(q)
    \/ Distribuer(q) \/ CompterParts(q) \/ Choisir(q) \/ CompterRestants(q)
    \/ Enregistrer(q)
    \/ Detecter(q) \/ Examiner(q) \/ Defaillir(q)

Next == (\E q \in Requetes : Traiter(q)) \/ Payer \/ Retirer \/ Panne

Spec == Init /\ [][Next]_vars

-----------------------------------------------------------------------------
(* Types of all the variables.                                             *)
TypeOK ==
    /\ statut \in {"CREATION", "ACTIVE", "SUSPENDUE", "TERMINEE"}
    /\ mode \in {"MANUEL", "ALEATOIRE"} /\ solde \in Nat /\ attendu \in Int
    /\ membres \in [Membres -> Membre]
    /\ ordre \in Seq(Rang) /\ tirages \in Nat
    /\ pc \in [Requetes -> Etapes] /\ loc \in [Requetes -> Locales]
    /\ versements \in [Membres -> Nat]
    /\ paiements \in 0..MaxPaiements /\ jobs \in 0..MaxJobs
    /\ defautCreation \in BOOLEAN /\ coupure \in BOOLEAN /\ courseSolde \in BOOLEAN
    /\ courseDistribution \in BOOLEAN /\ courseMembre \in BOOLEAN
    /\ courseOrdre \in BOOLEAN

EnTransfert == {q \in Requetes : pc[q] \in Transfere}

(* The balance is what was paid in less what was withdrawn and transferred, *)
(* a pot on its way to the record aside.  It is reset to 0 whatever it is   *)
(* by then: money that moves between the read and the record is the only    *)
(* thing, with a second distribution, a crash after the transfer or an      *)
(* order written anew meanwhile, that makes it wrong.                      *)
ArgentConserve ==
    courseSolde \/ courseDistribution \/ coupure \/ courseOrdre
    \/ /\ EnTransfert = {} => solde = attendu
       /\ \A q \in EnTransfert :
             EnTransfert = {q} /\ solde = attendu + loc[q].montant

(* No client receives the pot twice, however often the order was rewritten, *)
(* members left and came back, and the group was suspended and reactivated; *)
(* and who received it stays A_RECU: neither the job nor a departure or a   *)
(* new subscription makes them pay or receive again, unless that handler    *)
(* was already at work on the row.                                          *)
UneDistribution ==
    /\ courseDistribution \/ coupure \/ courseOrdre
         \/ \A m \in Membres : versements[m] <= 1
    /\ courseMembre
         \/ \A p \in DOMAIN ordre :
               ordre[p].aRecu => membres[ordre[p].qui].statut = "A_RECU"

(* When the group is over every place was served, so that no member who     *)
(* did not default is left without the pot.                                *)
TermineeServie ==
    \/ defautCreation \/ coupure \/ courseDistribution \/ courseMembre
    \/ courseOrdre
    \/ statut = "TERMINEE" => NonServis = {} /\ Actifs = {}
=============================================================================
