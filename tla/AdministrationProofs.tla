------------------------- MODULE AdministrationProofs -------------------------
(***************************************************************************)
(* Proofs about the desks of the administration and the calendar.  First   *)
(* the inductive invariant: which step a slot can be at (Typage) and, desk *)
(* by desk, what a request that met no other still finds of what it read.  *)
(* Then the calendar, for every day; the desks, one after the other: what  *)
(* each action does, that it keeps the types, that it keeps the invariant  *)
(* of its desk; and the desks together: a step at one leaves what the      *)
(* others promise.  The theorems are at the end.                           *)
(***************************************************************************)
EXTENDS Administration, Sommes, TLAPS

(* The steps of each desk, and what the request at a step is.              *)
EtapesKyc           == {"creerDocument", "deciderDocument"}
EtapesLitiges       == {"creerLitige", "ecrireLitige"}
EtapesComptes       == {"effacerTontine", "lireCredit", "fermerCompte", "bannir", "effacer"}
EtapesSommes             == {"sommerCotisations", "sommerRetraits", "sommerDistributions"}
EtapesSurveillance  == EtapesSommes \cup {"comparer", "creerAlerte", "ecrireAlerte"}
EtapesLiens         == {"lireCollecteur", "lireSuperviseur", "lier"}
EtapesTournee       == {"pointer", "listerVisites", "afficher"}
EtapesAbonnements   == {"creerFacturation", "passerPro", "prelever"}
EtapesEcheances     == {"activer", "modifier", "dissoudre"}
Etapes == {"libre", "debiter"} \cup EtapesKyc \cup EtapesLitiges \cup EtapesComptes
            \cup EtapesSurveillance \cup EtapesLiens \cup EtapesTournee \cup EtapesAbonnements
            \cup EtapesEcheances

Operations(e) ==
    CASE e = "libre"           -> {"aucune"}
      [] e = "creerDocument"   -> {"depot"}
      [] e = "deciderDocument" -> {"document"}
      [] e = "creerLitige"     -> {"ouverture"}
      [] e = "ecrireLitige"    -> {"litige"}
      [] e = "effacerTontine"  -> {"tontine"}
      [] e \in {"lireCredit", "fermerCompte"} -> {"fermeture"}
      [] e \in {"bannir", "effacer"}          -> {"suppression"}
      [] e \in EtapesSommes \cup {"comparer", "creerAlerte"} -> {"controle"}
      [] e = "ecrireAlerte"    -> {"alerte"}
      [] e = "lireCollecteur"  -> {"reassignation"}
      [] e = "lireSuperviseur" -> {"affectation"}
      [] e = "lier"            -> {"reassignation", "affectation", "lien"}
      [] e = "pointer"         -> {"visite"}
      [] e \in {"listerVisites", "afficher"}  -> {"tournee"}
      [] e = "debiter"         -> {"retrait"}
      [] e = "creerFacturation" -> {"statut"}
      [] e = "passerPro"       -> {"upgrade"}
      [] e = "prelever"        -> {"facturation"}
      [] e = "activer"         -> {"activation"}
      [] e = "modifier"        -> {"modification"}
      [] e = "dissoudre"       -> {"dissolution"}

(* The desk of a step.                                                     *)
Bureaux(e) ==
    CASE e \in EtapesKyc          -> {"kyc"}
      [] e \in EtapesLitiges      -> {"litige"}
      [] e \in EtapesComptes      -> {"compte"}
      [] e \in EtapesSurveillance -> {"surveillance"}
      [] e = "lireSuperviseur"    -> {"liens"}
      [] e \in {"lireCollecteur", "lier"} -> {"liens", "tournee"}
      [] e \in EtapesTournee      -> {"tournee"}
      [] e = "debiter"            -> {"commissions"}
      [] e \in EtapesAbonnements  -> {"abonnement"}
      [] e \in EtapesEcheances    -> {"echeance"}
      [] e = "libre"              -> Sujets

Modifications ==
    [champ : {"frequence"}, valeur : {"JOURNALIER", "HEBDOMADAIRE"}]
      \cup [champ : {"cotisations"}, valeur : {1, 2}]
      \cup [champ : {"politique"}, valeur : Politique]
      \cup [champ : {"verrou", "fin"}, valeur : Nat]

Operation ==
    {"aucune", "depot", "document", "ouverture", "litige", "tontine", "fermeture",
     "suppression", "controle", "alerte", "reassignation", "affectation", "lien", "visite",
     "tournee", "retrait", "statut", "upgrade", "facturation", "activation",
     "modification", "dissolution"}
Course ==
    {"panne", "depot", "document", "ouverture", "litige", "fermeture", "paiement", "membre",
     "tournee", "retrait", "cron", "manuel", "modification", "projet"}
Cibles  == Types \cup Transactions
             \cup {"aucune", "VALIDE", "REJETE", "EN_EXAMEN", "RESOLU", "commentaire",
                   "OUVERTE", "RESOLUE"}
Gens    == Personnes \cup {Personne}
Travail == [op : Operation, n : Nat, cible : Cibles, somme : Int, solde : Int,
            qui : Gens, a : Gens, photo : SUBSET (Collecteurs \cup Modifications)]

UneModification(q) == \E d \in Modifications : loc[q].photo = {d}

(* What a slot holds at each of its steps.                                 *)
EtapeOK(q) ==
    /\ loc[q].op \in Operations(pc[q])
    /\ sujet \in Bureaux(pc[q])
    /\ pc[q] = "creerDocument" => loc[q].cible \in Types
    /\ pc[q] = "deciderDocument" =>
         loc[q].n \in DOMAIN documents /\ loc[q].cible \in {"VALIDE", "REJETE"}
    /\ pc[q] = "creerLitige" => loc[q].cible \in Transactions
    /\ pc[q] = "ecrireLitige" =>
         /\ loc[q].n \in DOMAIN litiges
         /\ loc[q].cible \in {"EN_EXAMEN", "RESOLU", "REJETE", "commentaire"}
    /\ pc[q] = "ecrireAlerte" =>
         loc[q].n \in DOMAIN alertes /\ loc[q].cible \in {"OUVERTE", "RESOLUE"}
    /\ pc[q] = "lireCollecteur" => loc[q].qui \in Clients /\ loc[q].a \in Collecteurs
    /\ pc[q] = "lireSuperviseur" => loc[q].qui \in Collecteurs /\ loc[q].a = Superviseur
    /\ pc[q] = "lier" => 
         loc[q].qui \in Clients \cup Collecteurs /\ loc[q].a \in Collecteurs \cup {Superviseur, Personne}
    /\ pc[q] = "pointer" => loc[q].qui \in Clients /\ loc[q].a \in Collecteurs
    /\ pc[q] \in {"listerVisites", "afficher"} => loc[q].a \in Collecteurs
    /\ pc[q] = "debiter" => loc[q].qui \in Collecteurs /\ loc[q].somme \in 1 .. 2
    /\ pc[q] \in {"creerFacturation", "passerPro"} => loc[q].qui \in Collecteurs
    /\ pc[q] = "prelever" => loc[q].photo \subseteq Collecteurs
    /\ pc[q] = "modifier" => UneModification(q)


Typage ==
    /\ TypeOK
    /\ pc \in [Requetes -> Etapes] /\ loc \in [Requetes -> Travail]
    /\ \A q \in Requetes : EtapeOK(q)
    /\ sujet \in Sujets /\ courses \in SUBSET Course /\ ecritures \in Nat /\ calme \in BOOLEAN
    /\ visites # {} => sujet = "tournee"
    /\ (\E c \in Collecteurs : qr[c] = "valide") => sujet = "liens"
    /\ jour >= Debut(PremierMois)

(* KYC: without a race, what an administrator or a client read still holds. *)
Decident(p, q) == pc[p] = "deciderDocument" /\ pc[q] = "deciderDocument" /\ loc[p].n = loc[q].n
Deposent(p, q) == pc[p] = "creerDocument" /\ pc[q] = "creerDocument" /\ loc[p].cible = loc[q].cible

KycInv ==
    /\ KycFonde
    /\ "document" \notin courses =>
          /\ \A p, q \in Requetes : Decident(p, q) => p = q
          /\ \A q \in Requetes : pc[q] = "deciderDocument" =>
               documents[loc[q].n].statut = "EN_ATTENTE"
          /\ "depot" \notin courses =>
               /\ \A p, q \in Requetes : Deposent(p, q) => p = q
               /\ \A q \in Requetes : pc[q] = "creerDocument" => ~DocumentExistant(loc[q].cible)

(* Disputes.                                                               *)
Ouvrent(p, q) == pc[p] = "creerLitige" /\ pc[q] = "creerLitige" /\ loc[p].cible = loc[q].cible
Tranchent(p, q) == pc[p] = "ecrireLitige" /\ pc[q] = "ecrireLitige" /\ loc[p].n = loc[q].n

LitigesInv ==
    "litige" \notin courses =>
      /\ \A p, q \in Requetes : Tranchent(p, q) => p = q
      /\ \A q \in Requetes : pc[q] = "ecrireLitige" => litiges[loc[q].n].statut \notin Clos
      /\ "ouverture" \notin courses =>
           /\ \A t \in Transactions : \A l, m \in Ouverts(t) : l = m
           /\ \A p, q \in Requetes : Ouvrent(p, q) => p = q
           /\ \A q \in Requetes : pc[q] = "creerLitige" => Ouverts(loc[q].cible) = {}

(* Accounting check.                                                       *)
Somme(q) ==
    CASE pc[q] = "sommerCotisations"   -> 0
      [] pc[q] = "sommerRetraits"      -> livre.cotise
      [] pc[q] = "sommerDistributions" -> livre.cotise - livre.retire
      [] OTHER                         -> livre.cotise - livre.retire - livre.distribue

SurveillanceInv ==
    /\ \A p, q \in Requetes : Controle(p) /\ Controle(q) => p = q
    /\ calme /\ sujet = "surveillance" =>
         /\ \A q \in Requetes : pc[q] # "ecrireAlerte"
         /\ \A q \in Requetes : Controle(q) =>
              /\ loc[q].solde = livre.solde
              /\ loc[q].somme = Somme(q)
              /\ pc[q] = "creerAlerte" => EcartReel > 1
         /\ (\A q \in Requetes : ~Controle(q)) => ((Ouvertes # {}) <=> EcartReel > 1)

(* Subscriptions.                                                          *)
AbonnementsInv ==
    /\ \A c \in Collecteurs : LET f == facturations[c] IN
         /\ Abonne(c) => f.prochain - f.dernier \in 28 .. 31
         /\ f.preleves > 0 => f.attendu
    /\ \A q \in Requetes : pc[q] = "prelever" =>
         \A c \in loc[q].photo : facturations[c].attendu /\ Abonne(c)
    /\ "manuel" \notin courses =>
         /\ \A p, q \in Requetes : Facture(p) /\ Facture(q) => p = q
         /\ "cron" \notin courses => 
              /\ \A q \in Requetes : ~Facture(q)
              /\ \A c \in Collecteurs : ~facturations[c].attendu
         /\ \A c \in Collecteurs : facturations[c].preleves <= 1
         /\ \A q \in Requetes : pc[q] = "prelever" =>
              \A c \in loc[q].photo : facturations[c].preleves = 0
         /\ "panne" \notin courses => \A c \in Collecteurs : facturations[c].attendu =>
              \/ facturations[c].preleves = 1
              \/ \E q \in Requetes : pc[q] = "prelever" /\ c \in loc[q].photo

(* Collectors.                                                             *)
TourneeInv ==
    "tournee" \notin courses => \A q \in Requetes :
       /\ Tourne(q) => loc[q].n = Cardinality(Portefeuille(loc[q].a))
       /\ pc[q] = "afficher" => loc[q].somme = Restantes(loc[q].a, loc[q].n)

EnDebit(c) == {q \in Requetes : pc[q] = "debiter" /\ loc[q].qui = c}
CommissionsInv ==
    /\ CommissionsJustes
    /\ "panne" \notin courses /\ "retrait" \notin courses =>
         \A p, q \in Requetes :
            pc[p] = "debiter" /\ pc[q] = "debiter" /\ loc[p].qui = loc[q].qui => p = q

LiensInv ==
    "membre" \notin courses => \A q \in Requetes : pc[q] = "lier" =>
       LET a == loc[q].a IN
       /\ loc[q].op = "reassignation" => a \in Collecteurs /\ Collecteur(a) /\ equipe[a].actif
       /\ loc[q].op = "affectation" =>
            a = Personne \/ (a = Superviseur /\ equipe[a].role = "SUPERVISEUR")

(* Closing of accounts.                                                    *)
ComptesInv ==
    /\ "fermeture" \notin courses => \A q \in Requetes :
         /\ Ferme(q) => compte.solde = 0
         /\ pc[q] = "fermerCompte" => compte.credit \notin EnCredit
    /\ "paiement" \notin courses =>
         /\ compte.orphelins = 0
         /\ \A q \in Requetes : Efface(q) => compte.solde = 0 /\ compte.enAttente = 0

(* Dates of tontines.                                                      *)
VerrouTenu(t, n) ==
    t.politique = "BLOQUE" => t.verrou >= DateFinEstimee(n, t.cotisations, t.frequence)

EcheancesInv ==
    /\ "projet" \notin courses => \A q \in Requetes : Cloture(q) => echeance.fin <= jour
    /\ "modification" \notin courses =>
         /\ VerrouTenu(echeance, echeance.pose)
         /\ \A p, q \in Requetes : Modifie(p) /\ Modifie(q) => p = q
         /\ \A q \in Requetes : pc[q] = "modifier" => \A d \in loc[q].photo :
              VerrouTenu([echeance EXCEPT ![d.champ] = d.valeur], loc[q].n)

-----------------------------------------------------------------------------
(* A month has a year and a place in it. *)
LEMMA AnneeEtPlace ==
  ASSUME NEW m \in Nat
  PROVE  /\ m \div 12 \in Nat /\ m % 12 \in 0 .. 11
         /\ m = 12 * (m \div 12) + (m % 12)
  OBVIOUS

(* the month after it *)
LEMMA PlaceSuivante ==
  ASSUME NEW m \in Nat
  PROVE  \/ m % 12 < 11 /\ (m + 1) \div 12 = m \div 12 /\ (m + 1) % 12 = (m % 12) + 1
         \/ m % 12 = 11 /\ (m + 1) \div 12 = (m \div 12) + 1 /\ (m + 1) % 12 = 0
  OBVIOUS

Avant(r) == <<0, 31, 59, 90, 120, 151, 181, 212, 243, 273, 304, 334>>[r + 1]

(* Debut, with the days before a month as a function of its place.         *)
LEMMA DebutDe ==
  ASSUME NEW m \in Nat
  PROVE Debut(m) = 365 * (m \div 12) + Intercalaires(m \div 12) + Avant(m % 12)
      + (IF Bissextile(m) /\ m % 12 > 1 THEN 1 ELSE 0)
  BY DEF Debut, Avant

(* The days before each month of a common year.                            *)
LEMMA AvantDit ==
   /\ Avant(0) = 0 /\ Avant(1) = 31 /\ Avant(2) = 59 /\ Avant(3) = 90
   /\ Avant(4) = 120 /\ Avant(5) = 151 /\ Avant(6) = 181 /\ Avant(7) = 212
   /\ Avant(8) = 243 /\ Avant(9) = 273 /\ Avant(10) = 304 /\ Avant(11) = 334
   BY DEF Avant

(* One more makes one more whole part, when it fills it. *)
LEMMA QuotientSuivant ==
  ASSUME NEW x \in Nat
  PROVE  /\ (x + 1) \div 4 = (x \div 4) + (IF (x + 1) % 4 = 0 THEN 1 ELSE 0)
         /\ (x + 1) \div 100 = (x \div 100) + (IF (x + 1) % 100 = 0 THEN 1 ELSE 0)
         /\ (x + 1) \div 400 = (x \div 400) + (IF (x + 1) % 400 = 0 THEN 1 ELSE 0)
<1>1. (x + 1) \div 4 = (x \div 4) + (IF (x + 1) % 4 = 0 THEN 1 ELSE 0)
  OBVIOUS
<1>2. (x + 1) \div 100 = (x \div 100) + (IF (x + 1) % 100 = 0 THEN 1 ELSE 0)
  OBVIOUS
<1>3. (x + 1) \div 400 = (x \div 400) + (IF (x + 1) % 400 = 0 THEN 1 ELSE 0)
  OBVIOUS
<1>. QED
  BY <1>1, <1>2, <1>3

(* The year 2023 + y in the count of the leap years. *)
LEMMA AnneeModulo ==
  ASSUME NEW y \in Nat
  PROVE  /\ (2023 + y) % 4 = (y + 2 + 1) % 4
         /\ (2023 + y) % 100 = (y + 22 + 1) % 100
         /\ (2023 + y) % 400 = (y + 22 + 1) % 400
<1>1. (2023 + y) % 4 = (y + 2 + 1) % 4
  OBVIOUS
<1>2. (2023 + y) % 100 = (y + 22 + 1) % 100
  OBVIOUS
<1>3. (2023 + y) % 400 = (y + 22 + 1) % 400
  OBVIOUS
<1>. QED
  BY <1>1, <1>2, <1>3

(* A century is a multiple of four years, four of them are of a century. *)
LEMMA SiecleDit ==
  ASSUME NEW a \in Nat
  PROVE  (a % 100 = 0 => a % 4 = 0) /\ (a % 400 = 0 => a % 100 = 0)
<1>1. a % 100 = 0 => a % 4 = 0
  OBVIOUS
<1>2. a % 400 = 0 => a % 100 = 0
  OBVIOUS
<1>. QED
  BY <1>1, <1>2

(* There are no fewer leap years among the first ones than none. *)
LEMMA IntercalairesType ==
  ASSUME NEW y \in Nat
  PROVE  Intercalaires(y) \in Nat
<1>1. PICK p \in Int : p = (y + 2) \div 4
  OBVIOUS
<1>2. PICK q \in Int : q = (y + 22) \div 100
  OBVIOUS
<1>3. PICK r \in Int : r = (y + 22) \div 400
  OBVIOUS
<1>4. p \in Nat /\ 4 * p <= y + 2 /\ y + 2 <= 4 * p + 3
  BY <1>1
<1>5. q \in Nat /\ 100 * q <= y + 22
  BY <1>2
<1>6. r \in Nat
  BY <1>3
<1>7. p - q + r \in Nat
  BY <1>4, <1>5, <1>6
<1>. QED
  BY <1>1, <1>2, <1>3, <1>7 DEF Intercalaires

(* A leap year has one day more from February on. *)
LEMMA AnneeBissextile ==
  ASSUME NEW m \in Nat
  PROVE  Intercalaires((m \div 12) + 1)
           = Intercalaires(m \div 12) + (IF Bissextile(m) THEN 1 ELSE 0)
<1>1. PICK y \in Nat : y = m \div 12
  BY AnneeEtPlace
<1>. DEFINE p == (y + 2) \div 4
            q == (y + 22) \div 100
            r == (y + 22) \div 400
            a == 2023 + y
<1>2. p \in Int /\ q \in Int /\ r \in Int /\ a \in Nat
  OBVIOUS
<1>3. y + 1 + 2 = y + 2 + 1 /\ y + 1 + 22 = y + 22 + 1
  OBVIOUS
<1>4. Intercalaires(y + 1)
        = (y + 2 + 1) \div 4 - (y + 22 + 1) \div 100 + (y + 22 + 1) \div 400
  BY <1>3 DEF Intercalaires
<1>5. (y + 2 + 1) \div 4 = p + (IF a % 4 = 0 THEN 1 ELSE 0)
  <2>1. y + 2 \in Nat
    OBVIOUS
  <2>. QED
    BY <2>1, QuotientSuivant, AnneeModulo
<1>6. /\ (y + 22 + 1) \div 100 = q + (IF a % 100 = 0 THEN 1 ELSE 0)
      /\ (y + 22 + 1) \div 400 = r + (IF a % 400 = 0 THEN 1 ELSE 0)
  <2>1. y + 22 \in Nat
    OBVIOUS
  <2>. QED
    BY <2>1, QuotientSuivant, AnneeModulo
<1>7. Intercalaires(y) = p - q + r
  BY DEF Intercalaires
<1>8. (a % 100 = 0 => a % 4 = 0) /\ (a % 400 = 0 => a % 100 = 0)
  BY <1>2, SiecleDit
<1>9. Bissextile(m) <=> a % 4 = 0 /\ (a % 100 # 0 \/ a % 400 = 0)
  BY <1>1 DEF Bissextile
<1>. HIDE DEF p, q, r, a
<1>10. Intercalaires(y + 1) = Intercalaires(y) + (IF Bissextile(m) THEN 1 ELSE 0)
  BY <1>2, <1>4, <1>5, <1>6, <1>7, <1>8, <1>9
<1>. QED
  BY <1>1, <1>10

(* How long a month is.                                                    *)
LEMMA LongueurDit ==
  ASSUME NEW m \in Nat
  PROVE  /\ m % 12 = 1 => Longueur(m) = IF Bissextile(m) THEN 29 ELSE 28
         /\ m % 12 \in {3, 5, 8, 10} => Longueur(m) = 30
         /\ m % 12 \notin {1, 3, 5, 8, 10} => Longueur(m) = 31
         /\ Longueur(m) \in 28 .. 31
  BY DEF Longueur

(* Months follow one another without a gap.                                *)
LEMMA DebutSuivant ==
  ASSUME NEW m \in Nat
  PROVE  Debut(m) \in Nat /\ Debut(m + 1) = Debut(m) + Longueur(m)
<1>. DEFINE y == m \div 12
            r == m % 12
            s == Intercalaires(y)
            b == IF Bissextile(m) THEN 1 ELSE 0
<1>1. y \in Nat /\ r \in 0 .. 11 /\ s \in Nat /\ b \in 0 .. 1
  BY AnneeEtPlace, IntercalairesType
<1>2. Debut(m) = 365 * y + s + Avant(r) + (IF r > 1 THEN b ELSE 0)
  BY DebutDe, <1>1
<1>3. Avant(r) \in Nat
  BY <1>1, AvantDit
<1>4. CASE r < 11
  <2>1. m + 1 \in Nat /\ (m + 1) \div 12 = y /\ (m + 1) % 12 = r + 1
    BY <1>4, PlaceSuivante
  <2>2. Bissextile(m + 1) <=> Bissextile(m)
    BY <2>1 DEF Bissextile
  <2>3. Debut(m + 1) = 365 * y + s + Avant(r + 1) + (IF r + 1 > 1 THEN b ELSE 0)
    <3>1. Debut(m + 1) = 365 * ((m + 1) \div 12) + Intercalaires((m + 1) \div 12)
            + Avant((m + 1) % 12) + (IF Bissextile(m + 1) /\ (m + 1) % 12 > 1 THEN 1 ELSE 0)
      BY DebutDe, <2>1
    <3>2. Debut(m + 1) = 365 * y + s
            + Avant(r + 1) + (IF Bissextile(m) /\ r + 1 > 1 THEN 1 ELSE 0)
      BY <2>1, <2>2, <3>1
    <3>. QED
      BY <3>2
  <2>4. Avant(r + 1) + (IF r + 1 > 1 THEN b ELSE 0)
          = Avant(r) + (IF r > 1 THEN b ELSE 0) + Longueur(m)
    BY <1>1, <1>4, AvantDit, LongueurDit
  <2>5. Avant(r + 1) \in Nat /\ Longueur(m) \in Nat
    BY <1>1, <1>4, AvantDit, LongueurDit
  <2>. HIDE DEF y, r, s, b
  <2>. QED
    BY <1>1, <1>2, <1>3, <2>3, <2>4, <2>5
<1>5. CASE r = 11
  <2>1. m + 1 \in Nat /\ (m + 1) \div 12 = y + 1 /\ (m + 1) % 12 = 0
    BY <1>5, PlaceSuivante
  <2>2. Debut(m + 1) = 365 * (y + 1) + Intercalaires(y + 1)
    <3>1. Debut(m + 1) = 365 * ((m + 1) \div 12) + Intercalaires((m + 1) \div 12)
            + Avant((m + 1) % 12) + (IF Bissextile(m + 1) /\ (m + 1) % 12 > 1 THEN 1 ELSE 0)
      BY DebutDe, <2>1
    <3>2. Debut(m + 1) = 365 * (y + 1) + Intercalaires(y + 1) + Avant(0)
            + (IF Bissextile(m + 1) /\ 0 > 1 THEN 1 ELSE 0)
      BY <2>1, <3>1
    <3>3. y + 1 \in Nat /\ Intercalaires(y + 1) \in Nat
      BY <1>1, IntercalairesType
    <3>. HIDE DEF y
    <3>. QED
      BY <3>2, <3>3, AvantDit
  <2>3. Intercalaires(y + 1) = s + b
    BY AnneeBissextile
  <2>4. Longueur(m) = 31 /\ Avant(r) = 334
    BY <1>5, LongueurDit, AvantDit
  <2>. HIDE DEF y, r, s, b
  <2>. QED
    BY <1>1, <1>2, <1>5, <2>2, <2>3, <2>4
<1>. QED
  BY <1>1, <1>4, <1>5

(* A month has 28 to 31 days. *)
LEMMA DebutBorne ==
  \A m \in Nat : 28 * m <= Debut(m) /\ Debut(m) <= 31 * m
<1>1. PICK N \in SUBSET Nat : \A m \in Nat : m \in N <=> 28 * m <= Debut(m) /\ Debut(m) <= 31 * m
  <2>1. PICK N : N = {m \in Nat : 28 * m <= Debut(m) /\ Debut(m) <= 31 * m}
    OBVIOUS
  <2>2. N \in SUBSET Nat
    BY <2>1
  <2>. QED
    BY <2>1, <2>2
<1>2. 0 \in N
  <2>1. 0 \div 12 = 0 /\ 0 % 12 = 0
    OBVIOUS
  <2>2. Intercalaires(0) = 0
    <3>1. (0 + 2) \div 4 = 0 /\ (0 + 22) \div 100 = 0 /\ (0 + 22) \div 400 = 0
      OBVIOUS
    <3>. QED
      BY <3>1 DEF Intercalaires
  <2>3. Debut(0) = 0
    BY DebutDe, <2>1, <2>2, AvantDit
  <2>. QED
    BY <1>1, <2>3
<1>3. ASSUME NEW m \in N PROVE m + 1 \in N
  <2>1. m \in Nat /\ m + 1 \in Nat /\ 28 * m <= Debut(m) /\ Debut(m) <= 31 * m
    BY <1>1
  <2>2. Debut(m) \in Nat /\ Debut(m + 1) = Debut(m) + Longueur(m) /\ Longueur(m) \in 28 .. 31
    BY <2>1, DebutSuivant, LongueurDit
  <2>3. 28 * (m + 1) <= Debut(m + 1) /\ Debut(m + 1) <= 31 * (m + 1)
    BY <2>1, <2>2
  <2>. QED
    BY <1>1, <2>1, <2>3
<1>4. N = Nat
  BY <1>2, <1>3, Recurrence
<1>. QED
  BY <1>1, <1>4

(* A later month begins later. *)
LEMMA DebutCroit ==
  \A a, b \in Nat : a < b => Debut(a + 1) <= Debut(b)
<1>. SUFFICES ASSUME NEW a \in Nat, NEW b \in Nat, a < b PROVE Debut(a + 1) <= Debut(b)
  OBVIOUS
<1>1. PICK N \in SUBSET Nat : \A k \in Nat : k \in N <=> Debut(a + 1) <= Debut(a + 1 + k)
  <2>1. PICK N : N = {k \in Nat : Debut(a + 1) <= Debut(a + 1 + k)}
    OBVIOUS
  <2>2. N \in SUBSET Nat
    BY <2>1
  <2>. QED
    BY <2>1, <2>2
<1>2. 0 \in N
  <2>1. a + 1 + 0 = a + 1 /\ Debut(a + 1) \in Nat
    BY DebutSuivant
  <2>. QED
    BY <1>1, <2>1
<1>3. ASSUME NEW k \in N PROVE k + 1 \in N
  <2>1. k \in Nat /\ a + 1 + k \in Nat /\ a + 1 + k + 1 = a + 1 + (k + 1)
    BY <1>1
  <2>2. /\ Debut(a + 1 + k) \in Nat /\ Debut(a + 1 + k + 1) = Debut(a + 1 + k) + Longueur(a + 1 + k)
        /\ Longueur(a + 1 + k) \in 28 .. 31
    BY <2>1, DebutSuivant, LongueurDit
  <2>3. Debut(a + 1) <= Debut(a + 1 + k) /\ Debut(a + 1) \in Nat
    BY <1>1, <2>1, DebutSuivant
  <2>4. Debut(a + 1) <= Debut(a + 1 + (k + 1))
    BY <2>1, <2>2, <2>3
  <2>. QED
    BY <1>1, <2>1, <2>4
<1>4. N = Nat
  BY <1>2, <1>3, Recurrence
<1>5. b - (a + 1) \in Nat /\ a + 1 + (b - (a + 1)) = b
  OBVIOUS
<1>. QED
  BY <1>1, <1>4, <1>5

(* The month of a day is the one it lies in. *)
LEMMA MoisDit ==
  ASSUME NEW n \in Nat
  PROVE  Mois(n) \in Nat /\ Debut(Mois(n)) <= n /\ n < Debut(Mois(n) + 1)
<1>1. PICK T : T = {m \in Nat : n < Debut(m + 1)}
  OBVIOUS
<1>2. T \in SUBSET Nat
  BY <1>1
<1>3. n \in T
  <2>1. n + 1 \in Nat /\ 28 * (n + 1) <= Debut(n + 1)
    BY DebutBorne
  <2>2. Debut(n + 1) \in Nat
    BY <2>1, DebutSuivant
  <2>3. n < Debut(n + 1)
    BY <2>1, <2>2
  <2>. QED
    BY <1>1, <2>3
<1>4. PICK m \in T : \A k \in T : m <= k
  BY <1>2, <1>3, PlusPetitElement
<1>5. m \in Nat /\ n < Debut(m + 1)
  BY <1>1, <1>4
<1>6. Debut(m) <= n
  <2>1. CASE m = 0
    BY <2>1, DebutBorne, DebutSuivant
  <2>2. CASE m # 0
    <3>1. m - 1 \in Nat /\ m - 1 + 1 = m /\ ~(m <= m - 1)
      BY <1>5, <2>2
    <3>2. m - 1 \notin T
      BY <1>4, <3>1
    <3>3. ~(n < Debut(m))
      BY <1>1, <3>1, <3>2
    <3>. QED
      BY <1>5, <3>3, DebutSuivant
  <2>. QED
    BY <2>1, <2>2
<1>7. m \in (n \div 31) .. (n \div 28)
  <2>1. 28 * m <= Debut(m) /\ Debut(m) \in Nat
    BY <1>5, DebutBorne, DebutSuivant
  <2>2. m + 1 \in Nat /\ Debut(m + 1) \in Nat /\ Debut(m + 1) <= 31 * (m + 1)
    BY <1>5, DebutBorne, DebutSuivant
  <2>3. 28 * m <= n /\ n < 31 * (m + 1)
    BY <1>5, <1>6, <2>1, <2>2
  <2>4. n \div 31 <= m /\ m <= n \div 28 /\ n \div 31 \in Nat /\ n \div 28 \in Nat
    BY <1>5, <2>3
  <2>. QED
    BY <1>5, <2>4
<1>8. \A k \in (n \div 31) .. (n \div 28) : k \in Nat
  <2>1. n \div 31 \in Nat
    OBVIOUS
  <2>. QED
    BY <2>1
<1>. QED
  BY <1>5, <1>6, <1>7, <1>8 DEF Mois

(* A day between the first days of two months is in the first of them.     *)
LEMMA MoisEst ==
  ASSUME NEW n \in Nat, NEW m \in Nat, Debut(m) <= n, n < Debut(m + 1)
  PROVE  Mois(n) = m
<1>1. Mois(n) \in Nat /\ Debut(Mois(n)) <= n /\ n < Debut(Mois(n) + 1)
  BY MoisDit
<1>2. \A k \in Nat : Debut(k) \in Nat /\ Debut(k + 1) \in Nat
  BY DebutSuivant
<1>3. CASE Mois(n) < m
  BY <1>1, <1>2, <1>3, DebutCroit
<1>4. CASE m < Mois(n)
  BY <1>1, <1>2, <1>4, DebutCroit
<1>. QED
  BY <1>1, <1>3, <1>4

(* The number of a day in its month.                                       *)
LEMMA JourDit ==
  ASSUME NEW n \in Nat
  PROVE  JourDuMois(n) \in 1 .. Longueur(Mois(n)) /\ n = Debut(Mois(n)) + JourDuMois(n) - 1
<1>1. Mois(n) \in Nat /\ Debut(Mois(n)) <= n /\ n < Debut(Mois(n) + 1)
  BY MoisDit
<1>2. Debut(Mois(n)) \in Nat /\ Debut(Mois(n) + 1) = Debut(Mois(n)) + Longueur(Mois(n))
  BY <1>1, DebutSuivant
<1>3. Longueur(Mois(n)) \in 28 .. 31
  BY <1>1, LongueurDit
<1>. QED
  BY <1>1, <1>2, <1>3 DEF JourDuMois

(* setMonth: a day that the month has not is carried into the next month. *)
LEMMA DecalerDit ==
  ASSUME NEW n \in Nat, NEW k \in Int, Mois(n) + k \in Nat
  PROVE  /\ DecalerMois(n, k) \in Nat
         /\ DecalerMois(n, k) = Debut(Mois(n) + k) + JourDuMois(n) - 1
         /\ Mois(DecalerMois(n, k)) = IF JourDuMois(n) <= Longueur(Mois(n) + k)
                                      THEN Mois(n) + k ELSE Mois(n) + k + 1
<1>. DEFINE m == Mois(n) + k
            j == JourDuMois(n)
            d == DecalerMois(n, k)
<1>1. j \in 1 .. 31
  <2>1. Longueur(Mois(n)) \in 28 .. 31 /\ j \in 1 .. Longueur(Mois(n))
    BY JourDit, LongueurDit, MoisDit
  <2>. QED
    BY <2>1
<1>2. m \in Nat /\ m + 1 \in Nat /\ d = Debut(m) + j - 1
  BY DEF DecalerMois
<1>3. Debut(m) \in Nat /\ Debut(m + 1) = Debut(m) + Longueur(m) /\ Longueur(m) \in 28 .. 31
  BY <1>2, DebutSuivant, LongueurDit
<1>4. Debut(m + 1 + 1) = Debut(m + 1) + Longueur(m + 1) /\ Longueur(m + 1) \in 28 .. 31
  BY <1>2, DebutSuivant, LongueurDit
<1>. HIDE DEF m, j, d
<1>5. d \in Nat
  BY <1>1, <1>2, <1>3
<1>6. CASE j <= Longueur(m)
  <2>1. Debut(m) <= d /\ d < Debut(m + 1)
    BY <1>1, <1>2, <1>3, <1>6
  <2>2. Mois(d) = m
    BY <1>2, <1>5, <2>1, MoisEst
  <2>. QED
    BY <1>2, <1>5, <1>6, <2>2 DEF m, j, d
<1>7. CASE ~(j <= Longueur(m))
  <2>1. Debut(m + 1) <= d /\ d < Debut(m + 1 + 1)
    BY <1>1, <1>2, <1>3, <1>4, <1>7
  <2>2. Mois(d) = m + 1
    BY <1>2, <1>5, <2>1, MoisEst
  <2>. QED
    BY <1>2, <1>5, <1>7, <2>2 DEF m, j, d
<1>. QED
  BY <1>6, <1>7

(* A month later is 28 to 31 days later. *)
LEMMA UnMoisDePlus ==
  ASSUME NEW n \in Nat
  PROVE  DecalerMois(n, 1) \in Nat /\ DecalerMois(n, 1) - n \in 28 .. 31
<1>1. Mois(n) \in Nat /\ Mois(n) + 1 \in Nat
  BY MoisDit
<1>2. /\ DecalerMois(n, 1) \in Nat
      /\ DecalerMois(n, 1) = Debut(Mois(n) + 1) + JourDuMois(n) - 1
  BY <1>1, DecalerDit
<1>3. Debut(Mois(n)) \in Nat /\ Debut(Mois(n) + 1) = Debut(Mois(n)) + Longueur(Mois(n))
  BY <1>1, DebutSuivant
<1>4. Longueur(Mois(n)) \in 28 .. 31
  BY <1>1, LongueurDit
<1>5. JourDuMois(n) \in 1 .. Longueur(Mois(n)) /\ n = Debut(Mois(n)) + JourDuMois(n) - 1
  BY JourDit
<1>. QED
  BY <1>2, <1>3, <1>4, <1>5

(* A short month is followed by one of 31 days. *)
LEMMA CourtPuisLong ==
  ASSUME NEW m \in Nat, Longueur(m) < 31
  PROVE  Longueur(m + 1) = 31
<1>1. m % 12 \in {1, 3, 5, 8, 10}
  BY LongueurDit
<1>2. m + 1 \in Nat /\ (m + 1) % 12 = (m % 12) + 1
  BY <1>1, PlaceSuivante
<1>3. (m + 1) % 12 \notin {1, 3, 5, 8, 10}
  BY <1>1, <1>2
<1>. QED
  BY <1>2, <1>3, LongueurDit

(* The month a day belongs to when it is counted from the first of a month. *)
LEMMA PremierDuMois ==
  ASSUME NEW m \in Nat, NEW j \in 0 .. 27
  PROVE  Debut(m) + j \in Nat /\ Mois(Debut(m) + j) = m
<1>1. Debut(m) \in Nat /\ Debut(m + 1) = Debut(m) + Longueur(m) /\ Longueur(m) \in 28 .. 31
  BY DebutSuivant, LongueurDit
<1>2. Debut(m) + j \in Nat /\ Debut(m) <= Debut(m) + j /\ Debut(m) + j < Debut(m + 1)
  BY <1>1
<1>. QED
  BY <1>2, MoisEst

(* setMonth back by i months lands i months ago, or in the month after     *)
(* when that one is too short.                                             *)
LEMMA MoisDeLaSerie ==
  ASSUME NEW n \in Nat, Mois(n) >= 11, NEW i \in 0 .. 11
  PROVE  /\ Mois(n) - i \in Nat /\ Mois(n) + (-i) = Mois(n) - i
         /\ Mois(DecalerMois(n, -i)) = IF JourDuMois(n) <= Longueur(Mois(n) - i)
                                       THEN Mois(n) - i ELSE Mois(n) - i + 1
<1>1. Mois(n) \in Nat
  BY MoisDit
<1>2. -i \in Int /\ Mois(n) + (-i) = Mois(n) - i /\ Mois(n) - i \in Nat
  BY <1>1
<1>. QED
  BY <1>2, DecalerDit

(* The administrator's series has all twelve months.                       *)
LEMMA MoisAdminDit ==
  ASSUME NEW n \in Nat, Mois(n) >= 11
  PROVE  MoisAdmin(n) = Mois(n) - 11 .. Mois(n)
<1>1. Mois(n) \in Nat
  BY MoisDit
<1>2. ASSUME NEW i \in 0 .. 11 PROVE Mois(Debut(Mois(n) - i)) = Mois(n) - i
  <2>1. Mois(n) - i \in Nat /\ 0 \in 0 .. 27
    BY <1>1
  <2>2. Debut(Mois(n) - i) + 0 = Debut(Mois(n) - i)
    BY <2>1, DebutSuivant
  <2>. QED
    BY <2>1, <2>2, PremierDuMois
<1>3. MoisAdmin(n) = {Mois(n) - i : i \in 0 .. 11}
  BY <1>2 DEF MoisAdmin
<1>4. ASSUME NEW k \in Mois(n) - 11 .. Mois(n) PROVE k \in {Mois(n) - i : i \in 0 .. 11}
  <2>1. Mois(n) - k \in 0 .. 11 /\ k = Mois(n) - (Mois(n) - k)
    BY <1>1
  <2>. QED
    BY <2>1
<1>5. \A i \in 0 .. 11 : Mois(n) - i \in Mois(n) - 11 .. Mois(n)
  BY <1>1
<1>. QED
  BY <1>3, <1>4, <1>5

(* A six-month screen has the months that have a day with today's number.  *)
LEMMA MoisAffichesDit ==
  ASSUME NEW n \in Nat, Mois(n) >= 11
  PROVE  /\ MoisAffiches(n) \subseteq Mois(n) - 5 .. Mois(n)
         /\ \A k \in Mois(n) - 5 .. Mois(n) :
              k \in MoisAffiches(n) <=> JourDuMois(n) <= Longueur(k)
<1>. DEFINE m == Mois(n)
            j == JourDuMois(n)
<1>1. m \in Nat /\ m >= 11 /\ j \in 1 .. Longueur(m) /\ Longueur(m) \in 28 .. 31
  BY MoisDit, JourDit, LongueurDit
<1>2. MoisAffiches(n) = {Mois(DecalerMois(n, -i)) : i \in 0 .. 5}
  BY DEF MoisAffiches, SixMois
<1>3. ASSUME NEW i \in 0 .. 5
      PROVE  /\ Mois(DecalerMois(n, -i)) \in m - 5 .. m
             /\ j <= Longueur(Mois(DecalerMois(n, -i)))
  <2>1. /\ m - i \in Nat
        /\ Mois(DecalerMois(n, -i)) = IF j <= Longueur(m - i) THEN m - i ELSE m - i + 1
    BY MoisDeLaSerie
  <2>2. CASE j <= Longueur(m - i)
    BY <1>1, <2>1, <2>2
  <2>3. CASE ~(j <= Longueur(m - i))
    <3>1. i # 0
      BY <1>1, <2>3
    <3>2. Longueur(m - i) \in 28 .. 31
      BY <2>1, LongueurDit
    <3>3. Longueur(m - i) < 31
      BY <1>1, <2>3, <3>2
    <3>4. Longueur(m - i + 1) = 31
      BY <2>1, <3>3, CourtPuisLong
    <3>. HIDE DEF m, j
    <3>. QED
      BY <1>1, <2>1, <2>3, <3>1, <3>4
  <2>. QED
    BY <2>2, <2>3
<1>4. ASSUME NEW k \in m - 5 .. m, j <= Longueur(k)
      PROVE  \E i \in 0 .. 5 : k = Mois(DecalerMois(n, -i))
  <2>1. m - k \in 0 .. 5 /\ m - (m - k) = k
    BY <1>1
  <2>2. Mois(DecalerMois(n, -(m - k))) = k
    BY <1>4, <2>1, MoisDeLaSerie
  <2>. HIDE DEF m, j
  <2>. QED
    BY <2>1, <2>2
<1>. HIDE DEF m, j
<1>5. MoisAffiches(n) \subseteq m - 5 .. m
  BY <1>2, <1>3
<1>6. ASSUME NEW k \in m - 5 .. m PROVE k \in MoisAffiches(n) <=> j <= Longueur(k)
  BY <1>2, <1>3, <1>4
<1>. QED
  BY <1>5, <1>6 DEF m, j

(* The regularity calendar has the rows whose month is on the screens; the *)
(* screens have them too, unless they were made on the first day of the    *)
(* oldest month before the hour of now.                                    *)
LEMMA LigneDite ==
  ASSUME NEW n \in Nat, Mois(n) >= 11, NEW d \in Debut(Mois(n) - 5) .. n,
         NEW g \in Heures, NEW h \in Heures
  PROVE  LET ligne == [jour |-> d, heure |-> g] IN
         /\ d \in Nat
         /\ PasAvant(ligne, DebutRegularite(n)) /\ Mois(d) \in MoisAffiches(n)
              <=> JourDuMois(n) <= Longueur(Mois(d))
         /\ PasAvant(ligne, DebutAffiche(n, h)) /\ Mois(d) \in MoisAffiches(n)
              <=> /\ JourDuMois(n) <= Longueur(Mois(d))
                  /\ ~(/\ JourDuMois(d) = 1 /\ g < h
                       /\ \A e \in MoisAffiches(n) : Mois(d) <= e)
<1>. DEFINE m == Mois(n)
            j == JourDuMois(n)
            p == Mois(DecalerMois(n, -5))
            k == Mois(d)
<1>1. m \in Nat /\ m >= 11 /\ m - 5 \in Nat /\ m - 4 \in Nat
  BY MoisDit
<1>2. Debut(m - 5) \in Nat /\ d \in Nat /\ Debut(m - 5) <= d /\ d <= n
  BY <1>1, DebutSuivant
<1>3. k \in Nat /\ Debut(k) <= d /\ d < Debut(k + 1)
  BY <1>2, MoisDit
<1>4. Debut(m) <= n /\ n < Debut(m + 1)
  BY MoisDit
<1>5. \A a \in Nat : Debut(a) \in Nat /\ Debut(a + 1) \in Nat
  BY DebutSuivant
<1>6. k \in m - 5 .. m
  <2>1. ~(k < m - 5)
    BY <1>1, <1>2, <1>3, <1>5, DebutCroit
  <2>2. ~(m < k)
    BY <1>1, <1>2, <1>3, <1>4, <1>5, DebutCroit
  <2>. QED
    BY <1>1, <1>3, <2>1, <2>2
<1>7. p = IF j <= Longueur(m - 5) THEN m - 5 ELSE m - 4
  <2>1. p = IF j <= Longueur(m - 5) THEN m - 5 ELSE m - 5 + 1
    BY MoisDeLaSerie
  <2>. QED
    BY <1>1, <2>1
<1>8. \A x : DebutAffiche(n, x) = [jour |-> Debut(p), heure |-> x]
  <2>1. FixerJour(DecalerMois(n, -5), 1) = Debut(p) + 1 - 1
    BY DEF FixerJour
  <2>2. p \in Nat
    BY <1>1, <1>7
  <2>. HIDE DEF p
  <2>3. Debut(p) + 1 - 1 = Debut(p)
    BY <1>5, <2>2
  <2>. QED
    BY <2>1, <2>3 DEF DebutAffiche
<1>9. k \in MoisAffiches(n) <=> j <= Longueur(k)
  BY <1>6, MoisAffichesDit
<1>10. ASSUME j <= Longueur(k) PROVE d >= Debut(p)
  <2>. HIDE DEF m, j, p, k
  <2>1. CASE k = m - 5
    BY <1>2, <1>7, <1>10, <2>1
  <2>2. CASE k # m - 5
    <3>1. k = m - 4 \/ m - 4 < k
      BY <1>1, <1>6, <2>2
    <3>2. Debut(m - 4) <= Debut(k)
      <4>1. CASE k = m - 4
        BY <1>1, <1>5, <4>1
      <4>2. CASE m - 4 < k
        <5>1. Debut(m - 4 + 1) <= Debut(k) /\ Debut(m - 4 + 1) = Debut(m - 4) + Longueur(m - 4)
          BY <1>1, <1>3, <4>2, DebutCroit, DebutSuivant
        <5>2. Longueur(m - 4) \in 28 .. 31
          BY <1>1, LongueurDit
        <5>. QED
          BY <1>1, <1>3, <1>5, <5>1, <5>2
      <4>. QED
        BY <3>1, <4>1, <4>2
    <3>3. Debut(m - 5) <= d /\ Debut(m - 4) <= d
      BY <1>1, <1>2, <1>3, <1>5, <3>2
    <3>. QED
      BY <1>7, <3>3
  <2>. QED
    BY <2>1, <2>2
<1>11. p \in Nat /\ p \in MoisAffiches(n) /\ \A e \in MoisAffiches(n) : p <= e
  <2>1. p \in MoisAffiches(n)
    BY DEF MoisAffiches, SixMois
  <2>2. ASSUME NEW e \in MoisAffiches(n) PROVE p <= e
    <3>1. e \in m - 5 .. m /\ j <= Longueur(e)
      BY MoisAffichesDit
    <3>. HIDE DEF m, j, p
    <3>. QED
      BY <1>1, <1>7, <3>1
  <2>3. p \in Nat
    <3>. HIDE DEF m, j, p
    <3>. QED
      BY <1>1, <1>7
  <2>. QED
    BY <2>1, <2>2, <2>3
<1>12. ASSUME j <= Longueur(k)
       PROVE  d = Debut(p) <=> JourDuMois(d) = 1 /\ \A e \in MoisAffiches(n) : k <= e
  <2>1. JourDuMois(d) = d - Debut(k) + 1 /\ d >= Debut(p)
    BY <1>10, <1>12 DEF JourDuMois
  <2>2. ASSUME d = Debut(p) PROVE JourDuMois(d) = 1 /\ k = p
    <3>1. 0 \in 0 .. 27 /\ Debut(p) + 0 = Debut(p)
      BY <1>5, <1>11
    <3>2. Mois(Debut(p)) = p
      BY <1>11, <3>1, PremierDuMois
    <3>3. k = p
      BY <2>2, <3>2
    <3>. HIDE DEF k, p
    <3>. QED
      BY <1>5, <1>11, <2>1, <2>2, <3>3
  <2>3. ASSUME JourDuMois(d) = 1, k <= p PROVE d = Debut(p)
    <3>. HIDE DEF k, p
    <3>1. d = Debut(k)
      BY <1>2, <1>3, <1>5, <2>1, <2>3
    <3>2. ~(k < p)
      BY <1>2, <1>3, <1>5, <1>11, <2>1, <2>3, DebutCroit
    <3>. QED
      BY <1>3, <1>11, <2>3, <3>1, <3>2
  <2>. QED
    BY <1>11, <2>2, <2>3
<1>. DEFINE ligne == [jour |-> d, heure |-> g]
            premiere == JourDuMois(d) = 1 /\ \A e \in MoisAffiches(n) : k <= e
<1>13. g \in Nat /\ h \in Nat
  BY DEF Heures
<1>14. PasAvant(ligne, DebutRegularite(n)) <=> d >= Debut(p)
  BY <1>2, <1>5, <1>8, <1>11, <1>13 DEF PasAvant, DebutRegularite
<1>15. PasAvant(ligne, DebutAffiche(n, h)) <=> d > Debut(p) \/ (d = Debut(p) /\ g >= h)
  BY <1>8 DEF PasAvant
<1>16. CASE j <= Longueur(k)
  <2>1. d >= Debut(p) /\ (d = Debut(p) <=> premiere)
    BY <1>10, <1>12, <1>16
  <2>2. PasAvant(ligne, DebutAffiche(n, h)) <=> ~(premiere /\ g < h)
    <3>. HIDE DEF ligne, premiere, p
    <3>1. Debut(p) \in Nat
      BY <1>5, <1>11
    <3>2. CASE d = Debut(p)
      <4>1. ~(d > Debut(p)) /\ (g >= h <=> ~(g < h))
        BY <1>13, <3>1, <3>2
      <4>. QED
        BY <1>15, <2>1, <3>2, <4>1
    <3>3. CASE d # Debut(p)
      <4>1. d > Debut(p)
        BY <1>2, <2>1, <3>1, <3>3
      <4>. QED
        BY <1>15, <2>1, <3>3, <4>1
    <3>. QED
      BY <3>2, <3>3
  <2>. QED
    BY <1>2, <1>9, <1>14, <1>16, <2>1, <2>2
<1>17. CASE ~(j <= Longueur(k))
  BY <1>2, <1>9, <1>17
<1>. QED
  BY <1>16, <1>17

(* The same of all the rows of the last six months.                        *)
LEMMA Compte6Dit ==
  ASSUME NEW n \in Nat, Mois(n) >= 11
  PROVE  LET Lignes == [jour : Debut(Mois(n) - 5) .. n, heure : Heures] IN
         /\ CompteRegularite(n, Lignes)
              = {ligne \in Lignes : JourDuMois(n) <= Longueur(Mois(ligne.jour))}
         /\ \A h \in Heures :
              Compte6(n, h, Lignes) = CompteRegularite(n, Lignes) \ Omises(n, h, Lignes)
<1>. DEFINE Lignes == [jour : Debut(Mois(n) - 5) .. n, heure : Heures]
            debut == DebutRegularite(n)
            vue(ligne) == JourDuMois(n) <= Longueur(Mois(ligne.jour))
            omise(ligne, h) == /\ JourDuMois(ligne.jour) = 1 /\ ligne.heure < h
                               /\ \A e \in MoisAffiches(n) : Mois(ligne.jour) <= e
<1>1. ASSUME NEW ligne \in Lignes, NEW h \in Heures
      PROVE  /\ ligne.jour <= n
             /\ PasAvant(ligne, debut) /\ Mois(ligne.jour) \in MoisAffiches(n) <=> vue(ligne)
             /\ PasAvant(ligne, DebutAffiche(n, h)) /\ Mois(ligne.jour) \in MoisAffiches(n)
                  <=> vue(ligne) /\ ~omise(ligne, h)
  <2>1. PICK d \in Debut(Mois(n) - 5) .. n, g \in Heures : ligne = [jour |-> d, heure |-> g]
    OBVIOUS
  <2>2. ligne.jour = d /\ ligne.heure = g
    BY <2>1
  <2>3. d <= n
    <3>1. Mois(n) \in Nat /\ Mois(n) - 5 \in Nat
      BY MoisDit
    <3>2. Debut(Mois(n) - 5) \in Nat
      BY <3>1, DebutSuivant
    <3>. QED
      BY <3>2
  <2>. HIDE DEF Lignes
  <2>. QED
    BY <2>1, <2>2, <2>3, LigneDite
<1>2. 0 \in Heures
  BY CalendrierAssumption DEF Heures
<1>3. CompteRegularite(n, Lignes) = {ligne \in Lignes : vue(ligne)}
  <2>1. CompteRegularite(n, Lignes) =
          {ligne \in Lignes : PasAvant(ligne, debut) /\ Mois(ligne.jour) \in MoisAffiches(n)
                                /\ ligne.jour <= n}
    BY DEF CompteRegularite
  <2>. HIDE DEF Lignes, vue, debut
  <2>. QED
    BY <1>1, <1>2, <2>1
<1>4. ASSUME NEW h \in Heures
      PROVE  Compte6(n, h, Lignes) = CompteRegularite(n, Lignes) \ Omises(n, h, Lignes)
  <2>1. Compte6(n, h, Lignes) =
          {ligne \in Lignes : PasAvant(ligne, DebutAffiche(n, h)) /\ Mois(ligne.jour) \in MoisAffiches(n)}
    BY DEF Compte6
  <2>2. Omises(n, h, Lignes) = {ligne \in Lignes : omise(ligne, h)}
    BY DEF Omises
  <2>. HIDE DEF Lignes, vue, omise
  <2>. QED
    BY <1>1, <1>3, <2>1, <2>2
<1>. HIDE DEF Lignes
<1>5. /\ CompteRegularite(n, Lignes) = {ligne \in Lignes : vue(ligne)}
      /\ \A h \in Heures :
           Compte6(n, h, Lignes) = CompteRegularite(n, Lignes) \ Omises(n, h, Lignes)
  BY <1>3, <1>4
<1>. QED
  BY <1>5 DEF Lignes

(* The sum of the six blocks of the calendar. *)
LEMMA SommeDeSix ==
  ASSUME NEW f, \A i \in 0 .. 5 : f[i] \in Int
  PROVE  SumFunctionOnSet(f, 0 .. 5) = f[0] + f[1] + f[2] + f[3] + f[4] + f[5]
<1>1. IsFiniteSet({}) /\ SumFunctionOnSet(f, {}) = 0
  BY SommeVide, FS_EmptySet
<1>2. ASSUME NEW k \in 0 .. 5,
             IsFiniteSet(0 .. (k - 1)), SumFunctionOnSet(f, 0 .. (k - 1)) \in Int
      PROVE  /\ IsFiniteSet(0 .. k) /\ SumFunctionOnSet(f, 0 .. k) \in Int
             /\ SumFunctionOnSet(f, 0 .. k) = SumFunctionOnSet(f, 0 .. (k - 1)) + f[k]
  <2>1. PICK S : S = 0 .. (k - 1)
    OBVIOUS
  <2>2. 0 .. k = S \cup {k} /\ k \notin S /\ f[k] \in Int /\ \A i \in S : f[i] \in Int
    BY SMTT(40), <2>1
  <2>3. IsFiniteSet(S) /\ SumFunctionOnSet(f, S) \in Int
    BY <1>2, <2>1
  <2>4. IsFiniteSet(S \cup {k})
    BY <2>3, FS_AddElement
  <2>5. SumFunctionOnSet(f, S \cup {k}) = SumFunctionOnSet(f, S) + f[k]
    BY <2>2, <2>3, SommeAvec
  <2>6. SumFunctionOnSet(f, 0 .. k) = SumFunctionOnSet(f, 0 .. (k - 1)) + f[k]
    BY <2>1, <2>2, <2>5
  <2>7. SumFunctionOnSet(f, 0 .. k) \in Int
    BY <1>2, <2>2, <2>6
  <2>. QED
    BY <2>2, <2>4, <2>6, <2>7
<1>3. 0 .. (0 - 1) = {}
  OBVIOUS
<1>4. IsFiniteSet(0 .. 0) /\ SumFunctionOnSet(f, 0 .. 0) = f[0]
  <2>1. 0 \in 0 .. 5 /\ SumFunctionOnSet(f, 0 .. (0 - 1)) \in Int /\ IsFiniteSet(0 .. (0 - 1))
    BY <1>1, <1>3
  <2>2. SumFunctionOnSet(f, 0 .. 0) = 0 + f[0] /\ IsFiniteSet(0 .. 0)
    BY <1>1, <1>2, <1>3, <2>1
  <2>. QED
    BY <2>2
<1>5. IsFiniteSet(0 .. 1) /\ SumFunctionOnSet(f, 0 .. 1) = f[0] + f[1]
  <2>1. 1 \in 0 .. 5 /\ 1 - 1 = 0 /\ f[0] \in Int
    OBVIOUS
  <2>. QED
    BY <1>2, <1>4, <2>1
<1>6. IsFiniteSet(0 .. 2) /\ SumFunctionOnSet(f, 0 .. 2) = f[0] + f[1] + f[2]
  <2>1. 2 \in 0 .. 5 /\ 2 - 1 = 1 /\ f[0] + f[1] \in Int
    OBVIOUS
  <2>. QED
    BY <1>2, <1>5, <2>1
<1>7. IsFiniteSet(0 .. 3) /\ SumFunctionOnSet(f, 0 .. 3) = f[0] + f[1] + f[2] + f[3]
  <2>1. 3 \in 0 .. 5 /\ 3 - 1 = 2 /\ f[0] + f[1] + f[2] \in Int
    OBVIOUS
  <2>. QED
    BY <1>2, <1>6, <2>1
<1>8. IsFiniteSet(0 .. 4) /\ SumFunctionOnSet(f, 0 .. 4) = f[0] + f[1] + f[2] + f[3] + f[4]
  <2>1. 4 \in 0 .. 5 /\ 4 - 1 = 3 /\ f[0] + f[1] + f[2] + f[3] \in Int
    OBVIOUS
  <2>. QED
    BY <1>2, <1>7, <2>1
<1>9. 5 \in 0 .. 5 /\ 5 - 1 = 4 /\ f[0] + f[1] + f[2] + f[3] + f[4] \in Int
  OBVIOUS
<1>. QED
  BY <1>2, <1>8, <1>9

(* Up to the 28th the blocks of the calendar are the days of the six months. *)
LEMMA TotalDit ==
  ASSUME NEW n \in Nat, Mois(n) >= 11, JourDuMois(n) <= 28
  PROVE  TotalJours(n) = n - Debut(Mois(n) - 5) + 1
<1>. DEFINE m == Mois(n)
            j == JourDuMois(n)
            f == [i \in SixMois |-> JoursOuvres(n, Mois(DecalerMois(n, -i)))]
<1>1. m \in Nat /\ m >= 11 /\ j \in 1 .. 28 /\ n = Debut(m) + j - 1 /\ Longueur(m) \in 28 .. 31
  <2>1. m \in Nat /\ Longueur(m) \in 28 .. 31
    BY MoisDit, LongueurDit
  <2>2. j \in 1 .. Longueur(m) /\ j <= 28 /\ n = Debut(m) + j - 1
    BY JourDit
  <2>. HIDE DEF m, j
  <2>3. j \in 1 .. 28
    BY <2>1, <2>2
  <2>. QED
    BY <2>1, <2>2, <2>3 DEF m
<1>2. ASSUME NEW i \in 0 .. 5
      PROVE  /\ m - i \in Nat /\ Longueur(m - i) \in 28 .. 31
             /\ f[i] = IF i = 0 THEN j ELSE Longueur(m - i)
  <2>1. /\ m - i \in Nat
        /\ Mois(DecalerMois(n, -i)) = IF j <= Longueur(m - i) THEN m - i ELSE m - i + 1
    BY MoisDeLaSerie
  <2>2. Longueur(m - i) \in 28 .. 31
    BY <2>1, LongueurDit
  <2>3. Mois(DecalerMois(n, -i)) = m - i
    BY <1>1, <2>1, <2>2
  <2>4. f[i] = JoursOuvres(n, m - i)
    BY <2>3 DEF SixMois
  <2>5. m - i = m <=> i = 0
    BY <1>1
  <2>. HIDE DEF f
  <2>. QED
    BY <2>1, <2>2, <2>4, <2>5 DEF JoursOuvres
<1>3. TotalJours(n) = SumFunctionOnSet(f, 0 .. 5)
  BY DEF TotalJours, SixMois
<1>. HIDE DEF f, m, j
<1>4. \A i \in 0 .. 5 : f[i] \in Int
  BY <1>1, <1>2
<1>5. TotalJours(n) = f[0] + f[1] + f[2] + f[3] + f[4] + f[5]
  BY <1>3, <1>4, SommeDeSix
<1>6. /\ f[0] = j /\ f[1] = Longueur(m - 1) /\ f[2] = Longueur(m - 2) /\ f[3] = Longueur(m - 3)
      /\ f[4] = Longueur(m - 4) /\ f[5] = Longueur(m - 5)
  BY <1>2
<1>7. ASSUME NEW i \in 1 .. 5
      PROVE  /\ Debut(m - i) \in Nat /\ Debut(m - (i - 1)) = Debut(m - i) + Longueur(m - i)
             /\ Longueur(m - i) \in Nat
  <2>1. m - i \in Nat /\ m - i + 1 = m - (i - 1) /\ Longueur(m - i) \in 28 .. 31
    BY <1>1, <1>2
  <2>. QED
    BY <2>1, DebutSuivant
<1>8. /\ Debut(m - 0) = Debut(m - 1) + Longueur(m - 1)
      /\ Debut(m - 1) = Debut(m - 2) + Longueur(m - 2)
      /\ Debut(m - 2) = Debut(m - 3) + Longueur(m - 3)
      /\ Debut(m - 3) = Debut(m - 4) + Longueur(m - 4)
      /\ Debut(m - 4) = Debut(m - 5) + Longueur(m - 5)
  <2>1. 1 - 1 = 0 /\ 2 - 1 = 1 /\ 3 - 1 = 2 /\ 4 - 1 = 3 /\ 5 - 1 = 4
    OBVIOUS
  <2>2. 1 \in 1 .. 5 /\ 2 \in 1 .. 5 /\ 3 \in 1 .. 5 /\ 4 \in 1 .. 5 /\ 5 \in 1 .. 5
    OBVIOUS
  <2>. QED
    BY <1>7, <2>1, <2>2
<1>9. m - 0 = m
  BY <1>1
<1>10. /\ Debut(m - 5) \in Nat /\ Longueur(m - 1) \in Nat /\ Longueur(m - 2) \in Nat
       /\ Longueur(m - 3) \in Nat /\ Longueur(m - 4) \in Nat /\ Longueur(m - 5) \in Nat
  BY <1>7
<1>11. TotalJours(n) = n - Debut(m - 5) + 1
  BY <1>1, <1>5, <1>6, <1>8, <1>9, <1>10
<1>. QED
  BY <1>11 DEF m

(* The next contribution. *)
LEMMA ProchaineDit ==
  \A n \in Nat, f \in Frequence, fixe \in 1 .. 31 :
      LET v == IF fixe > JourDuMois(n) THEN Mois(n) ELSE Mois(n) + 1 IN
         /\ ProchaineDate(n, f, fixe) \in n + 1 .. n + 31
         /\ f = "DATE_FIXE" /\ fixe <= Longueur(v) =>
              JourDuMois(ProchaineDate(n, f, fixe)) = fixe /\ Mois(ProchaineDate(n, f, fixe)) = v
<1>. SUFFICES ASSUME NEW n \in Nat, NEW f \in Frequence, NEW fixe \in 1 .. 31
     PROVE  LET v == IF fixe > JourDuMois(n) THEN Mois(n) ELSE Mois(n) + 1 IN
         /\ ProchaineDate(n, f, fixe) \in n + 1 .. n + 31
         /\ f = "DATE_FIXE" /\ fixe <= Longueur(v) =>
              JourDuMois(ProchaineDate(n, f, fixe)) = fixe /\ Mois(ProchaineDate(n, f, fixe)) = v
  OBVIOUS
<1>0. PICK v \in Nat : v = IF fixe > JourDuMois(n) THEN Mois(n) ELSE Mois(n) + 1
  BY MoisDit
<1>. SUFFICES
         /\ ProchaineDate(n, f, fixe) \in n + 1 .. n + 31
         /\ f = "DATE_FIXE" /\ fixe <= Longueur(v) =>
              JourDuMois(ProchaineDate(n, f, fixe)) = fixe /\ Mois(ProchaineDate(n, f, fixe)) = v
  BY <1>0
<1>. DEFINE m == Mois(n)
            j == JourDuMois(n)
            d == ProchaineDate(n, f, fixe)
<1>1. /\ m \in Nat /\ j \in 1 .. Longueur(m) /\ n = Debut(m) + j - 1 /\ Longueur(m) \in 28 .. 31
      /\ v \in Nat
  BY MoisDit, JourDit, LongueurDit
<1>2. Debut(m) \in Nat /\ Debut(m + 1) = Debut(m) + Longueur(m)
  BY <1>1, DebutSuivant
<1>3. CASE f = "JOURNALIER"
  BY <1>3 DEF ProchaineDate
<1>4. CASE f = "HEBDOMADAIRE"
  BY <1>4 DEF ProchaineDate
<1>5. CASE f = "MENSUEL"
  <2>1. d = DecalerMois(n, 1)
    BY <1>5 DEF ProchaineDate
  <2>2. d \in Nat /\ d - n \in 28 .. 31
    BY <2>1, UnMoisDePlus
  <2>. HIDE DEF d
  <2>3. d \in n + 1 .. n + 31
    BY <2>2
  <2>. QED
    BY <1>5, <2>3 DEF d
<1>6. CASE f = "DATE_FIXE"
  <2>1. d = IF Debut(m) + fixe - 1 > n THEN Debut(m) + fixe - 1 ELSE Debut(m + 1) + fixe - 1
    BY <1>6 DEF ProchaineDate
  <2>. HIDE DEF m, j, d
  <2>2. d = Debut(v) + fixe - 1 /\ d \in n + 1 .. n + 31
    <3>1. CASE fixe > j
      BY <1>0, <1>1, <1>2, <2>1, <3>1 DEF m, j
    <3>2. CASE ~(fixe > j)
      <4>1. v = m + 1
        BY <1>0, <3>2 DEF m, j
      <4>. QED
        BY <1>1, <1>2, <2>1, <3>2, <4>1
    <3>. QED
      BY <3>1, <3>2
  <2>3. ASSUME fixe <= Longueur(v) PROVE JourDuMois(d) = fixe /\ Mois(d) = v
    <3>1. Debut(v) \in Nat /\ Debut(v + 1) = Debut(v) + Longueur(v) /\ Longueur(v) \in 28 .. 31
      BY <1>1, DebutSuivant, LongueurDit
    <3>2. d \in Nat /\ Debut(v) <= d /\ d < Debut(v + 1)
      BY <2>2, <2>3, <3>1
    <3>3. Mois(d) = v
      BY <1>1, <3>2, MoisEst
    <3>4. JourDuMois(d) = d - Debut(v) + 1
      BY <3>3 DEF JourDuMois
    <3>. QED
      BY <2>2, <3>1, <3>3, <3>4
  <2>. QED
    BY <1>6, <2>2, <2>3 DEF d
<1>. QED
  BY <1>3, <1>4, <1>5, <1>6 DEF Frequence

(* The announced pay is next month when that month has today's number.     *)
LEMMA PaieDit ==
  ASSUME NEW n \in Nat
  PROVE  JourDuMois(n) <= Longueur(Mois(n) + 1) <=> Mois(ProchainePaie(n)) = Mois(n) + 1
<1>. DEFINE p == Mois(DecalerMois(n, 1))
<1>1. Mois(n) \in Nat /\ Mois(n) + 1 \in Nat /\ Mois(n) + 1 + 1 \in Nat
  BY MoisDit
<1>2. p = IF JourDuMois(n) <= Longueur(Mois(n) + 1) THEN Mois(n) + 1 ELSE Mois(n) + 1 + 1
  BY <1>1, DecalerDit
<1>3. p \in Nat
  BY <1>1, <1>2
<1>4. ProchainePaie(n) = Debut(p) + 5 - 1
  BY DEF ProchainePaie, FixerJour
<1>. HIDE DEF p
<1>5. Debut(p) \in Nat /\ 4 \in 0 .. 27
  BY <1>3, DebutSuivant
<1>6. ProchainePaie(n) = Debut(p) + 4
  BY <1>4, <1>5
<1>7. Mois(ProchainePaie(n)) = p
  BY <1>3, <1>5, <1>6, PremierDuMois
<1>. QED
  BY <1>1, <1>2, <1>7

(* The reports of the months leave no day out and count none twice. *)
LEMMA PeriodesDites ==
  ASSUME NEW n \in Nat, Mois(n) >= 11
  PROVE  {k \in Mois(n) - 5 .. Mois(n) : n \in PeriodeDuMois(k)} = {Mois(n)}
<1>1. Mois(n) \in Nat /\ Debut(Mois(n)) <= n /\ n < Debut(Mois(n) + 1)
  BY MoisDit
<1>2. ASSUME NEW k \in Mois(n) - 5 .. Mois(n)
      PROVE  n \in PeriodeDuMois(k) <=> k = Mois(n)
  <2>1. k \in Nat
    BY <1>1
  <2>2. Debut(k) \in Nat /\ Debut(k + 1) \in Nat
    BY <2>1, DebutSuivant
  <2>3. n \in PeriodeDuMois(k) <=> Debut(k) <= n /\ n < Debut(k + 1)
    BY <2>2 DEF PeriodeDuMois
  <2>. QED
    BY <1>1, <2>1, <2>3, MoisEst
<1>3. Mois(n) \in Mois(n) - 5 .. Mois(n)
  BY <1>1
<1>. QED
  BY <1>2, <1>3

-----------------------------------------------------------------------------
(* The idle slot. *)
LEMMA ReposType == Repos \in Travail /\ Repos.op = "aucune"
  BY DEF Repos, Travail, Cibles, Gens, Operation

(* What starts, goes on and ends: the other slots stay where they are. *)
Reste(p) == pc'[p] = pc[p] /\ loc'[p] = loc[p]
Seul(q)  == \A p \in Requetes \ {q} : Reste(p)

(* A slot starts.                                                          *)
LEMMA Commence ==
  ASSUME Typage, NEW q \in Requetes, NEW e \in Etapes, NEW t \in Travail, Commencer(q, e, t)
  PROVE  /\ pc[q] = "libre" /\ pc'[q] = e /\ loc'[q] = t /\ Seul(q)
         /\ pc' \in [Requetes -> Etapes] /\ loc' \in [Requetes -> Travail]
  BY DEF Commencer, Typage, Seul, Reste

(* A slot ends.                                                            *)
LEMMA Repond ==
  ASSUME Typage, NEW q \in Requetes, Repondre(q)
  PROVE  /\ pc'[q] = "libre" /\ loc'[q] = Repos /\ Seul(q)
         /\ pc' \in [Requetes -> Etapes] /\ loc' \in [Requetes -> Travail]
<1>1. "libre" \in Etapes
  BY DEF Etapes
<1>. QED
  BY <1>1, ReposType DEF Repondre, Vers, Typage, Seul, Reste

(* A slot goes on to its next call.                                        *)
LEMMA Avance ==
  ASSUME Typage, NEW q \in Requetes, NEW e \in Etapes, Vers(q, e), UNCHANGED loc
  PROVE  /\ pc'[q] = e /\ loc'[q] = loc[q] /\ Seul(q)
         /\ pc' \in [Requetes -> Etapes] /\ loc' \in [Requetes -> Travail]
  BY DEF Vers, Typage, Seul, Reste

(* What the request at each step is, and at which desk. *)
LEMMA OperationsDites ==
  /\ Operations("libre") = {"aucune"} /\ Operations("creerDocument") = {"depot"}
  /\ Operations("deciderDocument") = {"document"} /\ Operations("creerLitige") = {"ouverture"}
  /\ Operations("ecrireLitige") = {"litige"} /\ Operations("effacerTontine") = {"tontine"}
  /\ Operations("lireCredit") = {"fermeture"} /\ Operations("fermerCompte") = {"fermeture"}
  /\ Operations("bannir") = {"suppression"} /\ Operations("effacer") = {"suppression"}
  /\ Operations("sommerCotisations") = {"controle"} /\ Operations("sommerRetraits") = {"controle"}
  /\ Operations("sommerDistributions") = {"controle"} /\ Operations("comparer") = {"controle"}
  /\ Operations("creerAlerte") = {"controle"} /\ Operations("ecrireAlerte") = {"alerte"}
  /\ Operations("lireCollecteur") = {"reassignation"}
  /\ Operations("lireSuperviseur") = {"affectation"}
  /\ Operations("lier") = {"reassignation", "affectation", "lien"}
  /\ Operations("pointer") = {"visite"} /\ Operations("listerVisites") = {"tournee"}
  /\ Operations("afficher") = {"tournee"} /\ Operations("debiter") = {"retrait"}
  /\ Operations("creerFacturation") = {"statut"} /\ Operations("passerPro") = {"upgrade"}
  /\ Operations("prelever") = {"facturation"} /\ Operations("activer") = {"activation"}
  /\ Operations("modifier") = {"modification"} /\ Operations("dissoudre") = {"dissolution"}
  BY DEF Operations, EtapesSommes

(* The desk of every step.                                                 *)
LEMMA BureauxDits ==
  /\ Bureaux("libre") = Sujets
  /\ Bureaux("creerDocument") = {"kyc"} /\ Bureaux("deciderDocument") = {"kyc"}
  /\ Bureaux("creerLitige") = {"litige"} /\ Bureaux("ecrireLitige") = {"litige"}
  /\ Bureaux("effacerTontine") = {"compte"} /\ Bureaux("lireCredit") = {"compte"}
  /\ Bureaux("fermerCompte") = {"compte"} /\ Bureaux("bannir") = {"compte"}
  /\ Bureaux("effacer") = {"compte"}
  /\ Bureaux("sommerCotisations") = {"surveillance"} /\ Bureaux("sommerRetraits") = {"surveillance"}
  /\ Bureaux("sommerDistributions") = {"surveillance"} /\ Bureaux("comparer") = {"surveillance"}
  /\ Bureaux("creerAlerte") = {"surveillance"} /\ Bureaux("ecrireAlerte") = {"surveillance"}
  /\ Bureaux("lireCollecteur") = {"liens", "tournee"} /\ Bureaux("lireSuperviseur") = {"liens"}
  /\ Bureaux("lier") = {"liens", "tournee"}
  /\ Bureaux("pointer") = {"tournee"} /\ Bureaux("listerVisites") = {"tournee"}
  /\ Bureaux("afficher") = {"tournee"} /\ Bureaux("debiter") = {"commissions"}
  /\ Bureaux("creerFacturation") = {"abonnement"} /\ Bureaux("passerPro") = {"abonnement"}
  /\ Bureaux("prelever") = {"abonnement"} /\ Bureaux("activer") = {"echeance"}
  /\ Bureaux("modifier") = {"echeance"} /\ Bureaux("dissoudre") = {"echeance"}
  BY DEF Bureaux, EtapesKyc, EtapesLitiges, EtapesComptes, EtapesSurveillance, EtapesSommes,
         EtapesLiens, EtapesTournee, EtapesAbonnements, EtapesEcheances

(* All the steps.                                                          *)
LEMMA EtapesDites ==
  Etapes = {"libre", "debiter", "creerDocument", "deciderDocument", "creerLitige", "ecrireLitige",
            "effacerTontine", "lireCredit", "fermerCompte", "bannir", "effacer",
            "sommerCotisations", "sommerRetraits", "sommerDistributions", "comparer",
            "creerAlerte", "ecrireAlerte", "lireCollecteur", "lireSuperviseur", "lier",
            "pointer", "listerVisites", "afficher", "creerFacturation", "passerPro", "prelever",
            "activer", "modifier", "dissoudre"}
  BY DEF Etapes, EtapesKyc, EtapesLitiges, EtapesComptes, EtapesSurveillance, EtapesSommes,
         EtapesLiens, EtapesTournee, EtapesAbonnements, EtapesEcheances

(* The request tells the step. *)
LEMMA EtapeDe ==
  ASSUME Typage, NEW q \in Requetes
  PROVE  /\ loc[q].op = "aucune" <=> pc[q] = "libre"
         /\ loc[q].op = "depot" <=> pc[q] = "creerDocument"
         /\ loc[q].op = "document" <=> pc[q] = "deciderDocument"
         /\ loc[q].op = "ouverture" <=> pc[q] = "creerLitige"
         /\ loc[q].op = "litige" <=> pc[q] = "ecrireLitige"
         /\ loc[q].op = "tontine" <=> pc[q] = "effacerTontine"
         /\ loc[q].op = "fermeture" <=> pc[q] \in {"lireCredit", "fermerCompte"}
         /\ loc[q].op = "controle" <=> pc[q] \in EtapesSommes \cup {"comparer", "creerAlerte"}
         /\ loc[q].op = "tournee" <=> pc[q] \in {"listerVisites", "afficher"}
         /\ loc[q].op = "retrait" <=> pc[q] = "debiter"
         /\ loc[q].op = "facturation" <=> pc[q] = "prelever"
         /\ loc[q].op = "modification" <=> pc[q] = "modifier"
         /\ loc[q].op = "dissolution" <=> pc[q] = "dissoudre"
<1>1. pc[q] \in Etapes /\ loc[q].op \in Operations(pc[q])
  BY DEF Typage, EtapeOK
<1>. QED
  BY <1>1, OperationsDites, EtapesDites DEF EtapesSommes

(* A slot that stays keeps what it holds: tables only grow. *)
Grandit == /\ DOMAIN documents \subseteq DOMAIN documents'
           /\ DOMAIN litiges \subseteq DOMAIN litiges'
           /\ DOMAIN alertes \subseteq DOMAIN alertes'

(* What a slot that stays has read is still there.                         *)
LEMMA EtapeReste ==
  ASSUME NEW p \in Requetes, Reste(p), EtapeOK(p), Grandit, sujet' = sujet
  PROVE  EtapeOK(p)'
<1>1. UneModification(p)' <=> UneModification(p)
  BY DEF Reste, UneModification
<1>. QED
  BY <1>1 DEF EtapeOK, Reste, Grandit, UneModification

(* Ajouter only adds to the courses.                                       *)
LEMMA AjouterDit ==
  ASSUME NEW c \in Course, NEW x, Ajouter(c, x), courses \in SUBSET Course
  PROVE  courses \subseteq courses' /\ courses' \in SUBSET Course /\ (x => c \in courses')
  BY DEF Ajouter

(* The types, when slot q moves. *)
Deplace(q) == /\ Seul(q) /\ pc' \in [Requetes -> Etapes] /\ loc' \in [Requetes -> Travail]

(* The typing after a step of slot q, from what the step does.             *)
LEMMA TypageSuit ==
  ASSUME Typage, NEW q \in Requetes, Deplace(q), EtapeOK(q)', TypeOK', Grandit,
         sujet' = sujet, courses' \in SUBSET Course, ecritures' \in Nat, calme' \in BOOLEAN,
         visites' # {} => sujet = "tournee",
         (\E c \in Collecteurs : qr'[c] = "valide") => sujet = "liens", jour' = jour
  PROVE  Typage'
<1>1. ASSUME NEW p \in Requetes PROVE EtapeOK(p)'
  <2>1. CASE p = q
    BY <2>1
  <2>2. CASE p # q
    BY <2>2, EtapeReste DEF Deplace, Seul, Typage
  <2>. QED
    BY <2>1, <2>2
<1>2. (jour >= Debut(PremierMois))'
  BY DEF Typage
<1>. QED
  BY <1>1, <1>2 DEF Typage, Deplace

(* The types, when no slot moves. *)
LEMMA TypageReste ==
  ASSUME Typage, UNCHANGED procVars, TypeOK', Grandit,
         sujet' = sujet, courses' \in SUBSET Course, ecritures' \in Nat, calme' \in BOOLEAN,
         visites' # {} => sujet = "tournee",
         (\E c \in Collecteurs : qr'[c] = "valide") => sujet = "liens",
         jour' >= Debut(PremierMois)
  PROVE  Typage'
<1>1. ASSUME NEW p \in Requetes PROVE EtapeOK(p)'
  <2>1. Reste(p)
    BY DEF procVars, Reste
  <2>. QED
    BY <2>1, EtapeReste DEF Typage
<1>2. pc' \in [Requetes -> Etapes] /\ loc' \in [Requetes -> Travail]
  BY DEF procVars, Typage
<1>3. (jour >= Debut(PremierMois))'
  OBVIOUS
<1>. QED
  BY <1>1, <1>2, <1>3 DEF Typage

(* What a step at another desk leaves alone. *)
Hors(d) ==
    /\ d # "kyc" => UNCHANGED <<documents, kycVerifie>>
    /\ d # "litige" => UNCHANGED litiges
    /\ d # "compte" => UNCHANGED compte
    /\ d # "surveillance" => UNCHANGED <<livre, alertes, calme>>
    /\ d # "collecteurs" => UNCHANGED <<equipe, qr, visites, commissions>>
    /\ d # "abonnement" => UNCHANGED facturations
    /\ d # "echeance" => UNCHANGED echeance
    /\ UNCHANGED <<sujet, jour>>
    /\ courses \subseteq courses' /\ courses' \in SUBSET Course
    /\ ecritures' \in Nat

(* What the typing needs of a step at desk d.                              *)
LEMMA HorsType ==
  ASSUME Typage, NEW d, Hors(d)
  PROVE  /\ d # "kyc" => DOMAIN documents \subseteq DOMAIN documents'
         /\ d # "litige" => DOMAIN litiges \subseteq DOMAIN litiges'
         /\ d # "surveillance" => DOMAIN alertes \subseteq DOMAIN alertes' /\ calme' \in BOOLEAN
         /\ d # "collecteurs" =>
              /\ visites' # {} => sujet = "tournee"
              /\ (\E c \in Collecteurs : qr'[c] = "valide") => sujet = "liens"
         /\ sujet' = sujet /\ jour' = jour /\ ecritures' \in Nat /\ courses' \in SUBSET Course
  BY DEF Hors, Typage

-----------------------------------------------------------------------------
(* KYC documents. *)

(* A row is appended.                                                      *)
LEMMA SequenceSuit ==
  ASSUME NEW S, NEW s \in Seq(S), NEW x \in S
  PROVE  /\ Append(s, x) \in Seq(S) /\ DOMAIN s \subseteq DOMAIN Append(s, x)
         /\ DOMAIN Append(s, x) = DOMAIN s \cup {Len(s) + 1} /\ Len(s) + 1 \notin DOMAIN s
         /\ Append(s, x)[Len(s) + 1] = x
         /\ \A i \in DOMAIN s : Append(s, x)[i] = s[i]
  OBVIOUS

(* A row is written.                                                       *)
LEMMA SequenceEcrite ==
  ASSUME NEW S, NEW s \in Seq(S), NEW i \in DOMAIN s, NEW x \in S
  PROVE  /\ [s EXCEPT ![i] = x] \in Seq(S) /\ DOMAIN [s EXCEPT ![i] = x] = DOMAIN s
         /\ [s EXCEPT ![i] = x][i] = x
         /\ \A j \in DOMAIN s : j # i => [s EXCEPT ![i] = x][j] = s[j]
  OBVIOUS

(* The KYC desk leaves the tables of the others alone.                     *)
LEMMA HorsKyc ==
  ASSUME Typage, NEW q \in Requetes, NextKyc(q)
  PROVE  Hors("kyc")
<1>1. UNCHANGED horsKyc
  BY DEF NextKyc, Soumettre, CreerDocument, LireDocument, Decider
<1>2. courses \subseteq courses' /\ courses' \in SUBSET Course
  <2>1. courses \in SUBSET Course /\ "depot" \in Course /\ "document" \in Course
    BY DEF Typage, Course
  <2>2. CASE Soumettre(q)
    BY <2>1, <2>2 DEF Soumettre, Ajouter
  <2>3. CASE LireDocument(q)
    BY <2>1, <2>3 DEF LireDocument, Ajouter
  <2>4. CASE CreerDocument(q) \/ Decider(q)
    BY <2>1, <2>4 DEF CreerDocument, Decider
  <2>. QED
    BY <2>2, <2>3, <2>4 DEF NextKyc
<1>. QED
  BY <1>1, <1>2 DEF horsKyc, terrain, dates, Hors, Typage

(* A client is about to deposit a document of a type he has none of.       *)
LEMMA SoumettreDit ==
  ASSUME Typage, NEW q \in Requetes, Soumettre(q)
  PROVE  /\ Deplace(q) /\ documents' = documents /\ kycVerifie' = kycVerifie
         /\ pc[q] = "libre" /\ pc'[q] = "creerDocument" /\ sujet = "kyc"
         /\ loc'[q].op = "depot" /\ loc'[q].cible \in Types
         /\ ~DocumentExistant(loc'[q].cible)
         /\ (\E p \in Requetes : pc[p] = "creerDocument" /\ loc[p].cible = loc'[q].cible)
              => "depot" \in courses'
<1>1. PICK t \in Types :
        /\ ~DocumentExistant(t)
        /\ Commencer(q, "creerDocument", [Repos EXCEPT !.op = "depot", !.cible = t])
        /\ Ajouter("depot", \E p \in Requetes : loc[p].op = "depot" /\ loc[p].cible = t)
  BY DEF Soumettre
<1>2. PICK w : w = [Repos EXCEPT !.op = "depot", !.cible = t]
  OBVIOUS
<1>3. w \in Travail /\ w.op = "depot" /\ w.cible = t
  BY <1>2, ReposType DEF Travail, Operation, Cibles
<1>4. /\ pc[q] = "libre" /\ pc'[q] = "creerDocument" /\ loc'[q] = w /\ Deplace(q)
  BY <1>1, <1>2, <1>3, Commence, EtapesDites DEF Deplace
<1>5. (\E p \in Requetes : pc[p] = "creerDocument" /\ loc[p].cible = t) => "depot" \in courses'
  BY <1>1, EtapeDe DEF Ajouter
<1>. QED
  BY <1>1, <1>3, <1>4, <1>5 DEF Soumettre

(* The document is created.                                                *)
LEMMA CreerDocumentDit ==
  ASSUME Typage, NEW q \in Requetes, CreerDocument(q)
  PROVE  /\ Deplace(q) /\ kycVerifie' = kycVerifie /\ courses' = courses
         /\ pc[q] = "creerDocument" /\ pc'[q] = "libre" /\ loc'[q] = Repos
         /\ loc[q].cible \in Types
         /\ documents' = Append(documents, [type |-> loc[q].cible, statut |-> "EN_ATTENTE"])
  BY Repond DEF CreerDocument, Deplace, Typage, EtapeOK

(* An administrator is about to decide on a pending document.              *)
LEMMA LireDocumentDit ==
  ASSUME Typage, NEW q \in Requetes, LireDocument(q)
  PROVE  /\ Deplace(q) /\ documents' = documents /\ kycVerifie' = kycVerifie
         /\ pc[q] = "libre" /\ pc'[q] = "deciderDocument" /\ sujet = "kyc"
         /\ loc'[q].op = "document" /\ loc'[q].cible \in {"VALIDE", "REJETE"}
         /\ loc'[q].n \in DOMAIN documents /\ documents[loc'[q].n].statut = "EN_ATTENTE"
         /\ (\E p \in Requetes : pc[p] = "deciderDocument" /\ loc[p].n = loc'[q].n)
              => "document" \in courses'
<1>1. PICK d \in DOMAIN documents, decision \in {"VALIDE", "REJETE"} :
        /\ documents[d].statut = "EN_ATTENTE"
        /\ Commencer(q, "deciderDocument",
                     [Repos EXCEPT !.op = "document", !.n = d, !.cible = decision])
        /\ Ajouter("document", Croise(q, "document", d))
  BY DEF LireDocument
<1>2. PICK w : w = [Repos EXCEPT !.op = "document", !.n = d, !.cible = decision]
  OBVIOUS
<1>3. d \in Nat
  BY DEF Typage, TypeOK
<1>4. w \in Travail /\ w.op = "document" /\ w.cible = decision /\ w.n = d
  BY <1>2, <1>3, ReposType DEF Travail, Operation, Cibles
<1>5. /\ pc[q] = "libre" /\ pc'[q] = "deciderDocument" /\ loc'[q] = w /\ Deplace(q)
  BY <1>1, <1>2, <1>4, Commence, EtapesDites DEF Deplace
<1>6. (\E p \in Requetes : pc[p] = "deciderDocument" /\ loc[p].n = d) => "document" \in courses'
  BY <1>1, <1>5, EtapeDe DEF Ajouter, Croise
<1>. QED
  BY <1>1, <1>4, <1>5, <1>6 DEF LireDocument

(* The decision is written.                                                *)
LEMMA DeciderDit ==
  ASSUME Typage, NEW q \in Requetes, Decider(q)
  PROVE  /\ Deplace(q) /\ courses' = courses
         /\ pc[q] = "deciderDocument" /\ pc'[q] = "libre" /\ loc'[q] = Repos
         /\ loc[q].n \in DOMAIN documents /\ loc[q].cible \in {"VALIDE", "REJETE"}
         /\ documents' = [documents EXCEPT ![loc[q].n].statut = loc[q].cible]
         /\ kycVerifie' = (kycVerifie \/ loc[q].cible = "VALIDE")
<1>1. loc[q].n \in DOMAIN documents /\ loc[q].cible \in {"VALIDE", "REJETE"}
  BY DEF Decider, Typage, EtapeOK
<1>. QED
  BY <1>1, Repond DEF Decider, Deplace

(* Its rows after a decision. *)
LEMMA DocumentDecide ==
  ASSUME Typage, NEW d \in DOMAIN documents, NEW s \in {"VALIDE", "REJETE"},
         documents' = [documents EXCEPT ![d].statut = s]
  PROVE  /\ documents' \in Seq(DocumentKYC) /\ DOMAIN documents' = DOMAIN documents
         /\ documents'[d].statut = s /\ documents'[d].type = documents[d].type
         /\ \A e \in DOMAIN documents : e # d => documents'[e] = documents[e]
<1>1. documents \in Seq(DocumentKYC) /\ documents[d] \in DocumentKYC
  BY DEF Typage, TypeOK
<1>2. PICK x : x = [documents[d] EXCEPT !.statut = s]
  OBVIOUS
<1>3. x \in DocumentKYC /\ x.statut = s /\ x.type = documents[d].type
  BY <1>1, <1>2 DEF DocumentKYC, StatutKYC
<1>4. documents' = [documents EXCEPT ![d] = x]
  BY <1>2
<1>. QED
  BY <1>1, <1>3, <1>4, SequenceEcrite

(* The KYC desk keeps the types.                                           *)
LEMMA TypageKyc ==
  ASSUME Typage, NEW q \in Requetes, NextKyc(q)
  PROVE  Typage'
<1>1. Hors("kyc")
  BY HorsKyc
<1>2. /\ litiges' \in Seq(Litige) /\ compte' \in Compte /\ livre' \in Livre
      /\ alertes' \in Seq({"OUVERTE", "RESOLUE"})
      /\ equipe' \in [Personnes -> Membre] /\ qr' \in [Collecteurs -> QRCode]
      /\ visites' \subseteq Collecteurs \X Clients /\ commissions' \in [Collecteurs -> Gains]
      /\ facturations' \in [Collecteurs -> Facturation] /\ echeance' \in Echeance /\ jour' \in Nat
  BY <1>1 DEF Hors, Typage, TypeOK
<1>3. ASSUME documents' \in Seq(DocumentKYC), kycVerifie' \in BOOLEAN, Deplace(q), EtapeOK(q)',
             DOMAIN documents \subseteq DOMAIN documents'
      PROVE  Typage'
  <2>1. TypeOK'
    BY <1>2, <1>3 DEF TypeOK
  <2>2. Grandit
    BY <1>1, <1>3, HorsType DEF Grandit
  <2>. QED
    BY <1>1, <1>3, <2>1, <2>2, HorsType, TypageSuit
<1>4. documents \in Seq(DocumentKYC) /\ kycVerifie \in BOOLEAN /\ sujet' = sujet /\ sujet \in Sujets
  BY <1>1 DEF Typage, TypeOK, Hors
<1>5. ASSUME pc'[q] = "libre", loc'[q] = Repos PROVE EtapeOK(q)'
  BY <1>4, <1>5, ReposType, OperationsDites, BureauxDits DEF EtapeOK
<1>6. CASE Soumettre(q)
  <2>1. EtapeOK(q)'
    BY <1>4, <1>6, SoumettreDit, OperationsDites, BureauxDits DEF EtapeOK
  <2>. QED
    BY <1>3, <1>4, <1>6, <2>1, SoumettreDit
<1>7. CASE CreerDocument(q)
  <2>1. [type |-> loc[q].cible, statut |-> "EN_ATTENTE"] \in DocumentKYC
    BY <1>7, CreerDocumentDit DEF DocumentKYC, StatutKYC
  <2>2. documents' \in Seq(DocumentKYC) /\ DOMAIN documents \subseteq DOMAIN documents'
    BY <1>4, <1>7, <2>1, CreerDocumentDit, SequenceSuit
  <2>. QED
    BY <1>3, <1>4, <1>5, <1>7, <2>2, CreerDocumentDit
<1>8. CASE LireDocument(q)
  <2>1. EtapeOK(q)'
    BY <1>4, <1>8, LireDocumentDit, OperationsDites, BureauxDits DEF EtapeOK
  <2>. QED
    BY <1>3, <1>4, <1>8, <2>1, LireDocumentDit
<1>9. CASE Decider(q)
  <2>1. documents' \in Seq(DocumentKYC) /\ DOMAIN documents \subseteq DOMAIN documents'
    BY <1>9, DeciderDit, DocumentDecide
  <2>2. kycVerifie' \in BOOLEAN
    BY <1>4, <1>9, DeciderDit
  <2>. QED
    BY <1>3, <1>5, <1>9, <2>1, <2>2, DeciderDit
<1>. QED
  BY <1>6, <1>7, <1>8, <1>9 DEF NextKyc

(* At a desk nobody is at, and when the server died, only the tables count. *)
LEMMA KycTables ==
  ASSUME KycInv, UNCHANGED <<documents, kycVerifie>>, courses \subseteq courses',
         \A p \in Requetes : pc'[p] \notin EtapesKyc
  PROVE  KycInv'
<1>1. KycFonde'
  BY DEF KycInv, KycFonde, EnCours
<1>2. \A p \in Requetes : pc'[p] # "creerDocument" /\ pc'[p] # "deciderDocument"
  BY DEF EtapesKyc
<1>. QED
  BY <1>1, <1>2 DEF KycInv, Decident, Deposent

(* The KYC desk keeps its invariant: whoever decides or deposits alone     *)
(* finds what he had read.                                                 *)
LEMMA KycInduit ==
  ASSUME Typage, Typage', KycInv, NEW q \in Requetes, NextKyc(q)
  PROVE  KycInv'
<1>0. courses \subseteq courses' /\ documents \in Seq(DocumentKYC) /\ documents' \in Seq(DocumentKYC)
  BY HorsKyc DEF Hors, Typage, TypeOK
<1>1. CASE Soumettre(q)
  <2>1. KycFonde'
    BY <1>0, <1>1, SoumettreDit DEF KycInv, KycFonde, EnCours
  <2>2. \A p \in Requetes \ {q} : pc'[p] = pc[p] /\ loc'[p] = loc[p]
    BY <1>1, SoumettreDit DEF Deplace, Seul, Reste
  <2>3. ASSUME "document" \notin courses'
        PROVE  /\ \A p, r \in Requetes : Decident(p, r)' => p = r
               /\ \A p \in Requetes : pc'[p] = "deciderDocument" =>
                    documents'[loc'[p].n].statut = "EN_ATTENTE"
    BY <1>0, <1>1, <2>2, <2>3, SoumettreDit DEF KycInv, Decident
  <2>4. ASSUME "document" \notin courses', "depot" \notin courses'
        PROVE  /\ \A p, r \in Requetes : Deposent(p, r)' => p = r
               /\ \A p \in Requetes : pc'[p] = "creerDocument" => ~DocumentExistant(loc[p].cible)'
    <3>1. \A t : DocumentExistant(t)' <=> DocumentExistant(t)
      BY <1>1, SoumettreDit DEF DocumentExistant, EnCours
    <3>2. \A p \in Requetes : pc[p] = "creerDocument" => loc[p].cible # loc'[q].cible
      BY <1>1, <2>4, SoumettreDit
    <3>3. \A p, r \in Requetes : Deposent(p, r)' => p = r
      BY <1>0, <1>1, <2>2, <2>4, <3>2, SoumettreDit DEF KycInv, Deposent
    <3>4. \A p \in Requetes : pc'[p] = "creerDocument" => ~DocumentExistant(loc'[p].cible)
      BY <1>0, <1>1, <2>2, <2>4, SoumettreDit DEF KycInv
    <3>. QED
      BY <3>1, <3>3, <3>4 DEF DocumentExistant, EnCours
  <2>. QED
    BY <2>1, <2>3, <2>4 DEF KycInv
<1>2. CASE CreerDocument(q)
  <2>. DEFINE k == Len(documents) + 1
              x == [type |-> loc[q].cible, statut |-> "EN_ATTENTE"]
  <2>1. /\ x \in DocumentKYC /\ x.statut = "EN_ATTENTE" /\ x.type = loc[q].cible
    BY <1>2, CreerDocumentDit DEF DocumentKYC, StatutKYC
  <2>2. /\ DOMAIN documents' = DOMAIN documents \cup {k} /\ k \notin DOMAIN documents
        /\ documents'[k] = x /\ \A i \in DOMAIN documents : documents'[i] = documents[i]
    <3>1. documents' = Append(documents, x)
      BY <1>2, CreerDocumentDit
    <3>. HIDE DEF x
    <3>. QED
      BY <1>0, <2>1, <3>1, SequenceSuit
  <2>3. /\ pc[q] = "creerDocument" /\ pc'[q] = "libre" /\ kycVerifie' = kycVerifie
        /\ courses' = courses
        /\ \A p \in Requetes \ {q} : pc'[p] = pc[p] /\ loc'[p] = loc[p]
    BY <1>2, CreerDocumentDit DEF Deplace, Seul, Reste
  <2>. HIDE DEF k, x
  <2>4. \A d \in DOMAIN documents' : documents'[d].statut = "VALIDE" =>
          d \in DOMAIN documents /\ documents[d].statut = "VALIDE"
    BY <2>1, <2>2
  <2>5. \A d \in DOMAIN documents : documents[d].statut = "VALIDE" =>
          d \in DOMAIN documents' /\ documents'[d].statut = "VALIDE"
    BY <2>2
  <2>6. ASSUME "document" \notin courses', "depot" \notin courses'
        PROVE  /\ \A d, e \in DOMAIN documents' :
                    d # e /\ EnCours(d)' /\ EnCours(e)' => documents'[d].type # documents'[e].type
               /\ \A p, r \in Requetes : Deposent(p, r)' => p = r
               /\ \A p \in Requetes : pc'[p] = "creerDocument" => ~DocumentExistant(loc[p].cible)'
    <3>1. \A d \in DOMAIN documents : EnCours(d) => documents[d].type # loc[q].cible
      BY <2>3, <2>6 DEF KycInv, DocumentExistant
    <3>2. \A d \in DOMAIN documents : EnCours(d)' <=> EnCours(d)
      BY <2>2 DEF EnCours
    <3>3. ASSUME NEW d \in DOMAIN documents', NEW e \in DOMAIN documents', d # e,
                 EnCours(d)', EnCours(e)'
          PROVE  documents'[d].type # documents'[e].type
      BY <2>1, <2>2, <2>3, <2>6, <3>1, <3>2, <3>3 DEF KycInv, KycFonde
    <3>4. \A p, r \in Requetes : Deposent(p, r)' => p = r
      BY <2>3, <2>6 DEF KycInv, Deposent
    <3>5. ASSUME NEW p \in Requetes, pc'[p] = "creerDocument" PROVE ~DocumentExistant(loc[p].cible)'
      <4>1. p # q /\ pc[p] = "creerDocument" /\ loc'[p].cible = loc[p].cible
        BY <2>3, <3>5
      <4>2. loc[p].cible # loc[q].cible /\ ~DocumentExistant(loc[p].cible)
        BY <2>3, <2>6, <4>1 DEF KycInv, Deposent
      <4>3. \A d \in DOMAIN documents' : EnCours(d)' => documents'[d].type # loc[p].cible
        BY <2>1, <2>2, <3>2, <4>2 DEF DocumentExistant
      <4>. QED
        BY <4>1, <4>3 DEF DocumentExistant
    <3>. QED
      BY <3>3, <3>4, <3>5
  <2>7. ASSUME "document" \notin courses'
        PROVE  /\ kycVerifie' => \E d \in DOMAIN documents' : documents'[d].statut = "VALIDE"
               /\ \A p, r \in Requetes : Decident(p, r)' => p = r
               /\ \A p \in Requetes : pc'[p] = "deciderDocument" =>
                    documents'[loc'[p].n].statut = "EN_ATTENTE"
    <3>1. kycVerifie' => \E d \in DOMAIN documents' : documents'[d].statut = "VALIDE"
      BY <2>3, <2>5, <2>7 DEF KycInv, KycFonde
    <3>2. \A p, r \in Requetes : Decident(p, r)' => p = r
      BY <2>3, <2>7 DEF KycInv, Decident
    <3>3. \A p \in Requetes : pc[p] = "deciderDocument" => loc[p].n \in DOMAIN documents
      BY DEF Typage, EtapeOK
    <3>4. \A p \in Requetes : pc'[p] = "deciderDocument" =>
            documents'[loc'[p].n].statut = "EN_ATTENTE"
      BY <2>2, <2>3, <2>7, <3>3 DEF KycInv
    <3>. QED
      BY <3>1, <3>2, <3>4
  <2>8. (\E d \in DOMAIN documents' : documents'[d].statut = "VALIDE") => kycVerifie'
    BY <2>3, <2>4 DEF KycInv, KycFonde
  <2>9. KycFonde'
    BY <2>6, <2>7, <2>8 DEF KycFonde
  <2>. QED
    BY <2>6, <2>7, <2>9 DEF KycInv
<1>3. CASE LireDocument(q)
  <2>1. KycFonde'
    BY <1>0, <1>3, LireDocumentDit DEF KycInv, KycFonde, EnCours
  <2>2. \A p \in Requetes \ {q} : pc'[p] = pc[p] /\ loc'[p] = loc[p]
    BY <1>3, LireDocumentDit DEF Deplace, Seul, Reste
  <2>3. ASSUME "document" \notin courses'
        PROVE  /\ \A p, r \in Requetes : Decident(p, r)' => p = r
               /\ \A p \in Requetes : pc'[p] = "deciderDocument" =>
                    documents'[loc'[p].n].statut = "EN_ATTENTE"
    <3>1. \A p \in Requetes : pc[p] = "deciderDocument" => loc[p].n # loc'[q].n
      BY <1>3, <2>3, LireDocumentDit
    <3>2. \A p, r \in Requetes : Decident(p, r)' => p = r
      BY <1>0, <1>3, <2>2, <2>3, <3>1, LireDocumentDit DEF KycInv, Decident
    <3>3. \A p \in Requetes : pc'[p] = "deciderDocument" =>
                    documents'[loc'[p].n].statut = "EN_ATTENTE"
      BY <1>0, <1>3, <2>2, <2>3, LireDocumentDit DEF KycInv
    <3>. QED
      BY <3>2, <3>3
  <2>4. ASSUME "document" \notin courses', "depot" \notin courses'
        PROVE  /\ \A p, r \in Requetes : Deposent(p, r)' => p = r
               /\ \A p \in Requetes : pc'[p] = "creerDocument" => ~DocumentExistant(loc[p].cible)'
    <3>1. \A t : DocumentExistant(t)' <=> DocumentExistant(t)
      BY <1>3, LireDocumentDit DEF DocumentExistant, EnCours
    <3>3. \A p, r \in Requetes : Deposent(p, r)' => p = r
      BY <1>0, <1>3, <2>2, <2>4, LireDocumentDit DEF KycInv, Deposent
    <3>4. \A p \in Requetes : pc'[p] = "creerDocument" => ~DocumentExistant(loc'[p].cible)
      BY <1>0, <1>3, <2>2, <2>4, LireDocumentDit DEF KycInv
    <3>. QED
      BY <3>1, <3>3, <3>4 DEF DocumentExistant, EnCours
  <2>. QED
    BY <2>1, <2>3, <2>4 DEF KycInv
<1>4. CASE Decider(q)
  <2>. DEFINE n == loc[q].n
              s == loc[q].cible
  <2>1. /\ n \in DOMAIN documents /\ s \in {"VALIDE", "REJETE"}
        /\ documents' = [documents EXCEPT ![n].statut = s]
        /\ kycVerifie' = (kycVerifie \/ s = "VALIDE")
        /\ pc[q] = "deciderDocument" /\ pc'[q] = "libre" /\ courses' = courses
        /\ \A p \in Requetes \ {q} : pc'[p] = pc[p] /\ loc'[p] = loc[p]
    BY <1>4, DeciderDit DEF Deplace, Seul, Reste
  <2>. HIDE DEF n, s
  <2>2. /\ DOMAIN documents' = DOMAIN documents
        /\ documents'[n].statut = s /\ documents'[n].type = documents[n].type
        /\ \A e \in DOMAIN documents : e # n => documents'[e] = documents[e]
    BY <2>1, DocumentDecide
  <2>3. (\E d \in DOMAIN documents' : documents'[d].statut = "VALIDE") => kycVerifie'
    BY <2>1, <2>2 DEF KycInv, KycFonde
  <2>4. ASSUME "document" \notin courses'
        PROVE  /\ kycVerifie' => \E d \in DOMAIN documents' : documents'[d].statut = "VALIDE"
               /\ \A p, r \in Requetes : Decident(p, r)' => p = r
               /\ \A p \in Requetes : pc'[p] = "deciderDocument" =>
                    documents'[loc'[p].n].statut = "EN_ATTENTE"
               /\ documents[n].statut = "EN_ATTENTE"
    <3>1. documents[n].statut = "EN_ATTENTE"
      BY <2>1, <2>4 DEF KycInv, n
    <3>2. kycVerifie' => \E d \in DOMAIN documents' : documents'[d].statut = "VALIDE"
      BY <2>1, <2>2, <2>4, <3>1 DEF KycInv, KycFonde
    <3>3. \A p, r \in Requetes : Decident(p, r)' => p = r
      BY <2>1, <2>4 DEF KycInv, Decident
    <3>4. ASSUME NEW p \in Requetes, pc'[p] = "deciderDocument"
          PROVE  documents'[loc'[p].n].statut = "EN_ATTENTE"
      <4>1. p # q /\ pc[p] = "deciderDocument" /\ loc'[p] = loc[p]
        BY <2>1, <3>4
      <4>2. loc[p].n # n /\ loc[p].n \in DOMAIN documents
        BY <2>1, <2>4, <4>1 DEF KycInv, Decident, n, Typage, EtapeOK
      <4>3. documents[loc[p].n].statut = "EN_ATTENTE"
        BY <2>1, <2>4, <4>1 DEF KycInv
      <4>. QED
        BY <2>2, <4>1, <4>2, <4>3
    <3>. QED
      BY <3>1, <3>2, <3>3, <3>4
  <2>5. ASSUME "document" \notin courses', "depot" \notin courses'
        PROVE  /\ \A d, e \in DOMAIN documents' :
                    d # e /\ EnCours(d)' /\ EnCours(e)' => documents'[d].type # documents'[e].type
               /\ \A p, r \in Requetes : Deposent(p, r)' => p = r
               /\ \A p \in Requetes : pc'[p] = "creerDocument" => ~DocumentExistant(loc[p].cible)'
    <3>1. \A d \in DOMAIN documents : documents'[d].type = documents[d].type /\ (EnCours(d)' => EnCours(d))
      BY <2>2, <2>4, <2>5 DEF EnCours
    <3>2. \A d, e \in DOMAIN documents' :
                    d # e /\ EnCours(d)' /\ EnCours(e)' => documents'[d].type # documents'[e].type
      BY <2>1, <2>2, <2>5, <3>1 DEF KycInv, KycFonde
    <3>3. \A p, r \in Requetes : Deposent(p, r)' => p = r
      BY <2>1, <2>5 DEF KycInv, Deposent
    <3>4. ASSUME NEW p \in Requetes, pc'[p] = "creerDocument" PROVE ~DocumentExistant(loc[p].cible)'
      <4>1. pc[p] = "creerDocument" /\ loc'[p] = loc[p]
        BY <2>1, <3>4
      <4>2. ~DocumentExistant(loc[p].cible)
        BY <2>1, <2>5, <4>1 DEF KycInv
      <4>3. \A d \in DOMAIN documents' : EnCours(d)' => documents'[d].type # loc'[p].cible
        BY <2>2, <3>1, <4>1, <4>2 DEF DocumentExistant
      <4>. QED
        BY <4>3 DEF DocumentExistant
    <3>. QED
      BY <3>2, <3>3, <3>4
  <2>6. KycFonde'
    BY <2>3, <2>4, <2>5 DEF KycFonde
  <2>. QED
    BY <2>4, <2>5, <2>6 DEF KycInv
<1>. QED
  BY <1>1, <1>2, <1>3, <1>4 DEF NextKyc

-----------------------------------------------------------------------------
(* Disputes. *)

(* Ajouter, as an inclusion.                                               *)
LEMMA CoursesSuivent ==
  ASSUME Typage, NEW c \in Course, NEW x, Ajouter(c, x) \/ courses' = courses
  PROVE  courses \subseteq courses' /\ courses' \in SUBSET Course
  BY DEF Typage, Ajouter

(* The desk of disputes leaves the tables of the others alone.             *)
LEMMA HorsLitige ==
  ASSUME Typage, NEW q \in Requetes, NextLitiges(q)
  PROVE  Hors("litige")
<1>1. UNCHANGED horsLitiges
  BY DEF NextLitiges, OuvrirLitige, CreerLitige, LireLitige, EcrireLitige
<1>2. courses \subseteq courses' /\ courses' \in SUBSET Course
  <2>1. courses \in SUBSET Course /\ "ouverture" \in Course /\ "litige" \in Course
    BY DEF Typage, Course
  <2>2. CASE OuvrirLitige(q)
    BY <2>1, <2>2 DEF OuvrirLitige, Ajouter
  <2>3. CASE LireLitige(q)
    BY <2>1, <2>3 DEF LireLitige, Ajouter
  <2>4. CASE CreerLitige(q) \/ EcrireLitige(q)
    BY <2>1, <2>4 DEF CreerLitige, EcrireLitige
  <2>. QED
    BY <2>2, <2>3, <2>4 DEF NextLitiges
<1>. QED
  BY <1>1, <1>2 DEF horsLitiges, terrain, dates, Hors, Typage

(* A client is about to dispute a transaction without an open dispute.     *)
LEMMA OuvrirLitigeDit ==
  ASSUME Typage, NEW q \in Requetes, OuvrirLitige(q)
  PROVE  /\ Deplace(q) /\ litiges' = litiges
         /\ pc[q] = "libre" /\ pc'[q] = "creerLitige" /\ sujet = "litige"
         /\ loc'[q].op = "ouverture" /\ loc'[q].cible \in Transactions
         /\ Ouverts(loc'[q].cible) = {}
         /\ (\E p \in Requetes : pc[p] = "creerLitige" /\ loc[p].cible = loc'[q].cible)
              => "ouverture" \in courses'
<1>1. PICK t \in Transactions :
        /\ Ouverts(t) = {}
        /\ Commencer(q, "creerLitige", [Repos EXCEPT !.op = "ouverture", !.cible = t])
        /\ Ajouter("ouverture", \E p \in Requetes : loc[p].op = "ouverture" /\ loc[p].cible = t)
  BY DEF OuvrirLitige
<1>2. PICK w : w = [Repos EXCEPT !.op = "ouverture", !.cible = t]
  OBVIOUS
<1>3. w \in Travail /\ w.op = "ouverture" /\ w.cible = t
  BY <1>2, ReposType DEF Travail, Operation, Cibles
<1>4. /\ pc[q] = "libre" /\ pc'[q] = "creerLitige" /\ loc'[q] = w /\ Deplace(q)
  BY <1>1, <1>2, <1>3, Commence, EtapesDites DEF Deplace
<1>5. (\E p \in Requetes : pc[p] = "creerLitige" /\ loc[p].cible = t) => "ouverture" \in courses'
  BY <1>1, EtapeDe DEF Ajouter
<1>. QED
  BY <1>1, <1>3, <1>4, <1>5 DEF OuvrirLitige

(* The dispute is created.                                                 *)
LEMMA CreerLitigeDit ==
  ASSUME Typage, NEW q \in Requetes, CreerLitige(q)
  PROVE  /\ Deplace(q) /\ courses' = courses
         /\ pc[q] = "creerLitige" /\ pc'[q] = "libre" /\ loc'[q] = Repos
         /\ \E x \in Litige : /\ x.transaction = loc[q].cible /\ x.statut = "OUVERT"
                              /\ litiges' = Append(litiges, x)
<1>1. loc[q].cible \in Transactions /\ 0 \in 0 .. MaxCommentaires
  BY GuichetsAssumption DEF CreerLitige, Typage, EtapeOK
<1>2. PICK x : x = [transaction |-> loc[q].cible, statut |-> "OUVERT", commentaires |-> 0]
  OBVIOUS
<1>3. x \in Litige /\ x.transaction = loc[q].cible /\ x.statut = "OUVERT"
  BY <1>1, <1>2 DEF Litige, StatutLitige
<1>. QED
  BY <1>2, <1>3, Repond DEF CreerLitige, Deplace

(* An open dispute is read, to be examined, closed or commented.           *)
LEMMA LireLitigeDit ==
  ASSUME Typage, NEW q \in Requetes, LireLitige(q)
  PROVE  /\ Deplace(q) /\ litiges' = litiges
         /\ pc[q] = "libre" /\ pc'[q] = "ecrireLitige" /\ sujet = "litige"
         /\ loc'[q].op = "litige"
         /\ loc'[q].cible \in {"EN_EXAMEN", "RESOLU", "REJETE", "commentaire"}
         /\ loc'[q].n \in DOMAIN litiges /\ litiges[loc'[q].n].statut \notin Clos
         /\ (\E p \in Requetes : pc[p] = "ecrireLitige" /\ loc[p].n = loc'[q].n)
              => "litige" \in courses'
<1>1. PICK l \in DOMAIN litiges, suite \in {"EN_EXAMEN", "RESOLU", "REJETE", "commentaire"} :
        /\ Admet(litiges[l].statut, suite)
        /\ Commencer(q, "ecrireLitige", [Repos EXCEPT !.op = "litige", !.n = l, !.cible = suite])
        /\ Ajouter("litige", Croise(q, "litige", l))
  BY DEF LireLitige
<1>2. PICK w : w = [Repos EXCEPT !.op = "litige", !.n = l, !.cible = suite]
  OBVIOUS
<1>3. l \in Nat
  BY DEF Typage, TypeOK
<1>4. w \in Travail /\ w.op = "litige" /\ w.cible = suite /\ w.n = l
  BY <1>2, <1>3, ReposType DEF Travail, Operation, Cibles
<1>5. /\ pc[q] = "libre" /\ pc'[q] = "ecrireLitige" /\ loc'[q] = w /\ Deplace(q)
  BY <1>1, <1>2, <1>4, Commence, EtapesDites DEF Deplace
<1>6. (\E p \in Requetes : pc[p] = "ecrireLitige" /\ loc[p].n = l) => "litige" \in courses'
  BY <1>1, <1>5, EtapeDe DEF Ajouter, Croise
<1>7. litiges[l].statut \notin Clos
  BY <1>1 DEF Admet, Clos
<1>. QED
  BY <1>1, <1>4, <1>5, <1>6, <1>7 DEF LireLitige

(* What was decided is written over whatever the dispute has become.       *)
LEMMA EcrireLitigeDit ==
  ASSUME Typage, NEW q \in Requetes, EcrireLitige(q)
  PROVE  /\ Deplace(q) /\ courses' = courses
         /\ pc[q] = "ecrireLitige" /\ pc'[q] = "libre" /\ loc'[q] = Repos
         /\ loc[q].n \in DOMAIN litiges
         /\ \E x \in Litige :
              /\ x.transaction = litiges[loc[q].n].transaction
              /\ x.statut \in {litiges[loc[q].n].statut, "EN_EXAMEN", "RESOLU", "REJETE"}
              /\ litiges' = [litiges EXCEPT ![loc[q].n] = x]
<1>. DEFINE l == loc[q].n
<1>1. /\ pc[q] = "ecrireLitige" /\ l \in DOMAIN litiges
      /\ loc[q].cible \in {"EN_EXAMEN", "RESOLU", "REJETE", "commentaire"}
  BY DEF EcrireLitige, Typage, EtapeOK
<1>2. litiges[l] \in Litige
  BY <1>1 DEF Typage, TypeOK
<1>3. CASE loc[q].cible = "commentaire"
  <2>1. PICK x : x = [litiges[l] EXCEPT !.commentaires = @ + 1]
    OBVIOUS
  <2>2. litiges[l].commentaires < MaxCommentaires /\ litiges' = [litiges EXCEPT ![l] = x]
    BY <1>3, <2>1 DEF EcrireLitige
  <2>3. litiges[l].commentaires + 1 \in 0 .. MaxCommentaires
    BY <1>2, <2>2, GuichetsAssumption DEF Litige
  <2>4. x \in Litige /\ x.transaction = litiges[l].transaction /\ x.statut = litiges[l].statut
    BY <1>2, <2>1, <2>3 DEF Litige
  <2>. QED
    BY <1>1, <2>2, <2>4, Repond DEF EcrireLitige, Deplace
<1>4. CASE loc[q].cible # "commentaire"
  <2>1. PICK x : x = [litiges[l] EXCEPT !.statut = loc[q].cible]
    OBVIOUS
  <2>2. litiges' = [litiges EXCEPT ![l] = x]
    BY <1>4, <2>1 DEF EcrireLitige
  <2>3. loc[q].cible \in {"EN_EXAMEN", "RESOLU", "REJETE"}
    BY <1>1, <1>4
  <2>4. x \in Litige /\ x.transaction = litiges[l].transaction /\ x.statut = loc[q].cible
    BY <1>2, <2>1, <2>3 DEF Litige, StatutLitige
  <2>. QED
    BY <1>1, <2>2, <2>3, <2>4, Repond DEF EcrireLitige, Deplace
<1>. QED
  BY <1>3, <1>4

(* The desk of disputes keeps the types.                                   *)
LEMMA TypageLitige ==
  ASSUME Typage, NEW q \in Requetes, NextLitiges(q)
  PROVE  Typage'
<1>1. Hors("litige")
  BY HorsLitige
<1>2. /\ documents' \in Seq(DocumentKYC) /\ kycVerifie' \in BOOLEAN
      /\ compte' \in Compte /\ livre' \in Livre
      /\ alertes' \in Seq({"OUVERTE", "RESOLUE"})
      /\ equipe' \in [Personnes -> Membre] /\ qr' \in [Collecteurs -> QRCode]
      /\ visites' \subseteq Collecteurs \X Clients /\ commissions' \in [Collecteurs -> Gains]
      /\ facturations' \in [Collecteurs -> Facturation] /\ echeance' \in Echeance /\ jour' \in Nat
  BY <1>1 DEF Hors, Typage, TypeOK
<1>3. ASSUME litiges' \in Seq(Litige), Deplace(q), EtapeOK(q)',
             DOMAIN litiges \subseteq DOMAIN litiges'
      PROVE  Typage'
  <2>1. TypeOK'
    BY <1>2, <1>3 DEF TypeOK
  <2>2. Grandit
    BY <1>1, <1>3, HorsType DEF Grandit
  <2>. QED
    BY <1>1, <1>3, <2>1, <2>2, HorsType, TypageSuit
<1>4. litiges \in Seq(Litige) /\ sujet' = sujet /\ sujet \in Sujets
  BY <1>1 DEF Typage, TypeOK, Hors
<1>5. ASSUME pc'[q] = "libre", loc'[q] = Repos PROVE EtapeOK(q)'
  BY <1>4, <1>5, ReposType, OperationsDites, BureauxDits DEF EtapeOK
<1>6. CASE OuvrirLitige(q)
  <2>1. EtapeOK(q)'
    BY <1>4, <1>6, OuvrirLitigeDit, OperationsDites, BureauxDits DEF EtapeOK
  <2>. QED
    BY <1>3, <1>4, <1>6, <2>1, OuvrirLitigeDit
<1>7. CASE CreerLitige(q)
  <2>1. litiges' \in Seq(Litige) /\ DOMAIN litiges \subseteq DOMAIN litiges'
    BY <1>4, <1>7, CreerLitigeDit, SequenceSuit
  <2>. QED
    BY <1>3, <1>5, <1>7, <2>1, CreerLitigeDit
<1>8. CASE LireLitige(q)
  <2>1. EtapeOK(q)'
    BY <1>4, <1>8, LireLitigeDit, OperationsDites, BureauxDits DEF EtapeOK
  <2>. QED
    BY <1>3, <1>4, <1>8, <2>1, LireLitigeDit
<1>9. CASE EcrireLitige(q)
  <2>1. litiges' \in Seq(Litige) /\ DOMAIN litiges \subseteq DOMAIN litiges'
    BY <1>4, <1>9, EcrireLitigeDit, SequenceEcrite
  <2>. QED
    BY <1>3, <1>5, <1>9, <2>1, EcrireLitigeDit
<1>. QED
  BY <1>6, <1>7, <1>8, <1>9 DEF NextLitiges

(* Nobody is at the desk of disputes.                                      *)
LEMMA LitigesTables ==
  ASSUME LitigesInv, litiges' = litiges, courses \subseteq courses',
         \A p \in Requetes : pc'[p] \notin EtapesLitiges
  PROVE  LitigesInv'
<1>1. \A p \in Requetes : pc'[p] # "creerLitige" /\ pc'[p] # "ecrireLitige"
  BY DEF EtapesLitiges
<1>. QED
  BY <1>1 DEF LitigesInv, Tranchent, Ouvrent, Ouverts

(* The desk of disputes keeps its invariant.                               *)
LEMMA LitigesInduit ==
  ASSUME Typage, Typage', LitigesInv, NEW q \in Requetes, NextLitiges(q)
  PROVE  LitigesInv'
<1>0. courses \subseteq courses' /\ litiges \in Seq(Litige)
  BY HorsLitige DEF Hors, Typage, TypeOK
<1>1. CASE OuvrirLitige(q)
  <2>1. /\ pc'[q] = "creerLitige" /\ \A t : Ouverts(t)' = Ouverts(t)
        /\ \A p \in Requetes \ {q} : pc'[p] = pc[p] /\ loc'[p] = loc[p]
    BY <1>1, OuvrirLitigeDit DEF Deplace, Seul, Reste, Ouverts
  <2>2. ASSUME "litige" \notin courses'
        PROVE  /\ \A p, r \in Requetes : Tranchent(p, r)' => p = r
               /\ \A p \in Requetes : pc'[p] = "ecrireLitige" =>
                    litiges'[loc'[p].n].statut \notin Clos
    BY <1>0, <1>1, <2>1, <2>2, OuvrirLitigeDit DEF LitigesInv, Tranchent
  <2>3. ASSUME "litige" \notin courses', "ouverture" \notin courses'
        PROVE  /\ \A p, r \in Requetes : Ouvrent(p, r)' => p = r
               /\ \A p \in Requetes : pc'[p] = "creerLitige" => Ouverts(loc'[p].cible) = {}
    <3>1. \A p \in Requetes : pc[p] = "creerLitige" => loc[p].cible # loc'[q].cible
      BY <1>1, <2>3, OuvrirLitigeDit
    <3>2. \A p, r \in Requetes : Ouvrent(p, r)' => p = r
      BY <1>0, <2>1, <2>3, <3>1 DEF LitigesInv, Ouvrent
    <3>3. \A p \in Requetes : pc'[p] = "creerLitige" => Ouverts(loc'[p].cible) = {}
      BY <1>0, <1>1, <2>1, <2>3, OuvrirLitigeDit DEF LitigesInv
    <3>. QED
      BY <3>2, <3>3
  <2>4. ASSUME "litige" \notin courses', "ouverture" \notin courses'
        PROVE  \A t \in Transactions : \A l, m \in Ouverts(t)' : l = m
    BY <1>0, <2>1, <2>4 DEF LitigesInv
  <2>5. ASSUME "litige" \notin courses', "ouverture" \notin courses'
        PROVE  \A p \in Requetes : pc'[p] = "creerLitige" => Ouverts(loc[p].cible)' = {}
    BY <2>3, <2>5, <1>1, OuvrirLitigeDit DEF Ouverts
  <2>. QED
    BY <2>2, <2>3, <2>4, <2>5 DEF LitigesInv
<1>2. CASE CreerLitige(q)
  <2>1. PICK x \in Litige : /\ x.transaction = loc[q].cible /\ x.statut = "OUVERT"
                            /\ litiges' = Append(litiges, x)
    BY <1>2, CreerLitigeDit
  <2>2. PICK k : k = Len(litiges) + 1
    OBVIOUS
  <2>3. /\ DOMAIN litiges' = DOMAIN litiges \cup {k} /\ k \notin DOMAIN litiges
        /\ litiges'[k] = x /\ \A i \in DOMAIN litiges : litiges'[i] = litiges[i]
    BY <1>0, <2>1, <2>2, SequenceSuit
  <2>4. /\ pc[q] = "creerLitige" /\ pc'[q] = "libre" /\ courses' = courses
        /\ \A p \in Requetes \ {q} : pc'[p] = pc[p] /\ loc'[p] = loc[p]
    BY <1>2, CreerLitigeDit DEF Deplace, Seul, Reste
  <2>5. ASSUME NEW t \in Transactions
        PROVE  Ouverts(t)' = Ouverts(t) \cup (IF t = loc[q].cible THEN {k} ELSE {})
    BY <2>1, <2>3 DEF Ouverts, Clos
  <2>6. \A p \in Requetes : pc[p] = "creerLitige" => loc[p].cible \in Transactions
    BY DEF Typage, EtapeOK
  <2>7. ASSUME "litige" \notin courses'
        PROVE  /\ \A p, r \in Requetes : Tranchent(p, r)' => p = r
               /\ \A p \in Requetes : pc'[p] = "ecrireLitige" =>
                    litiges'[loc'[p].n].statut \notin Clos
    <3>1. \A p \in Requetes : pc[p] = "ecrireLitige" => loc[p].n \in DOMAIN litiges
      BY DEF Typage, EtapeOK
    <3>2. \A p, r \in Requetes : Tranchent(p, r)' => p = r
      BY <2>4, <2>7 DEF LitigesInv, Tranchent
    <3>3. \A p \in Requetes : pc'[p] = "ecrireLitige" => litiges'[loc'[p].n].statut \notin Clos
      BY <2>3, <2>4, <2>7, <3>1 DEF LitigesInv
    <3>. QED
      BY <3>2, <3>3
  <2>8. ASSUME "litige" \notin courses', "ouverture" \notin courses'
        PROVE  /\ \A t \in Transactions : \A l, m \in Ouverts(t)' : l = m
               /\ \A p, r \in Requetes : Ouvrent(p, r)' => p = r
               /\ \A p \in Requetes : pc'[p] = "creerLitige" => Ouverts(loc[p].cible)' = {}
    <3>1. Ouverts(loc[q].cible) = {}
      BY <2>4, <2>8 DEF LitigesInv
    <3>2. \A t \in Transactions : \A l, m \in Ouverts(t)' : l = m
      BY <2>4, <2>5, <2>8, <3>1 DEF LitigesInv
    <3>3. \A p, r \in Requetes : Ouvrent(p, r)' => p = r
      BY <2>4, <2>8 DEF LitigesInv, Ouvrent
    <3>4. ASSUME NEW p \in Requetes, pc'[p] = "creerLitige" PROVE Ouverts(loc[p].cible)' = {}
      <4>1. p # q /\ pc[p] = "creerLitige" /\ loc'[p] = loc[p]
        BY <2>4, <3>4
      <4>2. loc[p].cible # loc[q].cible /\ Ouverts(loc[p].cible) = {} /\ loc[p].cible \in Transactions
        BY <2>4, <2>6, <2>8, <4>1 DEF LitigesInv, Ouvrent
      <4>3. \A i \in DOMAIN litiges' : litiges'[i].transaction = loc[p].cible
              => litiges'[i].statut \in Clos
        BY <2>1, <2>3, <4>2 DEF Ouverts
      <4>. QED
        BY <4>1, <4>3 DEF Ouverts
    <3>. QED
      BY <3>2, <3>3, <3>4
  <2>. QED
    BY <2>7, <2>8 DEF LitigesInv
<1>3. CASE LireLitige(q)
  <2>1. /\ pc'[q] = "ecrireLitige" /\ \A t : Ouverts(t)' = Ouverts(t)
        /\ \A p \in Requetes \ {q} : pc'[p] = pc[p] /\ loc'[p] = loc[p]
    BY <1>3, LireLitigeDit DEF Deplace, Seul, Reste, Ouverts
  <2>2. ASSUME "litige" \notin courses'
        PROVE  /\ \A p, r \in Requetes : Tranchent(p, r)' => p = r
               /\ \A p \in Requetes : pc'[p] = "ecrireLitige" =>
                    litiges'[loc'[p].n].statut \notin Clos
    <3>1. \A p \in Requetes : pc[p] = "ecrireLitige" => loc[p].n # loc'[q].n
      BY <1>3, <2>2, LireLitigeDit
    <3>2. \A p, r \in Requetes : Tranchent(p, r)' => p = r
      BY <1>0, <2>1, <2>2, <3>1 DEF LitigesInv, Tranchent
    <3>3. \A p \in Requetes : pc'[p] = "ecrireLitige" => litiges'[loc'[p].n].statut \notin Clos
      BY <1>0, <1>3, <2>1, <2>2, LireLitigeDit DEF LitigesInv
    <3>. QED
      BY <3>2, <3>3
  <2>3. ASSUME "litige" \notin courses', "ouverture" \notin courses'
        PROVE  /\ \A t \in Transactions : \A l, m \in Ouverts(t)' : l = m
               /\ \A p, r \in Requetes : Ouvrent(p, r)' => p = r
               /\ \A p \in Requetes : pc'[p] = "creerLitige" => Ouverts(loc[p].cible)' = {}
    <3>1. \A t \in Transactions : \A l, m \in Ouverts(t)' : l = m
      BY <1>0, <2>1, <2>3 DEF LitigesInv
    <3>2. \A p, r \in Requetes : Ouvrent(p, r)' => p = r
      BY <1>0, <2>1, <2>3 DEF LitigesInv, Ouvrent
    <3>3. ASSUME NEW p \in Requetes, pc'[p] = "creerLitige" PROVE Ouverts(loc[p].cible)' = {}
      <4>1. loc'[p] = loc[p] /\ Ouverts(loc[p].cible) = {} /\ litiges' = litiges
        BY <1>0, <1>3, <2>1, <2>3, <3>3, LireLitigeDit DEF LitigesInv
      <4>. QED
        BY <4>1 DEF Ouverts
    <3>. QED
      BY <3>1, <3>2, <3>3
  <2>. QED
    BY <2>2, <2>3 DEF LitigesInv
<1>4. CASE EcrireLitige(q)
  <2>. DEFINE n == loc[q].n
  <2>1. PICK x \in Litige :
              /\ x.transaction = litiges[n].transaction
              /\ x.statut \in {litiges[n].statut, "EN_EXAMEN", "RESOLU", "REJETE"}
              /\ litiges' = [litiges EXCEPT ![n] = x]
    BY <1>4, EcrireLitigeDit
  <2>2. /\ pc[q] = "ecrireLitige" /\ pc'[q] = "libre" /\ courses' = courses
        /\ n \in DOMAIN litiges
        /\ \A p \in Requetes \ {q} : pc'[p] = pc[p] /\ loc'[p] = loc[p]
    BY <1>4, EcrireLitigeDit DEF Deplace, Seul, Reste
  <2>3. /\ DOMAIN litiges' = DOMAIN litiges /\ litiges'[n] = x
        /\ \A i \in DOMAIN litiges : i # n => litiges'[i] = litiges[i]
    BY <1>0, <2>1, <2>2, SequenceEcrite
  <2>. HIDE DEF n
  <2>4. ASSUME "litige" \notin courses' PROVE \A t : Ouverts(t)' \subseteq Ouverts(t)
    <3>1. litiges[n].statut \notin Clos
      BY <2>2, <2>4 DEF LitigesInv, n
    <3>. QED
      BY <2>1, <2>2, <2>3, <3>1 DEF Ouverts
  <2>5. ASSUME "litige" \notin courses'
        PROVE  /\ \A p, r \in Requetes : Tranchent(p, r)' => p = r
               /\ \A p \in Requetes : pc'[p] = "ecrireLitige" =>
                    litiges'[loc'[p].n].statut \notin Clos
    <3>1. \A p, r \in Requetes : Tranchent(p, r)' => p = r
      BY <2>2, <2>5 DEF LitigesInv, Tranchent
    <3>2. ASSUME NEW p \in Requetes, pc'[p] = "ecrireLitige"
          PROVE  litiges'[loc'[p].n].statut \notin Clos
      <4>1. p # q /\ pc[p] = "ecrireLitige" /\ loc'[p] = loc[p]
        BY <2>2, <3>2
      <4>2. loc[p].n # n /\ loc[p].n \in DOMAIN litiges /\ litiges[loc[p].n].statut \notin Clos
        BY <2>2, <2>5, <4>1 DEF LitigesInv, Tranchent, n, Typage, EtapeOK
      <4>. QED
        BY <2>3, <4>1, <4>2
    <3>. QED
      BY <3>1, <3>2
  <2>6. ASSUME "litige" \notin courses', "ouverture" \notin courses'
        PROVE  /\ \A t \in Transactions : \A l, m \in Ouverts(t)' : l = m
               /\ \A p, r \in Requetes : Ouvrent(p, r)' => p = r
               /\ \A p \in Requetes : pc'[p] = "creerLitige" => Ouverts(loc[p].cible)' = {}
    <3>1. \A t \in Transactions : \A l, m \in Ouverts(t)' : l = m
      BY <2>2, <2>4, <2>6 DEF LitigesInv
    <3>2. \A p, r \in Requetes : Ouvrent(p, r)' => p = r
      BY <2>2, <2>6 DEF LitigesInv, Ouvrent
    <3>3. ASSUME NEW p \in Requetes, pc'[p] = "creerLitige" PROVE Ouverts(loc[p].cible)' = {}
      <4>1. p # q /\ pc[p] = "creerLitige" /\ loc'[p] = loc[p]
        BY <2>2, <3>3
      <4>2. Ouverts(loc[p].cible) = {}
        BY <2>2, <2>6, <4>1 DEF LitigesInv
      <4>3. Ouverts(loc'[p].cible) = {} /\ \A t : Ouverts(t)' \subseteq Ouverts(t)
        BY <2>4, <2>6, <4>1, <4>2
      <4>4. \A i \in DOMAIN litiges' :
              ~(litiges'[i].transaction = loc'[p].cible /\ litiges'[i].statut \notin Clos)
        BY <4>3 DEF Ouverts
      <4>. QED
        BY <4>4 DEF Ouverts
    <3>. QED
      BY <3>1, <3>2, <3>3
  <2>. QED
    BY <2>5, <2>6 DEF LitigesInv
<1>. QED
  BY <1>1, <1>2, <1>3, <1>4 DEF NextLitiges

-----------------------------------------------------------------------------
(* Closing of accounts. *)

Vie == \/ TerminerInscription \/ CreerTontine \/ Cotiser \/ CotiserAssiste \/ Retirer
       \/ DemanderCredit \/ ValiderCredit \/ FinirCredit \/ ConfirmerPaiement

(* What the other services may do to the client. *)
Vecu(s) ==
    /\ s \in Compte /\ s.anonyme = compte.anonyme
    /\ compte.orphelins = 0 => s.orphelins = 0 /\ s.perdu = compte.perdu
    /\ compte.solde = 0 /\ compte.enAttente = 0 => s.solde = 0

(* Every payment, credit or tontine of the client is a change of the kind  *)
(* Vecu.                                                                   *)
LEMMA VieDit ==
  ASSUME Typage, Vie
  PROVE  \E s : Vecu(s) /\ Evoluer(s)
<1>. USE DEF StatutCredit
<1>1. /\ compte \in Compte
  BY DEF Typage, TypeOK
<1>2. CASE TerminerInscription
  <2>1. PICK s : s = [compte EXCEPT !.origine = "inscrit"]
    OBVIOUS
  <2>2. Vecu(s)
    BY <1>1, <2>1 DEF Vecu, Compte
  <2>. QED
    BY <1>2, <2>1, <2>2 DEF TerminerInscription
<1>3. CASE CreerTontine
  <2>1. PICK s : s = [compte EXCEPT !.tontine = TRUE]
    OBVIOUS
  <2>2. Vecu(s)
    BY <1>1, <2>1 DEF Vecu, Compte
  <2>. QED
    BY <1>3, <2>1, <2>2 DEF CreerTontine
<1>4. CASE Cotiser \/ CotiserAssiste
  <2>1. PICK s : s = [compte EXCEPT !.enAttente = @ + 1, !.transactions = TRUE]
    OBVIOUS
  <2>2. compte.enAttente + 1 \in Nat
    BY <1>1 DEF Compte
  <2>3. /\ s \in Compte /\ s.anonyme = compte.anonyme /\ s.orphelins = compte.orphelins
        /\ s.perdu = compte.perdu /\ s.solde = compte.solde
    BY <1>1, <2>1, <2>2 DEF Compte
  <2>4. Vecu(s)
    BY <2>3 DEF Vecu
  <2>. QED
    BY <1>4, <2>1, <2>4 DEF Cotiser, CotiserAssiste
<1>5. CASE Retirer
  <2>1. PICK s : s = [compte EXCEPT !.solde = 0, !.retraits = TRUE]
    OBVIOUS
  <2>2. Vecu(s)
    BY <1>1, <2>1 DEF Vecu, Compte
  <2>. QED
    BY <1>5, <2>1, <2>2 DEF Retirer
<1>6. CASE DemanderCredit
  <2>1. PICK s : s = [compte EXCEPT !.credit = "EN_ATTENTE"]
    OBVIOUS
  <2>2. Vecu(s)
    BY <1>1, <2>1 DEF Vecu, Compte
  <2>. QED
    BY <1>6, <2>1, <2>2 DEF DemanderCredit
<1>7. CASE ValiderCredit
  <2>1. PICK s : s = [compte EXCEPT !.credit = "ACTIF"]
    OBVIOUS
  <2>2. Vecu(s)
    BY <1>1, <2>1 DEF Vecu, Compte
  <2>. QED
    BY <1>7, <2>1, <2>2 DEF ValiderCredit
<1>8. CASE FinirCredit
  <2>1. PICK c \in {"EN_DEFAUT", "TERMINE"} : Evoluer([compte EXCEPT !.credit = c])
    BY <1>8 DEF FinirCredit
  <2>2. PICK s : s = [compte EXCEPT !.credit = c]
    OBVIOUS
  <2>3. Vecu(s)
    BY <1>1, <2>2 DEF Vecu, Compte
  <2>. QED
    BY <2>1, <2>2, <2>3
<1>9. CASE ConfirmerPaiement
  <2>1. CASE compte.enAttente > 0
               /\ Evoluer([compte EXCEPT !.enAttente = @ - 1, !.solde = @ + 1])
    <3>1. PICK s : s = [compte EXCEPT !.enAttente = @ - 1, !.solde = @ + 1]
      OBVIOUS
    <3>2. compte.enAttente - 1 \in Nat /\ compte.solde + 1 \in Nat /\ compte.enAttente # 0
      BY <1>1, <2>1 DEF Compte
    <3>3. Vecu(s)
      BY <1>1, <3>1, <3>2 DEF Vecu, Compte
    <3>. QED
      BY <2>1, <3>1, <3>3
  <2>2. CASE compte.orphelins > 0
               /\ Evoluer([compte EXCEPT !.orphelins = @ - 1, !.perdu = @ + 1])
    <3>1. PICK s : s = [compte EXCEPT !.orphelins = @ - 1, !.perdu = @ + 1]
      OBVIOUS
    <3>2. compte.orphelins - 1 \in Nat /\ compte.perdu + 1 \in Nat /\ compte.orphelins # 0
      BY <1>1, <2>2 DEF Compte
    <3>3. Vecu(s)
      BY <1>1, <3>1, <3>2 DEF Vecu, Compte
    <3>. QED
      BY <2>2, <3>1, <3>3
  <2>. QED
    BY <1>9, <2>1, <2>2 DEF ConfirmerPaiement
<1>. QED
  BY <1>2, <1>3, <1>4, <1>5, <1>6, <1>7, <1>8, <1>9 DEF Vie

(* Such a change meets the closings and deletions under way.               *)
LEMMA VieEffet ==
  ASSUME Typage, Vie
  PROVE  /\ Vecu(compte') /\ sujet = "compte" /\ UNCHANGED procVars
         /\ (\E p \in Requetes : Ferme(p)) => "fermeture" \in courses'
         /\ compte'.enAttente > 0 /\ (\E p \in Requetes : Efface(p)) => "paiement" \in courses'
<1>1. PICK s : Vecu(s) /\ Evoluer(s)
  BY VieDit
<1>. QED
  BY <1>1 DEF Evoluer

(* The closing of accounts leaves the tables of the others alone.          *)
LEMMA HorsCompte ==
  ASSUME Typage, NEW q \in Requetes, NextComptes(q) \/ Vie
  PROVE  Hors("compte")
<1>0. courses \in SUBSET Course /\ "fermeture" \in Course /\ "paiement" \in Course
  BY DEF Typage, Course
<1>1. CASE Vie
  <2>1. PICK s : Vecu(s) /\ Evoluer(s)
    BY <1>1, VieDit
  <2>2. ecritures' \in Nat /\ courses \subseteq courses' /\ courses' \in SUBSET Course
    BY <1>0, <2>1 DEF Evoluer, Typage
  <2>. QED
    BY <2>1, <2>2 DEF Evoluer, horsCompte, terrain, dates, Hors
<1>2. CASE NextComptes(q)
  <2>1. UNCHANGED horsCompte /\ UNCHANGED ecritures
    BY <1>2 DEF NextComptes, LireTontine, EffacerTontine, LireSoldes, LireCredit, FermerCompte,
                LireUtilisateur, Bannir, Effacer
  <2>2. courses \subseteq courses' /\ courses' \in SUBSET Course
    <3>1. CASE LireTontine(q)
      BY <1>0, <3>1 DEF LireTontine, Ajouter
    <3>2. CASE ~LireTontine(q)
      BY <1>0, <1>2, <3>2 DEF NextComptes, EffacerTontine, LireSoldes, LireCredit, FermerCompte,
                LireUtilisateur, Bannir, Effacer
    <3>. QED
      BY <3>1, <3>2
  <2>. QED
    BY <2>1, <2>2 DEF horsCompte, terrain, dates, Hors, Typage
<1>. QED
  BY <1>1, <1>2

(* A request of this desk starts, with the row that it read. *)
LEMMA LireTontineDit ==
  ASSUME Typage, NEW q \in Requetes, LireTontine(q)
  PROVE  /\ Deplace(q) /\ compte' = compte /\ sujet = "compte"
         /\ pc'[q] = "effacerTontine" /\ loc'[q].op = "tontine"
         /\ compte.solde = 0 /\ (compte.enAttente > 0 => "paiement" \in courses')
<1>1. PICK w : w = [Repos EXCEPT !.op = "tontine"]
  OBVIOUS
<1>2. w \in Travail /\ w.op = "tontine"
  BY <1>1, ReposType DEF Travail, Operation
<1>3. Commencer(q, "effacerTontine", w) /\ "effacerTontine" \in Etapes
  BY <1>1, EtapesDites DEF LireTontine
<1>4. compte.enAttente > 0 => "paiement" \in courses'
  BY DEF LireTontine, Ajouter
<1>. QED
  BY <1>2, <1>3, <1>4, Commence DEF LireTontine, Deplace

(* A client is about to close an account with nothing on it.               *)
LEMMA LireSoldesDit ==
  ASSUME Typage, NEW q \in Requetes, LireSoldes(q)
  PROVE  /\ Deplace(q) /\ compte' = compte /\ sujet = "compte"
         /\ pc'[q] = "lireCredit" /\ loc'[q].op = "fermeture" /\ compte.solde = 0
<1>1. PICK k \in Nat : k = IF compte.credit = "AUCUN" THEN 0 ELSE 1
  OBVIOUS
<1>2. PICK w : w = [Repos EXCEPT !.op = "fermeture", !.n = k]
  OBVIOUS
<1>3. w \in Travail /\ w.op = "fermeture"
  BY <1>2, ReposType DEF Travail, Operation
<1>4. Commencer(q, "lireCredit", w)
  BY <1>1, <1>2 DEF LireSoldes
<1>. QED
  BY <1>3, <1>4, Commence, EtapesDites DEF LireSoldes, Deplace

(* An administrator is about to remove a user.                             *)
LEMMA LireUtilisateurDit ==
  ASSUME Typage, NEW q \in Requetes, LireUtilisateur(q)
  PROVE  /\ Deplace(q) /\ compte' = compte /\ sujet = "compte"
         /\ pc'[q] \in {"bannir", "effacer"} /\ loc'[q].op = "suppression"
<1>1. PICK w : w = [Repos EXCEPT !.op = "suppression"]
  OBVIOUS
<1>2. w \in Travail /\ w.op = "suppression"
  BY <1>1, ReposType DEF Travail, Operation
<1>3. PICK e : e = IF Historique THEN "bannir" ELSE "effacer"
  OBVIOUS
<1>4. e \in {"bannir", "effacer"} /\ e \in Etapes
  BY <1>3, EtapesDites
<1>5. Commencer(q, e, w)
  BY <1>1, <1>3 DEF LireUtilisateur
<1>. QED
  BY <1>2, <1>4, <1>5, Commence DEF LireUtilisateur, Deplace

(* The credits of the client are looked at, after his balances.            *)
LEMMA LireCreditDit ==
  ASSUME Typage, NEW q \in Requetes, LireCredit(q)
  PROVE  /\ Deplace(q) /\ compte' = compte /\ sujet = "compte" /\ pc[q] = "lireCredit"
         /\ \/ pc'[q] = "libre" /\ loc'[q] = Repos
            \/ pc'[q] = "fermerCompte" /\ loc'[q] = loc[q] /\ compte.credit \notin EnCredit
<1>1. pc[q] = "lireCredit" /\ sujet = "compte" /\ compte' = compte
  BY BureauxDits DEF LireCredit, Typage, EtapeOK
<1>2. CASE CreditEnCours
  BY <1>1, <1>2, Repond DEF LireCredit, Deplace
<1>3. CASE ~CreditEnCours
  <2>1. Vers(q, "fermerCompte") /\ UNCHANGED loc /\ compte.credit \notin EnCredit
    BY <1>3 DEF LireCredit, CreditEnCours
  <2>2. "fermerCompte" \in Etapes
    BY EtapesDites
  <2>. QED
    BY <1>1, <2>1, <2>2, Avance DEF Deplace
<1>. QED
  BY <1>2, <1>3

(* The tontine is deleted, or the database refuses.                        *)
LEMMA EffacerTontineDit ==
  ASSUME Typage, NEW q \in Requetes, EffacerTontine(q)
  PROVE  /\ Deplace(q) /\ pc[q] = "effacerTontine" /\ pc'[q] = "libre" /\ loc'[q] = Repos
         /\ courses' = courses
         /\ compte' \in Compte /\ compte'.anonyme = compte.anonyme /\ compte'.credit = compte.credit
         /\ compte.solde = 0 => compte'.solde = 0
         /\ compte.enAttente = 0 => compte'.enAttente = 0
         /\ compte.solde = 0 /\ compte.enAttente = 0 =>
              compte'.orphelins = compte.orphelins /\ compte'.perdu = compte.perdu
<1>1. compte \in Compte
  BY DEF Typage, TypeOK
<1>2. Deplace(q) /\ pc[q] = "effacerTontine" /\ pc'[q] = "libre" /\ loc'[q] = Repos /\ courses' = courses
  BY Repond DEF EffacerTontine, Deplace
<1>3. CASE ~compte.tontine \/ compte.retraits
  <2>1. compte' = compte
    BY <1>3 DEF EffacerTontine
  <2>. QED
    BY <1>1, <1>2, <2>1
<1>4. CASE ~(~compte.tontine \/ compte.retraits)
  <2>1. PICK s : s = [compte EXCEPT !.tontine = FALSE, !.solde = 0, !.enAttente = 0,
                                     !.orphelins = @ + compte.enAttente,
                                     !.perdu = @ + compte.solde]
    OBVIOUS
  <2>2. compte' = s
    BY <1>4, <2>1 DEF EffacerTontine
  <2>3. /\ compte.orphelins \in Nat /\ compte.perdu \in Nat
        /\ compte.orphelins + compte.enAttente \in Nat /\ compte.perdu + compte.solde \in Nat
    BY <1>1 DEF Compte
  <2>4. s \in Compte
    BY <1>1, <2>1, <2>3 DEF Compte
  <2>5. /\ s.anonyme = compte.anonyme /\ s.credit = compte.credit
        /\ s.solde = 0 /\ s.enAttente = 0
        /\ s.orphelins = compte.orphelins + compte.enAttente
        /\ s.perdu = compte.perdu + compte.solde
    BY <1>1, <2>1 DEF Compte
  <2>. QED
    BY <1>2, <2>2, <2>3, <2>4, <2>5
<1>. QED
  BY <1>3, <1>4

(* The other writes: the row is closed, by its owner, by an administrator, or deleted. *)
LEMMA FermetureDite ==
  ASSUME Typage, NEW q \in Requetes, FermerCompte(q) \/ Bannir(q) \/ Effacer(q)
  PROVE  /\ Deplace(q) /\ pc'[q] = "libre" /\ loc'[q] = Repos /\ courses' = courses
         /\ pc[q] \in {"fermerCompte", "bannir", "effacer"}
         /\ compte' \in Compte /\ compte'.credit = compte.credit
         /\ compte'.solde = compte.solde /\ compte'.enAttente = compte.enAttente
         /\ compte'.orphelins = compte.orphelins /\ compte'.perdu = compte.perdu
         /\ pc[q] # "fermerCompte" => compte'.anonyme = compte.anonyme
<1>1. compte \in Compte
  BY DEF Typage, TypeOK
<1>2. /\ Deplace(q) /\ pc'[q] = "libre" /\ loc'[q] = Repos /\ courses' = courses
      /\ pc[q] \in {"fermerCompte", "bannir", "effacer"}
  BY Repond DEF FermerCompte, Bannir, Effacer, Deplace
<1>3. PICK s : s = [compte EXCEPT !.statut = "BANNI", !.anonyme = TRUE]
  OBVIOUS
<1>4. PICK b : b = [compte EXCEPT !.statut = "BANNI"]
  OBVIOUS
<1>5. PICK e : e = [compte EXCEPT !.present = FALSE]
  OBVIOUS
<1>6. /\ s \in Compte /\ s.credit = compte.credit /\ s.solde = compte.solde
      /\ s.enAttente = compte.enAttente /\ s.orphelins = compte.orphelins
      /\ s.perdu = compte.perdu
  BY <1>1, <1>3 DEF Compte
<1>7. /\ b \in Compte /\ b.credit = compte.credit /\ b.solde = compte.solde
      /\ b.enAttente = compte.enAttente /\ b.orphelins = compte.orphelins
      /\ b.perdu = compte.perdu /\ b.anonyme = compte.anonyme
  BY <1>1, <1>4 DEF Compte
<1>8. /\ e \in Compte /\ e.credit = compte.credit /\ e.solde = compte.solde
      /\ e.enAttente = compte.enAttente /\ e.orphelins = compte.orphelins
      /\ e.perdu = compte.perdu /\ e.anonyme = compte.anonyme
  BY <1>1, <1>5 DEF Compte
<1>9. CASE FermerCompte(q)
  <2>1. (compte' = s \/ compte' = compte) /\ pc[q] = "fermerCompte"
    BY <1>3, <1>9 DEF FermerCompte
  <2>. QED
    BY <1>1, <1>2, <1>6, <2>1
<1>10. CASE Bannir(q)
  <2>1. compte' = b
    BY <1>4, <1>10 DEF Bannir
  <2>. QED
    BY <1>2, <1>7, <2>1
<1>11. CASE Effacer(q)
  <2>1. compte' = e \/ compte' = compte
    BY <1>5, <1>11 DEF Effacer
  <2>. QED
    BY <1>1, <1>2, <1>8, <2>1
<1>. QED
  BY <1>9, <1>10, <1>11

(* The closing of accounts keeps the types.                                *)
LEMMA TypageCompte ==
  ASSUME Typage, NEW q \in Requetes, NextComptes(q) \/ Vie
  PROVE  Typage'
<1>1. Hors("compte")
  BY HorsCompte
<1>2. /\ documents' \in Seq(DocumentKYC) /\ kycVerifie' \in BOOLEAN
      /\ litiges' \in Seq(Litige) /\ livre' \in Livre
      /\ alertes' \in Seq({"OUVERTE", "RESOLUE"})
      /\ equipe' \in [Personnes -> Membre] /\ qr' \in [Collecteurs -> QRCode]
      /\ visites' \subseteq Collecteurs \X Clients /\ commissions' \in [Collecteurs -> Gains]
      /\ facturations' \in [Collecteurs -> Facturation] /\ echeance' \in Echeance /\ jour' \in Nat
  BY <1>1 DEF Hors, Typage, TypeOK
<1>3. Grandit
  BY <1>1, HorsType DEF Grandit
<1>4. ASSUME compte' \in Compte, Deplace(q), EtapeOK(q)'
      PROVE  Typage'
  <2>1. TypeOK'
    BY <1>2, <1>4 DEF TypeOK
  <2>. QED
    BY <1>1, <1>3, <1>4, <2>1, HorsType, TypageSuit
<1>5. compte \in Compte /\ sujet' = sujet /\ sujet \in Sujets
  BY <1>1 DEF Typage, TypeOK, Hors
<1>6. ASSUME pc'[q] = "libre", loc'[q] = Repos PROVE EtapeOK(q)'
  BY <1>5, <1>6, ReposType, OperationsDites, BureauxDits DEF EtapeOK
<1>7. CASE Vie
  <2>1. compte' \in Compte /\ UNCHANGED procVars
    BY <1>7, VieEffet DEF Vecu
  <2>2. TypeOK'
    BY <1>2, <2>1 DEF TypeOK
  <2>3. (jour >= Debut(PremierMois))'
    BY <1>1 DEF Hors, Typage
  <2>. QED
    BY <1>1, <1>3, <2>1, <2>2, <2>3, HorsType, TypageReste
<1>8. CASE LireTontine(q)
  <2>1. EtapeOK(q)'
    BY <1>5, <1>8, LireTontineDit, OperationsDites, BureauxDits DEF EtapeOK
  <2>. QED
    BY <1>4, <1>5, <1>8, <2>1, LireTontineDit
<1>9. CASE LireSoldes(q)
  <2>1. EtapeOK(q)'
    BY <1>5, <1>9, LireSoldesDit, OperationsDites, BureauxDits DEF EtapeOK
  <2>. QED
    BY <1>4, <1>5, <1>9, <2>1, LireSoldesDit
<1>10. CASE LireUtilisateur(q)
  <2>1. EtapeOK(q)'
    BY <1>5, <1>10, LireUtilisateurDit, OperationsDites, BureauxDits DEF EtapeOK
  <2>. QED
    BY <1>4, <1>5, <1>10, <2>1, LireUtilisateurDit
<1>11. CASE LireCredit(q)
  <2>1. loc[q].op = "fermeture"
    BY <1>11, LireCreditDit, EtapeDe
  <2>2. EtapeOK(q)'
    BY <1>5, <1>6, <1>11, <2>1, LireCreditDit, OperationsDites, BureauxDits DEF EtapeOK
  <2>. QED
    BY <1>4, <1>5, <1>11, <2>2, LireCreditDit
<1>12. CASE EffacerTontine(q)
  BY <1>4, <1>6, <1>12, EffacerTontineDit
<1>13. CASE FermerCompte(q) \/ Bannir(q) \/ Effacer(q)
  BY <1>4, <1>6, <1>13, FermetureDite
<1>. QED
  BY <1>7, <1>8, <1>9, <1>10, <1>11, <1>12, <1>13 DEF NextComptes

(* Nobody is closing an account.                                           *)
LEMMA ComptesTables ==
  ASSUME ComptesInv, compte' = compte, courses \subseteq courses',
         \A p \in Requetes : pc'[p] \notin EtapesComptes, Typage'
  PROVE  ComptesInv'
<1>1. ASSUME NEW p \in Requetes PROVE ~Ferme(p)' /\ ~Efface(p)' /\ pc'[p] # "fermerCompte"
  <2>1. pc'[p] \in Etapes /\ loc'[p].op \in Operations(pc'[p]) /\ pc'[p] \notin EtapesComptes
    BY DEF Typage, EtapeOK
  <2>. QED
    BY <2>1, OperationsDites, EtapesDites DEF EtapesComptes, Ferme, Efface
<1>. QED
  BY <1>1 DEF ComptesInv

(* The next step, primed. *)
LEMMA EtapeApres ==
  ASSUME Typage', NEW q \in Requetes
  PROVE  /\ Ferme(q)' <=> pc'[q] \in {"lireCredit", "fermerCompte"}
         /\ Efface(q)' <=> pc'[q] = "effacerTontine"
         /\ Controle(q)' <=> pc'[q] \in EtapesSommes \cup {"comparer", "creerAlerte"}
         /\ Tourne(q)' <=> pc'[q] \in {"listerVisites", "afficher"}
         /\ Facture(q)' <=> pc'[q] = "prelever"
         /\ Modifie(q)' <=> pc'[q] = "modifier"
         /\ Cloture(q)' <=> pc'[q] = "dissoudre"
<1>1. pc'[q] \in Etapes /\ loc'[q].op \in Operations(pc'[q])
  BY DEF Typage, EtapeOK
<1>. QED
  BY <1>1, OperationsDites, EtapesDites
     DEF EtapesSommes, Ferme, Efface, Controle, Tourne, Facture, Modifie, Cloture

(* The closing of accounts keeps its invariant.                            *)
LEMMA ComptesInduit ==
  ASSUME Typage, Typage', ComptesInv, NEW q \in Requetes, NextComptes(q) \/ Vie
  PROVE  ComptesInv'
<1>0. courses \subseteq courses' /\ compte \in Compte
  BY HorsCompte DEF Hors, Typage, TypeOK
<1>1. \A p \in Requetes : /\ Ferme(p) <=> pc[p] \in {"lireCredit", "fermerCompte"}
                          /\ Efface(p) <=> pc[p] = "effacerTontine"
  BY EtapeDe DEF Ferme, Efface
<1>2. \A p \in Requetes : /\ Ferme(p)' <=> pc'[p] \in {"lireCredit", "fermerCompte"}
                          /\ Efface(p)' <=> pc'[p] = "effacerTontine"
  BY EtapeApres
<1>3. ASSUME "fermeture" \notin courses'
      PROVE  \A p \in Requetes : /\ Ferme(p)' => compte'.solde = 0
                                 /\ pc'[p] = "fermerCompte" => compte'.credit \notin EnCredit
  <2>0. \A p \in Requetes : /\ Ferme(p) => compte.solde = 0
                            /\ pc[p] = "fermerCompte" => compte.credit \notin EnCredit
    BY <1>0, <1>3 DEF ComptesInv
  <2>1. CASE Vie
    BY <1>1, <1>2, <1>3, <2>1, VieEffet DEF procVars
  <2>2. CASE LireTontine(q)
    BY <1>1, <1>2, <2>0, <2>2, LireTontineDit DEF Deplace, Seul, Reste
  <2>3. CASE LireSoldes(q)
    BY <1>1, <1>2, <2>0, <2>3, LireSoldesDit DEF Deplace, Seul, Reste
  <2>4. CASE LireUtilisateur(q)
    BY <1>1, <1>2, <2>0, <2>4, LireUtilisateurDit DEF Deplace, Seul, Reste
  <2>5. CASE LireCredit(q)
    BY <1>1, <1>2, <2>0, <2>5, LireCreditDit DEF Deplace, Seul, Reste
  <2>6. CASE EffacerTontine(q)
    BY <1>1, <1>2, <2>0, <2>6, EffacerTontineDit DEF Deplace, Seul, Reste
  <2>7. CASE FermerCompte(q) \/ Bannir(q) \/ Effacer(q)
    BY <1>1, <1>2, <2>0, <2>7, FermetureDite DEF Deplace, Seul, Reste
  <2>. QED
    BY <2>1, <2>2, <2>3, <2>4, <2>5, <2>6, <2>7 DEF NextComptes
<1>4. ASSUME "paiement" \notin courses'
      PROVE  /\ compte'.orphelins = 0
             /\ \A p \in Requetes : Efface(p)' => compte'.solde = 0 /\ compte'.enAttente = 0
  <2>0. /\ compte.orphelins = 0
        /\ \A p \in Requetes : Efface(p) => compte.solde = 0 /\ compte.enAttente = 0
    BY <1>0, <1>4 DEF ComptesInv
  <2>1. CASE Vie
    <3>1. Vecu(compte') /\ pc' = pc
      BY <2>1, VieEffet DEF procVars
    <3>2. compte'.enAttente \in Nat
      BY <3>1 DEF Vecu, Compte
    <3>3. (\E p \in Requetes : Efface(p)) => ~(compte'.enAttente > 0)
      BY <1>4, <2>1, VieEffet
    <3>4. \A p \in Requetes : Efface(p)' => Efface(p)
      BY <1>1, <1>2, <3>1
    <3>5. ASSUME NEW p \in Requetes, Efface(p)' PROVE compte'.solde = 0 /\ compte'.enAttente = 0
      BY <2>0, <3>1, <3>2, <3>3, <3>4, <3>5 DEF Vecu
    <3>. QED
      BY <2>0, <3>1, <3>5 DEF Vecu
  <2>2. CASE LireTontine(q)
    <3>1. compte.enAttente \in Nat /\ ~(compte.enAttente > 0) /\ compte.solde = 0 /\ compte' = compte
      BY <1>0, <1>4, <2>2, LireTontineDit DEF Compte
    <3>. QED
      BY <2>0, <3>1
  <2>3. CASE LireSoldes(q)
    BY <1>1, <1>2, <2>0, <2>3, LireSoldesDit DEF Deplace, Seul, Reste
  <2>4. CASE LireUtilisateur(q)
    BY <1>1, <1>2, <2>0, <2>4, LireUtilisateurDit DEF Deplace, Seul, Reste
  <2>5. CASE LireCredit(q)
    BY <1>1, <1>2, <2>0, <2>5, LireCreditDit DEF Deplace, Seul, Reste
  <2>6. CASE EffacerTontine(q)
    BY <1>1, <1>2, <2>0, <2>6, EffacerTontineDit DEF Deplace, Seul, Reste
  <2>7. CASE FermerCompte(q) \/ Bannir(q) \/ Effacer(q)
    BY <1>1, <1>2, <2>0, <2>7, FermetureDite DEF Deplace, Seul, Reste
  <2>. QED
    BY <2>1, <2>2, <2>3, <2>4, <2>5, <2>6, <2>7 DEF NextComptes
<1>. QED
  BY <1>3, <1>4 DEF ComptesInv

(* What FinSansArgent says of a step. *)
FinTenue ==
    /\ compte'.anonyme /\ ~compte.anonyme /\ "fermeture" \notin courses =>
         compte.solde = 0 /\ compte.credit \notin EnCredit
    /\ compte'.perdu > compte.perdu => "paiement" \in courses

(* A step of an account, as the action property has it.                    *)
LEMMA FinAction ==
  ASSUME Typage, ComptesInv, NEW q \in Requetes, NextComptes(q) \/ Vie
  PROVE  FinTenue
<1>0. compte \in Compte /\ compte.perdu \in Nat
  BY DEF Typage, TypeOK, Compte
<1>1. \A p \in Requetes : /\ Ferme(p) <=> pc[p] \in {"lireCredit", "fermerCompte"}
                          /\ Efface(p) <=> pc[p] = "effacerTontine"
  BY EtapeDe DEF Ferme, Efface
<1>2. ASSUME "fermeture" \notin courses, compte'.anonyme, ~compte.anonyme
      PROVE  compte.solde = 0 /\ compte.credit \notin EnCredit
  <2>1. CASE Vie
    BY <1>2, <2>1, VieEffet DEF Vecu
  <2>2. CASE LireTontine(q) \/ LireSoldes(q) \/ LireUtilisateur(q) \/ LireCredit(q)
    BY <1>2, <2>2, LireTontineDit, LireSoldesDit, LireUtilisateurDit, LireCreditDit
  <2>3. CASE EffacerTontine(q)
    BY <1>2, <2>3, EffacerTontineDit
  <2>4. CASE FermerCompte(q) \/ Bannir(q) \/ Effacer(q)
    BY <1>1, <1>2, <2>4, FermetureDite DEF ComptesInv
  <2>. QED
    BY <2>1, <2>2, <2>3, <2>4 DEF NextComptes
<1>3. ASSUME "paiement" \notin courses PROVE compte'.perdu = compte.perdu
  <2>1. CASE Vie
    BY <1>3, <2>1, VieEffet DEF Vecu, ComptesInv
  <2>2. CASE LireTontine(q) \/ LireSoldes(q) \/ LireUtilisateur(q) \/ LireCredit(q)
    BY <2>2, LireTontineDit, LireSoldesDit, LireUtilisateurDit, LireCreditDit
  <2>3. CASE EffacerTontine(q)
    BY <1>1, <1>3, <2>3, EffacerTontineDit DEF ComptesInv
  <2>4. CASE FermerCompte(q) \/ Bannir(q) \/ Effacer(q)
    BY <2>4, FermetureDite
  <2>. QED
    BY <2>1, <2>2, <2>3, <2>4 DEF NextComptes
<1>. QED
  BY <1>0, <1>2, <1>3 DEF FinTenue

-----------------------------------------------------------------------------
(* The accounting check. *)

Caisse == Crediter \/ Recrediter \/ Debiter \/ Distribuer

(* What a movement of money does: the check under way is no longer quiet.  *)
LEMMA CaisseDite ==
  ASSUME Typage, Caisse
  PROVE  /\ livre' \in Livre /\ calme' = FALSE /\ alertes' = alertes /\ UNCHANGED procVars
         /\ UNCHANGED horsAlertes /\ courses' = courses /\ ecritures' \in Nat
         /\ sujet = "surveillance"
<1>1. livre \in Livre /\ Montant = 2 /\ ecritures \in Nat
  BY DEF Typage, TypeOK, Montant
<1>2. /\ livre.solde \in Int /\ livre.cotise + 2 \in Nat /\ livre.retire + 2 \in Nat
      /\ livre.solde + 2 \in Int /\ livre.solde - 2 \in Int
      /\ livre.solde > 0 => livre.distribue + livre.solde \in Nat
  BY <1>1 DEF Livre
<1>3. ASSUME NEW s \in Livre, Ecrire(s)
      PROVE  /\ livre' \in Livre /\ calme' = FALSE /\ alertes' = alertes /\ UNCHANGED procVars
             /\ UNCHANGED horsAlertes /\ courses' = courses /\ ecritures' \in Nat
             /\ sujet = "surveillance"
  BY <1>1, <1>3 DEF Ecrire
<1>4. CASE Crediter
  <2>1. PICK s : s = [livre EXCEPT !.solde = @ + Montant, !.cotise = @ + Montant]
    OBVIOUS
  <2>2. s \in Livre
    BY <1>1, <1>2, <2>1 DEF Livre
  <2>3. Ecrire(s)
    BY <1>4, <2>1 DEF Crediter
  <2>. QED
    BY <1>3, <2>2, <2>3
<1>5. CASE Recrediter
  <2>1. PICK s : s = [livre EXCEPT !.solde = @ + Montant]
    OBVIOUS
  <2>2. s \in Livre
    BY <1>1, <1>2, <2>1 DEF Livre
  <2>3. Ecrire(s)
    BY <1>5, <2>1 DEF Recrediter
  <2>. QED
    BY <1>3, <2>2, <2>3
<1>6. CASE Debiter
  <2>1. PICK s : s = [livre EXCEPT !.solde = @ - Montant, !.retire = @ + Montant]
    OBVIOUS
  <2>2. s \in Livre
    BY <1>1, <1>2, <2>1 DEF Livre
  <2>3. Ecrire(s)
    BY <1>6, <2>1 DEF Debiter
  <2>. QED
    BY <1>3, <2>2, <2>3
<1>7. CASE Distribuer
  <2>1. PICK d \in Nat : d = livre.distribue + livre.solde
    BY <1>2, <1>7 DEF Distribuer
  <2>2. PICK z \in Int : z = 0
    OBVIOUS
  <2>3. PICK s : s = [livre EXCEPT !.solde = z, !.distribue = d]
    OBVIOUS
  <2>4. s \in Livre
    BY <1>1, <2>3 DEF Livre
  <2>5. Ecrire(s)
    BY <1>7, <2>1, <2>2, <2>3 DEF Distribuer
  <2>. QED
    BY <1>3, <2>4, <2>5
<1>. QED
  BY <1>4, <1>5, <1>6, <1>7 DEF Caisse

(* The accounting check leaves the tables of the others alone.             *)
LEMMA HorsSurveillance ==
  ASSUME Typage, NEW q \in Requetes, NextSurveillance(q) \/ Caisse
  PROVE  Hors("surveillance")
<1>1. UNCHANGED horsAlertes /\ courses' = courses
  BY CaisseDite
     DEF NextSurveillance, LireSolde, SommerCotisations, SommerRetraits, SommerDistributions, Sommer,
         Comparer, CreerAlerte, LireAlerte, EcrireAlerte
<1>2. ecritures' \in Nat
  <2>1. CASE Caisse
    BY <2>1, CaisseDite
  <2>2. CASE NextSurveillance(q)
    <3>1. ecritures' = ecritures
      BY <2>2 DEF NextSurveillance, LireSolde, SommerCotisations, SommerRetraits,
                  SommerDistributions, Sommer, Comparer, CreerAlerte, LireAlerte, EcrireAlerte
    <3>. QED
      BY <3>1 DEF Typage
  <2>. QED
    BY <2>1, <2>2
<1>. QED
  BY <1>1, <1>2 DEF horsAlertes, terrain, dates, Hors, Typage

(* A check begins with the balance.                                        *)
LEMMA LireSoldeDit ==
  ASSUME Typage, NEW q \in Requetes, LireSolde(q)
  PROVE  /\ Deplace(q) /\ UNCHANGED <<livre, alertes>> /\ sujet = "surveillance"
         /\ \A p \in Requetes : ~Controle(p)
         /\ pc'[q] = "sommerCotisations" /\ loc'[q].op = "controle"
         /\ loc'[q].solde = livre.solde /\ loc'[q].somme = 0
         /\ calme' = (\A p \in Requetes : loc[p].op = "aucune")
<1>1. PICK w : w = [Repos EXCEPT !.op = "controle", !.solde = livre.solde]
  OBVIOUS
<1>2. livre.solde \in Int
  BY DEF Typage, TypeOK, Livre
<1>3. w \in Travail /\ w.op = "controle" /\ w.solde = livre.solde /\ w.somme = Repos.somme
  BY <1>1, <1>2, ReposType DEF Travail, Operation
<1>4. Repos.somme = 0
  BY DEF Repos
<1>5. Commencer(q, "sommerCotisations", w) /\ "sommerCotisations" \in Etapes
  BY <1>1, EtapesDites DEF LireSolde
<1>. QED
  BY <1>3, <1>4, <1>5, Commence DEF LireSolde, Deplace

(* One of its three sums is read.                                          *)
LEMMA SommerDit ==
  ASSUME Typage, NEW q \in Requetes, NEW de, NEW vers \in Etapes, NEW n \in Int,
         Sommer(q, de, vers, n)
  PROVE  /\ Deplace(q) /\ UNCHANGED <<livre, alertes, calme>>
         /\ pc[q] = de /\ pc'[q] = vers
         /\ loc'[q].op = loc[q].op /\ loc'[q].solde = loc[q].solde
         /\ loc'[q].somme = loc[q].somme + n
<1>1. loc[q] \in Travail /\ loc \in [Requetes -> Travail] /\ pc \in [Requetes -> Etapes]
  BY DEF Typage
<1>2. PICK w : w = [loc[q] EXCEPT !.somme = @ + n]
  OBVIOUS
<1>3. loc[q].somme \in Int /\ loc[q].somme + n \in Int
  BY <1>1 DEF Travail
<1>4. /\ w \in Travail /\ w.op = loc[q].op /\ w.solde = loc[q].solde
      /\ w.somme = loc[q].somme + n
  BY <1>1, <1>2, <1>3 DEF Travail
<1>5. loc' = [loc EXCEPT ![q] = w] /\ pc' = [pc EXCEPT ![q] = vers]
  BY <1>2 DEF Sommer, Vers
<1>6. Deplace(q) /\ pc'[q] = vers /\ loc'[q] = w
  BY <1>1, <1>4, <1>5 DEF Deplace, Seul, Reste
<1>. QED
  BY <1>4, <1>6 DEF Sommer

(* Each sum takes the check one step further.                              *)
LEMMA SommesDites ==
  ASSUME Typage, NEW q \in Requetes,
         SommerCotisations(q) \/ SommerRetraits(q) \/ SommerDistributions(q)
  PROVE  /\ Deplace(q) /\ UNCHANGED <<livre, alertes, calme>> /\ sujet = "surveillance"
         /\ Controle(q) /\ loc'[q].op = "controle" /\ loc'[q].solde = loc[q].solde
         /\ \/ /\ pc[q] = "sommerCotisations" /\ pc'[q] = "sommerRetraits"
               /\ loc'[q].somme = loc[q].somme + livre.cotise
            \/ /\ pc[q] = "sommerRetraits" /\ pc'[q] = "sommerDistributions"
               /\ loc'[q].somme = loc[q].somme + (-livre.retire)
            \/ /\ pc[q] = "sommerDistributions" /\ pc'[q] = "comparer"
               /\ loc'[q].somme = loc[q].somme + (-livre.distribue)
<1>1. /\ livre.cotise \in Int /\ -livre.retire \in Int /\ -livre.distribue \in Int
      /\ "sommerRetraits" \in Etapes /\ "sommerDistributions" \in Etapes /\ "comparer" \in Etapes
  BY EtapesDites DEF Typage, TypeOK, Livre
<1>2. ASSUME pc[q] \in EtapesSommes PROVE sujet = "surveillance" /\ Controle(q) /\ loc[q].op = "controle"
  <2>1. sujet \in Bureaux(pc[q])
    BY DEF Typage, EtapeOK
  <2>. QED
    BY <1>2, <2>1, BureauxDits, EtapeDe DEF EtapesSommes, Controle
<1>3. CASE SommerCotisations(q)
  BY <1>1, <1>2, <1>3, SommerDit DEF SommerCotisations, EtapesSommes
<1>4. CASE SommerRetraits(q)
  BY <1>1, <1>2, <1>4, SommerDit DEF SommerRetraits, EtapesSommes
<1>5. CASE SommerDistributions(q)
  BY <1>1, <1>2, <1>5, SommerDit DEF SommerDistributions, EtapesSommes
<1>. QED
  BY <1>3, <1>4, <1>5

(* The check compares: it resolves, goes on to open, or ends.              *)
LEMMA ComparerDit ==
  ASSUME Typage, NEW q \in Requetes, Comparer(q)
  PROVE  /\ Deplace(q) /\ UNCHANGED <<livre, calme>> /\ pc[q] = "comparer" /\ sujet = "surveillance"
         /\ Controle(q)
         /\ \/ /\ Ecart(loc[q].solde, loc[q].somme) > 1 /\ Ouvertes = {} /\ alertes' = alertes
               /\ pc'[q] = "creerAlerte" /\ loc'[q] = loc[q]
            \/ /\ Ecart(loc[q].solde, loc[q].somme) > 1 /\ Ouvertes # {} /\ alertes' = alertes
               /\ pc'[q] = "libre" /\ loc'[q] = Repos
            \/ /\ ~(Ecart(loc[q].solde, loc[q].somme) > 1)
               /\ alertes' = [a \in DOMAIN alertes |-> "RESOLUE"]
               /\ pc'[q] = "libre" /\ loc'[q] = Repos
<1>1. pc[q] = "comparer" /\ sujet = "surveillance" /\ Controle(q) /\ "creerAlerte" \in Etapes
  BY BureauxDits, EtapesDites, EtapeDe DEF Comparer, Typage, EtapeOK, Controle
<1>2. CASE Ecart(loc[q].solde, loc[q].somme) > 1 /\ Ouvertes = {}
  BY <1>1, <1>2, Avance DEF Comparer, Deplace
<1>3. CASE Ecart(loc[q].solde, loc[q].somme) > 1 /\ Ouvertes # {}
  BY <1>1, <1>3, Repond DEF Comparer, Deplace
<1>4. CASE ~(Ecart(loc[q].solde, loc[q].somme) > 1)
  BY <1>1, <1>4, Repond DEF Comparer, Deplace
<1>. QED
  BY <1>2, <1>3, <1>4

(* An alert is opened.                                                     *)
LEMMA CreerAlerteDit ==
  ASSUME Typage, NEW q \in Requetes, CreerAlerte(q)
  PROVE  /\ Deplace(q) /\ UNCHANGED <<livre, calme>> /\ pc[q] = "creerAlerte"
         /\ sujet = "surveillance" /\ Controle(q)
         /\ pc'[q] = "libre" /\ loc'[q] = Repos /\ alertes' = Append(alertes, "OUVERTE")
<1>1. pc[q] = "creerAlerte" /\ sujet = "surveillance" /\ Controle(q)
  BY BureauxDits, EtapeDe DEF CreerAlerte, Typage, EtapeOK, Controle
<1>. QED
  BY <1>1, Repond DEF CreerAlerte, Deplace

(* An administrator is about to write the status of an alert.              *)
LEMMA LireAlerteDit ==
  ASSUME Typage, NEW q \in Requetes, LireAlerte(q)
  PROVE  /\ Deplace(q) /\ UNCHANGED <<livre, alertes>> /\ calme' = FALSE /\ sujet = "surveillance"
         /\ pc'[q] = "ecrireAlerte" /\ loc'[q].op = "alerte"
         /\ loc'[q].n \in DOMAIN alertes /\ loc'[q].cible \in {"OUVERTE", "RESOLUE"}
<1>1. PICK a \in DOMAIN alertes :
          Commencer(q, "ecrireAlerte", [Repos EXCEPT !.op = "alerte", !.n = a,
                !.cible = IF alertes[a] = "OUVERTE" THEN "RESOLUE" ELSE "OUVERTE"])
  BY DEF LireAlerte
<1>2. PICK c \in {"OUVERTE", "RESOLUE"} : c = IF alertes[a] = "OUVERTE" THEN "RESOLUE" ELSE "OUVERTE"
  OBVIOUS
<1>3. PICK w : w = [Repos EXCEPT !.op = "alerte", !.n = a, !.cible = c]
  OBVIOUS
<1>4. a \in Nat
  BY DEF Typage, TypeOK
<1>5. w \in Travail /\ w.op = "alerte" /\ w.n = a /\ w.cible = c
  BY <1>3, <1>4, ReposType DEF Travail, Operation, Cibles
<1>6. Commencer(q, "ecrireAlerte", w) /\ "ecrireAlerte" \in Etapes
  BY <1>1, <1>2, <1>3, EtapesDites
<1>. QED
  BY <1>5, <1>6, Commence DEF LireAlerte, Deplace

(* The status is written.                                                  *)
LEMMA EcrireAlerteDit ==
  ASSUME Typage, NEW q \in Requetes, EcrireAlerte(q)
  PROVE  /\ Deplace(q) /\ livre' = livre /\ calme' = FALSE /\ pc[q] = "ecrireAlerte"
         /\ pc'[q] = "libre" /\ loc'[q] = Repos
         /\ loc[q].n \in DOMAIN alertes /\ loc[q].cible \in {"OUVERTE", "RESOLUE"}
         /\ alertes' = [alertes EXCEPT ![loc[q].n] = loc[q].cible]
<1>1. loc[q].n \in DOMAIN alertes /\ loc[q].cible \in {"OUVERTE", "RESOLUE"}
  BY DEF EcrireAlerte, Typage, EtapeOK
<1>. QED
  BY <1>1, Repond DEF EcrireAlerte, Deplace

(* All open alerts are resolved: none is open.                             *)
LEMMA ToutesResolues ==
  ASSUME NEW s \in Seq({"OUVERTE", "RESOLUE"})
  PROVE  /\ [a \in DOMAIN s |-> "RESOLUE"] \in Seq({"OUVERTE", "RESOLUE"})
         /\ DOMAIN [a \in DOMAIN s |-> "RESOLUE"] = DOMAIN s
<1>1. DOMAIN s = 1 .. Len(s) /\ Len(s) \in Nat
  OBVIOUS
<1>2. [a \in 1 .. Len(s) |-> "RESOLUE"] \in [1 .. Len(s) -> {"OUVERTE", "RESOLUE"}]
  OBVIOUS
<1>. QED
  BY <1>1, <1>2

(* The accounting check keeps the types.                                   *)
LEMMA TypageSurveillance ==
  ASSUME Typage, NEW q \in Requetes, NextSurveillance(q) \/ Caisse
  PROVE  Typage'
<1>1. Hors("surveillance")
  BY HorsSurveillance
<1>2. /\ documents' \in Seq(DocumentKYC) /\ kycVerifie' \in BOOLEAN
      /\ litiges' \in Seq(Litige) /\ compte' \in Compte
      /\ equipe' \in [Personnes -> Membre] /\ qr' \in [Collecteurs -> QRCode]
      /\ visites' \subseteq Collecteurs \X Clients /\ commissions' \in [Collecteurs -> Gains]
      /\ facturations' \in [Collecteurs -> Facturation] /\ echeance' \in Echeance /\ jour' \in Nat
  BY <1>1 DEF Hors, Typage, TypeOK
<1>3. ASSUME livre' \in Livre, alertes' \in Seq({"OUVERTE", "RESOLUE"}), calme' \in BOOLEAN,
             DOMAIN alertes \subseteq DOMAIN alertes', Deplace(q), EtapeOK(q)'
      PROVE  Typage'
  <2>1. TypeOK'
    BY <1>2, <1>3 DEF TypeOK
  <2>2. Grandit
    BY <1>1, <1>3, HorsType DEF Grandit
  <2>. QED
    BY <1>1, <1>3, <2>1, <2>2, HorsType, TypageSuit
<1>4. /\ livre \in Livre /\ alertes \in Seq({"OUVERTE", "RESOLUE"}) /\ calme \in BOOLEAN
      /\ sujet' = sujet /\ sujet \in Sujets
  BY <1>1 DEF Typage, TypeOK, Hors
<1>5. ASSUME pc'[q] = "libre", loc'[q] = Repos PROVE EtapeOK(q)'
  BY <1>4, <1>5, ReposType, OperationsDites, BureauxDits DEF EtapeOK
<1>6. CASE Caisse
  <2>1. /\ livre' \in Livre /\ alertes' = alertes /\ UNCHANGED procVars /\ calme' \in BOOLEAN
    BY <1>6, CaisseDite
  <2>2. TypeOK'
    BY <1>2, <1>4, <2>1 DEF TypeOK
  <2>3. (jour >= Debut(PremierMois))' /\ Grandit
    BY <1>1, <2>1, HorsType DEF Hors, Typage, Grandit
  <2>. QED
    BY <1>1, <2>1, <2>2, <2>3, HorsType, TypageReste
<1>7. CASE LireSolde(q)
  <2>1. sujet' = "surveillance" /\ pc'[q] = "sommerCotisations" /\ loc'[q].op = "controle"
    BY <1>4, <1>7, LireSoldeDit
  <2>2. EtapeOK(q)'
    BY <2>1, OperationsDites, BureauxDits DEF EtapeOK
  <2>3. calme' \in BOOLEAN
    BY <1>7, LireSoldeDit
  <2>. QED
    BY <1>3, <1>4, <1>7, <2>2, <2>3, LireSoldeDit
<1>8. CASE SommerCotisations(q) \/ SommerRetraits(q) \/ SommerDistributions(q)
  <2>1. EtapeOK(q)'
    BY <1>4, <1>8, SommesDites, OperationsDites, BureauxDits DEF EtapeOK
  <2>. QED
    BY <1>3, <1>4, <1>8, <2>1, SommesDites
<1>9. CASE Comparer(q)
  <2>1. EtapeOK(q)'
    <3>1. CASE pc'[q] = "libre"
      BY <1>5, <1>9, <3>1, ComparerDit
    <3>2. CASE pc'[q] # "libre"
      BY <1>4, <1>9, <3>2, ComparerDit, OperationsDites, BureauxDits DEF EtapeOK, Controle
    <3>. QED
      BY <3>1, <3>2
  <2>2. alertes' \in Seq({"OUVERTE", "RESOLUE"}) /\ DOMAIN alertes \subseteq DOMAIN alertes'
    BY <1>4, <1>9, ComparerDit, ToutesResolues
  <2>. QED
    BY <1>3, <1>4, <1>9, <2>1, <2>2, ComparerDit
<1>10. CASE CreerAlerte(q)
  <2>1. alertes' \in Seq({"OUVERTE", "RESOLUE"}) /\ DOMAIN alertes \subseteq DOMAIN alertes'
    BY <1>4, <1>10, CreerAlerteDit, SequenceSuit
  <2>. QED
    BY <1>3, <1>4, <1>5, <1>10, <2>1, CreerAlerteDit
<1>11. CASE LireAlerte(q)
  <2>1. /\ sujet' = "surveillance" /\ pc'[q] = "ecrireAlerte" /\ loc'[q].op = "alerte"
        /\ loc'[q].n \in DOMAIN alertes' /\ loc'[q].cible \in {"OUVERTE", "RESOLUE"}
    BY <1>4, <1>11, LireAlerteDit
  <2>2. EtapeOK(q)'
    BY <2>1, OperationsDites, BureauxDits DEF EtapeOK
  <2>3. calme' \in BOOLEAN
    BY <1>11, LireAlerteDit
  <2>. QED
    BY <1>3, <1>4, <1>11, <2>2, <2>3, LireAlerteDit
<1>12. CASE EcrireAlerte(q)
  <2>1. PICK S : S = {"OUVERTE", "RESOLUE"}
    OBVIOUS
  <2>2. PICK i \in DOMAIN alertes, c \in S : alertes' = [alertes EXCEPT ![i] = c]
    BY ZenonT(40), <1>12, <2>1, EcrireAlerteDit
  <2>3. alertes' \in Seq(S) /\ DOMAIN alertes \subseteq DOMAIN alertes'
    BY <1>4, <2>1, <2>2, SequenceEcrite
  <2>4. calme' \in BOOLEAN
    BY <1>12, EcrireAlerteDit
  <2>. QED
    BY <1>3, <1>4, <1>5, <1>12, <2>1, <2>3, <2>4, EcrireAlerteDit
<1>. QED
  BY <1>6, <1>7, <1>8, <1>9, <1>10, <1>11, <1>12 DEF NextSurveillance

(* No check is under way, or the process died.                             *)
LEMMA SurveillanceTables ==
  ASSUME SurveillanceInv, Typage', UNCHANGED <<livre, alertes, sujet>>,
         calme' = calme \/ calme' = FALSE,
         sujet # "surveillance" \/ (calme' = FALSE /\ \A p \in Requetes : pc'[p] = "libre")
  PROVE  SurveillanceInv'
<1>1. ASSUME NEW p \in Requetes PROVE ~Controle(p)'
  <2>1. sujet' \in Bureaux(pc'[p])
    BY DEF Typage, EtapeOK
  <2>2. Controle(p)' <=> pc'[p] \in EtapesSommes \cup {"comparer", "creerAlerte"}
    BY EtapeApres
  <2>. QED
    BY <2>1, <2>2, BureauxDits DEF EtapesSommes
<1>. QED
  BY <1>1 DEF SurveillanceInv

(* The accounting check keeps its invariant.                               *)
LEMMA SurveillanceInduit ==
  ASSUME Typage, Typage', SurveillanceInv, NEW q \in Requetes, NextSurveillance(q) \/ Caisse
  PROVE  SurveillanceInv'
<1>0. /\ livre \in Livre /\ alertes \in Seq({"OUVERTE", "RESOLUE"}) /\ calme \in BOOLEAN
      /\ sujet' = sujet
  BY HorsSurveillance DEF Typage, TypeOK, Hors
<1>1. \A p \in Requetes : Controle(p) <=> pc[p] \in EtapesSommes \cup {"comparer", "creerAlerte"}
  BY EtapeDe DEF Controle
<1>2. \A p \in Requetes : Controle(p)' <=> pc'[p] \in EtapesSommes \cup {"comparer", "creerAlerte"}
  BY EtapeApres
<1>3. ASSUME Deplace(q), Controle(q) \/ ~Controle(q)' \/ \A p \in Requetes : ~Controle(p)
      PROVE  \A p, r \in Requetes : Controle(p)' /\ Controle(r)' => p = r
  <2>1. \A p \in Requetes \ {q} : Controle(p)' <=> Controle(p)
    BY <1>3 DEF Deplace, Seul, Reste, Controle
  <2>. QED
    BY <1>3, <2>1 DEF SurveillanceInv
<1>4. CASE Caisse
  <2>1. calme' = FALSE /\ UNCHANGED procVars
    BY <1>4, CaisseDite
  <2>2. \A p \in Requetes : Controle(p)' <=> Controle(p)
    BY <2>1 DEF procVars, Controle
  <2>. QED
    BY <2>1, <2>2 DEF SurveillanceInv
<1>5. CASE LireSolde(q)
  <2>1. \A p, r \in Requetes : Controle(p)' /\ Controle(r)' => p = r
    BY <1>3, <1>5, LireSoldeDit
  <2>2. Controle(q)'
    BY <1>2, <1>5, LireSoldeDit DEF EtapesSommes
  <2>3. ASSUME calme' PROVE \A p \in Requetes : pc'[p] # "ecrireAlerte"
    <3>1. \A p \in Requetes : pc[p] = "libre"
      BY <1>5, <2>3, LireSoldeDit, EtapeDe
    <3>. QED
      BY <1>5, <3>1, LireSoldeDit DEF Deplace, Seul, Reste
  <2>4. ASSUME NEW p \in Requetes, Controle(p)'
        PROVE  /\ loc'[p].solde = livre'.solde /\ loc'[p].somme = Somme(p)'
               /\ pc'[p] # "creerAlerte"
    <3>1. p = q
      BY <2>1, <2>2, <2>4
    <3>. QED
      BY <1>5, <3>1, LireSoldeDit DEF Somme
  <2>. QED
    BY <2>1, <2>2, <2>3, <2>4 DEF SurveillanceInv
<1>6. CASE SommerCotisations(q) \/ SommerRetraits(q) \/ SommerDistributions(q)
  <2>1. \A p, r \in Requetes : Controle(p)' /\ Controle(r)' => p = r
    BY <1>3, <1>6, SommesDites
  <2>2. Controle(q)' /\ pc'[q] # "creerAlerte" /\ pc'[q] # "ecrireAlerte"
    BY <1>2, <1>6, SommesDites DEF EtapesSommes
  <2>3. ASSUME calme', sujet = "surveillance"
        PROVE  /\ \A p \in Requetes : pc'[p] # "ecrireAlerte"
               /\ loc'[q].solde = livre'.solde /\ loc'[q].somme = Somme(q)'
    <3>1. calme /\ livre' = livre
      BY <1>6, <2>3, SommesDites
    <3>2. /\ \A p \in Requetes : pc[p] # "ecrireAlerte"
          /\ loc[q].solde = livre.solde /\ loc[q].somme = Somme(q)
      BY <1>6, <2>3, <3>1, SommesDites DEF SurveillanceInv
    <3>3. \A p \in Requetes : pc'[p] # "ecrireAlerte"
      BY <1>6, <2>2, <3>2, SommesDites DEF Deplace, Seul, Reste
    <3>4. loc'[q].solde = livre'.solde
      BY <1>6, <3>1, <3>2, SommesDites
    <3>5. /\ livre.cotise \in Nat /\ livre.retire \in Nat /\ livre.distribue \in Nat
      BY <1>0 DEF Livre
    <3>6. loc'[q].somme = Somme(q)'
      <4>1. CASE pc[q] = "sommerCotisations"
        <5>1. pc'[q] = "sommerRetraits" /\ loc'[q].somme = loc[q].somme + livre.cotise
          BY <1>6, <4>1, SommesDites
        <5>2. Somme(q)' = livre'.cotise /\ loc[q].somme = 0
          BY <3>2, <4>1, <5>1 DEF Somme
        <5>. QED
          BY <3>1, <3>5, <5>1, <5>2
      <4>2. CASE pc[q] = "sommerRetraits"
        BY <1>6, <3>1, <3>2, <3>5, <4>2, SommesDites DEF Somme
      <4>3. CASE pc[q] = "sommerDistributions"
        BY <1>6, <3>1, <3>2, <3>5, <4>3, SommesDites DEF Somme
      <4>. QED
        BY <1>6, <4>1, <4>2, <4>3, SommesDites
    <3>. QED
      BY <3>3, <3>4, <3>6
  <2>4. ASSUME calme', sujet = "surveillance", NEW p \in Requetes, Controle(p)'
        PROVE  /\ loc'[p].solde = livre'.solde /\ loc'[p].somme = Somme(p)'
               /\ pc'[p] # "creerAlerte"
    <3>1. p = q
      BY <2>1, <2>2, <2>4
    <3>. QED
      BY <2>2, <2>3, <2>4, <3>1
  <2>5. \E p \in Requetes : Controle(p)'
    BY <2>2
  <2>. QED
    BY <1>0, <2>1, <2>3, <2>4, <2>5 DEF SurveillanceInv
<1>7. CASE Comparer(q)
  <2>1. \A p, r \in Requetes : Controle(p)' /\ Controle(r)' => p = r
    BY <1>3, <1>7, ComparerDit
  <2>2. ASSUME calme'
        PROVE  /\ \A p \in Requetes : pc[p] # "ecrireAlerte"
               /\ Ecart(loc[q].solde, loc[q].somme) = EcartReel /\ livre' = livre
               /\ EcartReel' = EcartReel
    <3>1. /\ \A p \in Requetes : pc[p] # "ecrireAlerte"
          /\ loc[q].solde = livre.solde /\ loc[q].somme = Somme(q) /\ livre' = livre
      BY <1>7, <2>2, ComparerDit DEF SurveillanceInv
    <3>2. Somme(q) = livre.cotise - livre.retire - livre.distribue
      BY <1>7, ComparerDit DEF Somme
    <3>. QED
      BY <3>1, <3>2 DEF EcartReel
  <2>3. ASSUME calme' PROVE \A p \in Requetes : pc'[p] # "ecrireAlerte"
    BY <1>7, <2>2, <2>3, ComparerDit DEF Deplace, Seul, Reste
  <2>4. \A p \in Requetes \ {q} : ~Controle(p)' 
    BY <1>7, ComparerDit DEF SurveillanceInv, Deplace, Seul, Reste, Controle
  <2>5. CASE pc'[q] = "creerAlerte"
    <3>1. /\ Ecart(loc[q].solde, loc[q].somme) > 1 /\ loc'[q] = loc[q] /\ livre' = livre
          /\ calme' = calme /\ sujet = "surveillance"
      BY <1>7, <2>5, ComparerDit
    <3>2. Controle(q)'
      BY <1>2, <2>5
    <3>3. ASSUME calme' PROVE /\ loc'[q].solde = livre'.solde /\ loc'[q].somme = Somme(q)'
                              /\ (EcartReel > 1)'
      <4>1. loc[q].solde = livre.solde /\ loc[q].somme = Somme(q)
        BY <1>7, <3>1, <3>3, ComparerDit DEF SurveillanceInv
      <4>2. Somme(q)' = Somme(q)
        BY <1>7, <2>5, <3>1, ComparerDit DEF Somme
      <4>. QED
        BY <2>2, <3>1, <3>3, <4>1, <4>2
    <3>. QED
      BY <2>1, <2>3, <2>4, <3>2, <3>3 DEF SurveillanceInv
  <2>6. CASE pc'[q] # "creerAlerte"
    <3>1. ~Controle(q)'
      BY <1>2, <1>7, <2>6, ComparerDit DEF EtapesSommes
    <3>2. ASSUME calme' PROVE (Ouvertes' # {}) <=> (EcartReel > 1)'
      <4>1. CASE Ecart(loc[q].solde, loc[q].somme) > 1
        <5>1. Ouvertes # {} /\ alertes' = alertes
          BY <1>7, <2>6, <4>1, ComparerDit
        <5>. QED
          BY <2>2, <3>2, <4>1, <5>1 DEF Ouvertes
      <4>2. CASE ~(Ecart(loc[q].solde, loc[q].somme) > 1)
        <5>1. alertes' = [a \in DOMAIN alertes |-> "RESOLUE"]
          BY <1>7, <4>2, ComparerDit
        <5>2. Ouvertes' = {}
          BY <5>1 DEF Ouvertes
        <5>. QED
          BY <2>2, <3>2, <4>2, <5>2
      <4>. QED
        BY <4>1, <4>2
    <3>. QED
      BY <2>1, <2>3, <2>4, <3>1, <3>2 DEF SurveillanceInv
  <2>. QED
    BY <2>5, <2>6
<1>8. CASE CreerAlerte(q)
  <2>1. ~Controle(q)' /\ Controle(q)
    BY <1>2, <1>8, CreerAlerteDit DEF EtapesSommes
  <2>2. \A p, r \in Requetes : Controle(p)' /\ Controle(r)' => p = r
    BY <1>3, <1>8, <2>1, CreerAlerteDit
  <2>3. \A p \in Requetes : ~Controle(p)'
    BY <1>8, <2>1, CreerAlerteDit DEF SurveillanceInv, Deplace, Seul, Reste, Controle
  <2>4. Ouvertes' # {}
    <3>1. /\ Len(alertes) + 1 \in DOMAIN alertes' /\ alertes'[Len(alertes) + 1] = "OUVERTE"
      BY <1>0, <1>8, CreerAlerteDit, SequenceSuit
    <3>. QED
      BY <3>1 DEF Ouvertes
  <2>5. ASSUME calme' PROVE (EcartReel > 1)' /\ \A p \in Requetes : pc'[p] # "ecrireAlerte"
    <3>1. EcartReel > 1 /\ \A p \in Requetes : pc[p] # "ecrireAlerte"
      BY <1>8, <2>1, <2>5, CreerAlerteDit DEF SurveillanceInv
    <3>. QED
      BY <1>8, <3>1, CreerAlerteDit DEF EcartReel, Deplace, Seul, Reste
  <2>. QED
    BY <2>2, <2>3, <2>4, <2>5 DEF SurveillanceInv
<1>9. CASE LireAlerte(q)
  <2>1. ~Controle(q)' /\ calme' = FALSE
    BY <1>2, <1>9, LireAlerteDit DEF EtapesSommes
  <2>. QED
    BY <1>3, <1>9, <2>1, LireAlerteDit DEF SurveillanceInv
<1>10. CASE EcrireAlerte(q)
  <2>1. ~Controle(q)' /\ calme' = FALSE
    BY <1>2, <1>10, EcrireAlerteDit DEF EtapesSommes
  <2>. QED
    BY <1>3, <1>10, <2>1, EcrireAlerteDit DEF SurveillanceInv
<1>. QED
  BY <1>4, <1>5, <1>6, <1>7, <1>8, <1>9, <1>10 DEF NextSurveillance

-----------------------------------------------------------------------------
(* The collectors. *)

Chef == \/ ChangerStatutMembre \/ ChangerRole \/ EcrireCode \/ ExpirerCode \/ Minuit \/ Gagner

(* A client is about to be given another collector. *)
LEMMA ReassignerDit ==
  ASSUME Typage, NEW q \in Requetes, Reassigner(q)
  PROVE  /\ Deplace(q) /\ UNCHANGED terrain /\ courses' = courses /\ sujet \in {"liens", "tournee"}
         /\ pc[q] = "libre" /\ pc'[q] = "lireCollecteur" /\ loc'[q].op = "reassignation"
         /\ loc'[q].qui \in Clients /\ loc'[q].a \in Collecteurs
<1>1. PICK k \in Clients, c \in Collecteurs :
          Commencer(q, "lireCollecteur", [Repos EXCEPT !.op = "reassignation", !.qui = k, !.a = c])
  BY DEF Reassigner
<1>2. PICK w : w = [Repos EXCEPT !.op = "reassignation", !.qui = k, !.a = c]
  OBVIOUS
<1>3. k \in Gens /\ c \in Gens
  BY DEF Gens, Personnes
<1>4. w \in Travail /\ w.op = "reassignation" /\ w.qui = k /\ w.a = c
  BY <1>2, <1>3, ReposType DEF Travail, Operation
<1>5. Commencer(q, "lireCollecteur", w) /\ "lireCollecteur" \in Etapes
  BY <1>1, <1>2, EtapesDites
<1>. QED
  BY <1>4, <1>5, Commence DEF Reassigner, Deplace

(* His new collector is read, and accepted or not. *)
LEMMA LireCollecteurDit ==
  ASSUME Typage, NEW q \in Requetes, LireCollecteur(q)
  PROVE  /\ Deplace(q) /\ UNCHANGED terrain /\ courses' = courses /\ sujet \in {"liens", "tournee"}
         /\ pc[q] = "lireCollecteur"
         /\ \/ pc'[q] = "libre" /\ loc'[q] = Repos
            \/ /\ pc'[q] = "lier" /\ loc'[q] = loc[q] /\ loc[q].op = "reassignation"
               /\ loc[q].qui \in Clients /\ loc[q].a \in Collecteurs
               /\ Collecteur(loc[q].a) /\ equipe[loc[q].a].actif
<1>1. /\ pc[q] = "lireCollecteur" /\ UNCHANGED terrain /\ courses' = courses
  BY DEF LireCollecteur
<1>2. /\ sujet \in {"liens", "tournee"} /\ loc[q].op = "reassignation"
      /\ loc[q].qui \in Clients /\ loc[q].a \in Collecteurs
  BY <1>1, BureauxDits, OperationsDites DEF Typage, EtapeOK
<1>3. CASE Accepte(q)
  <2>1. Vers(q, "lier") /\ UNCHANGED loc /\ "lier" \in Etapes
    BY <1>3, EtapesDites DEF LireCollecteur
  <2>. QED
    BY <1>1, <1>2, <1>3, <2>1, Avance DEF Deplace, Accepte
<1>4. CASE ~Accepte(q)
  <2>1. Repondre(q)
    BY <1>4 DEF LireCollecteur
  <2>. QED
    BY <1>1, <1>2, <2>1, Repond DEF Deplace
<1>. QED
  BY <1>3, <1>4

(* An agent is about to be put under the supervisor, or under nobody. *)
LEMMA LireAgentDit ==
  ASSUME Typage, NEW q \in Requetes, LireAgent(q)
  PROVE  /\ Deplace(q) /\ UNCHANGED terrain /\ courses' = courses /\ sujet = "liens"
         /\ pc[q] = "libre" /\ loc'[q].op = "affectation" /\ loc'[q].qui \in Collecteurs
         /\ \/ pc'[q] = "lireSuperviseur" /\ loc'[q].a = Superviseur
            \/ pc'[q] = "lier" /\ loc'[q].a = Personne
<1>1. PICK x \in Collecteurs :
          \/ Commencer(q, "lireSuperviseur",
                       [Repos EXCEPT !.op = "affectation", !.qui = x, !.a = Superviseur])
          \/ Commencer(q, "lier", [Repos EXCEPT !.op = "affectation", !.qui = x])
  BY DEF LireAgent
<1>2. PICK v : v = [Repos EXCEPT !.op = "affectation", !.qui = x, !.a = Superviseur]
  OBVIOUS
<1>3. PICK w : w = [Repos EXCEPT !.op = "affectation", !.qui = x]
  OBVIOUS
<1>4. x \in Gens /\ Superviseur \in Gens /\ Repos.a = Personne
  BY DEF Gens, Personnes, Repos
<1>5. v \in Travail /\ v.op = "affectation" /\ v.qui = x /\ v.a = Superviseur
  BY <1>2, <1>4, ReposType DEF Travail, Operation
<1>6. w \in Travail /\ w.op = "affectation" /\ w.qui = x /\ w.a = Personne
  BY <1>3, <1>4, ReposType DEF Travail, Operation
<1>7. "lireSuperviseur" \in Etapes /\ "lier" \in Etapes
  BY EtapesDites
<1>8. CASE Commencer(q, "lireSuperviseur", v)
  BY <1>5, <1>7, <1>8, Commence DEF LireAgent, Deplace
<1>9. CASE Commencer(q, "lier", w)
  BY <1>6, <1>7, <1>9, Commence DEF LireAgent, Deplace
<1>. QED
  BY <1>1, <1>2, <1>3, <1>8, <1>9

(* The supervisor is read. *)
LEMMA LireSuperviseurDit ==
  ASSUME Typage, NEW q \in Requetes, LireSuperviseur(q)
  PROVE  /\ Deplace(q) /\ UNCHANGED terrain /\ courses' = courses /\ sujet = "liens"
         /\ pc[q] = "lireSuperviseur"
         /\ \/ pc'[q] = "libre" /\ loc'[q] = Repos
            \/ /\ pc'[q] = "lier" /\ loc'[q] = loc[q] /\ loc[q].op = "affectation"
               /\ loc[q].qui \in Collecteurs /\ loc[q].a = Superviseur
               /\ equipe[loc[q].a].role = "SUPERVISEUR"
<1>1. /\ pc[q] = "lireSuperviseur" /\ UNCHANGED terrain /\ courses' = courses
  BY DEF LireSuperviseur
<1>2. /\ sujet = "liens" /\ loc[q].op = "affectation"
      /\ loc[q].qui \in Collecteurs /\ loc[q].a = Superviseur
  BY <1>1, BureauxDits, OperationsDites DEF Typage, EtapeOK
<1>3. CASE equipe[loc[q].a].role = "SUPERVISEUR"
  <2>1. Vers(q, "lier") /\ UNCHANGED loc /\ "lier" \in Etapes
    BY <1>3, EtapesDites DEF LireSuperviseur
  <2>. QED
    BY <1>1, <1>2, <1>3, <2>1, Avance DEF Deplace
<1>4. CASE ~(equipe[loc[q].a].role = "SUPERVISEUR")
  <2>1. Repondre(q)
    BY <1>4 DEF LireSuperviseur
  <2>. QED
    BY <1>1, <1>2, <2>1, Repond DEF Deplace
<1>. QED
  BY <1>3, <1>4

(* A client shows the code he scanned. *)
LEMMA LireQrDit ==
  ASSUME Typage, NEW q \in Requetes, LireQr(q)
  PROVE  /\ Deplace(q) /\ UNCHANGED terrain /\ courses' = courses /\ sujet = "liens"
         /\ pc[q] = "libre" /\ pc'[q] = "lier" /\ loc'[q].op = "lien"
         /\ loc'[q].qui \in Clients /\ loc'[q].a \in Collecteurs
<1>1. PICK k \in Clients, c \in Collecteurs :
          Commencer(q, "lier", [Repos EXCEPT !.op = "lien", !.qui = k, !.a = c])
  BY DEF LireQr
<1>2. PICK w : w = [Repos EXCEPT !.op = "lien", !.qui = k, !.a = c]
  OBVIOUS
<1>3. k \in Gens /\ c \in Gens
  BY DEF Gens, Personnes
<1>4. w \in Travail /\ w.op = "lien" /\ w.qui = k /\ w.a = c
  BY <1>2, <1>3, ReposType DEF Travail, Operation
<1>5. Commencer(q, "lier", w) /\ "lier" \in Etapes
  BY <1>1, <1>2, EtapesDites
<1>. QED
  BY <1>4, <1>5, Commence DEF LireQr, Deplace

(* The link is written. *)
LEMMA LierDit ==
  ASSUME Typage, NEW q \in Requetes, Lier(q)
  PROVE  /\ Deplace(q) /\ UNCHANGED <<qr, visites, commissions>>
         /\ sujet \in {"liens", "tournee"}
         /\ pc[q] = "lier" /\ pc'[q] = "libre" /\ loc'[q] = Repos
         /\ loc[q].op \in {"reassignation", "affectation", "lien"}
         /\ courses \subseteq courses' /\ courses' \in SUBSET Course
         /\ (\E p \in Requetes : Tourne(p)) => "tournee" \in courses'
         /\ equipe' \in [Personnes -> Membre]
         /\ \A x \in Personnes : x # loc[q].qui => equipe'[x] = equipe[x]
         /\ loc[q].qui \in Personnes => equipe'[loc[q].qui].de = loc[q].a
<1>1. /\ pc[q] = "lier" /\ UNCHANGED <<qr, visites, commissions>>
      /\ equipe' = [equipe EXCEPT ![loc[q].qui].de = loc[q].a]
      /\ Ajouter("tournee", \E p \in Requetes : Tourne(p)) /\ Repondre(q)
  BY DEF Lier
<1>2. /\ sujet \in {"liens", "tournee"} /\ loc[q].op \in {"reassignation", "affectation", "lien"}
      /\ loc[q].qui \in Clients \cup Collecteurs
      /\ loc[q].a \in Collecteurs \cup {Superviseur, Personne}
  BY <1>1, BureauxDits, OperationsDites DEF Typage, EtapeOK
<1>3. /\ courses \subseteq courses' /\ courses' \in SUBSET Course
      /\ (\E p \in Requetes : Tourne(p)) => "tournee" \in courses'
  BY <1>1 DEF Ajouter, Course, Typage
<1>4. PICK x \in Personnes : x = loc[q].qui
  BY <1>2 DEF Personnes
<1>5. PICK a \in Collecteurs \cup {Superviseur, Personne} : a = loc[q].a
  BY <1>2
<1>6. PICK m : m = [equipe[x] EXCEPT !.de = a]
  OBVIOUS
<1>7. equipe \in [Personnes -> Membre] /\ equipe[x] \in Membre
  BY DEF Typage, TypeOK
<1>8. m \in Membre /\ m.de = a
  BY <1>6, <1>7 DEF Membre
<1>9. equipe' = [equipe EXCEPT ![x] = m]
  BY <1>1, <1>4, <1>5, <1>6
<1>10. /\ equipe' \in [Personnes -> Membre] /\ equipe'[x] = m
       /\ \A y \in Personnes : y # x => equipe'[y] = equipe[y]
  BY <1>7, <1>8, <1>9
<1>. QED
  BY <1>1, <1>2, <1>3, <1>4, <1>5, <1>8, <1>10, Repond DEF Deplace

(* A visit: the client is read, then the row is written. *)
LEMMA LireClientDit ==
  ASSUME Typage, NEW q \in Requetes, LireClient(q)
  PROVE  /\ Deplace(q) /\ UNCHANGED terrain /\ courses' = courses /\ sujet = "tournee"
         /\ pc[q] = "libre" /\ pc'[q] = "pointer" /\ loc'[q].op = "visite"
         /\ loc'[q].qui \in Clients /\ loc'[q].a \in Collecteurs
<1>1. PICK c \in Collecteurs, k \in Clients :
          Commencer(q, "pointer", [Repos EXCEPT !.op = "visite", !.qui = k, !.a = c])
  BY DEF LireClient
<1>2. PICK w : w = [Repos EXCEPT !.op = "visite", !.qui = k, !.a = c]
  OBVIOUS
<1>3. k \in Gens /\ c \in Gens
  BY DEF Gens, Personnes
<1>4. w \in Travail /\ w.op = "visite" /\ w.qui = k /\ w.a = c
  BY <1>2, <1>3, ReposType DEF Travail, Operation
<1>5. Commencer(q, "pointer", w) /\ "pointer" \in Etapes
  BY <1>1, <1>2, EtapesDites
<1>. QED
  BY <1>4, <1>5, Commence DEF LireClient, Deplace

(* The visit is recorded.                                                  *)
LEMMA PointerDit ==
  ASSUME Typage, NEW q \in Requetes, Pointer(q)
  PROVE  /\ Deplace(q) /\ UNCHANGED <<equipe, qr, commissions>> /\ sujet = "tournee"
         /\ pc[q] = "pointer" /\ pc'[q] = "libre" /\ loc'[q] = Repos
         /\ visites' \subseteq Collecteurs \X Clients
         /\ courses \subseteq courses' /\ courses' \in SUBSET Course
         /\ (\E p \in Requetes : Tourne(p)) => "tournee" \in courses'
<1>1. /\ pc[q] = "pointer" /\ UNCHANGED <<equipe, qr, commissions>>
      /\ visites' = visites \cup {<<loc[q].a, loc[q].qui>>}
      /\ Ajouter("tournee", \E p \in Requetes : Tourne(p)) /\ Repondre(q)
  BY DEF Pointer
<1>2. sujet = "tournee" /\ loc[q].qui \in Clients /\ loc[q].a \in Collecteurs
  BY <1>1, BureauxDits DEF Typage, EtapeOK
<1>3. visites' \subseteq Collecteurs \X Clients
  BY <1>1, <1>2 DEF Typage, TypeOK
<1>4. /\ courses \subseteq courses' /\ courses' \in SUBSET Course
      /\ (\E p \in Requetes : Tourne(p)) => "tournee" \in courses'
  BY <1>1 DEF Ajouter, Course, Typage
<1>. QED
  BY <1>1, <1>2, <1>3, <1>4, Repond DEF Deplace

(* The round of a collector: his clients, then their visits. *)
LEMMA PortefeuilleFini ==
  ASSUME NEW c
  PROVE  /\ IsFiniteSet(Portefeuille(c)) /\ Cardinality(Portefeuille(c)) \in Nat
         /\ IsFiniteSet(Visites(c)) /\ Cardinality(Visites(c)) \in Nat
<1>1. Portefeuille(c) \subseteq Clients /\ Visites(c) \subseteq Clients
  BY DEF Portefeuille, Visites
<1>. QED
  BY <1>1, GuichetsAssumption, FS_Subset, FS_CardinalityType

(* A collector asks for his round: his clients are counted.                *)
LEMMA ListerClientsDit ==
  ASSUME Typage, NEW q \in Requetes, ListerClients(q)
  PROVE  /\ Deplace(q) /\ UNCHANGED terrain /\ courses' = courses /\ sujet = "tournee"
         /\ pc[q] = "libre" /\ pc'[q] = "listerVisites" /\ loc'[q].op = "tournee"
         /\ loc'[q].a \in Collecteurs /\ loc'[q].n = Cardinality(Portefeuille(loc'[q].a))
<1>1. PICK c \in Collecteurs :
          Commencer(q, "listerVisites",
                    [Repos EXCEPT !.op = "tournee", !.a = c, !.n = Cardinality(Portefeuille(c))])
  BY DEF ListerClients
<1>2. PICK n \in Nat : n = Cardinality(Portefeuille(c))
  BY PortefeuilleFini
<1>3. PICK w : w = [Repos EXCEPT !.op = "tournee", !.a = c, !.n = n]
  OBVIOUS
<1>4. c \in Gens
  BY DEF Gens, Personnes
<1>5. w \in Travail /\ w.op = "tournee" /\ w.n = n /\ w.a = c
  BY <1>3, <1>4, ReposType DEF Travail, Operation
<1>6. Commencer(q, "listerVisites", w) /\ "listerVisites" \in Etapes
  BY <1>1, <1>2, <1>3, EtapesDites
<1>. QED
  BY <1>2, <1>5, <1>6, Commence DEF ListerClients, Deplace

(* The visits are subtracted.                                              *)
LEMMA ListerVisitesDit ==
  ASSUME Typage, NEW q \in Requetes, ListerVisites(q)
  PROVE  /\ Deplace(q) /\ UNCHANGED terrain /\ courses' = courses /\ sujet = "tournee"
         /\ pc[q] = "listerVisites" /\ pc'[q] = "afficher" /\ loc'[q].op = "tournee"
         /\ loc[q].op = "tournee" /\ loc[q].a \in Collecteurs
         /\ loc'[q].a = loc[q].a /\ loc'[q].n = loc[q].n
         /\ loc'[q].somme = Restantes(loc[q].a, loc[q].n)
<1>1. /\ pc[q] = "listerVisites" /\ UNCHANGED terrain /\ courses' = courses
      /\ loc' = [loc EXCEPT ![q].somme = Restantes(loc[q].a, loc[q].n)]
      /\ pc' = [pc EXCEPT ![q] = "afficher"]
  BY DEF ListerVisites, Vers
<1>2. sujet = "tournee" /\ loc[q].op = "tournee" /\ loc[q].a \in Collecteurs
  BY <1>1, BureauxDits, OperationsDites DEF Typage, EtapeOK
<1>3. loc \in [Requetes -> Travail] /\ loc[q] \in Travail /\ pc \in [Requetes -> Etapes]
  BY DEF Typage
<1>4. loc[q].n \in Nat
  BY <1>3 DEF Travail
<1>5. PICK r \in Int : r = Restantes(loc[q].a, loc[q].n)
  BY <1>4, PortefeuilleFini DEF Restantes
<1>6. PICK w : w = [loc[q] EXCEPT !.somme = r]
  OBVIOUS
<1>7. w \in Travail /\ w.op = loc[q].op /\ w.a = loc[q].a /\ w.n = loc[q].n /\ w.somme = r
  BY <1>3, <1>6 DEF Travail
<1>8. loc' = [loc EXCEPT ![q] = w] /\ "afficher" \in Etapes
  BY <1>1, <1>5, <1>6, EtapesDites
<1>9. Deplace(q) /\ pc'[q] = "afficher" /\ loc'[q] = w
  BY <1>1, <1>3, <1>7, <1>8 DEF Deplace, Seul, Reste
<1>. QED
  BY <1>1, <1>2, <1>5, <1>7, <1>9

(* He is shown the rest.                                                   *)
LEMMA AfficherDit ==
  ASSUME Typage, NEW q \in Requetes, Afficher(q)
  PROVE  /\ Deplace(q) /\ UNCHANGED terrain /\ courses' = courses
         /\ pc[q] = "afficher" /\ pc'[q] = "libre" /\ loc'[q] = Repos
<1>1. UNCHANGED terrain /\ courses' = courses /\ pc[q] = "afficher" /\ Repondre(q)
  BY DEF Afficher
<1>. QED
  BY <1>1, Repond DEF Deplace

(* A withdrawal of commissions: the money is sent, then booked. *)
LEMMA LireCommissionDit ==
  ASSUME Typage, NEW q \in Requetes, LireCommission(q)
  PROVE  /\ Deplace(q) /\ UNCHANGED <<equipe, qr, visites>> /\ sujet = "commissions"
         /\ pc[q] = "libre" /\ pc'[q] = "debiter" /\ loc'[q].op = "retrait"
         /\ loc'[q].qui \in Collecteurs /\ loc'[q].somme \in 1 .. 2
         /\ commissions' \in [Collecteurs -> Gains]
         /\ courses \subseteq courses' /\ courses' \in SUBSET Course
         /\ (\E p \in Requetes : pc[p] = "debiter" /\ loc[p].qui = loc'[q].qui)
              => "retrait" \in courses'
         /\ commissions[loc'[q].qui].solde >= loc'[q].somme
         /\ \A c \in Collecteurs :
              /\ commissions'[c].solde = commissions[c].solde
              /\ commissions'[c].gagne = commissions[c].gagne
              /\ commissions'[c].verse =
                   commissions[c].verse + (IF c = loc'[q].qui THEN loc'[q].somme ELSE 0)
<1>1. PICK c \in Collecteurs, m \in 1 .. 2 :
          /\ Couvre(c, m)
          /\ Commencer(q, "debiter", [Repos EXCEPT !.op = "retrait", !.qui = c, !.somme = m])
          /\ commissions' = [commissions EXCEPT ![c].verse = @ + m]
          /\ Ajouter("retrait", \E p \in Requetes : loc[p].op = "retrait" /\ loc[p].qui = c)
  BY DEF LireCommission
<1>2. PICK w : w = [Repos EXCEPT !.op = "retrait", !.qui = c, !.somme = m]
  OBVIOUS
<1>3. c \in Gens /\ m \in Int
  BY DEF Gens, Personnes
<1>4. w \in Travail /\ w.op = "retrait" /\ w.qui = c /\ w.somme = m
  BY <1>2, <1>3, ReposType DEF Travail, Operation
<1>5. Commencer(q, "debiter", w) /\ "debiter" \in Etapes
  BY <1>1, <1>2, EtapesDites
<1>6. /\ courses \subseteq courses' /\ courses' \in SUBSET Course
      /\ (\E p \in Requetes : pc[p] = "debiter" /\ loc[p].qui = c) => "retrait" \in courses'
  BY <1>1, EtapeDe DEF Ajouter, Course, Typage
<1>7. commissions \in [Collecteurs -> Gains]
  BY DEF Typage, TypeOK
<1>8. PICK v \in Nat : v = commissions[c].verse + m
  BY <1>7 DEF Gains
<1>9. PICK g : g = [commissions[c] EXCEPT !.verse = v]
  OBVIOUS
<1>10. /\ g \in Gains /\ g.solde = commissions[c].solde /\ g.gagne = commissions[c].gagne
       /\ g.verse = v
  BY <1>7, <1>9 DEF Gains
<1>11. commissions' = [commissions EXCEPT ![c] = g]
  BY <1>1, <1>8, <1>9
<1>12. /\ commissions' \in [Collecteurs -> Gains] /\ commissions'[c] = g
       /\ \A d \in Collecteurs : d # c => commissions'[d] = commissions[d]
  BY <1>7, <1>10, <1>11
<1>13. ASSUME NEW d \in Collecteurs
       PROVE  /\ commissions'[d].solde = commissions[d].solde
              /\ commissions'[d].gagne = commissions[d].gagne
              /\ commissions'[d].verse = commissions[d].verse + (IF d = c THEN m ELSE 0)
  <2>1. commissions[d].verse \in Nat
    BY <1>7 DEF Gains
  <2>2. CASE d = c
    BY <1>8, <1>10, <1>12, <2>2
  <2>3. CASE d # c
    BY <1>12, <2>1, <2>3
  <2>. QED
    BY <2>2, <2>3
<1>. QED
  BY <1>1, <1>4, <1>5, <1>6, <1>12, <1>13, Commence DEF LireCommission, Deplace, Couvre

(* The withdrawal is booked.                                               *)
LEMMA DebiterCommissionDit ==
  ASSUME Typage, NEW q \in Requetes, DebiterCommission(q)
  PROVE  /\ Deplace(q) /\ UNCHANGED <<equipe, qr, visites, courses>>
         /\ pc[q] = "debiter" /\ pc'[q] = "libre" /\ loc'[q] = Repos
         /\ loc[q].qui \in Collecteurs /\ loc[q].somme \in 1 .. 2
         /\ commissions' \in [Collecteurs -> Gains]
         /\ \A c \in Collecteurs :
              /\ commissions'[c].gagne = commissions[c].gagne
              /\ commissions'[c].verse = commissions[c].verse
              /\ commissions'[c].solde =
                   commissions[c].solde - (IF c = loc[q].qui THEN loc[q].somme ELSE 0)
<1>1. /\ pc[q] = "debiter" /\ UNCHANGED <<equipe, qr, visites, courses>> /\ Repondre(q)
      /\ commissions' = [commissions EXCEPT ![loc[q].qui].solde = @ - loc[q].somme]
  BY DEF DebiterCommission
<1>2. loc[q].qui \in Collecteurs /\ loc[q].somme \in 1 .. 2
  BY <1>1 DEF Typage, EtapeOK
<1>3. PICK c \in Collecteurs, m \in 1 .. 2 : c = loc[q].qui /\ m = loc[q].somme
  BY <1>2
<1>4. commissions \in [Collecteurs -> Gains]
  BY DEF Typage, TypeOK
<1>5. PICK v \in Int : v = commissions[c].solde - m
  BY <1>4 DEF Gains
<1>6. PICK g : g = [commissions[c] EXCEPT !.solde = v]
  OBVIOUS
<1>7. /\ g \in Gains /\ g.verse = commissions[c].verse /\ g.gagne = commissions[c].gagne
      /\ g.solde = v
  BY <1>4, <1>6 DEF Gains
<1>8. commissions' = [commissions EXCEPT ![c] = g]
  BY <1>1, <1>3, <1>5, <1>6
<1>9. /\ commissions' \in [Collecteurs -> Gains] /\ commissions'[c] = g
      /\ \A d \in Collecteurs : d # c => commissions'[d] = commissions[d]
  BY <1>4, <1>7, <1>8
<1>10. ASSUME NEW d \in Collecteurs
       PROVE  /\ commissions'[d].gagne = commissions[d].gagne
              /\ commissions'[d].verse = commissions[d].verse
              /\ commissions'[d].solde = commissions[d].solde - (IF d = c THEN m ELSE 0)
  <2>1. commissions[d].solde \in Int
    BY <1>4 DEF Gains
  <2>2. CASE d = c
    BY <1>5, <1>7, <1>9, <2>2
  <2>3. CASE d # c
    BY <1>9, <2>1, <2>3
  <2>. QED
    BY <2>2, <2>3
<1>. QED
  BY <1>1, <1>2, <1>3, <1>9, <1>10, Repond DEF Deplace

(* What happens to the collectors and their clients outside these requests. *)
LEMMA ChangerDit ==
  ASSUME Typage, NEW x \in Personnes, NEW m \in Membre, m.de = equipe[x].de, Changer(x, m)
  PROVE  /\ UNCHANGED procVars /\ UNCHANGED horsEquipe /\ UNCHANGED <<qr, visites, commissions>>
         /\ courses \subseteq courses' /\ courses' \in SUBSET Course /\ ecritures' \in Nat
         /\ equipe' \in [Personnes -> Membre]
         /\ \A y \in Personnes : equipe'[y].de = equipe[y].de
         /\ (\E p \in Requetes : Tourne(p)) => "tournee" \in courses'
         /\ \A p \in Requetes : "membre" \notin courses' => equipe'[loc[p].a] = equipe[loc[p].a]
<1>1. /\ UNCHANGED procVars /\ UNCHANGED horsEquipe /\ UNCHANGED <<qr, visites, commissions>>
      /\ ecritures' = ecritures + 1 /\ equipe' = [equipe EXCEPT ![x] = m]
  BY DEF Changer
<1>2. courses' = courses
         \cup (IF \E q \in Requetes : loc[q].a = x THEN {"membre"} ELSE {})
         \cup (IF \E q \in Requetes : Tourne(q) THEN {"tournee"} ELSE {})
  BY DEF Changer
<1>3. /\ courses \in SUBSET Course /\ "membre" \in Course /\ "tournee" \in Course
      /\ ecritures \in Nat /\ equipe \in [Personnes -> Membre]
  BY DEF Typage, TypeOK, Course
<1>4. courses \subseteq courses' /\ courses' \in SUBSET Course /\ ecritures' \in Nat
  BY <1>1, <1>2, <1>3
<1>5. /\ equipe' \in [Personnes -> Membre] /\ equipe'[x] = m
      /\ \A y : y # x => equipe'[y] = equipe[y]
  BY <1>1, <1>3
<1>6. (\E p \in Requetes : Tourne(p)) => "tournee" \in courses'
  BY <1>2
<1>7. \A p \in Requetes : "membre" \notin courses' => loc[p].a # x
  BY <1>2
<1>. QED
  BY <1>1, <1>4, <1>5, <1>6, <1>7

(* Whatever happens to the collectors outside their requests.              *)
LEMMA ChefDit ==
  ASSUME Typage, Chef
  PROVE  /\ UNCHANGED procVars /\ UNCHANGED horsEquipe
         /\ courses \subseteq courses' /\ courses' \in SUBSET Course /\ ecritures' \in Nat
         /\ equipe' \in [Personnes -> Membre] /\ qr' \in [Collecteurs -> QRCode]
         /\ visites' \subseteq Collecteurs \X Clients /\ commissions' \in [Collecteurs -> Gains]
         /\ visites' # {} => sujet = "tournee"
         /\ (\E c \in Collecteurs : qr'[c] = "valide") => sujet = "liens"
         /\ \A y \in Personnes : equipe'[y].de = equipe[y].de
         /\ \A p \in Requetes : "membre" \notin courses' => equipe'[loc[p].a] = equipe[loc[p].a]
         /\ UNCHANGED <<equipe, visites>> \/ ((\E p \in Requetes : Tourne(p)) => "tournee" \in courses')
         /\ \A c \in Collecteurs :
              /\ commissions'[c].verse = commissions[c].verse
              /\ commissions'[c].gagne >= commissions[c].gagne
              /\ commissions'[c].solde - commissions'[c].gagne
                   = commissions[c].solde - commissions[c].gagne
<1>1. /\ equipe \in [Personnes -> Membre] /\ qr \in [Collecteurs -> QRCode]
      /\ visites \subseteq Collecteurs \X Clients /\ commissions \in [Collecteurs -> Gains]
      /\ visites # {} => sujet = "tournee"
      /\ (\E c \in Collecteurs : qr[c] = "valide") => sujet = "liens"
      /\ courses \in SUBSET Course /\ ecritures \in Nat
  BY DEF Typage, TypeOK
<1>2. \A c \in Collecteurs : commissions[c].solde \in Int /\ commissions[c].gagne \in Nat
  BY <1>1 DEF Gains
<1>3. CASE ChangerStatutMembre
  <2>1. PICK x \in Personnes : Changer(x, [equipe[x] EXCEPT !.actif = ~@])
    BY <1>3 DEF ChangerStatutMembre, Personnes
  <2>2. equipe[x] \in Membre
    BY <1>1
  <2>3. PICK b \in BOOLEAN : b = ~equipe[x].actif
    OBVIOUS
  <2>4. PICK m : m = [equipe[x] EXCEPT !.actif = b]
    OBVIOUS
  <2>5. m \in Membre /\ m.de = equipe[x].de
    BY <2>2, <2>4 DEF Membre
  <2>6. Changer(x, m)
    BY <2>1, <2>3, <2>4
  <2>. QED
    BY <1>1, <1>2, <2>5, <2>6, ChangerDit
<1>4. CASE ChangerRole
  <2>1. PICK x \in Personnes, r \in Role : Changer(x, [equipe[x] EXCEPT !.role = r])
    BY <1>4 DEF ChangerRole, Personnes
  <2>2. equipe[x] \in Membre
    BY <1>1
  <2>3. PICK m : m = [equipe[x] EXCEPT !.role = r]
    OBVIOUS
  <2>4. m \in Membre /\ m.de = equipe[x].de
    BY <2>2, <2>3 DEF Membre
  <2>5. Changer(x, m)
    BY <2>1, <2>3
  <2>. QED
    BY <1>1, <1>2, <2>4, <2>5, ChangerDit
<1>5. CASE EcrireCode
  <2>1. /\ sujet = "liens" /\ UNCHANGED procVars /\ UNCHANGED horsEquipe
        /\ UNCHANGED <<equipe, visites, commissions, courses, ecritures>>
        /\ \E c \in Collecteurs : qr' = [qr EXCEPT ![c] = "valide"]
    BY <1>5 DEF EcrireCode
  <2>2. qr' \in [Collecteurs -> QRCode]
    BY <1>1, <2>1 DEF QRCode
  <2>. QED
    BY <1>1, <1>2, <2>1, <2>2
<1>6. CASE ExpirerCode
  <2>1. /\ UNCHANGED procVars /\ UNCHANGED horsEquipe
        /\ UNCHANGED <<equipe, visites, commissions, courses, ecritures>>
        /\ \E c \in Collecteurs : qr[c] = "valide" /\ qr' = [qr EXCEPT ![c] = "aucun"]
    BY <1>6 DEF ExpirerCode
  <2>2. qr' \in [Collecteurs -> QRCode] /\ sujet = "liens"
    BY <1>1, <2>1 DEF QRCode
  <2>. QED
    BY <1>1, <1>2, <2>1, <2>2
<1>7. CASE Minuit
  <2>1. /\ UNCHANGED procVars /\ UNCHANGED horsEquipe /\ UNCHANGED <<equipe, qr, commissions, ecritures>>
        /\ visites' = {} /\ Ajouter("tournee", \E p \in Requetes : Tourne(p))
    BY <1>7 DEF Minuit
  <2>2. /\ courses \subseteq courses' /\ courses' \in SUBSET Course
        /\ (\E p \in Requetes : Tourne(p)) => "tournee" \in courses'
    BY <1>1, <2>1 DEF Ajouter, Course
  <2>. QED
    BY <1>1, <1>2, <2>1, <2>2
<1>8. CASE Gagner
  <2>1. /\ UNCHANGED procVars /\ UNCHANGED horsEquipe
        /\ UNCHANGED <<equipe, qr, visites, courses>> /\ ecritures' = ecritures + 1
    BY <1>8 DEF Gagner
  <2>2. PICK c \in Collecteurs :
          commissions' = [commissions EXCEPT ![c].solde = @ + 1, ![c].gagne = @ + 1]
    BY <1>8 DEF Gagner
  <2>3. PICK s \in Int, n \in Nat : s = commissions[c].solde + 1 /\ n = commissions[c].gagne + 1
    BY <1>2
  <2>4. PICK g : g = [commissions[c] EXCEPT !.solde = s, !.gagne = n]
    OBVIOUS
  <2>5. g \in Gains /\ g.solde = s /\ g.gagne = n /\ g.verse = commissions[c].verse
    BY <1>1, <2>4 DEF Gains
  <2>6. commissions' = [commissions EXCEPT ![c] = g]
    BY <1>1, <2>2, <2>3, <2>4
  <2>7. /\ commissions' \in [Collecteurs -> Gains] /\ commissions'[c] = g
        /\ \A d \in Collecteurs : d # c => commissions'[d] = commissions[d]
    BY <1>1, <2>5, <2>6
  <2>8. ASSUME NEW d \in Collecteurs
        PROVE  /\ commissions'[d].verse = commissions[d].verse
               /\ commissions'[d].gagne >= commissions[d].gagne
               /\ commissions'[d].solde - commissions'[d].gagne
                    = commissions[d].solde - commissions[d].gagne
    <3>1. CASE d = c
      BY <1>2, <2>3, <2>5, <2>7, <3>1
    <3>2. CASE d # c
      BY <1>2, <2>7, <3>2
    <3>. QED
      BY <3>1, <3>2
  <2>9. ecritures' \in Nat
    BY <1>1, <2>1
  <2>. QED
    BY <1>1, <2>1, <2>7, <2>8, <2>9
<1>. QED
  BY <1>3, <1>4, <1>5, <1>6, <1>7, <1>8 DEF Chef

(* The desk of the collectors leaves the tables of the others alone.       *)
LEMMA HorsCollecteurs ==
  ASSUME Typage, NEW q \in Requetes, NextPortefeuilles(q) \/ Chef
  PROVE  Hors("collecteurs")
<1>1. CASE Chef
  <2>1. /\ UNCHANGED horsEquipe /\ courses \subseteq courses' /\ courses' \in SUBSET Course
        /\ ecritures' \in Nat
    BY <1>1, ChefDit
  <2>. QED
    BY <2>1 DEF horsEquipe, bureau, dates, Hors
<1>2. CASE NextPortefeuilles(q)
  <2>1. UNCHANGED horsEquipe /\ UNCHANGED ecritures
    BY <1>2 DEF NextPortefeuilles, Reassigner, LireCollecteur, LireAgent, LireSuperviseur, LireQr,
                Lier, LireClient, Pointer, ListerClients, ListerVisites, Afficher,
                LireCommission, DebiterCommission
  <2>2. courses \subseteq courses' /\ courses' \in SUBSET Course
    <3>1. CASE Lier(q) \/ Pointer(q) \/ LireCommission(q)
      BY <3>1, LierDit, PointerDit, LireCommissionDit
    <3>2. CASE ~(Lier(q) \/ Pointer(q) \/ LireCommission(q))
      BY <1>2, <3>2 DEF NextPortefeuilles, Reassigner, LireCollecteur, LireAgent, LireSuperviseur,
                LireQr, LireClient, ListerClients, ListerVisites, Afficher, DebiterCommission, Typage
    <3>. QED
      BY <3>1, <3>2
  <2>3. ecritures' \in Nat
    BY <2>1 DEF Typage
  <2>. QED
    BY <2>1, <2>2, <2>3 DEF horsEquipe, bureau, dates, Hors
<1>. QED
  BY <1>1, <1>2

(* The desk of the collectors keeps the types.                             *)
LEMMA TypageCollecteurs ==
  ASSUME Typage, NEW q \in Requetes, NextPortefeuilles(q) \/ Chef
  PROVE  Typage'
<1>1. Hors("collecteurs")
  BY HorsCollecteurs
<1>2. /\ documents' \in Seq(DocumentKYC) /\ kycVerifie' \in BOOLEAN
      /\ litiges' \in Seq(Litige) /\ compte' \in Compte /\ livre' \in Livre
      /\ alertes' \in Seq({"OUVERTE", "RESOLUE"})
      /\ facturations' \in [Collecteurs -> Facturation] /\ echeance' \in Echeance /\ jour' \in Nat
  BY <1>1 DEF Hors, Typage, TypeOK
<1>3. Grandit
  BY <1>1, HorsType DEF Grandit
<1>4. /\ equipe \in [Personnes -> Membre] /\ qr \in [Collecteurs -> QRCode]
      /\ visites \subseteq Collecteurs \X Clients /\ commissions \in [Collecteurs -> Gains]
      /\ visites # {} => sujet = "tournee"
      /\ (\E c \in Collecteurs : qr[c] = "valide") => sujet = "liens"
      /\ sujet' = sujet /\ sujet \in Sujets
  BY <1>1 DEF Typage, TypeOK, Hors
<1>5. ASSUME Deplace(q), EtapeOK(q)', UNCHANGED qr,
             equipe' \in [Personnes -> Membre], commissions' \in [Collecteurs -> Gains],
             visites' \subseteq Collecteurs \X Clients, visites' # {} => sujet = "tournee"
      PROVE  Typage'
  <2>1. TypeOK'
    BY <1>2, <1>4, <1>5 DEF TypeOK
  <2>2. (\E c \in Collecteurs : qr'[c] = "valide") => sujet = "liens"
    BY <1>4, <1>5
  <2>. QED
    BY <1>1, <1>3, <1>5, <2>1, <2>2, HorsType, TypageSuit
<1>6. ASSUME Deplace(q), EtapeOK(q)', UNCHANGED terrain PROVE Typage'
  BY <1>4, <1>5, <1>6 DEF terrain
<1>7. ASSUME pc'[q] = "libre", loc'[q] = Repos PROVE EtapeOK(q)'
  BY <1>4, <1>7, ReposType, OperationsDites, BureauxDits DEF EtapeOK
<1>8. ASSUME pc'[q] = "lier", loc'[q].op \in {"reassignation", "affectation", "lien"},
             sujet \in {"liens", "tournee"}, loc'[q].qui \in Clients \cup Collecteurs,
             loc'[q].a \in Collecteurs \cup {Superviseur, Personne}
      PROVE  EtapeOK(q)'
  BY <1>4, <1>8, OperationsDites, BureauxDits DEF EtapeOK
<1>9. CASE Chef
  <2>1. TypeOK'
    BY <1>2, <1>9, ChefDit DEF TypeOK
  <2>2. (jour >= Debut(PremierMois))'
    BY <1>1 DEF Hors, Typage
  <2>. QED
    BY <1>1, <1>3, <1>9, <2>1, <2>2, ChefDit, HorsType, TypageReste
<1>10. CASE Reassigner(q)
  <2>1. EtapeOK(q)'
    BY <1>4, <1>10, ReassignerDit, OperationsDites, BureauxDits DEF EtapeOK
  <2>. QED
    BY <1>6, <1>10, <2>1, ReassignerDit
<1>11. CASE LireCollecteur(q)
  <2>1. EtapeOK(q)'
    BY <1>7, <1>8, <1>11, LireCollecteurDit
  <2>. QED
    BY <1>6, <1>11, <2>1, LireCollecteurDit
<1>12. CASE LireAgent(q)
  <2>1. CASE pc'[q] = "lireSuperviseur" /\ loc'[q].a = Superviseur
    <3>1. EtapeOK(q)'
      BY <1>4, <1>12, <2>1, LireAgentDit, OperationsDites, BureauxDits DEF EtapeOK
    <3>. QED
      BY <1>6, <1>12, <3>1, LireAgentDit
  <2>2. CASE pc'[q] = "lier" /\ loc'[q].a = Personne
    <3>1. EtapeOK(q)'
      BY <1>8, <1>12, <2>2, LireAgentDit
    <3>. QED
      BY <1>6, <1>12, <3>1, LireAgentDit
  <2>. QED
    BY <1>12, <2>1, <2>2, LireAgentDit
<1>13. CASE LireSuperviseur(q)
  <2>1. EtapeOK(q)'
    BY <1>7, <1>8, <1>13, LireSuperviseurDit
  <2>. QED
    BY <1>6, <1>13, <2>1, LireSuperviseurDit
<1>14. CASE LireQr(q)
  <2>1. EtapeOK(q)'
    BY <1>8, <1>14, LireQrDit
  <2>. QED
    BY <1>6, <1>14, <2>1, LireQrDit
<1>15. CASE Lier(q)
  BY <1>4, <1>5, <1>7, <1>15, LierDit
<1>16. CASE LireClient(q)
  <2>1. EtapeOK(q)'
    BY <1>4, <1>16, LireClientDit, OperationsDites, BureauxDits DEF EtapeOK
  <2>. QED
    BY <1>6, <1>16, <2>1, LireClientDit
<1>17. CASE Pointer(q)
  BY <1>4, <1>5, <1>7, <1>17, PointerDit
<1>18. CASE ListerClients(q)
  <2>1. EtapeOK(q)'
    BY <1>4, <1>18, ListerClientsDit, OperationsDites, BureauxDits DEF EtapeOK
  <2>. QED
    BY <1>6, <1>18, <2>1, ListerClientsDit
<1>19. CASE ListerVisites(q)
  <2>1. EtapeOK(q)'
    BY <1>4, <1>19, ListerVisitesDit, OperationsDites, BureauxDits DEF EtapeOK
  <2>. QED
    BY <1>6, <1>19, <2>1, ListerVisitesDit
<1>20. CASE Afficher(q)
  BY <1>6, <1>7, <1>20, AfficherDit
<1>21. CASE LireCommission(q)
  <2>1. EtapeOK(q)'
    BY <1>4, <1>21, LireCommissionDit, OperationsDites, BureauxDits DEF EtapeOK
  <2>. QED
    BY <1>4, <1>5, <1>21, <2>1, LireCommissionDit
<1>22. CASE DebiterCommission(q)
  BY <1>4, <1>5, <1>7, <1>22, DebiterCommissionDit
<1>. QED
  BY <1>9, <1>10, <1>11, <1>12, <1>13, <1>14, <1>15, <1>16, <1>17, <1>18, <1>19, <1>20,
     <1>21, <1>22 DEF NextPortefeuilles

(* The round of the day.                                                   *)
Ronde(p) == /\ loc[p].n = Cardinality(Portefeuille(loc[p].a))
            /\ pc[p] = "afficher" => loc[p].somme = Restantes(loc[p].a, loc[p].n)

(* The numbers of a round stay right while nothing it depends on changes.  *)
LEMMA TourneeInduit ==
  ASSUME Typage, Typage', TourneeInv, NEW q \in Requetes, NextPortefeuilles(q) \/ Chef
  PROVE  TourneeInv'
<1>0. courses \subseteq courses'
  BY HorsCollecteurs DEF Hors
<1>1. \A p \in Requetes : Tourne(p) <=> pc[p] \in {"listerVisites", "afficher"}
  BY EtapeDe DEF Tourne
<1>2. \A p \in Requetes : Tourne(p)' <=> pc'[p] \in {"listerVisites", "afficher"}
  BY EtapeApres
<1>3. SUFFICES ASSUME "tournee" \notin courses', NEW p \in Requetes, Tourne(p)'
      PROVE  Ronde(p)'
  <2>1. \A p \in Requetes : pc'[p] = "afficher" => Tourne(p)'
    BY <1>2
  <2>. QED
    BY <2>1 DEF TourneeInv, Ronde
<1>4. ASSUME Tourne(p) PROVE Ronde(p)
  BY <1>0, <1>3, <1>4 DEF TourneeInv, Ronde
<1>5. ASSUME UNCHANGED <<equipe, visites>>
      PROVE  /\ \A c : Portefeuille(c)' = Portefeuille(c)
             /\ \A c, n : Restantes(c, n)' = Restantes(c, n)
  BY <1>5 DEF Portefeuille, Restantes, Visites
<1>6. ASSUME UNCHANGED <<equipe, visites>>, pc'[p] = pc[p], loc'[p] = loc[p]
      PROVE  Ronde(p)'
  <2>1. Ronde(p)
    BY <1>1, <1>2, <1>3, <1>4, <1>6
  <2>. QED
    BY <1>6, <2>1 DEF Ronde, Portefeuille, Restantes, Visites
<1>7. ASSUME Deplace(q), pc'[q] \notin {"listerVisites", "afficher"}
      PROVE  p # q /\ pc'[p] = pc[p] /\ loc'[p] = loc[p] /\ Tourne(p)
  BY <1>1, <1>2, <1>3, <1>7 DEF Deplace, Seul, Reste
<1>8. CASE Chef
  <2>1. pc'[p] = pc[p] /\ loc'[p] = loc[p] /\ Tourne(p)
    BY <1>1, <1>2, <1>3, <1>8, ChefDit DEF procVars
  <2>. QED
    BY <1>3, <1>6, <1>8, <2>1, ChefDit
<1>9. CASE Lier(q) \/ Pointer(q)
  BY <1>3, <1>7, <1>9, LierDit, PointerDit
<1>10. CASE \/ Reassigner(q) \/ LireCollecteur(q) \/ LireAgent(q) \/ LireSuperviseur(q)
            \/ LireQr(q) \/ LireClient(q) \/ Afficher(q) \/ LireCommission(q)
            \/ DebiterCommission(q)
  <2>1. /\ Deplace(q) /\ UNCHANGED <<equipe, visites>> /\ pc'[q] # "listerVisites"
        /\ pc'[q] # "afficher"
    BY <1>10, ReassignerDit, LireCollecteurDit, LireAgentDit, LireSuperviseurDit, LireQrDit,
       LireClientDit, AfficherDit, LireCommissionDit, DebiterCommissionDit DEF terrain
  <2>. QED
    BY <1>6, <1>7, <2>1
<1>11. CASE ListerClients(q)
  <2>0. Deplace(q) /\ UNCHANGED <<equipe, visites>>
    BY <1>11, ListerClientsDit DEF terrain
  <2>1. CASE p = q
    <3>1. pc'[p] # "afficher" /\ loc'[p].n = Cardinality(Portefeuille(loc'[p].a))
      BY <1>11, <2>1, ListerClientsDit
    <3>. QED
      BY <2>0, <3>1 DEF Ronde, Portefeuille
  <2>2. CASE p # q
    BY <1>6, <2>0, <2>2 DEF Deplace, Seul, Reste
  <2>. QED
    BY <2>1, <2>2
<1>12. CASE ListerVisites(q)
  <2>0. Deplace(q) /\ UNCHANGED <<equipe, visites>>
    BY <1>12, ListerVisitesDit DEF terrain
  <2>1. CASE p = q
    <3>1. Ronde(p)
      BY <1>4, <1>12, <2>1, ListerVisitesDit DEF Tourne
    <3>2. /\ loc'[p].a = loc[p].a /\ loc'[p].n = loc[p].n
          /\ loc'[p].somme = Restantes(loc'[p].a, loc'[p].n)
      BY <1>12, <2>1, ListerVisitesDit
    <3>. QED
      BY <2>0, <3>1, <3>2 DEF Ronde, Portefeuille, Restantes, Visites
  <2>2. CASE p # q
    BY <1>6, <2>0, <2>2 DEF Deplace, Seul, Reste
  <2>. QED
    BY <2>1, <2>2
<1>. QED
  BY <1>8, <1>9, <1>10, <1>11, <1>12 DEF NextPortefeuilles

(* The invariant is what a collector is promised: the visits left.         *)
LEMMA TourneeDit ==
  ASSUME TourneeInv, Typage
  PROVE  TourneeJuste
<1>1. SUFFICES ASSUME NEW q \in Requetes, pc[q] = "afficher", "tournee" \notin courses,
                      Visites(loc[q].a) \subseteq Portefeuille(loc[q].a)
               PROVE  loc[q].somme = Cardinality(Portefeuille(loc[q].a) \ Visites(loc[q].a))
  BY DEF TourneeJuste
<1>. DEFINE P == Portefeuille(loc[q].a)  V == Visites(loc[q].a)
<1>2. loc[q].somme = Cardinality(P) - Cardinality(V)
  BY <1>1, EtapeDe DEF TourneeInv, Tourne, Restantes
<1>3. IsFiniteSet(P) /\ IsFiniteSet(V) /\ V \subseteq P
  BY <1>1, PortefeuilleFini
<1>. HIDE DEF P, V
<1>4. P \cap V = V
  BY <1>3
<1>5. Cardinality(P \ V) = Cardinality(P) - Cardinality(P \cap V)
  BY <1>3, FS_Difference
<1>6. loc[q].somme = Cardinality(P \ V)
  BY <1>2, <1>4, <1>5
<1>. QED
  BY <1>6 DEF P, V

(* Commissions: what a collector was sent and is not booked yet.           *)
Montants == [q \in Requetes |-> loc[q].somme]
Du(c)  == SumFunctionOnSet(Montants, EnDebit(c))

(* The withdrawals not yet booked of a collector are a finite sum.         *)
LEMMA DuDit ==
  ASSUME Typage, NEW c
  PROVE  /\ EnDebit(c) \subseteq Requetes /\ IsFiniteSet(EnDebit(c)) /\ Du(c) \in Int
         /\ \A q \in Requetes : Montants[q] = loc[q].somme /\ Montants[q] \in Int
<1>1. EnDebit(c) \subseteq Requetes /\ IsFiniteSet(EnDebit(c))
  BY GuichetsAssumption, FS_Subset DEF EnDebit
<1>2. \A q \in Requetes : Montants[q] = loc[q].somme /\ Montants[q] \in Int
  BY DEF Montants, Typage, Travail
<1>3. Du(c) \in Int
  <2>. HIDE DEF Montants, EnDebit
  <2>. QED
    BY <1>1, <1>2, SommeSans DEF Du
<1>. QED
  BY <1>1, <1>2, <1>3

(* CommissionsJustes, with that sum named.                                 *)
LEMMA JustesDit ==
  CommissionsJustes <=>
    \A c \in Collecteurs : "panne" \notin courses =>
       /\ commissions[c].solde = commissions[c].gagne - commissions[c].verse + Du(c)
       /\ "retrait" \notin courses => commissions[c].verse <= commissions[c].gagne
  BY DEF CommissionsJustes, Du, Montants, EnDebit

(* Nothing changes in a sum when no request of this collector moves.       *)
LEMMA DuReste ==
  ASSUME Typage, Typage', NEW c, EnDebit(c)' = EnDebit(c), \A p \in EnDebit(c) : loc'[p] = loc[p]
  PROVE  Du(c)' = Du(c)
<1>. DEFINE S == EnDebit(c)  f == Montants  e == Montants'
<1>1. IsFiniteSet(S) /\ S \subseteq Requetes
  BY DuDit
<1>2. \A x \in S : e[x] = f[x]
  BY <1>1 DEF Montants
<1>. HIDE DEF S, f, e
<1>3. SumFunctionOnSet(f, S) = SumFunctionOnSet(e, S)
  BY <1>1, <1>2, SommeEgale
<1>4. Du(c)' = SumFunctionOnSet(e, S)
  BY DEF Du, S, e
<1>5. Du(c) = SumFunctionOnSet(f, S)
  BY DEF Du, S, f
<1>. QED
  BY <1>3, <1>4, <1>5

(* Balance, sums earned and sums paid of every collector stay in           *)
(* agreement.                                                              *)
LEMMA CommissionsInduit ==
  ASSUME Typage, Typage', CommissionsInv, NEW q \in Requetes, NextPortefeuilles(q) \/ Chef
  PROVE  CommissionsInv'
<1>0. /\ courses \subseteq courses'
      /\ \A c \in Collecteurs : /\ commissions[c].solde \in Int /\ commissions[c].gagne \in Nat
                                /\ commissions[c].verse \in Nat /\ Du(c) \in Int
  BY HorsCollecteurs, DuDit DEF Hors, Typage, TypeOK, Gains
<1>1. \A c \in Collecteurs : "panne" \notin courses =>
       /\ commissions[c].solde = commissions[c].gagne - commissions[c].verse + Du(c)
       /\ "retrait" \notin courses => commissions[c].verse <= commissions[c].gagne
  BY JustesDit DEF CommissionsInv
<1>2. SUFFICES /\ \A c \in Collecteurs : "panne" \notin courses' =>
                   /\ commissions'[c].solde = commissions'[c].gagne - commissions'[c].verse + Du(c)'
                   /\ "retrait" \notin courses' => commissions'[c].verse <= commissions'[c].gagne
               /\ "panne" \notin courses' /\ "retrait" \notin courses' =>
                    \A p, r \in Requetes :
                       pc'[p] = "debiter" /\ pc'[r] = "debiter" /\ loc'[p].qui = loc'[r].qui => p = r
  <2>1. CommissionsJustes' <=> \A c \in Collecteurs : "panne" \notin courses' =>
            /\ commissions'[c].solde = commissions'[c].gagne - commissions'[c].verse + Du(c)'
            /\ "retrait" \notin courses' => commissions'[c].verse <= commissions'[c].gagne
    BY DEF CommissionsJustes, Du, Montants, EnDebit
  <2>. QED
    BY <1>2, <2>1 DEF CommissionsInv
<1>3. ASSUME Deplace(q), pc[q] # "debiter", pc'[q] # "debiter"
      PROVE  /\ \A c \in Collecteurs : Du(c)' = Du(c)
             /\ \A p \in Requetes : pc'[p] = "debiter" => pc[p] = "debiter" /\ loc'[p] = loc[p]
  <2>1. \A p \in Requetes : p # q => pc'[p] = pc[p] /\ loc'[p] = loc[p]
    BY <1>3 DEF Deplace, Seul, Reste
  <2>2. ASSUME NEW c \in Collecteurs PROVE Du(c)' = Du(c)
    <3>1. EnDebit(c)' = EnDebit(c) /\ \A p \in EnDebit(c) : loc'[p] = loc[p]
      BY <1>3, <2>1 DEF EnDebit
    <3>. QED
      BY <3>1, DuReste
  <2>. QED
    BY <1>3, <2>1, <2>2
<1>4. CASE Chef
  <2>1. UNCHANGED <<pc, loc>>
    BY <1>4, ChefDit DEF procVars
  <2>2. \A c \in Collecteurs : Du(c)' = Du(c)
    BY <2>1, DuReste DEF EnDebit
  <2>3. ASSUME NEW c \in Collecteurs, "panne" \notin courses'
        PROVE /\ commissions'[c].solde = commissions'[c].gagne - commissions'[c].verse + Du(c)'
              /\ "retrait" \notin courses' => commissions'[c].verse <= commissions'[c].gagne
    <3>1. /\ commissions[c].solde = commissions[c].gagne - commissions[c].verse + Du(c)
          /\ "retrait" \notin courses' => commissions[c].verse <= commissions[c].gagne
      BY <1>0, <1>1, <2>3
    <3>2. /\ commissions'[c].verse = commissions[c].verse
          /\ commissions'[c].gagne >= commissions[c].gagne
          /\ commissions'[c].solde - commissions'[c].gagne
                    = commissions[c].solde - commissions[c].gagne
      BY <1>4, ChefDit
    <3>3. /\ commissions'[c].solde \in Int /\ commissions'[c].gagne \in Nat
          /\ commissions[c].solde \in Int /\ commissions[c].gagne \in Nat
          /\ commissions[c].verse \in Nat /\ Du(c) \in Int /\ Du(c)' = Du(c)
      BY <1>0, <2>2 DEF Typage, TypeOK, Gains
    <3>4. commissions'[c].solde = commissions'[c].gagne - commissions'[c].verse + Du(c)'
      BY <3>1, <3>2, <3>3
    <3>5. "retrait" \notin courses' => commissions'[c].verse <= commissions'[c].gagne
      BY <3>1, <3>2, <3>3
    <3>. QED
      BY <3>4, <3>5
  <2>4. ASSUME "panne" \notin courses', "retrait" \notin courses'
        PROVE  \A p, r \in Requetes :
                 pc'[p] = "debiter" /\ pc'[r] = "debiter" /\ loc'[p].qui = loc'[r].qui => p = r
    BY <1>0, <2>1, <2>4 DEF CommissionsInv
  <2>. QED
    BY <2>3, <2>4
<1>5. CASE \/ Reassigner(q) \/ LireCollecteur(q) \/ LireAgent(q) \/ LireSuperviseur(q)
            \/ LireQr(q) \/ LireClient(q) \/ Afficher(q) \/ Lier(q) \/ Pointer(q)
            \/ ListerClients(q) \/ ListerVisites(q)
  <2>1. Deplace(q) /\ UNCHANGED commissions /\ pc[q] # "debiter" /\ pc'[q] # "debiter"
    BY <1>5, ReassignerDit, LireCollecteurDit, LireAgentDit, LireSuperviseurDit, LireQrDit,
       LireClientDit, AfficherDit, LierDit, PointerDit, ListerClientsDit, ListerVisitesDit
       DEF terrain
  <2>2. ASSUME "panne" \notin courses', "retrait" \notin courses'
        PROVE  \A p, r \in Requetes :
                 pc'[p] = "debiter" /\ pc'[r] = "debiter" /\ loc'[p].qui = loc'[r].qui => p = r
    BY <1>0, <1>3, <2>1, <2>2 DEF CommissionsInv
  <2>. QED
    BY <1>0, <1>1, <1>3, <2>1, <2>2
<1>6. CASE LireCommission(q)
  <2>0. PICK d \in Collecteurs, m \in 1 .. 2 : d = loc'[q].qui /\ m = loc'[q].somme
    BY <1>6, LireCommissionDit
  <2>1. /\ pc[q] = "libre" /\ pc'[q] = "debiter"
        /\ (\E p \in Requetes : pc[p] = "debiter" /\ loc[p].qui = d) => "retrait" \in courses'
        /\ commissions[d].solde >= m
        /\ \A c \in Collecteurs :
              /\ commissions'[c].solde = commissions[c].solde
              /\ commissions'[c].gagne = commissions[c].gagne
              /\ commissions'[c].verse = commissions[c].verse + (IF c = d THEN m ELSE 0)
        /\ \A p \in Requetes : p # q => pc'[p] = pc[p] /\ loc'[p] = loc[p]
    BY <1>6, <2>0, LireCommissionDit DEF Deplace, Seul, Reste
  <2>2. ASSUME NEW c \in Collecteurs, c # d PROVE Du(c)' = Du(c)
    <3>1. EnDebit(c)' = EnDebit(c) /\ \A p \in EnDebit(c) : loc'[p] = loc[p]
      BY <2>0, <2>1, <2>2 DEF EnDebit
    <3>. QED
      BY <3>1, DuReste
  <2>3. Du(d)' = Du(d) + m
    <3>. DEFINE S == EnDebit(d)  f == Montants  e == Montants'
    <3>0. IsFiniteSet(S) /\ S \subseteq Requetes
      BY DuDit
    <3>1. q \notin S /\ EnDebit(d)' = S \cup {q}
      BY <2>0, <2>1 DEF EnDebit
    <3>2. \A x \in Requetes : e[x] \in Int
      BY DEF Montants, Typage, Travail
    <3>3. e[q] = m
      BY <2>0 DEF Montants
    <3>4. \A x \in S : e[x] = f[x]
      BY <2>1, <3>0, <3>1 DEF Montants
    <3>. HIDE DEF S, f, e
    <3>5. SumFunctionOnSet(e, S \cup {q}) = SumFunctionOnSet(e, S) + e[q]
      BY <3>0, <3>1, <3>2, SommeAvec
    <3>6. SumFunctionOnSet(f, S) = SumFunctionOnSet(e, S)
      BY <3>0, <3>4, SommeEgale
    <3>7. Du(d)' = SumFunctionOnSet(e, S \cup {q}) /\ Du(d) = SumFunctionOnSet(f, S)
      <4>1. Du(d) = SumFunctionOnSet(f, S)
        BY DEF Du, f, S
      <4>2. SumFunctionOnSet(Montants, EnDebit(d))' = SumFunctionOnSet(e, S \cup {q})
        BY <3>1 DEF e
      <4>. QED
        BY <4>1, <4>2 DEF Du
    <3>. QED
      BY <3>3, <3>5, <3>6, <3>7
  <2>4. ASSUME "panne" \notin courses', NEW c \in Collecteurs
        PROVE  commissions'[c].solde = commissions'[c].gagne - commissions'[c].verse + Du(c)'
    <3>1. commissions[c].solde = commissions[c].gagne - commissions[c].verse + Du(c)
      BY <1>0, <1>1, <2>4
    <3>0. /\ commissions[c].solde \in Int /\ commissions[c].gagne \in Nat
          /\ commissions[c].verse \in Nat /\ Du(c) \in Int /\ m \in Int
      BY <1>0
    <3>2. CASE c = d
      <4>1. /\ commissions'[c].solde = commissions[c].solde
            /\ commissions'[c].gagne = commissions[c].gagne
            /\ commissions'[c].verse = commissions[c].verse + m
        BY <2>1, <3>2
      <4>2. Du(c)' = Du(c) + m
        BY <2>3, <3>2
      <4>. QED
        BY <3>0, <3>1, <4>1, <4>2
    <3>3. CASE c # d
      <4>1. /\ commissions'[c].solde = commissions[c].solde
            /\ commissions'[c].gagne = commissions[c].gagne
            /\ commissions'[c].verse = commissions[c].verse + 0
        BY <2>1, <3>3
      <4>2. Du(c)' = Du(c)
        BY <2>2, <3>3
      <4>. QED
        BY <3>0, <3>1, <4>1, <4>2
    <3>. QED
      BY <3>2, <3>3
  <2>5. ASSUME "panne" \notin courses', "retrait" \notin courses', NEW c \in Collecteurs
        PROVE  commissions'[c].verse <= commissions'[c].gagne
    <3>1. /\ commissions[c].solde = commissions[c].gagne - commissions[c].verse + Du(c)
          /\ commissions[c].verse <= commissions[c].gagne
      BY <1>0, <1>1, <2>5
    <3>2. CASE c = d
      <4>1. EnDebit(d) = {}
        BY <2>1, <2>5 DEF EnDebit
      <4>2. Du(d) = 0
        BY <4>1, SommeVide DEF Du
      <4>. QED
        BY <1>0, <2>1, <3>1, <3>2, <4>2
    <3>3. CASE c # d
      BY <1>0, <2>1, <3>1, <3>3
    <3>. QED
      BY <3>2, <3>3
  <2>6. ASSUME "panne" \notin courses', "retrait" \notin courses'
        PROVE  \A p, r \in Requetes :
                 pc'[p] = "debiter" /\ pc'[r] = "debiter" /\ loc'[p].qui = loc'[r].qui => p = r
    <3>1. \A p \in Requetes : pc[p] = "debiter" => loc[p].qui # loc'[q].qui
      BY <2>0, <2>1, <2>6
    <3>2. \A p, r \in Requetes :
             pc[p] = "debiter" /\ pc[r] = "debiter" /\ loc[p].qui = loc[r].qui => p = r
      BY <1>0, <2>6 DEF CommissionsInv
    <3>. QED
      BY <2>1, <3>1, <3>2
  <2>. QED
    BY <2>4, <2>5, <2>6
<1>7. CASE DebiterCommission(q)
  <2>0. PICK d \in Collecteurs, m \in 1 .. 2 : d = loc[q].qui /\ m = loc[q].somme
    BY <1>7, DebiterCommissionDit
  <2>1. /\ pc[q] = "debiter" /\ pc'[q] = "libre"
        /\ courses' = courses
        /\ \A c \in Collecteurs :
              /\ commissions'[c].gagne = commissions[c].gagne
              /\ commissions'[c].verse = commissions[c].verse
              /\ commissions'[c].solde = commissions[c].solde - (IF c = d THEN m ELSE 0)
        /\ \A p \in Requetes : p # q => pc'[p] = pc[p] /\ loc'[p] = loc[p]
    BY <1>7, <2>0, DebiterCommissionDit DEF Deplace, Seul, Reste
  <2>2. ASSUME NEW c \in Collecteurs, c # d PROVE Du(c)' = Du(c)
    <3>1. EnDebit(c)' = EnDebit(c) /\ \A p \in EnDebit(c) : loc'[p] = loc[p]
      BY <2>0, <2>1, <2>2 DEF EnDebit
    <3>. QED
      BY <3>1, DuReste
  <2>3. Du(d) = Du(d)' + m
    <3>. DEFINE S == EnDebit(d)  f == Montants  e == Montants'
    <3>0. IsFiniteSet(S) /\ S \subseteq Requetes
      BY DuDit
    <3>1. q \in S /\ EnDebit(d)' = S \ {q}
      BY <2>0, <2>1 DEF EnDebit
    <3>2. \A x \in Requetes : f[x] \in Int
      BY DuDit
    <3>3. f[q] = m
      BY <2>0 DEF Montants
    <3>4. \A x \in S \ {q} : e[x] = f[x]
      BY <2>1, <3>0 DEF Montants
    <3>. HIDE DEF S, f, e
    <3>5. SumFunctionOnSet(f, S) = f[q] + SumFunctionOnSet(f, S \ {q})
      BY <3>0, <3>1, <3>2, SommeSans
    <3>6. SumFunctionOnSet(f, S \ {q}) = SumFunctionOnSet(e, S \ {q})
      BY <3>0, <3>4, SommeEgale, FS_Subset
    <3>7. SumFunctionOnSet(f, S \ {q}) \in Int
      <4>1. IsFiniteSet(S \ {q}) /\ \A x \in S \ {q} : f[x] \in Int
        BY <3>0, <3>2, FS_Subset
      <4>. QED
        BY <4>1, SommeSans
    <3>8. Du(d)' = SumFunctionOnSet(e, S \ {q}) /\ Du(d) = SumFunctionOnSet(f, S)
      <4>1. Du(d) = SumFunctionOnSet(f, S)
        BY DEF Du, f, S
      <4>2. SumFunctionOnSet(Montants, EnDebit(d))' = SumFunctionOnSet(e, S \ {q})
        BY <3>1 DEF e
      <4>. QED
        BY <4>1, <4>2 DEF Du
    <3>9. m \in Int
      BY <2>1
    <3>. QED
      BY <3>3, <3>5, <3>6, <3>7, <3>8, <3>9
  <2>4. ASSUME "panne" \notin courses', NEW c \in Collecteurs
        PROVE  /\ commissions'[c].solde = commissions'[c].gagne - commissions'[c].verse + Du(c)'
               /\ "retrait" \notin courses' => commissions'[c].verse <= commissions'[c].gagne
    <3>1. /\ commissions[c].solde = commissions[c].gagne - commissions[c].verse + Du(c)
          /\ "retrait" \notin courses' => commissions[c].verse <= commissions[c].gagne
      BY <1>1, <2>1, <2>4
    <3>0. Du(c)' \in Int
      <4>1. (Du(c) \in Int)'
        <5>1. EnDebit(c)' \subseteq Requetes /\ IsFiniteSet(EnDebit(c)')
          BY GuichetsAssumption, FS_Subset DEF EnDebit
        <5>2. \A x \in Requetes : Montants'[x] \in Int
          BY DEF Montants, Typage, Travail
        <5>. HIDE DEF Montants, EnDebit
        <5>3. SumFunctionOnSet(Montants', EnDebit(c)') \in Int
          BY <5>1, <5>2, SommeSans
        <5>. QED
          BY <5>3 DEF Du
      <4>. QED
        BY <4>1
    <3>2. /\ commissions[c].solde \in Int /\ commissions[c].gagne \in Nat
          /\ commissions[c].verse \in Nat /\ Du(c) \in Int /\ m \in Int
      BY <1>0
    <3>3. CASE c = d
      <4>1. /\ commissions'[c].solde = commissions[c].solde - m
            /\ commissions'[c].gagne = commissions[c].gagne
            /\ commissions'[c].verse = commissions[c].verse
        BY <2>1, <3>3
      <4>2. Du(c) = Du(c)' + m
        BY <2>3, <3>3
      <4>. QED
        BY <3>0, <3>1, <3>2, <4>1, <4>2
    <3>4. CASE c # d
      <4>1. /\ commissions'[c].solde = commissions[c].solde - 0
            /\ commissions'[c].gagne = commissions[c].gagne
            /\ commissions'[c].verse = commissions[c].verse
        BY <2>1, <3>4
      <4>2. Du(c)' = Du(c)
        BY <2>2, <3>4
      <4>. QED
        BY <3>1, <3>2, <4>1, <4>2
    <3>. QED
      BY <3>3, <3>4
  <2>5. ASSUME "panne" \notin courses', "retrait" \notin courses'
        PROVE  \A p, r \in Requetes :
                 pc'[p] = "debiter" /\ pc'[r] = "debiter" /\ loc'[p].qui = loc'[r].qui => p = r
    BY <1>0, <2>1, <2>5 DEF CommissionsInv
  <2>. QED
    BY <2>4, <2>5
<1>. QED
  BY <1>4, <1>5, <1>6, <1>7 DEF NextPortefeuilles

(* Who works for whom.                                                     *)
LEMMA LiensInduit ==
  ASSUME Typage, Typage', LiensInv, NEW q \in Requetes, NextPortefeuilles(q) \/ Chef
  PROVE  LiensInv'
<1>0. courses \subseteq courses'
  BY HorsCollecteurs DEF Hors
<1>1. SUFFICES ASSUME "membre" \notin courses', NEW p \in Requetes, pc'[p] = "lier"
      PROVE  /\ loc'[p].op = "reassignation" =>
                  loc'[p].a \in Collecteurs /\ Collecteur(loc[p].a)' /\ equipe'[loc'[p].a].actif
             /\ loc'[p].op = "affectation" =>
                  \/ loc'[p].a = Personne
                  \/ loc'[p].a = Superviseur /\ equipe'[loc'[p].a].role = "SUPERVISEUR"
  BY DEF LiensInv
<1>2. ASSUME pc[p] = "lier", loc'[p] = loc[p], equipe'[loc[p].a] = equipe[loc[p].a]
      PROVE  /\ loc'[p].op = "reassignation" =>
                  loc'[p].a \in Collecteurs /\ Collecteur(loc[p].a)' /\ equipe'[loc'[p].a].actif
             /\ loc'[p].op = "affectation" =>
                  \/ loc'[p].a = Personne
                  \/ loc'[p].a = Superviseur /\ equipe'[loc'[p].a].role = "SUPERVISEUR"
  BY <1>0, <1>1, <1>2 DEF LiensInv, Collecteur
<1>3. CASE Chef
  BY <1>1, <1>2, <1>3, ChefDit DEF procVars
<1>4. ASSUME Deplace(q), pc'[q] # "lier" PROVE p # q /\ pc[p] = "lier" /\ loc'[p] = loc[p]
  BY <1>1, <1>4 DEF Deplace, Seul, Reste
<1>5. CASE \/ Reassigner(q) \/ LireClient(q) \/ Pointer(q) \/ ListerClients(q)
           \/ ListerVisites(q) \/ Afficher(q) \/ LireCommission(q) \/ DebiterCommission(q)
  <2>1. Deplace(q) /\ UNCHANGED equipe /\ pc'[q] # "lier"
    BY <1>5, ReassignerDit, LireClientDit, PointerDit, ListerClientsDit, ListerVisitesDit,
       AfficherDit, LireCommissionDit, DebiterCommissionDit DEF terrain
  <2>. QED
    BY <1>2, <1>4, <2>1
<1>6. CASE Lier(q)
  <2>1. p # q /\ pc[p] = "lier" /\ loc'[p] = loc[p]
    BY <1>4, <1>6, LierDit
  <2>2. equipe \in [Personnes -> Membre]
    BY DEF Typage, TypeOK
  <2>3. PICK k \in Personnes, b \in {loc[q].a} : equipe' = [equipe EXCEPT ![k].de = b]
    <3>1. /\ loc[q].qui \in Clients \cup Collecteurs
          /\ equipe' = [equipe EXCEPT ![loc[q].qui].de = loc[q].a]
      BY <1>6 DEF Lier, Typage, EtapeOK
    <3>. QED
      BY <3>1 DEF Personnes
  <2>4. PICK a : a = loc[p].a
    OBVIOUS
  <2>5. equipe'[a].role = equipe[a].role /\ equipe'[a].actif = equipe[a].actif
    <3>1. CASE a = k
      <4>1. equipe[k] \in Membre
        BY <2>2
      <4>2. PICK m : m = [equipe[k] EXCEPT !.de = b]
        OBVIOUS
      <4>3. equipe'[a] = m
        BY <2>2, <2>3, <3>1, <4>2
      <4>4. m.role = equipe[k].role /\ m.actif = equipe[k].actif
        BY <4>1, <4>2 DEF Membre
      <4>. QED
        BY <3>1, <4>3, <4>4
    <3>2. CASE a # k
      <4>1. CASE a \in Personnes
        BY <2>2, <2>3, <3>2, <4>1
      <4>2. CASE a \notin Personnes
        BY <2>2, <2>3, <3>2, <4>2
      <4>. QED
        BY <4>1, <4>2
    <3>. QED
      BY <3>1, <3>2
  <2>. QED
    BY <1>0, <1>1, <2>1, <2>4, <2>5 DEF LiensInv, Collecteur
<1>7. CASE LireCollecteur(q) \/ LireAgent(q) \/ LireSuperviseur(q) \/ LireQr(q)
  <2>1. Deplace(q) /\ equipe' = equipe
    BY <1>7, LireCollecteurDit, LireAgentDit, LireSuperviseurDit, LireQrDit DEF terrain
  <2>2. CASE p # q
    <3>1. pc[p] = "lier" /\ loc'[p] = loc[p]
      BY <1>1, <2>1, <2>2 DEF Deplace, Seul, Reste
    <3>. QED
      BY <1>2, <2>1, <3>1
  <2>3. CASE p = q
    <3>1. /\ loc'[q].op = "reassignation" =>
               loc'[q].a \in Collecteurs /\ Collecteur(loc'[q].a) /\ equipe[loc'[q].a].actif
          /\ loc'[q].op = "affectation" =>
               \/ loc'[q].a = Personne
               \/ loc'[q].a = Superviseur /\ equipe[loc'[q].a].role = "SUPERVISEUR"
      <4>1. CASE LireCollecteur(q)
        BY <1>1, <2>3, <4>1, LireCollecteurDit
      <4>2. CASE LireAgent(q)
        BY <1>1, <2>3, <4>2, LireAgentDit
      <4>3. CASE LireSuperviseur(q)
        BY <1>1, <2>3, <4>3, LireSuperviseurDit
      <4>4. CASE LireQr(q)
        BY <1>1, <2>3, <4>4, LireQrDit
      <4>. QED
        BY <1>7, <4>1, <4>2, <4>3, <4>4
    <3>. QED
      BY <2>1, <2>3, <3>1 DEF Collecteur
  <2>. QED
    BY <2>2, <2>3
<1>. QED
  BY <1>3, <1>5, <1>6, <1>7 DEF NextPortefeuilles

(* What LiensFondes says of a step. *)
LiensTenus ==
    \A x \in Personnes :
       LET a == equipe'[x].de IN
       a # equipe[x].de /\ a # Personne /\ "membre" \notin courses =>
          \/ \E q \in Requetes : loc[q].op = "lien" /\ loc[q].qui = x
          \/ a = Superviseur /\ equipe[a].role = "SUPERVISEUR"
          \/ Collecteur(a) /\ equipe[a].actif

(* A step of the links, as the action property has it.                     *)
LEMMA LiensAction ==
  ASSUME Typage, LiensInv, NEW q \in Requetes, NextPortefeuilles(q) \/ Chef
  PROVE  LiensTenus
<1>1. CASE Chef
  <2>1. \A x \in Personnes : equipe'[x].de = equipe[x].de
    BY <1>1, ChefDit
  <2>. QED
    BY <2>1 DEF LiensTenus
<1>2. CASE Lier(q)
  <2>1. /\ loc[q].op \in {"reassignation", "affectation", "lien"} /\ pc[q] = "lier"
        /\ \A x \in Personnes : x # loc[q].qui => equipe'[x] = equipe[x]
        /\ loc[q].qui \in Personnes => equipe'[loc[q].qui].de = loc[q].a
    BY <1>2, LierDit
  <2>2. ASSUME NEW x \in Personnes, "membre" \notin courses, equipe'[x].de # equipe[x].de,
               equipe'[x].de # Personne
        PROVE  \/ \E r \in Requetes : loc[r].op = "lien" /\ loc[r].qui = x
               \/ loc[q].a = Superviseur /\ equipe[loc[q].a].role = "SUPERVISEUR"
               \/ Collecteur(loc[q].a) /\ equipe[loc[q].a].actif
    <3>1. x = loc[q].qui /\ loc[q].a # Personne
      BY <2>1, <2>2
    <3>2. CASE loc[q].op = "lien"
      BY <3>1, <3>2
    <3>3. CASE loc[q].op \in {"reassignation", "affectation"}
      BY <2>1, <2>2, <3>1, <3>3 DEF LiensInv
    <3>. QED
      BY <2>1, <3>2, <3>3
  <2>3. \A x \in Personnes : equipe'[x].de # equipe[x].de => equipe'[x].de = loc[q].a
    BY <2>1
  <2>. QED
    BY <2>2, <2>3 DEF LiensTenus
<1>3. CASE NextPortefeuilles(q) /\ ~Lier(q)
  <2>1. UNCHANGED equipe
    BY <1>3, ReassignerDit, LireCollecteurDit, LireAgentDit, LireSuperviseurDit, LireQrDit,
       LireClientDit, PointerDit, ListerClientsDit, ListerVisitesDit,
       AfficherDit, LireCommissionDit, DebiterCommissionDit DEF NextPortefeuilles, terrain
  <2>. QED
    BY <2>1 DEF LiensTenus
<1>. QED
  BY <1>1, <1>2, <1>3

(* At another desk, and when the server died, nobody is here.              *)
LEMMA CollecteursTables ==
  ASSUME Typage, Typage', CommissionsInv, commissions' = commissions, courses \subseteq courses',
         \A p \in Requetes : pc'[p] \notin EtapesLiens \cup EtapesTournee \cup {"debiter"},
         "panne" \in courses' \/ \A p \in Requetes : pc[p] # "debiter"
  PROVE  TourneeInv' /\ CommissionsInv' /\ LiensInv'
<1>1. \A p \in Requetes : pc'[p] # "lier" /\ pc'[p] # "debiter"
                            /\ pc'[p] \notin {"listerVisites", "afficher"}
  BY DEF EtapesLiens, EtapesTournee
<1>2. \A p \in Requetes : ~Tourne(p)'
  BY <1>1, EtapeApres
<1>3. TourneeInv' /\ LiensInv'
  BY <1>1, <1>2 DEF TourneeInv, LiensInv
<1>4. ASSUME "panne" \notin courses' PROVE \A c \in Collecteurs : Du(c) = 0 /\ Du(c)' = 0
  <2>1. \A c : EnDebit(c) = {} /\ EnDebit(c)' = {}
    BY <1>1, <1>4 DEF EnDebit
  <2>. QED
    BY <2>1, SommeVide DEF Du
<1>5. \A c \in Collecteurs : "panne" \notin courses' =>
       /\ commissions'[c].solde = commissions'[c].gagne - commissions'[c].verse + Du(c)'
       /\ "retrait" \notin courses' => commissions'[c].verse <= commissions'[c].gagne
  <2>1. \A c \in Collecteurs : "panne" \notin courses =>
       /\ commissions[c].solde = commissions[c].gagne - commissions[c].verse + Du(c)
       /\ "retrait" \notin courses => commissions[c].verse <= commissions[c].gagne
    BY JustesDit DEF CommissionsInv
  <2>. QED
    BY <1>4, <2>1
<1>6. CommissionsJustes'
  BY <1>5 DEF CommissionsJustes, Du, Montants, EnDebit
<1>. QED
  BY <1>1, <1>3, <1>6 DEF CommissionsInv

-----------------------------------------------------------------------------
(* Subscriptions. *)

(* A subscription is paid: a month is added to today.                      *)
Regle(c) ==
    /\ facturations' \in [Collecteurs -> Facturation]
    /\ \A d \in Collecteurs : d # c => facturations'[d] = facturations[d]
    /\ Abonne(c)'
    /\ facturations'[c].prochain - facturations'[c].dernier \in 28 .. 31
    /\ facturations'[c].attendu = facturations[c].attendu
    /\ facturations'[c].preleves = facturations[c].preleves

(* The row that creating, paying or upgrading writes.                      *)
LEMMA PayeeDit ==
  ASSUME Typage, NEW c \in Collecteurs, NEW plan \in Plan, facturations' = Payee(c, plan)
  PROVE  Regle(c)
<1>1. facturations \in [Collecteurs -> Facturation] /\ facturations[c] \in Facturation /\ jour \in Nat
  BY DEF Typage, TypeOK
<1>2. PICK m \in Nat : m = DecalerMois(jour, 1)
  BY <1>1, UnMoisDePlus
<1>3. m - jour \in 28 .. 31
  BY <1>1, <1>2, UnMoisDePlus
<1>4. PICK g : g = [facturations[c] EXCEPT !.plan = plan, !.dernier = jour, !.prochain = m]
  OBVIOUS
<1>5. /\ g.plan = plan /\ g.dernier = jour /\ g.prochain = m
      /\ g.attendu = facturations[c].attendu /\ g.preleves = facturations[c].preleves
  BY <1>1, <1>4 DEF Facturation
<1>6. g \in Facturation /\ plan # "AUCUN"
  BY <1>1, <1>4 DEF Facturation, Plan
<1>7. facturations' = [facturations EXCEPT ![c] = g]
  BY <1>1, <1>2, <1>4 DEF Payee
<1>8. /\ facturations' \in [Collecteurs -> Facturation] /\ facturations'[c] = g
      /\ \A d \in Collecteurs : d # c => facturations'[d] = facturations[d]
  BY <1>1, <1>6, <1>7
<1>. QED
  BY <1>3, <1>5, <1>6, <1>8 DEF Regle, Abonne

(* The desk of the subscriptions leaves the tables of the others alone.    *)
LEMMA HorsAbonnement ==
  ASSUME Typage, NEW q \in Requetes, NextAbonnements(q) \/ PayerAbonnement
  PROVE  Hors("abonnement")
<1>0. courses \in SUBSET Course /\ "cron" \in Course /\ "manuel" \in Course /\ ecritures \in Nat
  BY DEF Typage, Course
<1>1. UNCHANGED horsFactures /\ jour' = jour
  BY DEF NextAbonnements, LireFacturation, CreerFacturation, LirePlan, PasserPro,
         FacturerLePremier, FacturerAlaMain, Prelever, PayerAbonnement
<1>2. /\ ecritures' \in {ecritures, ecritures + 1}
      /\ courses' \in {courses, courses \cup {"cron"}, courses \cup {"manuel"}}
  BY DEF NextAbonnements, LireFacturation, CreerFacturation, LirePlan, PasserPro,
         FacturerLePremier, FacturerAlaMain, Prelever, PayerAbonnement
<1>3. ecritures' \in Nat /\ courses \subseteq courses' /\ courses' \in SUBSET Course
  BY <1>0, <1>2
<1>. QED
  BY <1>1, <1>3 DEF horsFactures, terrain, Hors

(* A collector looks at his subscription, and gets one.                    *)
LEMMA LireFacturationDit ==
  ASSUME Typage, NEW q \in Requetes, LireFacturation(q)
  PROVE  /\ Deplace(q) /\ UNCHANGED <<facturations, courses>> /\ sujet = "abonnement"
         /\ pc[q] = "libre" /\ pc'[q] = "creerFacturation" /\ loc'[q].op = "statut"
         /\ loc'[q].qui \in Collecteurs
<1>1. PICK c \in Collecteurs :
          Commencer(q, "creerFacturation", [Repos EXCEPT !.op = "statut", !.qui = c])
  BY DEF LireFacturation
<1>2. PICK w : w = [Repos EXCEPT !.op = "statut", !.qui = c]
  OBVIOUS
<1>3. c \in Gens
  BY DEF Gens, Personnes
<1>4. w \in Travail /\ w.op = "statut" /\ w.qui = c
  BY <1>2, <1>3, ReposType DEF Travail, Operation
<1>5. Commencer(q, "creerFacturation", w) /\ "creerFacturation" \in Etapes
  BY <1>1, <1>2, EtapesDites
<1>. QED
  BY <1>4, <1>5, Commence DEF LireFacturation, Deplace

(* The row is created, or it was there.                                    *)
LEMMA CreerFacturationDit ==
  ASSUME Typage, NEW q \in Requetes, CreerFacturation(q)
  PROVE  /\ Deplace(q) /\ UNCHANGED courses
         /\ pc[q] = "creerFacturation" /\ pc'[q] = "libre" /\ loc'[q] = Repos
         /\ facturations' = facturations \/ \E c \in Collecteurs : Regle(c)
<1>1. loc[q].qui \in Collecteurs
  BY DEF CreerFacturation, Typage, EtapeOK
<1>2. facturations' = facturations \/ facturations' = Payee(loc[q].qui, "STANDARD")
  BY DEF CreerFacturation
<1>3. "STANDARD" \in Plan
  BY DEF Plan
<1>. QED
  BY <1>1, <1>2, <1>3, PayeeDit, Repond DEF CreerFacturation, Deplace

(* He takes the plan PRO.                                                  *)
LEMMA LirePlanDit ==
  ASSUME Typage, NEW q \in Requetes, LirePlan(q)
  PROVE  /\ Deplace(q) /\ UNCHANGED <<facturations, courses>> /\ sujet = "abonnement"
         /\ pc[q] = "libre" /\ pc'[q] = "passerPro" /\ loc'[q].op = "upgrade"
         /\ loc'[q].qui \in Collecteurs
<1>1. PICK c \in Collecteurs :
          Commencer(q, "passerPro", [Repos EXCEPT !.op = "upgrade", !.qui = c])
  BY DEF LirePlan
<1>2. PICK w : w = [Repos EXCEPT !.op = "upgrade", !.qui = c]
  OBVIOUS
<1>3. c \in Gens
  BY DEF Gens, Personnes
<1>4. w \in Travail /\ w.op = "upgrade" /\ w.qui = c
  BY <1>2, <1>3, ReposType DEF Travail, Operation
<1>5. Commencer(q, "passerPro", w) /\ "passerPro" \in Etapes
  BY <1>1, <1>2, EtapesDites
<1>. QED
  BY <1>4, <1>5, Commence DEF LirePlan, Deplace

(* The new plan is written.                                                *)
LEMMA PasserProDit ==
  ASSUME Typage, NEW q \in Requetes, PasserPro(q)
  PROVE  /\ Deplace(q) /\ UNCHANGED courses
         /\ pc[q] = "passerPro" /\ pc'[q] = "libre" /\ loc'[q] = Repos
         /\ \E c \in Collecteurs : Regle(c)
<1>1. loc[q].qui \in Collecteurs
  BY DEF PasserPro, Typage, EtapeOK
<1>2. facturations' = Payee(loc[q].qui, "PRO") /\ "PRO" \in Plan
  BY DEF PasserPro, Plan
<1>. QED
  BY <1>1, <1>2, PayeeDit, Repond DEF PasserPro, Deplace

(* All subscriptions are found.                                            *)
LEMMA FacturerDit ==
  ASSUME Typage, NEW q \in Requetes, FacturerLePremier(q) \/ FacturerAlaMain(q)
  PROVE  /\ Deplace(q) /\ sujet = "abonnement"
         /\ pc[q] = "libre" /\ pc'[q] = "prelever" /\ loc'[q].op = "facturation"
         /\ loc'[q].photo = {c \in Collecteurs : Abonne(c)}
         /\ courses \subseteq courses'
         /\ "manuel" \in courses' \/ ("cron" \notin courses /\ "cron" \in courses')
         /\ facturations' \in [Collecteurs -> Facturation]
         /\ \A c \in Collecteurs :
              /\ facturations'[c].plan = facturations[c].plan
              /\ facturations'[c].dernier = facturations[c].dernier
              /\ facturations'[c].prochain = facturations[c].prochain
              /\ facturations'[c].preleves = facturations[c].preleves
              /\ facturations'[c].attendu = (facturations[c].attendu \/ Abonne(c))
<1>1. /\ facturations' =
           [c \in Collecteurs |-> [facturations[c] EXCEPT !.attendu = @ \/ Abonne(c)]]
      /\ Commencer(q, "prelever", [Repos EXCEPT !.op = "facturation",
                                                !.photo = {c \in Collecteurs : Abonne(c)}])
      /\ sujet = "abonnement" /\ courses \subseteq courses'
      /\ "manuel" \in courses' \/ ("cron" \notin courses /\ "cron" \in courses')
  BY DEF FacturerLePremier, FacturerAlaMain, LireFacturations
<1>2. PICK S \in SUBSET Collecteurs : S = {c \in Collecteurs : Abonne(c)}
  OBVIOUS
<1>3. PICK w : w = [Repos EXCEPT !.op = "facturation", !.photo = S]
  OBVIOUS
<1>4. w \in Travail /\ w.op = "facturation" /\ w.photo = S
  BY <1>3, ReposType DEF Travail, Operation
<1>5. Commencer(q, "prelever", w) /\ "prelever" \in Etapes
  BY <1>1, <1>2, <1>3, EtapesDites
<1>6. facturations \in [Collecteurs -> Facturation]
  BY DEF Typage, TypeOK
<1>7. ASSUME NEW c \in Collecteurs
      PROVE  /\ facturations'[c] \in Facturation
             /\ facturations'[c].plan = facturations[c].plan
             /\ facturations'[c].dernier = facturations[c].dernier
             /\ facturations'[c].prochain = facturations[c].prochain
             /\ facturations'[c].preleves = facturations[c].preleves
             /\ facturations'[c].attendu = (facturations[c].attendu \/ Abonne(c))
  <2>1. facturations[c] \in Facturation
    BY <1>6
  <2>2. PICK b \in BOOLEAN : b = (facturations[c].attendu \/ Abonne(c))
    OBVIOUS
  <2>3. PICK g : g = [facturations[c] EXCEPT !.attendu = b]
    OBVIOUS
  <2>4. facturations'[c] = g
    BY <1>1, <2>2, <2>3
  <2>5. g \in Facturation
    BY <2>1, <2>3 DEF Facturation
  <2>6. /\ g.plan = facturations[c].plan /\ g.dernier = facturations[c].dernier
        /\ g.prochain = facturations[c].prochain /\ g.preleves = facturations[c].preleves
    BY <2>1, <2>3 DEF Facturation
  <2>7. g.attendu = b
    BY <2>1, <2>3 DEF Facturation
  <2>8. facturations'[c].attendu = (facturations[c].attendu \/ Abonne(c))
    BY <2>2, <2>4, <2>7
  <2>. QED
    BY <2>4, <2>5, <2>6, <2>8
<1>8. facturations' \in [Collecteurs -> Facturation]
  BY <1>1, <1>7
<1>. QED
  BY <1>1, <1>2, <1>4, <1>5, <1>7, <1>8, Commence DEF Deplace

(* One of them is billed.                                                  *)
LEMMA PreleverDit ==
  ASSUME Typage, NEW q \in Requetes, Prelever(q)
  PROVE  \E c \in loc[q].photo :
           /\ Deplace(q) /\ UNCHANGED courses /\ pc[q] = "prelever" /\ sujet = "abonnement"
           /\ c \in Collecteurs /\ loc[q].op = "facturation" /\ loc[q].photo \subseteq Collecteurs
           /\ \/ loc[q].photo = {c} /\ pc'[q] = "libre" /\ loc'[q] = Repos
              \/ /\ loc[q].photo # {c} /\ pc'[q] = "prelever" /\ loc'[q].op = "facturation"
                 /\ loc'[q].photo = loc[q].photo \ {c}
           /\ facturations' \in [Collecteurs -> Facturation]
           /\ \A d \in Collecteurs : d # c => facturations'[d] = facturations[d]
           /\ facturations'[c].plan = facturations[c].plan
           /\ facturations'[c].attendu = facturations[c].attendu
           /\ facturations'[c].prochain - facturations'[c].dernier \in 28 .. 31
           /\ facturations'[c].preleves = facturations[c].preleves + 1
<1>1. PICK c \in loc[q].photo :
          /\ facturations' = Prelevee(c)
          /\ IF loc[q].photo = {c} THEN Repondre(q)
             ELSE loc' = [loc EXCEPT ![q].photo = @ \ {c}] /\ UNCHANGED pc
  BY DEF Prelever
<1>2. /\ pc[q] = "prelever" /\ UNCHANGED courses /\ loc[q].photo \subseteq Collecteurs
      /\ c \in Collecteurs /\ sujet = "abonnement" /\ loc[q].op = "facturation"
  BY OperationsDites, BureauxDits DEF Prelever, Typage, EtapeOK
<1>3. facturations \in [Collecteurs -> Facturation] /\ facturations[c] \in Facturation /\ jour \in Nat
  BY <1>2 DEF Typage, TypeOK
<1>0. PICK v \in Nat : v = jour + 30
  BY <1>3
<1>4. PICK k \in Nat : k = facturations[c].preleves + 1
  BY <1>3 DEF Facturation
<1>5. PICK g : g = [facturations[c] EXCEPT !.dernier = jour, !.prochain = v, !.preleves = k]
  OBVIOUS
<1>6. g \in Facturation
  BY <1>3, <1>5 DEF Facturation
<1>7. /\ g.plan = facturations[c].plan /\ g.dernier = jour /\ g.prochain = v
      /\ g.attendu = facturations[c].attendu /\ g.preleves = k
  BY <1>3, <1>5 DEF Facturation
<1>8. facturations' = [facturations EXCEPT ![c] = g]
  <2>1. g = [facturations[c] EXCEPT !.dernier = jour, !.prochain = jour + 30,
                                    !.preleves = facturations[c].preleves + 1]
    BY <1>0, <1>4, <1>5
  <2>. HIDE <1>5
  <2>. QED
    BY <1>1, <2>1 DEF Prelevee
<1>9. /\ facturations' \in [Collecteurs -> Facturation] /\ facturations'[c] = g
      /\ \A d \in Collecteurs : d # c => facturations'[d] = facturations[d]
  BY <1>2, <1>3, <1>6, <1>8
<1>10. v - jour \in 28 .. 31
  BY <1>0, <1>3
<1>11. /\ Deplace(q)
       /\ \/ loc[q].photo = {c} /\ pc'[q] = "libre" /\ loc'[q] = Repos
          \/ /\ loc[q].photo # {c} /\ pc'[q] = "prelever" /\ loc'[q].op = "facturation"
             /\ loc'[q].photo = loc[q].photo \ {c}
  <2>1. CASE loc[q].photo = {c}
    BY <1>1, <2>1, Repond DEF Deplace
  <2>2. CASE loc[q].photo # {c}
    <3>1. loc \in [Requetes -> Travail] /\ loc[q] \in Travail /\ pc \in [Requetes -> Etapes]
      BY DEF Typage
    <3>2. PICK S \in SUBSET (Collecteurs \cup Modifications) : S = loc[q].photo \ {c}
      BY <1>2
    <3>3. PICK w : w = [loc[q] EXCEPT !.photo = S]
      OBVIOUS
    <3>4. w \in Travail /\ w.op = loc[q].op /\ w.photo = S
      BY <3>1, <3>3 DEF Travail
    <3>5. loc' = [loc EXCEPT ![q] = w] /\ pc' = pc
      BY <1>1, <2>2, <3>1, <3>2, <3>3
    <3>6. Deplace(q) /\ loc'[q] = w
      BY <3>1, <3>4, <3>5 DEF Deplace, Seul, Reste
    <3>. QED
      BY <1>2, <2>2, <3>2, <3>4, <3>5, <3>6
  <2>. QED
    BY <2>1, <2>2
<1>. QED
  BY <1>1, <1>2, <1>4, <1>7, <1>9, <1>10, <1>11

(* The desk of the subscriptions keeps the types.                          *)
LEMMA TypageAbonnement ==
  ASSUME Typage, NEW q \in Requetes, NextAbonnements(q) \/ PayerAbonnement
  PROVE  Typage'
<1>1. Hors("abonnement")
  BY HorsAbonnement
<1>2. /\ documents' \in Seq(DocumentKYC) /\ kycVerifie' \in BOOLEAN
      /\ litiges' \in Seq(Litige) /\ compte' \in Compte /\ livre' \in Livre
      /\ alertes' \in Seq({"OUVERTE", "RESOLUE"})
      /\ equipe' \in [Personnes -> Membre] /\ qr' \in [Collecteurs -> QRCode]
      /\ visites' \subseteq Collecteurs \X Clients /\ commissions' \in [Collecteurs -> Gains]
      /\ echeance' \in Echeance /\ jour' \in Nat
  BY <1>1 DEF Hors, Typage, TypeOK
<1>3. Grandit
  BY <1>1, HorsType DEF Grandit
<1>4. /\ facturations \in [Collecteurs -> Facturation]
      /\ sujet' = sujet /\ sujet \in Sujets /\ calme' \in BOOLEAN
      /\ jour' >= Debut(PremierMois)
  BY <1>1 DEF Typage, TypeOK, Hors
<1>5. ASSUME Deplace(q), EtapeOK(q)', facturations' \in [Collecteurs -> Facturation]
      PROVE  Typage'
  <2>1. TypeOK'
    BY <1>2, <1>4, <1>5 DEF TypeOK
  <2>. QED
    BY <1>1, <1>3, <1>4, <1>5, <2>1, HorsType, TypageSuit
<1>6. ASSUME pc'[q] = "libre", loc'[q] = Repos PROVE EtapeOK(q)'
  BY <1>4, <1>6, ReposType, OperationsDites, BureauxDits DEF EtapeOK
<1>7. CASE PayerAbonnement
  <2>1. facturations' \in [Collecteurs -> Facturation] /\ UNCHANGED procVars
    BY <1>7, PayeeDit DEF PayerAbonnement, Regle
  <2>2. TypeOK'
    BY <1>2, <1>4, <2>1 DEF TypeOK
  <2>. QED
    BY <1>1, <1>3, <1>4, <2>1, <2>2, HorsType, TypageReste
<1>8. CASE LireFacturation(q)
  <2>1. EtapeOK(q)'
    BY <1>4, <1>8, LireFacturationDit, OperationsDites, BureauxDits DEF EtapeOK
  <2>. QED
    BY <1>4, <1>5, <1>8, <2>1, LireFacturationDit
<1>9. CASE CreerFacturation(q)
  <2>1. facturations' \in [Collecteurs -> Facturation]
    BY <1>4, <1>9, CreerFacturationDit DEF Regle
  <2>. QED
    BY <1>5, <1>6, <1>9, <2>1, CreerFacturationDit
<1>10. CASE LirePlan(q)
  <2>1. EtapeOK(q)'
    BY <1>4, <1>10, LirePlanDit, OperationsDites, BureauxDits DEF EtapeOK
  <2>. QED
    BY <1>4, <1>5, <1>10, <2>1, LirePlanDit
<1>11. CASE PasserPro(q)
  <2>1. facturations' \in [Collecteurs -> Facturation]
    BY <1>4, <1>11, PasserProDit DEF Regle
  <2>. QED
    BY <1>5, <1>6, <1>11, <2>1, PasserProDit
<1>12. CASE FacturerLePremier(q) \/ FacturerAlaMain(q)
  <2>1. EtapeOK(q)'
    BY <1>4, <1>12, FacturerDit, OperationsDites, BureauxDits DEF EtapeOK
  <2>. QED
    BY <1>5, <1>12, <2>1, FacturerDit
<1>13. CASE Prelever(q)
  <2>1. PICK c \in loc[q].photo :
           /\ Deplace(q) /\ sujet = "abonnement" /\ loc[q].photo \subseteq Collecteurs
           /\ \/ pc'[q] = "libre" /\ loc'[q] = Repos
              \/ /\ pc'[q] = "prelever" /\ loc'[q].op = "facturation"
                 /\ loc'[q].photo = loc[q].photo \ {c}
           /\ facturations' \in [Collecteurs -> Facturation]
    BY <1>13, PreleverDit
  <2>2. EtapeOK(q)'
    <3>1. CASE pc'[q] = "libre" /\ loc'[q] = Repos
      BY <1>6, <3>1
    <3>2. CASE /\ pc'[q] = "prelever" /\ loc'[q].op = "facturation"
               /\ loc'[q].photo = loc[q].photo \ {c}
      BY <1>4, <2>1, <3>2, OperationsDites, BureauxDits DEF EtapeOK
    <3>. QED
      BY <2>1, <3>1, <3>2
  <2>. QED
    BY <1>5, <2>1, <2>2
<1>. QED
  BY <1>7, <1>8, <1>9, <1>10, <1>11, <1>12, <1>13 DEF NextAbonnements

(* What counts of a row for the invariant, in its own words.               *)
Bonne(c) == /\ Abonne(c) => facturations[c].prochain - facturations[c].dernier \in 28 .. 31
            /\ facturations[c].preleves > 0 => facturations[c].attendu

(* The invariant, with what it says of each row named.                     *)
LEMMA Bonnes == AbonnementsInv <=>
    /\ \A c \in Collecteurs : Bonne(c)
    /\ \A q \in Requetes : pc[q] = "prelever" =>
         \A c \in loc[q].photo : facturations[c].attendu /\ Abonne(c)
    /\ "manuel" \notin courses =>
         /\ \A p, q \in Requetes : Facture(p) /\ Facture(q) => p = q
         /\ "cron" \notin courses => 
              /\ \A q \in Requetes : ~Facture(q)
              /\ \A c \in Collecteurs : ~facturations[c].attendu
         /\ \A c \in Collecteurs : facturations[c].preleves <= 1
         /\ \A q \in Requetes : pc[q] = "prelever" =>
              \A c \in loc[q].photo : facturations[c].preleves = 0
         /\ "panne" \notin courses => \A c \in Collecteurs : facturations[c].attendu =>
              \/ facturations[c].preleves = 1
              \/ \E q \in Requetes : pc[q] = "prelever" /\ c \in loc[q].photo
  BY DEF AbonnementsInv, Bonne

(* A step that bills nobody.                                               *)
LEMMA SansPrelever ==
  ASSUME Typage, Typage', AbonnementsInv, courses \subseteq courses',
         \A c \in Collecteurs : 
            /\ Bonne(c) => Bonne(c)'
            /\ Abonne(c) => Abonne(c)'
            /\ facturations'[c].attendu = facturations[c].attendu
            /\ facturations'[c].preleves = facturations[c].preleves,
         \A q \in Requetes : (pc'[q] = "prelever" <=> pc[q] = "prelever")
                               /\ (pc[q] = "prelever" => loc'[q] = loc[q])
  PROVE  AbonnementsInv'
<1>1. \A q \in Requetes : Facture(q)' <=> Facture(q)
  BY EtapeDe, EtapeApres DEF Facture
<1>2. \A q \in Requetes : pc[q] = "prelever" => loc[q].photo \subseteq Collecteurs
  BY DEF Typage, EtapeOK
<1>3. \A q \in Requetes : pc'[q] = "prelever" =>
         \A c \in loc'[q].photo : facturations'[c].attendu /\ Abonne(c)'
  BY <1>2, Bonnes
<1>4. \A c \in Collecteurs : Bonne(c)'
  BY Bonnes
<1>5. ASSUME "manuel" \notin courses'
      PROVE  /\ \A p, q \in Requetes : Facture(p)' /\ Facture(q)' => p = q
             /\ "cron" \notin courses' => 
                  /\ \A q \in Requetes : ~Facture(q)'
                  /\ \A c \in Collecteurs : ~facturations'[c].attendu
             /\ \A c \in Collecteurs : facturations'[c].preleves <= 1
             /\ \A q \in Requetes : pc'[q] = "prelever" =>
                  \A c \in loc'[q].photo : facturations'[c].preleves = 0
  BY <1>1, <1>2, <1>5, Bonnes
<1>6. ASSUME "manuel" \notin courses', "panne" \notin courses'
      PROVE  \A c \in Collecteurs : facturations'[c].attendu =>
              \/ facturations'[c].preleves = 1
              \/ \E q \in Requetes : pc'[q] = "prelever" /\ c \in loc'[q].photo
  BY <1>6, Bonnes
<1>. QED
  BY <1>3, <1>4, <1>5, <1>6 DEF AbonnementsInv, Bonne

(* The desk of the subscriptions keeps its invariant.                      *)
LEMMA AbonnementsInduit ==
  ASSUME Typage, Typage', AbonnementsInv, NEW q \in Requetes, NextAbonnements(q) \/ PayerAbonnement
  PROVE  AbonnementsInv'
<1>0. courses \subseteq courses'
  BY HorsAbonnement DEF Hors
<1>1. ASSUME UNCHANGED facturations
      PROVE  \A c \in Collecteurs :
               /\ Bonne(c) => Bonne(c)'
               /\ Abonne(c) => Abonne(c)'
               /\ facturations'[c].attendu = facturations[c].attendu
               /\ facturations'[c].preleves = facturations[c].preleves
  BY <1>1 DEF Bonne, Abonne
<1>2. ASSUME NEW d \in Collecteurs, Regle(d)
      PROVE  \A c \in Collecteurs :
               /\ Bonne(c) => Bonne(c)'
               /\ Abonne(c) => Abonne(c)'
               /\ facturations'[c].attendu = facturations[c].attendu
               /\ facturations'[c].preleves = facturations[c].preleves
  BY <1>2 DEF Bonne, Abonne, Regle
<1>3. ASSUME Deplace(q), pc[q] # "prelever", pc'[q] # "prelever"
      PROVE  \A p \in Requetes : (pc'[p] = "prelever" <=> pc[p] = "prelever")
                               /\ (pc[p] = "prelever" => loc'[p] = loc[p])
  BY <1>3 DEF Deplace, Seul, Reste
<1>4. CASE PayerAbonnement
  <2>1. PICK d \in Collecteurs : Regle(d)
    BY <1>4, PayeeDit DEF PayerAbonnement
  <2>2. UNCHANGED <<pc, loc>>
    BY <1>4 DEF PayerAbonnement, procVars
  <2>. QED
    BY <1>0, <1>2, <2>1, <2>2, SansPrelever
<1>5. CASE LireFacturation(q)
  BY <1>0, <1>1, <1>3, <1>5, LireFacturationDit, SansPrelever
<1>6. CASE LirePlan(q)
  BY <1>0, <1>1, <1>3, <1>6, LirePlanDit, SansPrelever
<1>7. CASE CreerFacturation(q)
  BY <1>0, <1>1, <1>2, <1>3, <1>7, CreerFacturationDit, SansPrelever
<1>8. CASE PasserPro(q)
  BY <1>0, <1>2, <1>3, <1>8, PasserProDit, SansPrelever
<1>9. CASE FacturerLePremier(q) \/ FacturerAlaMain(q)
  <2>1. /\ Deplace(q) /\ pc[q] = "libre" /\ pc'[q] = "prelever"
        /\ loc'[q].photo = {c \in Collecteurs : Abonne(c)}
        /\ courses \subseteq courses'
        /\ "manuel" \in courses' \/ ("cron" \notin courses /\ "cron" \in courses')
    BY <1>9, FacturerDit
  <2>2. \A c \in Collecteurs :
           /\ facturations'[c].plan = facturations[c].plan
           /\ facturations'[c].dernier = facturations[c].dernier
           /\ facturations'[c].prochain = facturations[c].prochain
           /\ facturations'[c].preleves = facturations[c].preleves
           /\ facturations'[c].attendu = (facturations[c].attendu \/ Abonne(c))
    BY <1>9, FacturerDit
  <2>3. \A p \in Requetes : p # q => pc'[p] = pc[p] /\ loc'[p] = loc[p]
    BY <2>1 DEF Deplace, Seul, Reste
  <2>4. \A c \in Collecteurs : (Abonne(c)' <=> Abonne(c)) /\ (Bonne(c) => Bonne(c)')
    BY <2>2 DEF Bonne, Abonne
  <2>5. \A p \in Requetes : pc'[p] = "prelever" =>
         \A c \in loc'[p].photo : facturations'[c].attendu /\ Abonne(c)'
    <3>1. \A p \in Requetes : pc[p] = "prelever" => loc[p].photo \subseteq Collecteurs
      BY DEF Typage, EtapeOK
    <3>. QED
      BY <2>1, <2>2, <2>3, <2>4, <3>1, Bonnes
  <2>6. ASSUME "manuel" \notin courses'
        PROVE  /\ \A p, r \in Requetes : Facture(p)' /\ Facture(r)' => p = r
               /\ "cron" \in courses'
               /\ \A c \in Collecteurs : facturations'[c].preleves = 0
               /\ \A c \in Collecteurs : facturations'[c].attendu => c \in loc'[q].photo
    <3>1. "manuel" \notin courses /\ "cron" \notin courses /\ "cron" \in courses'
      BY <2>1, <2>6
    <3>2. \A p \in Requetes : ~Facture(p)
      BY <3>1, Bonnes
    <3>3. \A p \in Requetes : p # q => ~Facture(p)'
      BY <2>3, <3>2 DEF Facture
    <3>4. \A c \in Collecteurs : facturations[c].preleves = 0 /\ ~facturations[c].attendu
      <4>1. \A c \in Collecteurs : facturations[c].preleves \in Nat
        BY DEF Typage, TypeOK, Facturation
      <4>. QED
        BY <3>1, <4>1, Bonnes DEF Bonne
    <3>. QED
      BY <2>1, <2>2, <3>1, <3>3, <3>4
  <2>7. \A p \in Requetes : pc'[p] = "prelever" => loc'[p].photo \subseteq Collecteurs
    BY DEF Typage, EtapeOK
  <2>8. \A c \in Collecteurs : Bonne(c)'
    BY <2>4, Bonnes
  <2>9. ASSUME "manuel" \notin courses'
        PROVE  /\ \A p, r \in Requetes : Facture(p)' /\ Facture(r)' => p = r
               /\ "cron" \in courses'
               /\ \A c \in Collecteurs : facturations'[c].preleves <= 1
               /\ \A p \in Requetes : pc'[p] = "prelever" =>
                    \A c \in loc'[p].photo : facturations'[c].preleves = 0
               /\ \A c \in Collecteurs : facturations'[c].attendu =>
                    \E p \in Requetes : pc'[p] = "prelever" /\ c \in loc'[p].photo
    BY <2>1, <2>6, <2>7, <2>9
  <2>. QED
    BY <2>5, <2>8, <2>9 DEF AbonnementsInv, Bonne
<1>10. CASE Prelever(q)
  <2>1. PICK c \in loc[q].photo :
           /\ Deplace(q) /\ UNCHANGED courses /\ pc[q] = "prelever"
           /\ c \in Collecteurs /\ loc[q].op = "facturation" /\ loc[q].photo \subseteq Collecteurs
           /\ \/ loc[q].photo = {c} /\ pc'[q] = "libre" /\ loc'[q] = Repos
              \/ /\ loc[q].photo # {c} /\ pc'[q] = "prelever" /\ loc'[q].op = "facturation"
                 /\ loc'[q].photo = loc[q].photo \ {c}
           /\ \A d \in Collecteurs : d # c => facturations'[d] = facturations[d]
           /\ facturations'[c].plan = facturations[c].plan
           /\ facturations'[c].attendu = facturations[c].attendu
           /\ facturations'[c].prochain - facturations'[c].dernier \in 28 .. 31
           /\ facturations'[c].preleves = facturations[c].preleves + 1
    BY <1>10, PreleverDit
  <2>2. \A p \in Requetes : p # q => pc'[p] = pc[p] /\ loc'[p] = loc[p]
    BY <2>1 DEF Deplace, Seul, Reste
  <2>3. facturations[c].attendu /\ Abonne(c) /\ facturations[c].preleves \in Nat
    BY <2>1, Bonnes DEF Typage, TypeOK, Facturation
  <2>4. \A d \in Collecteurs : (Abonne(d)' <=> Abonne(d)) 
                                  /\ (facturations'[d].attendu <=> facturations[d].attendu)
    BY <2>1 DEF Abonne
  <2>5. \A d \in Collecteurs : Bonne(d)'
    <3>1. \A d \in Collecteurs : Bonne(d)
      BY Bonnes
    <3>. QED
      BY <2>1, <2>3, <3>1 DEF Bonne, Abonne
  <2>6. \A p \in Requetes : pc'[p] = "prelever" =>
          pc[p] = "prelever" /\ loc'[p].photo \subseteq loc[p].photo
    BY <2>1, <2>2
  <2>7. \A p \in Requetes : pc'[p] = "prelever" =>
         \A d \in loc'[p].photo : facturations'[d].attendu /\ Abonne(d)'
    <3>1. \A p \in Requetes : pc[p] = "prelever" => loc[p].photo \subseteq Collecteurs
      BY DEF Typage, EtapeOK
    <3>. QED
      BY <2>4, <2>6, <3>1, Bonnes
  <2>8. ASSUME "manuel" \notin courses'
        PROVE  /\ \A p, r \in Requetes : Facture(p)' /\ Facture(r)' => p = r
               /\ "cron" \in courses'
               /\ \A d \in Collecteurs : facturations'[d].preleves <= 1
               /\ \A p \in Requetes : pc'[p] = "prelever" =>
                    \A d \in loc'[p].photo : facturations'[d].preleves = 0
    <3>1. "manuel" \notin courses
      BY <2>1, <2>8
    <3>2. \A p \in Requetes : Facture(p) => p = q
      BY <2>1, <3>1, Bonnes DEF Facture
    <3>3. \A p \in Requetes : Facture(p)' => p = q
      BY <2>2, <3>2 DEF Facture
    <3>4. "cron" \in courses'
      BY <2>1, <3>1, Bonnes DEF Facture
    <3>5. facturations[c].preleves = 0 /\ facturations'[c].preleves = 1
      BY <2>1, <3>1, Bonnes
    <3>6. \A d \in Collecteurs : facturations'[d].preleves <= 1
      BY <2>1, <3>1, <3>5, Bonnes
    <3>7. ASSUME NEW p \in Requetes, pc'[p] = "prelever"
          PROVE  \A d \in loc'[p].photo : facturations'[d].preleves = 0
      <4>1. p = q
        BY <3>3, <3>7, EtapeApres
      <4>2. loc'[q].photo = loc[q].photo \ {c}
        BY <2>1, <3>7, <4>1
      <4>3. \A d \in loc[q].photo : facturations[d].preleves = 0
        BY <2>1, <3>1, Bonnes
      <4>. QED
        BY <2>1, <4>1, <4>2, <4>3
    <3>. QED
      BY <3>3, <3>4, <3>6, <3>7
  <2>9. ASSUME "manuel" \notin courses', "panne" \notin courses', NEW d \in Collecteurs,
               facturations'[d].attendu
        PROVE  \/ facturations'[d].preleves = 1
               \/ \E p \in Requetes : pc'[p] = "prelever" /\ d \in loc'[p].photo
    <3>1. "manuel" \notin courses /\ "panne" \notin courses
      BY <2>1, <2>9
    <3>2. CASE d = c
      BY <2>1, <3>1, <3>2, Bonnes
    <3>3. CASE d # c
      <4>1. \/ facturations'[d].preleves = 1
            \/ \E p \in Requetes : pc[p] = "prelever" /\ d \in loc[p].photo
        BY <2>1, <2>4, <2>9, <3>1, <3>3, Bonnes
      <4>2. ASSUME NEW p \in Requetes, pc[p] = "prelever", d \in loc[p].photo
            PROVE  pc'[p] = "prelever" /\ d \in loc'[p].photo
        BY <2>1, <2>2, <3>3, <4>2
      <4>. QED
        BY <4>1, <4>2
    <3>. QED
      BY <3>2, <3>3
  <2>. QED
    BY <2>5, <2>7, <2>8, <2>9 DEF AbonnementsInv, Bonne
<1>. QED
  BY <1>4, <1>5, <1>6, <1>7, <1>8, <1>9, <1>10 DEF NextAbonnements

(* Nobody is at the desk of the subscriptions.                             *)
LEMMA AbonnementsTables ==
  ASSUME Typage, Typage', AbonnementsInv, UNCHANGED facturations, courses \subseteq courses',
         \A p \in Requetes : pc'[p] # "prelever",
         "panne" \in courses' \/ \A p \in Requetes : pc[p] # "prelever"
  PROVE  AbonnementsInv'
<1>1. \A p \in Requetes : ~Facture(p)'
  BY EtapeApres
<1>2. \A c \in Collecteurs : Bonne(c)'
  BY Bonnes DEF Bonne, Abonne
<1>3. ASSUME "manuel" \notin courses'
      PROVE  /\ "cron" \notin courses' => \A c \in Collecteurs : ~facturations'[c].attendu
             /\ \A c \in Collecteurs : facturations'[c].preleves <= 1
             /\ "panne" \notin courses' => \A c \in Collecteurs : facturations'[c].attendu =>
                  facturations'[c].preleves = 1
  BY <1>3, Bonnes
<1>. QED
  BY <1>1, <1>2, <1>3 DEF AbonnementsInv, Bonne

(* The invariant is what the subscriptions promise.                        *)
LEMMA AbonnementsDits ==
  ASSUME Typage, AbonnementsInv
  PROVE  AbonnementsJustes
<1>1. ASSUME NEW c \in Collecteurs, "manuel" \notin courses
      PROVE  /\ facturations[c].preleves <= 1
             /\ facturations[c].attendu /\ "panne" \notin courses /\ (\A q \in Requetes : ~Facture(q))
                  => facturations[c].preleves = 1
  BY <1>1, EtapeDe, Bonnes DEF Facture
<1>. QED
  BY <1>1, Bonnes DEF AbonnementsJustes, Bonne

-----------------------------------------------------------------------------
(* Dates of tontines. *)

(* One field is changed; the others stay.                                  *)
Modifiee(t, d) == [t EXCEPT ![d.champ] = d.valeur]

(* A modification gives a field a value of its type.                       *)
LEMMA ChampsDits ==
  ASSUME NEW d \in Modifications
  PROVE  \/ d.champ = "frequence" /\ d.valeur \in Frequence
         \/ d.champ = "cotisations" /\ d.valeur \in Nat
         \/ d.champ = "politique" /\ d.valeur \in Politique
         \/ d.champ = "verrou" /\ d.valeur \in Nat
         \/ d.champ = "fin" /\ d.valeur \in Nat
  BY DEF Modifications, Frequence

(* The row with one field changed.                                         *)
LEMMA ModifieeDite ==
  ASSUME NEW t \in Echeance, NEW d \in Modifications
  PROVE  /\ Modifiee(t, d) \in Echeance
         /\ Modifiee(t, d).statut = t.statut /\ Modifiee(t, d).pose = t.pose
         /\ d.champ # "fin" => Modifiee(t, d).fin = t.fin
         /\ Modifiee(t, d).frequence =
              IF d.champ = "frequence" THEN d.valeur ELSE t.frequence
         /\ Modifiee(t, d).cotisations =
              IF d.champ = "cotisations" THEN d.valeur ELSE t.cotisations
         /\ Modifiee(t, d).politique =
              IF d.champ = "politique" THEN d.valeur ELSE t.politique
         /\ Modifiee(t, d).verrou = IF d.champ = "verrou" THEN d.valeur ELSE t.verrou
<1>1. CASE d.champ = "frequence" /\ d.valeur \in Frequence
  BY <1>1 DEF Modifiee, Echeance
<1>2. CASE d.champ = "cotisations" /\ d.valeur \in Nat
  BY <1>2 DEF Modifiee, Echeance
<1>3. CASE d.champ = "politique" /\ d.valeur \in Politique
  BY <1>3 DEF Modifiee, Echeance
<1>4. CASE d.champ = "verrou" /\ d.valeur \in Nat
  BY <1>4 DEF Modifiee, Echeance
<1>5. CASE d.champ = "fin" /\ d.valeur \in Nat
  BY <1>5 DEF Modifiee, Echeance
<1>. QED
  BY <1>1, <1>2, <1>3, <1>4, <1>5, ChampsDits

(* Rows that agree where the lock is looked at are locked alike, before and *)
(* after the same change.                                                  *)
Pareilles(t, u) ==
    /\ t.frequence = u.frequence /\ t.cotisations = u.cotisations
    /\ t.politique = u.politique /\ t.verrou = u.verrou

(* Such rows are locked alike.                                             *)
LEMMA VerrouPareil ==
  ASSUME NEW t \in Echeance, NEW u \in Echeance, Pareilles(t, u), NEW n
  PROVE  /\ VerrouTenu(t, n) <=> VerrouTenu(u, n)
         /\ \A d \in Modifications : VerrouTenu(Modifiee(t, d), n) <=> VerrouTenu(Modifiee(u, d), n)
<1>1. \A v, w : Pareilles(v, w) => (VerrouTenu(v, n) <=> VerrouTenu(w, n))
  BY DEF Pareilles, VerrouTenu
<1>2. \A d \in Modifications : Pareilles(Modifiee(t, d), Modifiee(u, d))
  BY ModifieeDite DEF Pareilles
<1>. QED
  BY <1>1, <1>2

(* The desk of the tontines leaves the tables of the others alone.         *)
LEMMA HorsEcheance ==
  ASSUME Typage, NEW q \in Requetes, NextEcheances(q)
  PROVE  Hors("echeance")
<1>0. courses \in SUBSET Course /\ "modification" \in Course /\ "projet" \in Course /\ ecritures \in Nat
  BY DEF Typage, Course
<1>1. UNCHANGED horsEcheances /\ jour' = jour
  BY DEF NextEcheances, LireActivation, EcrireActivation, LireModification, Modifier,
         ListerEchus, Dissoudre
<1>2. ecritures' \in {ecritures, ecritures + 1}
  BY DEF NextEcheances, LireActivation, EcrireActivation, LireModification, Modifier,
         ListerEchus, Dissoudre
<1>3. courses \subseteq courses' /\ courses' \in SUBSET Course
  <2>1. CASE LireModification(q) \/ Modifier(q)
    BY <1>0, <2>1, AjouterDit DEF LireModification, Modifier
  <2>2. CASE ~(LireModification(q) \/ Modifier(q))
    BY <1>0, <2>2 DEF NextEcheances, LireActivation, EcrireActivation, ListerEchus, Dissoudre
  <2>. QED
    BY <2>1, <2>2
<1>4. ecritures' \in Nat
  BY <1>0, <1>2
<1>. QED
  BY <1>1, <1>3, <1>4 DEF horsEcheances, terrain, Hors

(* A tontine is activated.                                                 *)
LEMMA LireActivationDit ==
  ASSUME Typage, NEW q \in Requetes, LireActivation(q)
  PROVE  /\ Deplace(q) /\ UNCHANGED <<echeance, courses>> /\ sujet = "echeance"
         /\ pc[q] = "libre" /\ pc'[q] = "activer" /\ loc'[q].op = "activation"
<1>1. PICK w : w = [Repos EXCEPT !.op = "activation"]
  OBVIOUS
<1>2. w \in Travail /\ w.op = "activation"
  BY <1>1, ReposType DEF Travail, Operation
<1>3. Commencer(q, "activer", w) /\ "activer" \in Etapes
  BY <1>1, EtapesDites DEF LireActivation
<1>. QED
  BY <1>2, <1>3, Commence DEF LireActivation, Deplace

(* The status of the row is written, and nothing else of it.               *)
Statue == /\ echeance' \in Echeance /\ Pareilles(echeance', echeance)
          /\ echeance'.fin = echeance.fin /\ echeance'.pose = echeance.pose

(* Activation and dissolution write a status.                              *)
LEMMA StatutDit ==
  ASSUME Typage, NEW s \in {"ACTIVE", "TERMINEE"}, echeance' = [echeance EXCEPT !.statut = s]
  PROVE  Statue
<1>1. echeance \in Echeance
  BY DEF Typage, TypeOK
<1>2. echeance' \in Echeance
  BY <1>1 DEF Echeance
<1>3. /\ echeance'.frequence = echeance.frequence /\ echeance'.cotisations = echeance.cotisations
      /\ echeance'.politique = echeance.politique /\ echeance'.verrou = echeance.verrou
      /\ echeance'.fin = echeance.fin /\ echeance'.pose = echeance.pose
  BY <1>1 DEF Echeance
<1>. QED
  BY <1>2, <1>3 DEF Statue, Pareilles

(* The status is written.                                                  *)
LEMMA EcrireActivationDit ==
  ASSUME Typage, NEW q \in Requetes, EcrireActivation(q)
  PROVE  /\ Deplace(q) /\ UNCHANGED courses /\ Statue
         /\ pc[q] = "activer" /\ pc'[q] = "libre" /\ loc'[q] = Repos
  BY StatutDit, Repond DEF EcrireActivation, Deplace

(* What is asked is checked with what is stored.                           *)
LEMMA LireModificationDit ==
  ASSUME Typage, NEW q \in Requetes, LireModification(q)
  PROVE  \E d \in Modifications :
           /\ Deplace(q) /\ UNCHANGED echeance /\ sujet = "echeance"
           /\ pc[q] = "libre" /\ pc'[q] = "modifier" /\ loc'[q].op = "modification"
           /\ loc'[q].photo = {d} /\ VerrouTenu(Modifiee(echeance, d), loc'[q].n)
           /\ (\E p \in Requetes : Modifie(p)) => "modification" \in courses'
<1>0. jour \in Nat /\ courses \in SUBSET Course /\ "modification" \in Course
  BY DEF Typage, TypeOK, Course
<1>1. PICK d \in Demandes :
        /\ VerrouAdmis(echeance, [echeance EXCEPT ![d.champ] = d.valeur])
        /\ Commencer(q, "modifier",
                     [Repos EXCEPT !.op = "modification", !.photo = {d}, !.n = jour])
  BY DEF LireModification
<1>2. d \in Modifications
  BY <1>0 DEF Demandes, Modifications
<1>3. VerrouTenu(Modifiee(echeance, d), jour)
  BY <1>1 DEF VerrouAdmis, VerrouTenu, Modifiee
<1>4. PICK S \in SUBSET (Collecteurs \cup Modifications) : S = {d}
  BY <1>2
<1>5. PICK w : w = [Repos EXCEPT !.op = "modification", !.photo = S, !.n = jour]
  OBVIOUS
<1>6. w \in Travail /\ w.op = "modification" /\ w.photo = S /\ w.n = jour
  BY <1>0, <1>5, ReposType DEF Travail, Operation
<1>7. Commencer(q, "modifier", w) /\ "modifier" \in Etapes
  BY <1>1, <1>4, <1>5, EtapesDites
<1>8. pc[q] = "libre" /\ pc'[q] = "modifier" /\ loc'[q] = w /\ Deplace(q)
  BY <1>6, <1>7, Commence DEF Deplace
<1>9. /\ (\E p \in Requetes : Modifie(p)) => "modification" \in courses'
      /\ UNCHANGED echeance /\ sujet = "echeance"
  BY <1>0, AjouterDit DEF LireModification
<1>. QED
  BY <1>2, <1>3, <1>4, <1>6, <1>8, <1>9

(* The field that was asked is written, whatever the row has become.       *)
LEMMA ModifierDit ==
  ASSUME Typage, NEW q \in Requetes, Modifier(q)
  PROVE  \E d \in Modifications :
           /\ Deplace(q) /\ pc[q] = "modifier" /\ pc'[q] = "libre" /\ loc'[q] = Repos
           /\ loc[q].photo = {d} /\ echeance' \in Echeance
           /\ Pareilles(echeance', Modifiee(echeance, d))
           /\ echeance'.pose = loc[q].n
           /\ d.champ # "fin" => echeance'.fin = echeance.fin
           /\ d.champ = "fin" /\ (\E p \in Requetes : Cloture(p)) => "projet" \in courses'
           /\ courses' \subseteq courses \cup {"projet"}
<1>1. PICK d \in Modifications : loc[q].photo = {d}
  BY DEF Modifier, Typage, EtapeOK, UneModification
<1>2. /\ echeance' = [echeance EXCEPT ![d.champ] = d.valeur, !.pose = loc[q].n]
      /\ Ajouter("projet", d.champ = "fin" /\ \E p \in Requetes : Cloture(p))
  BY <1>1 DEF Modifier
<1>3. echeance \in Echeance /\ loc[q] \in Travail
  BY DEF Typage, TypeOK
<1>4. PICK n \in Nat : n = loc[q].n
  BY <1>3 DEF Travail
<1>5. PICK u \in Echeance : u = Modifiee(echeance, d)
  BY <1>3, ModifieeDite
<1>6. echeance' = [u EXCEPT !.pose = n]
  BY <1>2, <1>4, <1>5 DEF Modifiee
<1>7. echeance' \in Echeance
  BY <1>5, <1>6 DEF Echeance
<1>8. /\ echeance'.frequence = u.frequence /\ echeance'.cotisations = u.cotisations
      /\ echeance'.politique = u.politique /\ echeance'.verrou = u.verrou
      /\ echeance'.fin = u.fin /\ echeance'.pose = n
  BY <1>5, <1>6 DEF Echeance
<1>9. d.champ # "fin" => u.fin = echeance.fin
  BY <1>3, <1>5, ModifieeDite
<1>10. Deplace(q) /\ pc[q] = "modifier" /\ pc'[q] = "libre" /\ loc'[q] = Repos
  BY Repond DEF Modifier, Deplace
<1>11. /\ d.champ = "fin" /\ (\E p \in Requetes : Cloture(p)) => "projet" \in courses'
       /\ courses' \subseteq courses \cup {"projet"}
  BY <1>2 DEF Ajouter
<1>12. Pareilles(echeance', Modifiee(echeance, d))
  BY <1>5, <1>8 DEF Pareilles
<1>. QED
  BY <1>1, <1>4, <1>7, <1>8, <1>9, <1>10, <1>11, <1>12

(* The job lists the project, whose end is past, and closes it.            *)
LEMMA ListerEchusDit ==
  ASSUME Typage, NEW q \in Requetes, ListerEchus(q)
  PROVE  /\ Deplace(q) /\ UNCHANGED <<echeance, courses>> /\ sujet = "echeance"
         /\ pc[q] = "libre" /\ pc'[q] = "dissoudre" /\ loc'[q].op = "dissolution"
         /\ echeance.fin <= jour
<1>1. PICK w : w = [Repos EXCEPT !.op = "dissolution"]
  OBVIOUS
<1>2. w \in Travail /\ w.op = "dissolution"
  BY <1>1, ReposType DEF Travail, Operation
<1>3. Commencer(q, "dissoudre", w) /\ "dissoudre" \in Etapes
  BY <1>1, EtapesDites DEF ListerEchus
<1>. QED
  BY <1>2, <1>3, Commence DEF ListerEchus, Echu, Deplace

(* The project is closed.                                                  *)
LEMMA DissoudreDit ==
  ASSUME Typage, NEW q \in Requetes, Dissoudre(q)
  PROVE  /\ Deplace(q) /\ UNCHANGED courses /\ Statue
         /\ pc[q] = "dissoudre" /\ pc'[q] = "libre" /\ loc'[q] = Repos
  BY StatutDit, Repond DEF Dissoudre, Deplace

(* The desk of the tontines keeps the types.                               *)
LEMMA TypageEcheance ==
  ASSUME Typage, NEW q \in Requetes, NextEcheances(q)
  PROVE  Typage'
<1>1. Hors("echeance")
  BY HorsEcheance
<1>2. /\ documents' \in Seq(DocumentKYC) /\ kycVerifie' \in BOOLEAN
      /\ litiges' \in Seq(Litige) /\ compte' \in Compte /\ livre' \in Livre
      /\ alertes' \in Seq({"OUVERTE", "RESOLUE"})
      /\ equipe' \in [Personnes -> Membre] /\ qr' \in [Collecteurs -> QRCode]
      /\ visites' \subseteq Collecteurs \X Clients /\ commissions' \in [Collecteurs -> Gains]
      /\ facturations' \in [Collecteurs -> Facturation] /\ jour' \in Nat
  BY <1>1 DEF Hors, Typage, TypeOK
<1>3. Grandit
  BY <1>1, HorsType DEF Grandit
<1>4. echeance \in Echeance /\ sujet' = sujet /\ sujet \in Sujets /\ calme' \in BOOLEAN
  BY <1>1 DEF Typage, TypeOK, Hors
<1>5. ASSUME Deplace(q), EtapeOK(q)', echeance' \in Echeance
      PROVE  Typage'
  <2>1. TypeOK'
    BY <1>2, <1>4, <1>5 DEF TypeOK
  <2>. QED
    BY <1>1, <1>3, <1>4, <1>5, <2>1, HorsType, TypageSuit
<1>6. ASSUME pc'[q] = "libre", loc'[q] = Repos PROVE EtapeOK(q)'
  BY <1>4, <1>6, ReposType, OperationsDites, BureauxDits DEF EtapeOK
<1>7. CASE LireActivation(q)
  <2>1. EtapeOK(q)'
    BY <1>4, <1>7, LireActivationDit, OperationsDites, BureauxDits DEF EtapeOK
  <2>. QED
    BY <1>4, <1>5, <1>7, <2>1, LireActivationDit
<1>8. CASE EcrireActivation(q)
  BY <1>5, <1>6, <1>8, EcrireActivationDit DEF Statue
<1>9. CASE LireModification(q)
  <2>1. PICK d \in Modifications :
           /\ Deplace(q) /\ UNCHANGED echeance /\ sujet = "echeance"
           /\ pc'[q] = "modifier" /\ loc'[q].op = "modification" /\ loc'[q].photo = {d}
    BY <1>9, LireModificationDit
  <2>2. UneModification(q)'
    BY <2>1 DEF UneModification
  <2>3. EtapeOK(q)'
    BY <1>4, <2>1, <2>2, OperationsDites, BureauxDits DEF EtapeOK
  <2>. QED
    BY <1>4, <1>5, <2>1, <2>3
<1>10. CASE Modifier(q)
  BY <1>5, <1>6, <1>10, ModifierDit
<1>11. CASE ListerEchus(q)
  <2>1. EtapeOK(q)'
    BY <1>4, <1>11, ListerEchusDit, OperationsDites, BureauxDits DEF EtapeOK
  <2>. QED
    BY <1>4, <1>5, <1>11, <2>1, ListerEchusDit
<1>12. CASE Dissoudre(q)
  BY <1>5, <1>6, <1>12, DissoudreDit DEF Statue
<1>. QED
  BY <1>7, <1>8, <1>9, <1>10, <1>11, <1>12 DEF NextEcheances

(* The invariant, in the words of the lemmas.                              *)
LEMMA EcheancesDites == EcheancesInv <=>
    /\ "projet" \notin courses => \A q \in Requetes : Cloture(q) => echeance.fin <= jour
    /\ "modification" \notin courses =>
         /\ VerrouTenu(echeance, echeance.pose)
         /\ \A p, q \in Requetes : Modifie(p) /\ Modifie(q) => p = q
         /\ \A q \in Requetes : pc[q] = "modifier" => \A d \in loc[q].photo :
              VerrouTenu(Modifiee(echeance, d), loc[q].n)
  BY DEF EcheancesInv, Modifiee

(* What a modification holds is one.                                       *)
LEMMA ModifiePour ==
  ASSUME Typage, NEW q \in Requetes, pc[q] = "modifier"
  PROVE  loc[q].photo \subseteq Modifications
  BY DEF Typage, EtapeOK, UneModification

(* A step that asks for no change.                                         *)
LEMMA SansModifier ==
  ASSUME Typage, Typage', EcheancesInv, courses \subseteq courses',
         Pareilles(echeance', echeance), echeance'.fin = echeance.fin,
         echeance'.pose = echeance.pose, jour' >= jour,
         \A q \in Requetes : pc'[q] = "modifier" => pc[q] = "modifier" /\ loc'[q] = loc[q],
         \A q \in Requetes : pc'[q] = "dissoudre" => pc[q] = "dissoudre" \/ echeance.fin <= jour
  PROVE  EcheancesInv'
<1>1. echeance \in Echeance /\ echeance' \in Echeance /\ jour \in Nat /\ jour' \in Nat
      /\ echeance.fin \in Nat
  BY DEF Typage, TypeOK, Echeance
<1>2. ASSUME "projet" \notin courses', NEW q \in Requetes, Cloture(q)'
      PROVE  echeance'.fin <= jour'
  <2>1. echeance.fin <= jour
    BY <1>2, EtapeDe, EtapeApres, EcheancesDites DEF Cloture
  <2>. QED
    BY <1>1, <2>1
<1>3. ASSUME "modification" \notin courses'
      PROVE  VerrouTenu(echeance, echeance.pose)'
  <2>1. VerrouTenu(echeance, echeance.pose)
    BY <1>3, EcheancesDites
  <2>2. VerrouTenu(echeance', echeance.pose)
    BY <1>1, <2>1, VerrouPareil
  <2>. QED
    BY <2>2
<1>4. ASSUME "modification" \notin courses'
      PROVE  \A p, q \in Requetes : Modifie(p)' /\ Modifie(q)' => p = q
  <2>1. \A q \in Requetes : Modifie(q)' => Modifie(q)
    BY EtapeDe, EtapeApres DEF Modifie
  <2>. QED
    BY <1>4, <2>1, EcheancesDites
<1>5. ASSUME "modification" \notin courses', NEW q \in Requetes, pc'[q] = "modifier",
             NEW d \in loc'[q].photo
      PROVE  VerrouTenu([echeance EXCEPT ![d.champ] = d.valeur], loc[q].n)'
  <2>1. pc[q] = "modifier" /\ loc'[q] = loc[q] /\ d \in Modifications
    BY <1>5, ModifiePour
  <2>2. VerrouTenu(Modifiee(echeance, d), loc[q].n)
    BY <1>5, <2>1, EcheancesDites
  <2>3. VerrouTenu(Modifiee(echeance', d), loc[q].n)
    BY <1>1, <2>1, <2>2, VerrouPareil
  <2>. QED
    BY <2>1, <2>3 DEF Modifiee
<1>. QED
  BY <1>2, <1>3, <1>4, <1>5 DEF EcheancesInv

(* The desk of the tontines keeps its invariant.                           *)
LEMMA EcheancesInduit ==
  ASSUME Typage, Typage', EcheancesInv, NEW q \in Requetes, NextEcheances(q)
  PROVE  EcheancesInv'
<1>0. /\ courses \subseteq courses' /\ jour' = jour /\ jour \in Nat
      /\ echeance \in Echeance /\ echeance' \in Echeance
  BY HorsEcheance DEF Hors, Typage, TypeOK
<1>1. ASSUME Deplace(q), pc'[q] # "modifier", pc'[q] = "dissoudre" => echeance.fin <= jour
      PROVE  /\ \A p \in Requetes : pc'[p] = "modifier" => pc[p] = "modifier" /\ loc'[p] = loc[p]
             /\ \A p \in Requetes :
                  pc'[p] = "dissoudre" => pc[p] = "dissoudre" \/ echeance.fin <= jour
  BY <1>1 DEF Deplace, Seul, Reste
<1>2. ASSUME Pareilles(echeance', echeance), echeance'.fin = echeance.fin,
             echeance'.pose = echeance.pose, Deplace(q), pc'[q] # "modifier",
             pc'[q] = "dissoudre" => echeance.fin <= jour
      PROVE  EcheancesInv'
  BY <1>0, <1>1, <1>2, SansModifier
<1>3. ASSUME UNCHANGED echeance
      PROVE  Pareilles(echeance', echeance) /\ echeance'.fin = echeance.fin
                /\ echeance'.pose = echeance.pose
  BY <1>3 DEF Pareilles
<1>4. CASE LireActivation(q)
  BY <1>2, <1>3, <1>4, LireActivationDit
<1>5. CASE EcrireActivation(q)
  BY <1>2, <1>5, EcrireActivationDit DEF Statue
<1>6. CASE ListerEchus(q)
  BY <1>2, <1>3, <1>6, ListerEchusDit
<1>7. CASE Dissoudre(q)
  BY <1>2, <1>7, DissoudreDit DEF Statue
<1>8. CASE LireModification(q)
  <2>1. PICK d \in Modifications :
           /\ Deplace(q) /\ UNCHANGED echeance
           /\ pc[q] = "libre" /\ pc'[q] = "modifier"
           /\ loc'[q].photo = {d} /\ VerrouTenu(Modifiee(echeance, d), loc'[q].n)
           /\ (\E p \in Requetes : Modifie(p)) => "modification" \in courses'
    BY <1>8, LireModificationDit
  <2>2. \A p \in Requetes : p # q => pc'[p] = pc[p] /\ loc'[p] = loc[p]
    BY <2>1 DEF Deplace, Seul, Reste
  <2>3. ASSUME "projet" \notin courses', NEW p \in Requetes, Cloture(p)'
        PROVE  echeance'.fin <= jour'
    <3>1. Cloture(p)
      BY <2>1, <2>2, <2>3, EtapeApres DEF Cloture
    <3>. QED
      BY <1>0, <2>1, <2>3, <3>1, EcheancesDites
  <2>4. ASSUME "modification" \notin courses'
        PROVE  VerrouTenu(echeance, echeance.pose)'
    <3>1. VerrouTenu(echeance, echeance.pose)
      BY <1>0, <2>4, EcheancesDites
    <3>2. VerrouTenu(echeance', echeance'.pose)
      BY <2>1, <3>1
    <3>. QED
      BY <3>2
  <2>5. ASSUME "modification" \notin courses'
        PROVE  \A p, r \in Requetes : Modifie(p)' /\ Modifie(r)' => p = r
    <3>1. \A p \in Requetes : ~Modifie(p)
      BY <2>1, <2>5
    <3>2. \A p \in Requetes : Modifie(p)' => p = q
      BY <2>2, <3>1 DEF Modifie
    <3>. QED
      BY <3>2
  <2>6. ASSUME "modification" \notin courses', NEW p \in Requetes, pc'[p] = "modifier",
               NEW e \in loc'[p].photo
        PROVE  VerrouTenu([echeance EXCEPT ![e.champ] = e.valeur], loc[p].n)'
    <3>1. p = q
      BY <2>1, <2>2, <2>6, EtapeDe DEF Modifie
    <3>2. e = d
      BY <2>1, <2>6, <3>1
    <3>3. VerrouTenu(Modifiee(echeance', e), loc'[p].n)
      BY <2>1, <3>1, <3>2
    <3>. QED
      BY <3>3 DEF Modifiee
  <2>. QED
    BY <2>3, <2>4, <2>5, <2>6 DEF EcheancesInv
<1>9. CASE Modifier(q)
  <2>1. PICK d \in Modifications :
           /\ Deplace(q) /\ pc[q] = "modifier" /\ pc'[q] = "libre"
           /\ loc[q].photo = {d} /\ Pareilles(echeance', Modifiee(echeance, d))
           /\ echeance'.pose = loc[q].n
           /\ d.champ # "fin" => echeance'.fin = echeance.fin
           /\ d.champ = "fin" /\ (\E p \in Requetes : Cloture(p)) => "projet" \in courses'
           /\ courses' \subseteq courses \cup {"projet"}
    BY <1>9, ModifierDit
  <2>2. \A p \in Requetes : p # q => pc'[p] = pc[p] /\ loc'[p] = loc[p]
    BY <2>1 DEF Deplace, Seul, Reste
  <2>3. ASSUME "projet" \notin courses', NEW p \in Requetes, Cloture(p)'
        PROVE  echeance'.fin <= jour'
    <3>1. Cloture(p)
      BY <2>1, <2>2, <2>3, EtapeApres DEF Cloture
    <3>2. echeance'.fin = echeance.fin
      BY <2>1, <2>3, <3>1
    <3>. QED
      BY <1>0, <2>3, <3>1, <3>2, EcheancesDites
  <2>4. ASSUME "modification" \notin courses'
        PROVE  /\ VerrouTenu(echeance, echeance.pose)'
               /\ \A p \in Requetes : ~Modifie(p)'
    <3>0. "modification" \notin courses
      BY <1>0, <2>4
    <3>1. VerrouTenu(Modifiee(echeance, d), loc[q].n)
      BY <2>1, <3>0, EcheancesDites
    <3>2. Modifiee(echeance, d) \in Echeance
      BY <1>0, ModifieeDite
    <3>3. VerrouTenu(echeance', loc[q].n)
      BY <1>0, <2>1, <3>1, <3>2, VerrouPareil
    <3>4. VerrouTenu(echeance', echeance'.pose)
      BY <2>1, <3>3
    <3>5. \A p \in Requetes : Modifie(p) => p = q
      BY <2>1, <3>0, EtapeDe, EcheancesDites DEF Modifie
    <3>6. \A p \in Requetes : ~Modifie(p)'
      BY <2>1, <2>2, <3>5, EtapeApres DEF Modifie
    <3>. QED
      BY <3>4, <3>6
  <2>5. ASSUME "modification" \notin courses'
        PROVE  \A p \in Requetes : pc'[p] # "modifier"
    BY <2>4, <2>5, EtapeApres
  <2>. QED
    BY <2>3, <2>4, <2>5 DEF EcheancesInv
<1>. QED
  BY <1>4, <1>5, <1>6, <1>7, <1>8, <1>9 DEF NextEcheances

(* Nobody is at the desk of the tontines.                                  *)
LEMMA EcheancesTables ==
  ASSUME Typage, Typage', EcheancesInv, UNCHANGED echeance, courses \subseteq courses',
         jour' >= jour, \A p \in Requetes : pc'[p] \notin EtapesEcheances
  PROVE  EcheancesInv'
<1>1. \A p \in Requetes : pc'[p] # "modifier" /\ pc'[p] # "dissoudre"
  BY DEF EtapesEcheances
<1>. QED
  BY <1>1, SansModifier DEF Pareilles

(* The action property, one step of it.                                    *)
EcheanceTenue ==
    /\ \A q \in Requetes :
         pc[q] = "dissoudre" /\ echeance' # echeance /\ "projet" \notin courses =>
            echeance.fin <= jour
    /\ echeance'.politique = "BLOQUE" /\ "modification" \notin courses' =>
         echeance'.verrou >= DateFinEstimee(echeance'.pose, echeance'.cotisations,
                                            echeance'.frequence)

(* The invariant before and after a step gives the action property.        *)
LEMMA EcheanceAction ==
  ASSUME Typage, EcheancesInv, EcheancesInv'
  PROVE  EcheanceTenue
<1>1. ASSUME NEW q \in Requetes, pc[q] = "dissoudre", "projet" \notin courses
      PROVE  echeance.fin <= jour
  BY <1>1, EtapeDe, EcheancesDites DEF Cloture
<1>2. ASSUME "modification" \notin courses' PROVE VerrouTenu(echeance', echeance'.pose)
  BY <1>2 DEF EcheancesInv
<1>. QED
  BY <1>1, <1>2 DEF EcheanceTenue, VerrouTenu

-----------------------------------------------------------------------------
(* The calendar. *)

(* From the first day on, the twelve months before today exist.            *)
LEMMA MoisDepuis ==
  ASSUME NEW n \in Nat, n >= Debut(PremierMois)
  PROVE  Mois(n) \in Nat /\ Mois(n) >= 11
<1>1. Mois(n) \in Nat /\ n < Debut(Mois(n) + 1)
  BY MoisDit
<1>2. ASSUME Mois(n) < 11 PROVE FALSE
  <2>1. Mois(n) < 12 /\ 12 \in Nat
    BY <1>1, <1>2
  <2>2. Debut(Mois(n) + 1) <= Debut(12)
    BY <1>1, <2>1, DebutCroit
  <2>3. Debut(Mois(n) + 1) \in Nat /\ Debut(12) \in Nat /\ n >= Debut(12)
    BY <1>1, DebutSuivant DEF PremierMois
  <2>. QED
    BY <1>1, <2>2, <2>3
<1>. QED
  BY <1>1, <1>2

(* What the screens show on a day, for every day from the first one on.    *)
THEOREM DatesDeChaqueJour ==
  ASSUME NEW n \in Nat, n >= Debut(PremierMois)
  PROVE  DatesDuJour(n)
<1>1. Mois(n) \in Nat /\ Mois(n) >= 11
  BY MoisDepuis
<1>2. MoisAdmin(n) = Mois(n) - 11 .. Mois(n) /\ MoisAffiches(n) \subseteq Mois(n) - 5 .. Mois(n)
  BY <1>1, MoisAdminDit, MoisAffichesDit
<1>3. \A k \in Mois(n) - 5 .. Mois(n) : k \in MoisAffiches(n) <=> JourDuMois(n) <= Longueur(k)
  BY <1>1, MoisAffichesDit
<1>4. LET Lignes == [jour : Debut(Mois(n) - 5) .. n, heure : Heures] IN
      /\ CompteRegularite(n, Lignes)
           = {ligne \in Lignes : JourDuMois(n) <= Longueur(Mois(ligne.jour))}
      /\ \A h \in Heures :
           Compte6(n, h, Lignes) = CompteRegularite(n, Lignes) \ Omises(n, h, Lignes)
  BY <1>1, Compte6Dit
<1>5. JourDuMois(n) <= 28 => TotalJours(n) = n - Debut(Mois(n) - 5) + 1
  BY <1>1, TotalDit
<1>6. \A f \in Frequence, fixe \in 1 .. 31 :
         LET d == ProchaineDate(n, f, fixe)
             vise == IF fixe > JourDuMois(n) THEN Mois(n) ELSE Mois(n) + 1 IN
         /\ d \in n + 1 .. n + 31
         /\ f = "DATE_FIXE" /\ fixe <= Longueur(vise) => JourDuMois(d) = fixe /\ Mois(d) = vise
  BY ProchaineDit
<1>7. JourDuMois(n) <= Longueur(Mois(n) + 1) <=> Mois(ProchainePaie(n)) = Mois(n) + 1
  BY PaieDit
<1>8. {k \in Mois(n) - 5 .. Mois(n) : n \in PeriodeDuMois(k)} = {Mois(n)}
  BY <1>1, PeriodesDites
<1>. QED
  BY <1>2, <1>3, <1>4, <1>5, <1>6, <1>7, <1>8 DEF DatesDuJour

-----------------------------------------------------------------------------
(* The desks together. *)

GuichetsTenus ==
    /\ KycInv /\ LitigesInv /\ ComptesInv /\ SurveillanceInv /\ TourneeInv /\ CommissionsInv
    /\ LiensInv /\ AbonnementsInv /\ EcheancesInv

(* The desk a behaviour is at.                                             *)
Bureau == {"kyc", "litige", "compte", "surveillance", "collecteurs", "abonnement", "echeance"}
AuGuichet(d) == IF d = "collecteurs" THEN sujet \in {"liens", "tournee", "commissions"}
                ELSE sujet = d

(* A request at work is at the desk of its step.                           *)
LEMMA EtapeAuGuichet ==
  ASSUME Typage, NEW q \in Requetes
  PROVE  /\ pc[q] \in EtapesKyc => sujet = "kyc"
         /\ pc[q] \in EtapesLitiges => sujet = "litige"
         /\ pc[q] \in EtapesComptes => sujet = "compte"
         /\ pc[q] \in EtapesSurveillance => sujet = "surveillance"
         /\ pc[q] \in EtapesLiens \cup EtapesTournee => sujet \in {"liens", "tournee"}
         /\ pc[q] = "debiter" => sujet = "commissions"
         /\ pc[q] \in EtapesAbonnements => sujet = "abonnement"
         /\ pc[q] \in EtapesEcheances => sujet = "echeance"
<1>1. sujet \in Bureaux(pc[q])
  BY DEF Typage, EtapeOK
<1>. QED
  BY <1>1, BureauxDits
     DEF EtapesKyc, EtapesLitiges, EtapesComptes, EtapesSurveillance, EtapesSommes, EtapesLiens,
         EtapesTournee, EtapesAbonnements, EtapesEcheances

(* The same in the next state.                                             *)
LEMMA EtapeAuGuichetSuivant ==
  ASSUME Typage', NEW q \in Requetes
  PROVE  /\ pc'[q] \in EtapesKyc => sujet' = "kyc"
         /\ pc'[q] \in EtapesLitiges => sujet' = "litige"
         /\ pc'[q] \in EtapesComptes => sujet' = "compte"
         /\ pc'[q] \in EtapesSurveillance => sujet' = "surveillance"
         /\ pc'[q] \in EtapesLiens \cup EtapesTournee => sujet' \in {"liens", "tournee"}
         /\ pc'[q] = "debiter" => sujet' = "commissions"
         /\ pc'[q] \in EtapesAbonnements => sujet' = "abonnement"
         /\ pc'[q] \in EtapesEcheances => sujet' = "echeance"
<1>1. sujet' \in Bureaux(pc'[q])
  BY DEF Typage, EtapeOK
<1>. QED
  BY <1>1, BureauxDits
     DEF EtapesKyc, EtapesLitiges, EtapesComptes, EtapesSurveillance, EtapesSommes, EtapesLiens,
         EtapesTournee, EtapesAbonnements, EtapesEcheances

(* A step at one desk leaves what the others promise.                      *)
LEMMA AilleursTenu ==
  ASSUME Typage, Typage', GuichetsTenus, NEW d \in Bureau, Hors(d), AuGuichet(d)
  PROVE  /\ d # "kyc" => KycInv'
         /\ d # "litige" => LitigesInv'
         /\ d # "compte" => ComptesInv'
         /\ d # "surveillance" => SurveillanceInv'
         /\ d # "collecteurs" => TourneeInv' /\ CommissionsInv' /\ LiensInv'
         /\ d # "abonnement" => AbonnementsInv'
         /\ d # "echeance" => EcheancesInv'
<1>1. sujet' = sujet /\ courses \subseteq courses' /\ jour' = jour /\ jour \in Nat
  BY DEF Hors, Typage, TypeOK
<1>2. ASSUME d # "kyc" PROVE KycInv'
  <2>1. \A p \in Requetes : pc'[p] \notin EtapesKyc
    BY <1>1, <1>2, EtapeAuGuichetSuivant DEF AuGuichet
  <2>2. UNCHANGED <<documents, kycVerifie>>
    BY <1>2 DEF Hors
  <2>. QED
    BY <1>1, <2>1, <2>2, KycTables DEF GuichetsTenus
<1>3. ASSUME d # "litige" PROVE LitigesInv'
  <2>1. \A p \in Requetes : pc'[p] \notin EtapesLitiges
    BY <1>1, <1>3, EtapeAuGuichetSuivant DEF AuGuichet
  <2>2. litiges' = litiges
    BY <1>3 DEF Hors
  <2>. QED
    BY <1>1, <2>1, <2>2, LitigesTables DEF GuichetsTenus
<1>4. ASSUME d # "compte" PROVE ComptesInv'
  <2>1. \A p \in Requetes : pc'[p] \notin EtapesComptes
    BY <1>1, <1>4, EtapeAuGuichetSuivant DEF AuGuichet
  <2>2. compte' = compte
    BY <1>4 DEF Hors
  <2>. QED
    BY <1>1, <2>1, <2>2, ComptesTables DEF GuichetsTenus
<1>5. ASSUME d # "surveillance" PROVE SurveillanceInv'
  <2>1. UNCHANGED <<livre, alertes, sujet>> /\ calme' = calme /\ sujet # "surveillance"
    BY <1>5 DEF Hors, AuGuichet
  <2>. QED
    BY <2>1, SurveillanceTables DEF GuichetsTenus
<1>6. ASSUME d # "collecteurs" PROVE TourneeInv' /\ CommissionsInv' /\ LiensInv'
  <2>1. \A p \in Requetes : pc'[p] \notin EtapesLiens \cup EtapesTournee \cup {"debiter"}
    BY <1>1, <1>6, EtapeAuGuichetSuivant DEF AuGuichet, Bureau
  <2>2. \A p \in Requetes : pc[p] # "debiter"
    BY <1>6, EtapeAuGuichet DEF AuGuichet, Bureau
  <2>3. commissions' = commissions
    BY <1>6 DEF Hors
  <2>. QED
    BY <1>1, <2>1, <2>2, <2>3, CollecteursTables DEF GuichetsTenus
<1>7. ASSUME d # "abonnement" PROVE AbonnementsInv'
  <2>1. \A p \in Requetes : pc'[p] # "prelever" /\ pc[p] # "prelever"
    BY <1>1, <1>7, EtapeAuGuichet, EtapeAuGuichetSuivant DEF AuGuichet, EtapesAbonnements
  <2>2. UNCHANGED facturations
    BY <1>7 DEF Hors
  <2>. QED
    BY <1>1, <2>1, <2>2, AbonnementsTables DEF GuichetsTenus
<1>8. ASSUME d # "echeance" PROVE EcheancesInv'
  <2>1. \A p \in Requetes : pc'[p] \notin EtapesEcheances
    BY <1>1, <1>8, EtapeAuGuichetSuivant DEF AuGuichet
  <2>2. UNCHANGED echeance /\ jour' >= jour
    BY <1>1, <1>8 DEF Hors
  <2>. QED
    BY <1>1, <2>1, <2>2, EcheancesTables DEF GuichetsTenus
<1>. QED
  BY <1>2, <1>3, <1>4, <1>5, <1>6, <1>7, <1>8

(* Every step is one of a desk, the passing of a day, or the death of the  *)
(* process.                                                                *)
Guichet(q, d) ==
    \/ d = "kyc" /\ NextKyc(q)
    \/ d = "litige" /\ NextLitiges(q)
    \/ d = "compte" /\ (NextComptes(q) \/ Vie)
    \/ d = "surveillance" /\ (NextSurveillance(q) \/ Caisse)
    \/ d = "collecteurs" /\ (NextPortefeuilles(q) \/ Chef)
    \/ d = "abonnement" /\ (NextAbonnements(q) \/ PayerAbonnement)
    \/ d = "echeance" /\ NextEcheances(q)

(* A step at a desk is taken in a behaviour about that desk.               *)
LEMMA SujetDuPas ==
  ASSUME Typage, NEW q \in Requetes, NEW d, Guichet(q, d)
  PROVE  d \in Bureau /\ AuGuichet(d)
<1>1. CASE d = "kyc" /\ NextKyc(q)
  <2>1. sujet = "kyc" \/ pc[q] \in EtapesKyc
    BY <1>1 DEF NextKyc, Soumettre, CreerDocument, LireDocument, Decider, EtapesKyc
  <2>. QED
    BY <1>1, <2>1, EtapeAuGuichet DEF AuGuichet, Bureau
<1>2. CASE d = "litige" /\ NextLitiges(q)
  <2>1. sujet = "litige" \/ pc[q] \in EtapesLitiges
    BY <1>2 DEF NextLitiges, OuvrirLitige, CreerLitige, LireLitige, EcrireLitige, EtapesLitiges
  <2>. QED
    BY <1>2, <2>1, EtapeAuGuichet DEF AuGuichet, Bureau
<1>3. CASE d = "compte" /\ NextComptes(q)
  <2>1. sujet = "compte" \/ pc[q] \in EtapesComptes
    BY <1>3 DEF NextComptes, LireTontine, EffacerTontine, LireSoldes, LireCredit, FermerCompte,
                LireUtilisateur, Bannir, Effacer, EtapesComptes
  <2>. QED
    BY <1>3, <2>1, EtapeAuGuichet DEF AuGuichet, Bureau
<1>4. CASE d = "compte" /\ Vie
  <2>1. sujet = "compte"
    BY <1>4 DEF Vie, TerminerInscription, CreerTontine, Cotiser, CotiserAssiste, Retirer,
                DemanderCredit, ValiderCredit, FinirCredit, ConfirmerPaiement, Evoluer
  <2>. QED
    BY <1>4, <2>1 DEF AuGuichet, Bureau
<1>5. CASE d = "surveillance" /\ NextSurveillance(q)
  <2>1. sujet = "surveillance" \/ pc[q] \in EtapesSurveillance
    BY <1>5 DEF NextSurveillance, LireSolde, SommerCotisations, SommerRetraits,
                SommerDistributions, Sommer, Comparer, CreerAlerte, LireAlerte, EcrireAlerte,
                EtapesSurveillance, EtapesSommes
  <2>. QED
    BY <1>5, <2>1, EtapeAuGuichet DEF AuGuichet, Bureau
<1>6. CASE d = "surveillance" /\ Caisse
  BY <1>6, CaisseDite DEF AuGuichet, Bureau
<1>7. CASE d = "collecteurs" /\ NextPortefeuilles(q)
  <2>1. \/ sujet \in {"liens", "tournee", "commissions"}
        \/ pc[q] \in EtapesLiens \cup EtapesTournee \/ pc[q] = "debiter"
    BY <1>7 DEF NextPortefeuilles, Reassigner, LireCollecteur, LireAgent, LireSuperviseur, LireQr,
                Lier, LireClient, Pointer, ListerClients, ListerVisites, Afficher, LireCommission,
                DebiterCommission, EtapesLiens, EtapesTournee
  <2>. QED
    BY <1>7, <2>1, EtapeAuGuichet DEF AuGuichet, Bureau
<1>8. CASE d = "collecteurs" /\ Chef
  <2>1. sujet \in {"liens", "tournee", "commissions"}
    BY <1>8 DEF Chef, ChangerStatutMembre, ChangerRole, EcrireCode, ExpirerCode, Minuit, Gagner,
                Typage
  <2>. QED
    BY <1>8, <2>1 DEF AuGuichet, Bureau
<1>9. CASE d = "abonnement" /\ (NextAbonnements(q) \/ PayerAbonnement)
  <2>1. sujet = "abonnement" \/ pc[q] \in EtapesAbonnements
    BY <1>9 DEF NextAbonnements, LireFacturation, CreerFacturation, LirePlan, PasserPro,
                FacturerLePremier, FacturerAlaMain, Prelever, PayerAbonnement, EtapesAbonnements
  <2>. QED
    BY <1>9, <2>1, EtapeAuGuichet DEF AuGuichet, Bureau
<1>10. CASE d = "echeance" /\ NextEcheances(q)
  <2>1. sujet = "echeance" \/ pc[q] \in EtapesEcheances
    BY <1>10 DEF NextEcheances, LireActivation, EcrireActivation, LireModification, Modifier,
                 ListerEchus, Dissoudre, EtapesEcheances
  <2>. QED
    BY <1>10, <2>1, EtapeAuGuichet DEF AuGuichet, Bureau
<1>. QED
  BY <1>1, <1>2, <1>3, <1>4, <1>5, <1>6, <1>7, <1>8, <1>9, <1>10 DEF Guichet

(* A step at a desk leaves the other tables alone and keeps the types.     *)
LEMMA GuichetHors ==
  ASSUME Typage, NEW q \in Requetes, NEW d, Guichet(q, d)
  PROVE  Hors(d) /\ Typage'
BY HorsKyc, HorsLitige, HorsCompte, HorsSurveillance, HorsCollecteurs, HorsAbonnement, HorsEcheance,
   TypageKyc, TypageLitige, TypageCompte, TypageSurveillance, TypageCollecteurs, TypageAbonnement,
   TypageEcheance DEF Guichet

(* A step at a desk keeps what every desk promises.                        *)
LEMMA GuichetInduit ==
  ASSUME Typage, GuichetsTenus, NEW q \in Requetes, NEW d, Guichet(q, d)
  PROVE  Typage' /\ GuichetsTenus'
<1>1. Typage' /\ Hors(d) /\ d \in Bureau /\ AuGuichet(d)
  BY GuichetHors, SujetDuPas
<1>2. KycInv'
  BY <1>1, AilleursTenu, KycInduit DEF Guichet, GuichetsTenus
<1>3. LitigesInv'
  BY <1>1, AilleursTenu, LitigesInduit DEF Guichet, GuichetsTenus
<1>4. ComptesInv'
  BY <1>1, AilleursTenu, ComptesInduit DEF Guichet, GuichetsTenus
<1>5. SurveillanceInv'
  BY <1>1, AilleursTenu, SurveillanceInduit DEF Guichet, GuichetsTenus
<1>6. TourneeInv' /\ CommissionsInv' /\ LiensInv'
  BY <1>1, AilleursTenu, TourneeInduit, CommissionsInduit, LiensInduit DEF Guichet, GuichetsTenus
<1>7. AbonnementsInv'
  BY <1>1, AilleursTenu, AbonnementsInduit DEF Guichet, GuichetsTenus
<1>8. EcheancesInv'
  BY <1>1, AilleursTenu, EcheancesInduit DEF Guichet, GuichetsTenus
<1>. QED
  BY <1>1, <1>2, <1>3, <1>4, <1>5, <1>6, <1>7, <1>8 DEF GuichetsTenus

(* A day passes: nothing else moves.                                       *)
LEMMA JourPasse ==
  ASSUME Typage, GuichetsTenus, JourSuivant
  PROVE  Typage' /\ GuichetsTenus'
<1>1. /\ UNCHANGED <<documents, kycVerifie, litiges, compte, livre, alertes, facturations, echeance>>
      /\ UNCHANGED <<equipe, qr, visites, commissions>> /\ UNCHANGED <<pc, loc>>
      /\ UNCHANGED <<sujet, courses, ecritures, calme>> /\ jour' = jour + 1
      /\ sujet \in {"calendrier", "abonnement", "echeance"} /\ jour \in Nat
  BY DEF JourSuivant, terrain, procVars, histVars, Typage, TypeOK
<1>2. Typage'
  <2>1. TypeOK'
    BY <1>1 DEF Typage, TypeOK
  <2>2. Grandit /\ jour' >= Debut(PremierMois)
    <3>1. Debut(PremierMois) \in Nat
      BY DebutSuivant DEF PremierMois
    <3>. QED
      BY <1>1, <3>1 DEF Grandit, Typage
  <2>. QED
    BY <1>1, <2>1, <2>2, TypageReste DEF procVars, Typage
<1>3. \A p \in Requetes : pc'[p] \notin EtapesKyc \cup EtapesLitiges \cup EtapesComptes
                             \cup EtapesLiens \cup EtapesTournee \cup {"debiter"}
  BY <1>1, <1>2, EtapeAuGuichetSuivant
<1>4. KycInv' /\ LitigesInv' /\ ComptesInv'
  BY <1>1, <1>2, <1>3, KycTables, LitigesTables, ComptesTables DEF GuichetsTenus
<1>5. SurveillanceInv'
  BY <1>1, <1>2, SurveillanceTables DEF GuichetsTenus
<1>6. TourneeInv' /\ CommissionsInv' /\ LiensInv'
  BY <1>1, <1>2, <1>3, CollecteursTables DEF GuichetsTenus
<1>7. AbonnementsInv'
  <2>1. \A c \in Collecteurs :
          /\ Bonne(c) => Bonne(c)'
          /\ Abonne(c) => Abonne(c)'
          /\ facturations'[c].attendu = facturations[c].attendu
          /\ facturations'[c].preleves = facturations[c].preleves
    BY <1>1 DEF Bonne, Abonne
  <2>. QED
    BY <1>1, <1>2, <2>1, SansPrelever DEF GuichetsTenus
<1>8. EcheancesInv'
  BY <1>1, <1>2, SansModifier DEF GuichetsTenus, Pareilles
<1>. QED
  BY <1>2, <1>4, <1>5, <1>6, <1>7, <1>8 DEF GuichetsTenus

(* The process dies: every request is gone, every table stays.             *)
LEMMA PanneTenue ==
  ASSUME Typage, GuichetsTenus, Panne
  PROVE  Typage' /\ GuichetsTenus'
<1>1. /\ UNCHANGED <<documents, kycVerifie, litiges, compte, livre, alertes, facturations, echeance>>
      /\ UNCHANGED <<equipe, qr, visites, commissions>> /\ UNCHANGED <<sujet, ecritures, jour>>
      /\ calme' = FALSE /\ pc' = [q \in Requetes |-> "libre"] /\ loc' = [q \in Requetes |-> Repos]
      /\ jour \in Nat
  BY DEF Panne, tables, bureau, dates, terrain, Typage, TypeOK
<1>2. /\ courses \subseteq courses' /\ courses' \in SUBSET Course
      /\ (\E q \in Requetes : pc[q] \in {"debiter", "prelever"}) => "panne" \in courses'
  <2>1. courses \in SUBSET Course /\ "panne" \in Course
    BY DEF Typage, Course
  <2>. QED
    BY <2>1 DEF Panne, Ajouter
<1>3. Typage'
  <2>1. TypeOK'
    BY <1>1 DEF Typage, TypeOK
  <2>2. pc' \in [Requetes -> Etapes] /\ loc' \in [Requetes -> Travail]
    BY <1>1, ReposType DEF Etapes
  <2>3. ASSUME NEW q \in Requetes PROVE EtapeOK(q)'
    BY <1>1, ReposType, OperationsDites, BureauxDits DEF EtapeOK, Typage
  <2>. QED
    BY <1>1, <1>2, <2>1, <2>2, <2>3 DEF Typage
<1>4. \A p \in Requetes :
        /\ pc'[p] \notin EtapesKyc \cup EtapesLitiges \cup EtapesComptes \cup EtapesLiens
              \cup EtapesTournee \cup {"debiter"} \cup EtapesEcheances
        /\ pc'[p] = "libre" /\ pc'[p] # "prelever"
  BY <1>1 DEF EtapesKyc, EtapesLitiges, EtapesComptes, EtapesLiens, EtapesTournee, EtapesEcheances
<1>5. KycInv' /\ LitigesInv' /\ ComptesInv'
  BY <1>1, <1>2, <1>3, <1>4, KycTables, LitigesTables, ComptesTables DEF GuichetsTenus
<1>6. SurveillanceInv'
  BY <1>1, <1>3, <1>4, SurveillanceTables DEF GuichetsTenus
<1>7. TourneeInv' /\ CommissionsInv' /\ LiensInv'
  BY <1>1, <1>2, <1>3, <1>4, CollecteursTables DEF GuichetsTenus
<1>8. AbonnementsInv'
  BY <1>1, <1>2, <1>3, <1>4, AbonnementsTables DEF GuichetsTenus
<1>9. EcheancesInv'
  BY <1>1, <1>2, <1>3, <1>4, EcheancesTables DEF GuichetsTenus
<1>. QED
  BY <1>3, <1>5, <1>6, <1>7, <1>8, <1>9 DEF GuichetsTenus

(* A step that changes nothing.                                            *)
LEMMA Stable ==
  ASSUME Typage, GuichetsTenus, UNCHANGED vars
  PROVE  Typage' /\ GuichetsTenus'
<1>1. /\ UNCHANGED <<documents, kycVerifie, litiges, compte, livre, alertes, facturations, echeance>>
      /\ UNCHANGED <<equipe, qr, visites, commissions>> /\ UNCHANGED <<sujet, ecritures, jour>>
      /\ UNCHANGED <<courses, calme>> /\ UNCHANGED <<pc, loc>> /\ jour \in Nat
  BY DEF vars, tables, bureau, dates, terrain, procVars, histVars, Typage, TypeOK
<1>2. Typage'
  <2>1. TypeOK' /\ jour' >= Debut(PremierMois)
    BY <1>1 DEF Typage, TypeOK
  <2>2. Grandit
    BY <1>1 DEF Grandit
  <2>. QED
    BY <1>1, <2>1, <2>2, TypageReste DEF procVars, Typage
<1>3. KycInv'
  BY <1>1 DEF GuichetsTenus, KycInv, KycFonde, EnCours, Decident, Deposent, DocumentExistant
<1>4. LitigesInv'
  BY <1>1 DEF GuichetsTenus, LitigesInv, Ouvrent, Tranchent, Ouverts
<1>5. ComptesInv'
  BY <1>1 DEF GuichetsTenus, ComptesInv, Ferme, Efface
<1>6. SurveillanceInv'
  BY <1>1 DEF GuichetsTenus, SurveillanceInv, Controle, Somme, EcartReel, Ouvertes
<1>7. TourneeInv' /\ LiensInv'
  BY <1>1 DEF GuichetsTenus, TourneeInv, LiensInv, Tourne, Portefeuille, Restantes, Collecteur,
              Visites
<1>8. CommissionsInv'
  BY <1>1 DEF GuichetsTenus, CommissionsInv, CommissionsJustes
<1>9. AbonnementsInv'
  BY <1>1 DEF GuichetsTenus, AbonnementsInv, Abonne, Facture
<1>10. EcheancesInv'
  BY <1>1 DEF GuichetsTenus, EcheancesInv, Modifie, Cloture
<1>. QED
  BY <1>2, <1>3, <1>4, <1>5, <1>6, <1>7, <1>8, <1>9, <1>10 DEF GuichetsTenus

(* There is no other step.                                                 *)
LEMMA PasDeNext ==
  ASSUME Next
  PROVE  \/ \E q \in Requetes, d \in Bureau : Guichet(q, d)
         \/ JourSuivant \/ Panne
<1>1. CASE \E q \in Requetes :
          NextKyc(q) \/ NextLitiges(q) \/ NextComptes(q) \/ NextSurveillance(q)
            \/ NextPortefeuilles(q) \/ NextAbonnements(q) \/ NextEcheances(q)
  BY <1>1 DEF Guichet, Bureau
<1>2. CASE Vie \/ Caisse \/ Chef \/ PayerAbonnement
  <2>1. PICK q : q \in Requetes
    BY GuichetsAssumption
  <2>. QED
    BY <1>2, <2>1 DEF Guichet, Bureau
<1>. QED
  BY <1>1, <1>2 DEF Next, Vie, Caisse, Chef

(* Every step keeps the types and what the desks promise.                  *)
LEMMA PasInduit ==
  ASSUME Typage, GuichetsTenus, [Next]_vars
  PROVE  Typage' /\ GuichetsTenus'
<1>1. CASE Next
  BY <1>1, PasDeNext, GuichetInduit, JourPasse, PanneTenue
<1>2. CASE UNCHANGED vars
  BY <1>2, Stable
<1>. QED
  BY <1>1, <1>2

(* The first state.                                                        *)
LEMMA EcheanceDuDepart ==
  ASSUME NEW n \in Nat
  PROVE  /\ \A t \in EcheanceInitiale(n) : 
              t \in Echeance /\ t.pose = n /\ VerrouTenu(t, n)
         /\ EcheanceInitiale(n) # {}
<1>1. ASSUME NEW t \in EcheanceInitiale(n)
      PROVE  t \in Echeance /\ t.pose = n /\ VerrouTenu(t, n)
  <2>1. /\ t \in [projet : BOOLEAN, statut : {"CREATION"},
                  frequence : {"JOURNALIER", "HEBDOMADAIRE"}, cotisations : {1},
                  politique : Politique, verrou : {n + 1, n + 7}, fin : {n + 1, n + 2}, pose : {n}]
        /\ t.politique = "BLOQUE" => t.verrou >= DateFinEstimee(n, t.cotisations, t.frequence)
    BY DEF EcheanceInitiale
  <2>2. n + 1 \in Nat /\ n + 7 \in Nat /\ n + 2 \in Nat
    OBVIOUS
  <2>3. t \in Echeance /\ t.pose = n
    BY <2>1, <2>2 DEF Echeance, Frequence
  <2>. QED
    BY <2>1, <2>3 DEF VerrouTenu
<1>2. EcheanceInitiale(n) # {}
  <2>1. PICK t : t = [projet |-> FALSE, statut |-> "CREATION", frequence |-> "JOURNALIER",
                      cotisations |-> 1, politique |-> "FLEXIBLE", verrou |-> n + 1,
                      fin |-> n + 1, pose |-> n]
    OBVIOUS
  <2>2. t \in EcheanceInitiale(n)
    BY <2>1 DEF EcheanceInitiale, Politique
  <2>. QED
    BY <2>2
<1>. QED
  BY <1>1, <1>2

(* All of it holds at the start.                                           *)
LEMMA Depart ==
  ASSUME Init
  PROVE  Typage /\ GuichetsTenus
<1>1. /\ Debut(12) \in Nat /\ Debut(13) - 2 \in Nat /\ Debut(13) - 2 >= Debut(12)
      /\ Debut(14) - 1 \in Nat /\ Debut(14) - 1 >= Debut(12)
      /\ Debut(924) \in Nat /\ Debut(924) >= Debut(12)
  <2>1. /\ Debut(12) \in Nat /\ Debut(12 + 1) = Debut(12) + Longueur(12)
        /\ Debut(13 + 1) = Debut(13) + Longueur(13) /\ Longueur(12) \in 28 .. 31
        /\ Longueur(13) \in 28 .. 31
    BY DebutSuivant, LongueurDit
  <2>2. Debut(924) \in Nat /\ Debut(12 + 1) <= Debut(924)
    <3>1. PICK a \in Nat : a = 12
      OBVIOUS
    <3>2. PICK b \in Nat : b = 924
      OBVIOUS
    <3>3. a < b
      BY <3>1, <3>2
    <3>4. Debut(b) \in Nat
      BY DebutSuivant
    <3>5. Debut(a + 1) <= Debut(b)
      BY <3>3, DebutCroit
    <3>. QED
      BY <3>1, <3>2, <3>4, <3>5
  <2>. QED
    BY <2>1, <2>2
<1>2. jour \in Nat /\ jour >= Debut(PremierMois)
  BY <1>1 DEF Init, Departs, PremierMois
<1>3. echeance \in Echeance /\ echeance.pose = jour /\ VerrouTenu(echeance, jour)
  <2>1. EcheanceInitiale(jour) # {}
    BY <1>2, EcheanceDuDepart
  <2>2. echeance \in EcheanceInitiale(jour)
    <3>1. (CHOOSE t \in EcheanceInitiale(jour) : TRUE) \in EcheanceInitiale(jour)
      BY <2>1
    <3>. QED
      BY <3>1 DEF Init
  <2>. QED
    BY <1>2, <2>2, EcheanceDuDepart
<1>4. compte \in Compte /\ compte.orphelins = 0
  <2>1. PICK b \in BOOLEAN, o \in {"inscrit", "inacheve", "enrole"} :
            compte = [statut |-> "ACTIF", present |-> TRUE, anonyme |-> FALSE, origine |-> o,
                      tontine |-> b, solde |-> 0, enAttente |-> 0, orphelins |-> 0,
                      perdu |-> 0, retraits |-> FALSE, transactions |-> FALSE,
                      credit |-> "AUCUN"]
    BY DEF Init, CompteInitial
  <2>. QED
    BY <2>1 DEF Compte, StatutCredit
<1>5. /\ documents = <<>> /\ kycVerifie = FALSE /\ litiges = <<>> /\ alertes = <<>>
      /\ livre = [solde |-> 0, cotise |-> 0, retire |-> 0, distribue |-> 0]
      /\ equipe = EquipeInitiale /\ visites = {}
      /\ qr = [c \in Collecteurs |-> "aucun"]
      /\ commissions = [c \in Collecteurs |-> [solde |-> 0, gagne |-> 0, verse |-> 0]]
      /\ facturations = [c \in Collecteurs |-> SansFacturation]
      /\ courses = {} /\ ecritures = 0 /\ calme = FALSE /\ sujet \in Sujets
      /\ pc = [q \in Requetes |-> "libre"] /\ loc = [q \in Requetes |-> Repos]
  BY DEF Init
<1>6. TypeOK
  <2>1. equipe \in [Personnes -> Membre]
    BY <1>5 DEF EquipeInitiale, Membre, Role, Terrain
  <2>2. livre \in Livre
    BY <1>5 DEF Livre
  <2>3. commissions \in [Collecteurs -> Gains] /\ qr \in [Collecteurs -> QRCode]
    BY <1>5 DEF Gains, QRCode
  <2>4. facturations \in [Collecteurs -> Facturation]
    BY <1>5 DEF Facturation, SansFacturation
  <2>5. /\ documents \in Seq(DocumentKYC) /\ litiges \in Seq(Litige)
        /\ alertes \in Seq({"OUVERTE", "RESOLUE"})
    BY <1>5
  <2>. QED
    BY <1>2, <1>3, <1>4, <1>5, <2>1, <2>2, <2>3, <2>4, <2>5 DEF TypeOK
<1>7. \A q \in Requetes : pc[q] = "libre" /\ loc[q] = Repos
  BY <1>5
<1>8. Typage
  <2>1. \A q \in Requetes : EtapeOK(q)
    BY <1>5, <1>7, ReposType, OperationsDites, BureauxDits DEF EtapeOK
  <2>2. pc \in [Requetes -> Etapes] /\ loc \in [Requetes -> Travail]
    BY <1>5, ReposType DEF Etapes
  <2>. QED
    BY <1>2, <1>5, <1>6, <2>1, <2>2 DEF Typage, QRCode
<1>9. KycInv /\ LitigesInv
  BY <1>5, <1>7 DEF KycInv, KycFonde, Decident, Deposent, LitigesInv, Tranchent, Ouvrent, Ouverts
<1>10. ComptesInv
  BY <1>4, <1>7, ReposType DEF ComptesInv, Ferme, Efface
<1>11. SurveillanceInv
  BY <1>5, <1>7, ReposType DEF SurveillanceInv, Controle
<1>12. TourneeInv /\ LiensInv
  BY <1>7, ReposType DEF TourneeInv, LiensInv, Tourne
<1>13. CommissionsInv
  <2>1. \A c \in Collecteurs : Du(c) = 0
    <3>1. \A c : EnDebit(c) = {}
      BY <1>7 DEF EnDebit
    <3>. QED
      BY <3>1, SommeVide DEF Du
  <2>2. \A c \in Collecteurs :
          commissions[c].solde = 0 /\ commissions[c].gagne = 0 /\ commissions[c].verse = 0
    BY <1>5
  <2>3. CommissionsJustes
    BY <2>1, <2>2, JustesDit
  <2>. QED
    BY <1>7, <2>3 DEF CommissionsInv
<1>14. AbonnementsInv
  BY <1>5, <1>7, ReposType DEF AbonnementsInv, Abonne, SansFacturation, Facture
<1>15. EcheancesInv
  BY <1>3, <1>7, ReposType DEF EcheancesInv, Modifie, Cloture
<1>. QED
  BY <1>8, <1>9, <1>10, <1>11, <1>12, <1>13, <1>14, <1>15 DEF GuichetsTenus

-----------------------------------------------------------------------------
(* What the steps of the desks never do. *)

LitigeTenu ==
    /\ "litige" \in courses' \/
         \A l \in DOMAIN litiges : litiges[l].statut \in Clos => litiges'[l] = litiges[l]
    /\ courses' \cap {"litige", "ouverture"} # {} \/
         \A t \in Transactions : Cardinality(Ouverts(t)') <= 1

(* The action property of the disputes, of one step.                       *)
LEMMA LitigeAction ==
  ASSUME Typage, LitigesInv, LitigesInv', litiges' = litiges \/ \E q \in Requetes : NextLitiges(q)
  PROVE  LitigeTenu
<1>1. ASSUME "litige" \notin courses', NEW l \in DOMAIN litiges, litiges[l].statut \in Clos
      PROVE  litiges'[l] = litiges[l]
  <2>1. CASE litiges' = litiges
    BY <2>1
  <2>2. ASSUME NEW q \in Requetes, NextLitiges(q) PROVE litiges'[l] = litiges[l]
    <3>1. litiges \in Seq(Litige) /\ "litige" \notin courses
      BY <1>1, <2>2, HorsLitige DEF Hors, Typage, TypeOK
    <3>2. CASE OuvrirLitige(q)
      BY <3>2, OuvrirLitigeDit
    <3>3. CASE CreerLitige(q)
      BY <1>1, <3>1, <3>3, CreerLitigeDit, SequenceSuit
    <3>4. CASE LireLitige(q)
      BY <3>4, LireLitigeDit
    <3>5. CASE EcrireLitige(q)
      <4>1. loc[q].n # l
        BY <1>1, <3>1, <3>5, EcrireLitigeDit DEF LitigesInv
      <4>. QED
        BY <3>5, <4>1, EcrireLitigeDit
    <3>. QED
      BY <2>2, <3>2, <3>3, <3>4, <3>5 DEF NextLitiges
  <2>. QED
    BY <2>1, <2>2
<1>2. ASSUME courses' \cap {"litige", "ouverture"} = {}, NEW t \in Transactions
      PROVE  Cardinality(Ouverts(t)') <= 1
  <2>1. \A l, m \in Ouverts(t)' : l = m
    BY <1>2 DEF LitigesInv
  <2>2. CASE Ouverts(t)' = {}
    BY <2>2, FS_EmptySet
  <2>3. CASE Ouverts(t)' # {}
    <3>1. PICK l : Ouverts(t)' = {l}
      BY <2>1, <2>3
    <3>2. Cardinality({l}) = 1
      BY FS_Singleton
    <3>3. Cardinality(Ouverts(t)') = Cardinality({l})
      BY <3>1
    <3>. QED
      BY <3>2, <3>3
  <2>. QED
    BY <2>2, <2>3
<1>. QED
  BY <1>1, <1>2 DEF LitigeTenu

(* No link is written.                                                     *)
LEMMA SansLien ==
  ASSUME UNCHANGED equipe
  PROVE  LiensTenus
  BY DEF LiensTenus

(* No account is touched.                                                  *)
LEMMA SansFin ==
  ASSUME Typage, UNCHANGED compte
  PROVE  FinTenue
<1>1. compte.perdu \in Nat
  BY DEF Typage, TypeOK, Compte
<1>. QED
  BY <1>1 DEF FinTenue

(* What no step does, whichever desk it is at.                             *)
LEMMA PasTenu ==
  ASSUME Typage, GuichetsTenus, [Next]_vars
  PROVE  LitigeTenu /\ FinTenue /\ LiensTenus /\ EcheanceTenue
<1>1. Typage' /\ GuichetsTenus'
  BY PasInduit
<1>2. EcheanceTenue
  BY <1>1, EcheanceAction DEF GuichetsTenus
<1>3. ASSUME UNCHANGED <<litiges, compte, equipe>> PROVE LitigeTenu /\ FinTenue /\ LiensTenus
  BY <1>1, <1>3, LitigeAction, SansLien, SansFin DEF GuichetsTenus
<1>4. CASE JourSuivant \/ Panne \/ UNCHANGED vars
  <2>1. UNCHANGED <<litiges, compte, equipe>>
    BY <1>4 DEF JourSuivant, Panne, vars, tables, bureau, terrain
  <2>. QED
    BY <1>2, <1>3, <2>1
<1>5. ASSUME NEW q \in Requetes, NEW d, Guichet(q, d)
      PROVE  LitigeTenu /\ FinTenue /\ LiensTenus
  <2>1. Hors(d)
    BY <1>5, GuichetHors
  <2>2. CASE d = "litige"
    <3>1. NextLitiges(q) /\ UNCHANGED compte /\ UNCHANGED equipe
      BY <1>5, <2>1, <2>2 DEF Guichet, Hors
    <3>. QED
      BY <1>1, <3>1, LitigeAction, SansLien, SansFin DEF GuichetsTenus
  <2>3. CASE d = "compte"
    <3>1. (NextComptes(q) \/ Vie) /\ litiges' = litiges /\ UNCHANGED equipe
      BY <1>5, <2>1, <2>3 DEF Guichet, Hors
    <3>. QED
      BY <1>1, <3>1, LitigeAction, SansLien, FinAction DEF GuichetsTenus
  <2>4. CASE d = "collecteurs"
    <3>1. (NextPortefeuilles(q) \/ Chef) /\ litiges' = litiges /\ UNCHANGED compte
      BY <1>5, <2>1, <2>4 DEF Guichet, Hors
    <3>. QED
      BY <1>1, <3>1, LitigeAction, LiensAction, SansFin DEF GuichetsTenus
  <2>5. CASE d \notin {"litige", "compte", "collecteurs"}
    BY <1>3, <2>1, <2>5 DEF Hors
  <2>. QED
    BY <2>2, <2>3, <2>4, <2>5
<1>. QED
  BY <1>2, <1>4, <1>5, PasDeNext

-----------------------------------------------------------------------------

\* In every reachable state the rows have their types, a slot holds what its step
\* needs, and each desk keeps its part of the invariant.
THEOREM InvariantTenu == Spec => [](Typage /\ GuichetsTenus)
<1>1. Init => Typage /\ GuichetsTenus
  BY Depart
<1>2. Typage /\ GuichetsTenus /\ [Next]_vars => (Typage /\ GuichetsTenus)'
  BY PasInduit
<1>. QED
  BY <1>1, <1>2, PTL DEF Spec

\* The rows of every desk keep their types, whatever clients, administrators, jobs
\* and crashes do.
THEOREM TypesTenus == Spec => []TypeOK
<1>1. Typage => TypeOK
  BY DEF Typage
<1>. QED
  BY <1>1, InvariantTenu, PTL

\* KYC: a verified account has a validated document and one document in progress
\* per type, unless two decisions or two deposits met.
THEOREM KycFondeTenu == Spec => []KycFonde
<1>1. GuichetsTenus => KycFonde
  BY DEF GuichetsTenus, KycInv
<1>. QED
  BY <1>1, InvariantTenu, PTL

\* Accounting check: after one in which nothing moved an alert is open exactly when
\* the books do not add up.
THEOREM AlerteJusteTenue == Spec => []AlerteJuste
<1>1. GuichetsTenus => AlerteJuste
  BY DEF GuichetsTenus, SurveillanceInv, AlerteJuste
<1>. QED
  BY <1>1, InvariantTenu, PTL

\* Collectors: the visits left and the balance of the commissions are right, unless
\* something changed under the request, withdrawals crossed or the server died.
THEOREM CollecteurServiTenu == Spec => []CollecteurServi
<1>1. Typage /\ GuichetsTenus => CollecteurServi
  BY TourneeDit DEF GuichetsTenus, CommissionsInv, CollecteurServi
<1>. QED
  BY <1>1, InvariantTenu, PTL

\* Subscriptions: the job of the month bills every collector it found exactly once,
\* and the next payment lies a month ahead.
THEOREM AbonnementsJustesTenus == Spec => []AbonnementsJustes
<1>1. Typage /\ GuichetsTenus => AbonnementsJustes
  BY AbonnementsDits DEF GuichetsTenus
<1>. QED
  BY <1>1, InvariantTenu, PTL

\* Calendar: screens, announced dates and reports are right every day.
THEOREM DatesJustesTenues == Spec => []DatesJustes
<1>1. Typage => DatesJustes
  <2>1. ASSUME Typage PROVE DatesDuJour(jour)
    <3>1. jour \in Nat /\ jour >= Debut(PremierMois)
      BY <2>1 DEF Typage, TypeOK
    <3>. QED
      BY <3>1, DatesDeChaqueJour
  <2>. QED
    BY <2>1 DEF DatesJustes
<1>. QED
  BY <1>1, InvariantTenu, PTL

\* Disputes: a closed one stays as it was closed and a transaction has one open
\* dispute, unless two requests met.
THEOREM LitigeTrancheTenu == Spec => LitigeTranche
<1>1. Typage /\ GuichetsTenus /\ [Next]_vars => LitigeTenu
  BY PasTenu
<1>. QED
  BY <1>1, InvariantTenu, PTL DEF Spec, LitigeTranche, LitigeTenu

\* Accounts: none is closed by its owner with money on it or a credit running, and
\* no payment is lost, unless one came in under the closing.
THEOREM FinSansArgentTenue == Spec => FinSansArgent
<1>1. Typage /\ GuichetsTenus /\ [Next]_vars => FinTenue
  BY PasTenu
<1>. QED
  BY <1>1, InvariantTenu, PTL DEF Spec, FinSansArgent, FinTenue

\* Links: whoever is linked by a request that read his new chief gets one with the
\* role for it who is active, unless that person changed in between.
THEOREM LiensFondesTenus == Spec => LiensFondes
<1>1. Typage /\ GuichetsTenus /\ [Next]_vars => LiensTenus
  BY PasTenu
<1>. QED
  BY <1>1, InvariantTenu, PTL DEF Spec, LiensFondes, LiensTenus

\* Tontines: the job closes projects whose end is past, and a blocked tontine stays
\* blocked until its objective can be reached, unless two modifications met.
THEOREM EcheancesDuesTenues == Spec => EcheancesTenues
<1>1. Typage /\ GuichetsTenus /\ [Next]_vars => EcheanceTenue
  BY PasTenu
<1>. QED
  BY <1>1, InvariantTenu, PTL DEF Spec, EcheancesTenues, EcheanceTenue
=============================================================================
