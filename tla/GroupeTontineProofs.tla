------------------------ MODULE GroupeTontineProofs ------------------------
(***************************************************************************)
(* Theorems about the group tontine: nobody receives the pot twice, the    *)
(* balance is what the members paid in less what left, and a group that is *)
(* over served everybody, for every number of members and of requests.     *)
(***************************************************************************)
EXTENDS GroupeTontine, FiniteSetTheorems, TLAPS

-----------------------------------------------------------------------------
(* What a handler holds at the steps that use it.                          *)

SurMembre == Adhere \cup {"quitter", "defaillir"}
AvecLot   == {"examiner", "defaillir"}
Distincts(s) == \A i, j \in DOMAIN s : s[i] = s[j] => i = j

EtapeBonne(e, l) ==
    /\ e \in SurMembre => l.qui \in Membres
    /\ e \in Transfere => /\ l.tirage <= tirages
                          /\ l.tirage = tirages => l.place \in DOMAIN ordre
    /\ e = "ecrireOrdre" => Distincts(l.suite)
    /\ e \notin AvecLot => l.lot = {}
    /\ \A x, y \in l.lot : x.qui = y.qui => x = y
    /\ e = "defaillir" => \A x \in l.lot : x.qui # l.qui

EtapeOK(q) == EtapeBonne(pc[q], loc[q])

TypeInv == TypeOK /\ \A q \in Requetes : EtapeOK(q)

-----------------------------------------------------------------------------
(* The group never goes back to its creation, and distributes only after.  *)

Apres == Distribue \cup {"compterNonServis", "terminer", "suspendre", "reactiver",
                         "cloturer"}

PhaseInv ==
    /\ \A q \in Requetes : pc[q] \in Apres => statut # "CREATION"
    /\ statut = "CREATION" => /\ \A m \in Membres : versements[m] = 0
                              /\ \A p \in DOMAIN ordre : ~ordre[p].aRecu

-----------------------------------------------------------------------------
(* The order is made before the activation, by one handler at a time, and  *)
(* names each client once.                                                 *)

Prepare == Adhere \cup Ordonne \cup Active

OrdreTenu ==
    /\ statut # "CREATION" => \A q \in Requetes : pc[q] \notin Prepare
    /\ \A q \in Requetes : \A p \in Requetes \ {q} :
          /\ pc[q] \in Ordonne \cup Active => pc[p] \notin Prepare
          /\ pc[q] \in Adhere /\ pc[p] \in Adhere => loc[p].qui # loc[q].qui
    /\ \A i, j \in DOMAIN ordre : ordre[i].qui = ordre[j].qui => i = j
    /\ \A q \in Requetes : pc[q] \in {"compterOrdre", "creerPlace"} =>
          \A i \in DOMAIN ordre : ordre[i].qui # loc[q].qui

OrdreInv == courseOrdre \/ OrdreTenu

-----------------------------------------------------------------------------
(* One distribution at a time serves a place that was not, and a client    *)
(* that received the pot has a place that was served or is being.          *)

Servi(m) == \E p \in DOMAIN ordre :
               /\ ordre[p].qui = m
               /\ ordre[p].aRecu \/ \E q \in EnTransfert : loc[q].place = p

Distributions ==
    /\ \A p, q \in Requetes : pc[p] \in Distribue /\ pc[q] \in Distribue => p = q
    /\ \A q \in EnTransfert : loc[q].tirage = tirages /\ ~ordre[loc[q].place].aRecu
    /\ \A m \in Membres : versements[m] # 0 => versements[m] = 1 /\ Servi(m)

DistInv == courseDistribution \/ coupure \/ courseOrdre \/ Distributions

(* Who received the pot stays so, and no handler works on the row.          *)
Recus ==
    \A i \in DOMAIN ordre : ordre[i].aRecu =>
       /\ membres[ordre[i].qui].statut = "A_RECU"
       /\ \A q \in Requetes : ~Tient(q, ordre[i].qui)

MembreInv == courseMembre \/ Recus

-----------------------------------------------------------------------------
(* The balance a distribution read is still the balance.                   *)

Argent ==
    /\ \A q \in Requetes : pc[q] \in Distribue => loc[q].montant = solde
    /\ EnTransfert = {} => solde = attendu
    /\ \A q \in EnTransfert : attendu = 0

ArgentInv == courseSolde \/ courseDistribution \/ coupure \/ courseOrdre \/ Argent

-----------------------------------------------------------------------------
(* A member that must pay has a place, or one being made.                  *)

Placee(m) == \/ \E i \in DOMAIN ordre : ordre[i].qui = m
             \/ \E q \in Requetes : pc[q] \in Place /\ loc[q].qui = m

Places ==
    /\ \A m \in AListes : Placee(m)
    /\ statut = "CREATION" =>
          /\ \A m \in Membres : membres[m].nb = 0 /\ membres[m].statut # "DEFAILLANT"
          /\ \A q \in Requetes : \A x \in loc[q].lot : ~x.paye
    /\ \A q \in Requetes : pc[q] \in AvecLot =>
          \A m \in Membres : Tient(q, m) => m \in AListes
    /\ \A q \in Requetes : pc[q] = "ecrireOrdre" =>
          \A m \in Actifs : \E i \in DOMAIN loc[q].suite : loc[q].suite[i] = m

PlacesInv == defautCreation \/ coupure \/ courseMembre \/ courseOrdre \/ Places

(* Who decided that all the places are served is right.                    *)
Fins ==
    /\ \A q \in Requetes : pc[q] = "enregistrer" => loc[q].n = Cardinality(NonServis)
    /\ \A q \in Requetes : pc[q] \in {"terminer", "cloturer"} => NonServis = {}
    /\ statut = "TERMINEE" => NonServis = {}

FinInv == courseDistribution \/ coupure \/ courseOrdre \/ Fins

-----------------------------------------------------------------------------
(* What the rows are.                                                      *)

Statuts == {"AUCUN", "ACTIF", "A_RECU", "DEFAILLANT", "EXCLU"}

(* The rows of the tables and the local variables have their type.         *)
LEMMA Lignes ==
  ASSUME TypeOK
  PROVE  /\ \A m \in Membres : membres[m] \in Membre
         /\ ordre \in Seq(Rang) /\ \A i \in DOMAIN ordre : ordre[i] \in Rang
         /\ \A q \in Requetes : pc[q] \in Etapes /\ loc[q] \in Locales
         /\ \A m \in Membres : versements[m] \in Nat
         /\ tirages \in Nat /\ solde \in Nat /\ attendu \in Int
<1>1. \A S : \A s \in Seq(S) : \A i \in DOMAIN s : s[i] \in S
  OBVIOUS
<1>2. ordre \in Seq(Rang)
  BY DEF TypeOK
<1>. QED
  BY <1>1, <1>2 DEF TypeOK

(* What the columns of a member are.                                       *)
LEMMA ChampsMembre ==
  ASSUME NEW e \in Membre
  PROVE  e.statut \in Statuts /\ e.nb \in Nat /\ e.caution \in Int
  BY DEF Membre, Statuts

(* What the columns of a place are.                                        *)
LEMMA ChampsRang ==
  ASSUME NEW e \in Rang
  PROVE  e.qui \in Membres /\ e.position \in Nat /\ e.aRecu \in BOOLEAN
  BY DEF Rang

(* What the local variables are.                                           *)
LEMMA ChampsLocaux ==
  ASSUME NEW l \in Locales
  PROVE  /\ l.qui \in Membres \cup {Personne} /\ l.montant \in Int /\ l.n \in Int
         /\ l.place \in Nat /\ l.tirage \in Nat
         /\ l.mode \in {"MANUEL", "ALEATOIRE", "ACTIVATION"}
         /\ l.suite \in Seq(Membres) /\ l.lot \subseteq Lu
  BY DEF Locales

(* The local variables of a handler at rest.                               *)
LEMMA ChampsRepos ==
  /\ Repos \in Locales /\ Repos.lot = {} /\ Repos.suite = <<>> /\ Repos.qui = Personne
  /\ Repos.montant = 0 /\ Repos.n = 0 /\ Repos.place = 0 /\ Repos.tirage = 0
<1>1. <<>> \in Seq(Membres)
  OBVIOUS
<1>. QED
  BY <1>1 DEF Repos, Locales

(* One member's row is written.                                            *)
Ecrit(m, e) == membres' = [membres EXCEPT ![m] = e]

(* Only that row changes.                                                  *)
LEMMA RangeeEcrite ==
  ASSUME TypeOK, NEW m \in Membres, NEW e \in Membre, Ecrit(m, e)
  PROVE  /\ membres' \in [Membres -> Membre] /\ membres'[m] = e
         /\ \A x \in Membres \ {m} : membres'[x] = membres[x]
  BY DEF TypeOK, Ecrit

(* The client's subscription is written.                                   *)
LEMMA InscrireFait ==
  ASSUME TypeInv, NEW q \in Requetes, Inscrire(q)
  PROVE  /\ loc[q].qui \in Membres
         /\ \E e \in Membre : /\ Ecrit(loc[q].qui, e) /\ e.statut = "ACTIF"
                              /\ e.nb = membres[loc[q].qui].nb
<1>1. loc[q].qui \in Membres /\ loc[q] \in Locales /\ TypeOK
  BY Lignes DEF TypeInv, EtapeOK, EtapeBonne, Inscrire, SurMembre, Adhere, Rejoint
<1>2. loc[q].montant \in Int
  BY <1>1, ChampsLocaux
<1>3. PICK m \in Membres : m = loc[q].qui
  BY <1>1
<1>4. PICK d \in Membre : d = membres[m]
  BY <1>1, Lignes
<1>5. PICK c \in Int : c = loc[q].montant
  BY <1>2
<1>6. PICK e : e = [d EXCEPT !.statut = "ACTIF", !.caution = c]
  OBVIOUS
<1>7. e \in Membre /\ e.statut = "ACTIF" /\ e.nb = d.nb
  BY <1>6 DEF Membre
<1>8. membres \in [Membres -> Membre]
  BY <1>1 DEF TypeOK
<1>9. Ecrit(m, e)
  BY <1>3, <1>4, <1>5, <1>6, <1>8 DEF Inscrire, Ecrit
<1>. QED
  BY <1>3, <1>4, <1>7, <1>9

(* The departure is written.                                               *)
LEMMA PartirFait ==
  ASSUME TypeInv, NEW q \in Requetes, Partir(q)
  PROVE  /\ loc[q].qui \in Membres
         /\ \E e \in Membre : /\ Ecrit(loc[q].qui, e) /\ e.statut = "EXCLU"
                              /\ e.nb = membres[loc[q].qui].nb
<1>1. loc[q].qui \in Membres /\ TypeOK
  BY DEF TypeInv, EtapeOK, EtapeBonne, Partir, SurMembre
<1>3. PICK m \in Membres : m = loc[q].qui
  BY <1>1
<1>4. PICK d \in Membre : d = membres[m]
  BY <1>1, Lignes
<1>6. PICK e : e = [d EXCEPT !.statut = "EXCLU"]
  OBVIOUS
<1>7. e \in Membre /\ e.statut = "EXCLU" /\ e.nb = d.nb
  BY <1>6 DEF Membre
<1>8. membres \in [Membres -> Membre]
  BY <1>1 DEF TypeOK
<1>9. Ecrit(m, e)
  BY <1>3, <1>4, <1>6, <1>8 DEF Partir, Ecrit
<1>. QED
  BY <1>3, <1>4, <1>7, <1>9

(* A place is marked, with the row of its member.                           *)
LEMMA EnregistrerFait ==
  ASSUME TypeInv, NEW q \in Requetes, Enregistrer(q), loc[q].tirage = tirages,
         NEW p, p = loc[q].place
  PROVE  /\ p \in DOMAIN ordre /\ ordre[p].qui \in Membres
         /\ \E e \in Membre : /\ Ecrit(ordre[p].qui, e) /\ e.statut = "A_RECU"
                              /\ e.nb = membres[ordre[p].qui].nb
         /\ ordre' \in Seq(Rang) /\ DOMAIN ordre' = DOMAIN ordre
         /\ \A i \in DOMAIN ordre : ordre'[i].qui = ordre[i].qui
         /\ \A i \in DOMAIN ordre : ordre'[i].aRecu <=> (ordre[i].aRecu \/ i = p)
<1>1. p \in DOMAIN ordre /\ TypeOK
  BY DEF TypeInv, EtapeOK, EtapeBonne, Enregistrer, Transfere
<1>2. PICK r \in Rang : r = ordre[p]
  BY <1>1, Lignes
<1>3. PICK m \in Membres : m = ordre[p].qui
  BY <1>2, ChampsRang
<1>4. PICK d \in Membre : d = membres[m]
  BY <1>1, Lignes
<1>5. PICK e : e = [d EXCEPT !.statut = "A_RECU"]
  OBVIOUS
<1>6. e \in Membre /\ e.statut = "A_RECU" /\ e.nb = d.nb
  BY <1>5 DEF Membre
<1>7. membres \in [Membres -> Membre]
  BY <1>1 DEF TypeOK
<1>8. Ecrit(m, e)
  BY <1>3, <1>4, <1>5, <1>7 DEF Enregistrer, Ecrit
<1>9. PICK s : s = [r EXCEPT !.aRecu = TRUE]
  OBVIOUS
<1>10. s \in Rang /\ s.qui = r.qui /\ s.aRecu
  BY <1>9 DEF Rang
<1>11. ordre \in Seq(Rang)
  BY <1>1 DEF TypeOK
<1>12. ordre' = [ordre EXCEPT ![p] = s]
  BY <1>1, <1>2, <1>9, <1>11 DEF Enregistrer
<1>13. /\ ordre' \in Seq(Rang) /\ DOMAIN ordre' = DOMAIN ordre
       /\ \A i \in DOMAIN ordre : ordre'[i] = IF i = p THEN s ELSE ordre[i]
  BY <1>1, <1>10, <1>11, <1>12
<1>. QED
  BY <1>1, <1>2, <1>3, <1>4, <1>6, <1>8, <1>10, <1>13

(* The job leaves or charges the member it reads next in its list.          *)
LEMMA ExaminerFait ==
  ASSUME TypeInv, NEW q \in Requetes, Examiner(q)
  PROVE  \E x \in loc[q].lot :
           /\ x \in Lu /\ x.qui \in Membres
           /\ \E e \in Membre :
                /\ Ecrit(x.qui, e)
                /\ x.paye => e.statut = "ACTIF" /\ e.nb = 0
                /\ ~x.paye => /\ e.statut = membres[x.qui].statut
                              /\ e.nb = membres[x.qui].nb
           /\ MarquerMembre(q, x.qui)
           /\ \/ x.paye /\ MembreSuivant(q, loc[q].lot \ {x})
              \/ /\ ~x.paye /\ Vers(q, "defaillir")
                 /\ loc' = [loc EXCEPT ![q] = [Repos EXCEPT !.qui = x.qui, !.n = x.nb,
                                               !.lot = loc[q].lot \ {x}]]
<1>1. TypeOK /\ loc[q] \in Locales
  BY Lignes DEF TypeInv
<1>2. PICK x \in loc[q].lot :
         /\ MarquerMembre(q, x.qui)
         /\ \/ /\ x.paye
               /\ membres' = [membres EXCEPT ![x.qui].statut = "ACTIF", ![x.qui].nb = 0]
               /\ MembreSuivant(q, loc[q].lot \ {x})
            \/ /\ ~x.paye
               /\ membres' = [membres EXCEPT
                     ![x.qui].caution = @ - PlusPetit(x.caution, Journalier)]
               /\ Vers(q, "defaillir")
               /\ loc' = [loc EXCEPT ![q] = [Repos EXCEPT !.qui = x.qui, !.n = x.nb,
                                             !.lot = loc[q].lot \ {x}]]
  BY DEF Examiner
<1>3. x \in Lu /\ x.qui \in Membres /\ x.caution \in Int
  BY <1>1, ChampsLocaux DEF Lu
<1>4. PICK m \in Membres : m = x.qui
  BY <1>3
<1>5. PICK d \in Membre : d = membres[m]
  BY <1>1, Lignes
<1>6. membres \in [Membres -> Membre]
  BY <1>1 DEF TypeOK
<1>7. CASE x.paye
  <2>1. PICK e : e = [d EXCEPT !.statut = "ACTIF", !.nb = 0]
    OBVIOUS
  <2>2. e \in Membre /\ e.statut = "ACTIF" /\ e.nb = 0
    BY <2>1 DEF Membre
  <2>3. Ecrit(m, e)
    BY <1>2, <1>4, <1>5, <1>6, <1>7, <2>1 DEF Ecrit
  <2>. QED
    BY <1>2, <1>3, <1>4, <1>7, <2>2, <2>3
<1>8. CASE ~x.paye
  <2>1. PICK c \in Int : c = d.caution - PlusPetit(x.caution, Journalier)
    BY <1>3, GroupeAssumption, ChampsMembre DEF PlusPetit
  <2>2. PICK e : e = [d EXCEPT !.caution = c]
    OBVIOUS
  <2>3. e \in Membre /\ e.statut = d.statut /\ e.nb = d.nb
    BY <2>2 DEF Membre
  <2>4. Ecrit(m, e)
    BY <1>2, <1>4, <1>5, <1>6, <1>8, <2>1, <2>2 DEF Ecrit
  <2>. QED
    BY <1>2, <1>3, <1>4, <1>5, <1>8, <2>3, <2>4
<1>. QED
  BY <1>7, <1>8

(* The default of a member is written.                                     *)
LEMMA DefaillirFait ==
  ASSUME TypeInv, NEW q \in Requetes, Defaillir(q)
  PROVE  /\ loc[q].qui \in Membres
         /\ \E e \in Membre : /\ Ecrit(loc[q].qui, e)
                              /\ e.statut \in {"DEFAILLANT", "EXCLU"}
<1>1. loc[q].qui \in Membres /\ TypeOK /\ loc[q] \in Locales
  BY Lignes DEF TypeInv, EtapeOK, EtapeBonne, Defaillir, SurMembre
<1>2. PICK m \in Membres : m = loc[q].qui
  BY <1>1
<1>3. PICK d \in Membre : d = membres[m]
  BY <1>1, Lignes
<1>4. PICK nb \in Nat : nb = loc[q].n + 1
  BY <1>1 DEF Locales
<1>5. PICK s \in {"DEFAILLANT", "EXCLU"} : s = IF nb >= 2 THEN "EXCLU" ELSE "DEFAILLANT"
  OBVIOUS
<1>6. PICK e : e = [d EXCEPT !.statut = s, !.nb = nb]
  OBVIOUS
<1>7. e \in Membre /\ e.statut \in {"DEFAILLANT", "EXCLU"}
  BY <1>6 DEF Membre
<1>8. membres \in [Membres -> Membre]
  BY <1>1 DEF TypeOK
<1>9. Ecrit(m, e)
  BY <1>2, <1>3, <1>4, <1>5, <1>6, <1>8 DEF Defaillir, Ecrit
<1>. QED
  BY <1>2, <1>7, <1>9

(* A place is created, at the end of the order.                            *)
LEMMA CreerPlaceFait ==
  ASSUME TypeInv, NEW q \in Requetes, CreerPlace(q), NEW k, k = Len(ordre) + 1
  PROVE  /\ ordre' \in Seq(Rang) /\ DOMAIN ordre' = DOMAIN ordre \cup {k}
         /\ k \notin DOMAIN ordre /\ k \in Nat
         /\ \A i \in DOMAIN ordre : ordre'[i] = ordre[i]
         /\ ordre'[k].qui = loc[q].qui /\ ~ordre'[k].aRecu
<1>1. loc[q].qui \in Membres /\ TypeOK /\ loc[q] \in Locales
  BY Lignes DEF TypeInv, EtapeOK, EtapeBonne, CreerPlace, SurMembre, Adhere, Place
<1>2. ordre \in Seq(Rang)
  BY <1>1 DEF TypeOK
<1>3. PICK n \in Nat : n = loc[q].n + 1
  BY <1>1 DEF Locales
<1>4. PICK s : s = [qui |-> loc[q].qui, position |-> n, aRecu |-> FALSE]
  OBVIOUS
<1>5. s \in Rang /\ s.qui = loc[q].qui /\ ~s.aRecu
  BY <1>1, <1>4 DEF Rang
<1>6. ordre' = Append(ordre, s)
  BY <1>3, <1>4 DEF CreerPlace
<1>. QED
  BY <1>2, <1>5, <1>6

(* The order is written anew.                                              *)
LEMMA EcrireOrdreFait ==
  ASSUME TypeInv, NEW q \in Requetes, EcrireOrdre(q)
  PROVE  /\ ordre' \in Seq(Rang) /\ DOMAIN ordre' = DOMAIN loc[q].suite
         /\ \A i \in DOMAIN ordre' : ordre'[i].qui = loc[q].suite[i] /\ ~ordre'[i].aRecu
         /\ Distincts(loc[q].suite)
<1>1. loc[q] \in Locales /\ Distincts(loc[q].suite)
  BY Lignes DEF TypeInv, EtapeOK, EtapeBonne, EcrireOrdre
<1>2. PICK s \in Seq(Membres) : s = loc[q].suite
  BY <1>1, ChampsLocaux
<1>3. ordre' = [i \in DOMAIN s |-> [qui |-> s[i], position |-> i, aRecu |-> FALSE]]
  BY <1>2 DEF EcrireOrdre
<1>4. DOMAIN s = 1 .. Len(s) /\ Len(s) \in Nat /\ \A i \in DOMAIN s : s[i] \in Membres
  BY <1>2
<1>5. /\ DOMAIN ordre' = DOMAIN s
      /\ \A i \in DOMAIN s : /\ ordre'[i] \in Rang /\ ordre'[i].qui = s[i]
                             /\ ~ordre'[i].aRecu
  BY <1>3, <1>4 DEF Rang
<1>6. ordre' = [i \in 1 .. Len(s) |-> ordre'[i]]
  BY <1>3, <1>4
<1>7. ordre' \in Seq(Rang)
  BY <1>4, <1>5, <1>6
<1>. QED
  BY <1>1, <1>2, <1>5, <1>7

(* A list of a finite set's elements names each of them, once.             *)
LEMMA ListeComplete ==
  ASSUME NEW S, IsFiniteSet(S), NEW s \in SetToSeqs(S)
  PROVE  /\ s \in Seq(S) /\ Distincts(s)
         /\ \A x \in S : \E i \in DOMAIN s : s[i] = x
<1>1. Cardinality(S) \in Nat
  BY FS_CardinalityType
<1>2. PICK D : D = 1 .. Cardinality(S)
  OBVIOUS
<1>3. s \in [D -> S] /\ \A i, j \in D : i # j => s[i] # s[j]
  BY <1>2 DEF SetToSeqs
<1>4. IsFiniteSet(D) /\ Cardinality(D) = Cardinality(S)
  BY <1>1, <1>2, FS_Interval
<1>5. s \in Injection(D, S)
  BY <1>3 DEF Injection, IsInjective
<1>6. s \in Surjection(D, S)
  BY <1>4, <1>5, FS_Injection
<1>7. \A x \in S : \E i \in D : s[i] = x
  BY <1>6 DEF Surjection
<1>8. DOMAIN s = D
  BY <1>3
<1>9. s \in Seq(S)
  BY <1>1, <1>2, <1>3
<1>. QED
  BY <1>3, <1>7, <1>8, <1>9 DEF Distincts

-----------------------------------------------------------------------------
(* A handler goes to another step, with other local variables; where it     *)
(* comes from, at the steps the invariants are about.                      *)

Va(q, e, l) == pc' = [pc EXCEPT ![q] = e] /\ loc' = [loc EXCEPT ![q] = l]

OrigineOrdre(q, e, l) ==
    /\ e \in Adhere => \/ Rejoindre(q)
                       \/ pc[q] \in Adhere /\ l.qui = loc[q].qui
    /\ e \in Ordonne \cup Active =>
          Ordonner(q) \/ ActiverTontine(q) \/ pc[q] \in Ordonne \cup Active
    /\ e \in {"compterOrdre", "creerPlace"} =>
          \/ pc[q] = "compterOrdre"
          \/ pc[q] = "chercherPlace" /\ \A i \in DOMAIN ordre : ordre[i].qui # l.qui
    /\ e = "ecrireOrdre" => \A m \in Actifs : \E i \in DOMAIN l.suite : l.suite[i] = m
    /\ pc[q] \in Place \cup {"inscrire"} =>
          \/ e \in Place /\ l.qui = loc[q].qui
          \/ CreerPlace(q)
          \/ \E i \in DOMAIN ordre : ordre[i].qui = loc[q].qui

OrigineDistribution(q, e, l) ==
    /\ e \in Apres => pc[q] \in Apres \/ statut # "CREATION"
    /\ e \in Distribue => \/ Distribuer(q) /\ l.montant = solde
                          \/ pc[q] \in Distribue /\ l.montant = loc[q].montant
    /\ e \in Transfere => \/ Choisir(q)
                          \/ /\ pc[q] \in Transfere
                             /\ l.tirage = loc[q].tirage /\ l.place = loc[q].place
    /\ e = "enregistrer" => l.n = Cardinality(NonServis)
    /\ e \in {"terminer", "cloturer"} => NonServis = {}
    /\ pc[q] \in Transfere => e \in Transfere \/ Enregistrer(q)
    /\ Choisir(q) => \/ e = "cloturer" /\ UNCHANGED <<versements, attendu>>
                     \/ /\ e = "compterRestants"
                        /\ l.place \in NonServis /\ l.tirage = tirages
                        /\ attendu' = attendu - loc[q].montant
                        /\ versements' = [versements EXCEPT ![ordre[l.place].qui] = @ + 1]

LuPar(x) == /\ x.qui \in AListes
            /\ x.paye => membres[x.qui].nb > 0 \/ membres[x.qui].statut = "DEFAILLANT"

OrigineMembre(q, e, l) ==
    /\ e \in Rejoint \cup {"quitter"} =>
          \/ Rejoindre(q)
          \/ Quitter(q) /\ l.qui \in Actifs
          \/ pc[q] \in Rejoint /\ e \in Rejoint /\ l.qui = loc[q].qui
    /\ e = "defaillir" => \E x \in loc[q].lot : x.qui = l.qui
    /\ e \in AvecLot => pc[q] \in AvecLot \/ Detecter(q)
    /\ \/ l.lot \subseteq loc[q].lot
       \/ Detecter(q) /\ \A x \in l.lot : LuPar(x)

Avancee(q) ==
    \E e \in Etapes, l \in Locales :
       /\ Va(q, e, l) /\ EtapeBonne(e, l)
       /\ OrigineOrdre(q, e, l) /\ OrigineDistribution(q, e, l) /\ OrigineMembre(q, e, l)

(* The handler ends.                                                       *)
LEMMA RepondreVa ==
  ASSUME TypeInv, NEW q \in Requetes, Repondre(q),
         pc[q] \in Place \cup {"inscrire"} =>
            CreerPlace(q) \/ \E i \in DOMAIN ordre : ordre[i].qui = loc[q].qui,
         pc[q] \in Transfere => Enregistrer(q), pc[q] # "choisir"
  PROVE  Avancee(q)
<1>1. Va(q, "libre", Repos)
  BY DEF Repondre, Vers, Va
<1>2. ~Choisir(q)
  BY DEF Choisir
<1>3. EtapeBonne("libre", Repos) /\ "libre" \in Etapes /\ Repos \in Locales
  BY ChampsRepos DEF EtapeBonne, SurMembre, Adhere, Rejoint, Place, Transfere, Etapes
<1>4. OrigineOrdre(q, "libre", Repos)
  BY DEF OrigineOrdre, Adhere, Rejoint, Place, Ordonne, Active
<1>5. OrigineDistribution(q, "libre", Repos)
  BY <1>2 DEF OrigineDistribution, Apres, Distribue, Transfere
<1>6. OrigineMembre(q, "libre", Repos)
  BY ChampsRepos DEF OrigineMembre, Rejoint, AvecLot
<1>. QED
  BY <1>1, <1>3, <1>4, <1>5, <1>6 DEF Avancee

(* The handler keeps its local variables.                                  *)
LEMMA VersVa ==
  ASSUME TypeInv, NEW q \in Requetes, NEW e, Vers(q, e), UNCHANGED loc
  PROVE  Va(q, e, loc[q])
  BY DEF Vers, Va, TypeInv, TypeOK

(* A handler that keeps its local variables.                               *)
LEMMA GardeVa ==
  ASSUME TypeInv, NEW q \in Requetes, NEW e \in Etapes, Vers(q, e), UNCHANGED loc,
         EtapeBonne(e, loc[q]), OrigineOrdre(q, e, loc[q]),
         OrigineDistribution(q, e, loc[q]), OrigineMembre(q, e, loc[q])
  PROVE  Avancee(q)
<1>1. Va(q, e, loc[q]) /\ loc[q] \in Locales
  BY VersVa, Lignes DEF TypeInv
<1>. QED
  BY <1>1 DEF Avancee

(* A handler with the local variables l.                                   *)
LEMMA NouveauVa ==
  ASSUME TypeInv, NEW q \in Requetes, NEW e \in Etapes, NEW l \in Locales, Vers(q, e),
         loc' = [loc EXCEPT ![q] = l],
         EtapeBonne(e, l), OrigineOrdre(q, e, l),
         OrigineDistribution(q, e, l), OrigineMembre(q, e, l)
  PROVE  Avancee(q)
  BY DEF Avancee, Va, Vers

(* Joining and leaving.                                                    *)
LEMMA AdhesionAvance ==
  ASSUME TypeInv, NEW q \in Requetes,
         \/ Rejoindre(q) \/ VerifierAdhesion(q) \/ Inscrire(q) \/ ChercherPlace(q)
         \/ CreerPlace(q) \/ Quitter(q) \/ Partir(q)
  PROVE  Avancee(q)
<1>. TypeOK
  BY DEF TypeInv
<1>0. EtapeBonne(pc[q], loc[q]) /\ loc[q] \in Locales
  BY Lignes DEF TypeInv, EtapeOK
<1>1. CASE Rejoindre(q)
  <2>1. PICK m \in Membres, c \in Cautions :
           Commencer(q, "lireMembre", [Repos EXCEPT !.qui = m, !.montant = c])
    BY <1>1 DEF Rejoindre
  <2>2. PICK l : l = [Repos EXCEPT !.qui = m, !.montant = c]
    OBVIOUS
  <2>3. PICK r \in Locales : r = Repos
    BY ChampsRepos
  <2>4. l \in Locales /\ l.qui = m /\ l.lot = {}
    <3>1. c \in Int
      BY GroupeAssumption
    <3>. QED
      BY <2>2, <2>3, <3>1, ChampsRepos DEF Locales
  <2>5. pc[q] = "libre" /\ Vers(q, "lireMembre") /\ loc' = [loc EXCEPT ![q] = l]
    BY <2>1, <2>2 DEF Commencer
  <2>6. EtapeBonne("lireMembre", l) /\ "lireMembre" \in Etapes
    BY <2>4 DEF EtapeBonne, Transfere, AvecLot, Etapes, Rejoint
  <2>7. ~Choisir(q)
    BY <2>5 DEF Choisir
  <2>8. OrigineOrdre(q, "lireMembre", l) /\ OrigineDistribution(q, "lireMembre", l)
    BY <1>1, <2>5, <2>7 DEF OrigineOrdre, OrigineDistribution, Ordonne, Active, Apres,
       Distribue, Transfere, Place
  <2>9. OrigineMembre(q, "lireMembre", l)
    BY <1>1, <2>4 DEF OrigineMembre, AvecLot
  <2>. QED
    BY <2>4, <2>5, <2>6, <2>8, <2>9, NouveauVa
<1>2. CASE VerifierAdhesion(q)
  <2>1. pc[q] \in {"lireMembre", "compterMembres"}
    BY <1>2 DEF VerifierAdhesion
  <2>2. \/ Repondre(q)
        \/ Vers(q, "compterMembres") /\ UNCHANGED loc
        \/ Vers(q, "inscrire") /\ UNCHANGED loc
    BY <1>2 DEF VerifierAdhesion, Si
  <2>3. CASE Repondre(q)
    BY <2>1, <2>3, RepondreVa DEF Place, Transfere
  <2>4. ASSUME NEW e \in {"compterMembres", "inscrire"}, Vers(q, e), UNCHANGED loc
        PROVE  Avancee(q)
    <3>1. EtapeBonne(e, loc[q]) /\ e \in Etapes
      BY <1>0, <2>1 DEF EtapeBonne, Transfere, AvecLot, Etapes, Rejoint, SurMembre, Adhere
    <3>2. ~Choisir(q)
      BY <2>1 DEF Choisir
    <3>3. OrigineOrdre(q, e, loc[q]) /\ OrigineDistribution(q, e, loc[q])
      BY <2>1, <3>2 DEF OrigineOrdre, OrigineDistribution, Ordonne, Active, Apres,
         Distribue, Transfere, Place, Adhere, Rejoint
    <3>4. OrigineMembre(q, e, loc[q])
      BY <2>1 DEF OrigineMembre, AvecLot, Rejoint
    <3>. QED
      BY <2>4, <3>1, <3>3, <3>4, GardeVa
  <2>. QED
    BY <2>2, <2>3, <2>4
<1>3. CASE Inscrire(q)
  <2>1. pc[q] = "inscrire" /\ Vers(q, "chercherPlace") /\ UNCHANGED loc
    BY <1>3 DEF Inscrire
  <2>2. EtapeBonne("chercherPlace", loc[q]) /\ "chercherPlace" \in Etapes
    BY <1>0, <2>1 DEF EtapeBonne, Transfere, AvecLot, Etapes, Rejoint, SurMembre, Adhere,
       Place
  <2>3. ~Choisir(q)
    BY <2>1 DEF Choisir
  <2>4. OrigineOrdre(q, "chercherPlace", loc[q])
        /\ OrigineDistribution(q, "chercherPlace", loc[q])
    BY <2>1, <2>3 DEF OrigineOrdre, OrigineDistribution, Ordonne, Active, Apres,
       Distribue, Transfere, Place, Adhere, Rejoint
  <2>5. OrigineMembre(q, "chercherPlace", loc[q])
    BY <2>1 DEF OrigineMembre, AvecLot, Rejoint
  <2>. QED
    BY <2>1, <2>2, <2>4, <2>5, GardeVa
<1>4. CASE ChercherPlace(q)
  <2>1. CASE pc[q] = "chercherPlace"
    <3>1. Si(q, \A p \in DOMAIN ordre : ordre[p].qui # loc[q].qui, "compterOrdre")
      BY <1>4, <2>1 DEF ChercherPlace
    <3>2. CASE Repondre(q) /\ \E p \in DOMAIN ordre : ordre[p].qui = loc[q].qui
      BY <2>1, <3>2, RepondreVa DEF Transfere
    <3>3. CASE /\ Vers(q, "compterOrdre") /\ UNCHANGED loc
               /\ \A p \in DOMAIN ordre : ordre[p].qui # loc[q].qui
      <4>1. EtapeBonne("compterOrdre", loc[q]) /\ "compterOrdre" \in Etapes
        BY <1>0, <2>1 DEF EtapeBonne, Transfere, AvecLot, Etapes, SurMembre, Adhere, Place
      <4>2. ~Choisir(q)
        BY <2>1 DEF Choisir
      <4>3. OrigineOrdre(q, "compterOrdre", loc[q])
            /\ OrigineDistribution(q, "compterOrdre", loc[q])
        BY <2>1, <3>3, <4>2 DEF OrigineOrdre, OrigineDistribution, Ordonne, Active, Apres,
           Distribue, Transfere, Place, Adhere, Rejoint
      <4>4. OrigineMembre(q, "compterOrdre", loc[q])
        BY DEF OrigineMembre, AvecLot, Rejoint
      <4>. QED
        BY <3>3, <4>1, <4>3, <4>4, GardeVa
    <3>. QED
      BY <3>1, <3>2, <3>3 DEF Si
  <2>2. CASE pc[q] = "compterOrdre"
    <3>1. Vers(q, "creerPlace") /\ loc' = [loc EXCEPT ![q].n = Len(ordre)]
      BY <1>4, <2>2 DEF ChercherPlace
    <3>2. PICK k \in Locales : k = loc[q]
      BY <1>0
    <3>3. PICK l : l = [k EXCEPT !.n = Len(ordre)]
      OBVIOUS
    <3>4. Len(ordre) \in Nat
      BY Lignes
    <3>5. l \in Locales /\ l.qui = k.qui /\ l.lot = k.lot
      BY <3>3, <3>4 DEF Locales
    <3>6. loc' = [loc EXCEPT ![q] = l]
      BY <3>1, <3>2, <3>3
    <3>7. EtapeBonne("creerPlace", l) /\ "creerPlace" \in Etapes
      BY <1>0, <2>2, <3>2, <3>5 DEF EtapeBonne, Transfere, AvecLot, Etapes, SurMembre,
         Adhere, Place
    <3>8. ~Choisir(q)
      BY <2>2 DEF Choisir
    <3>9. OrigineOrdre(q, "creerPlace", l) /\ OrigineDistribution(q, "creerPlace", l)
      BY <2>2, <3>2, <3>5, <3>8 DEF OrigineOrdre, OrigineDistribution, Ordonne, Active,
         Apres, Distribue, Transfere, Place, Adhere, Rejoint
    <3>10. OrigineMembre(q, "creerPlace", l)
      BY <3>2, <3>5 DEF OrigineMembre, AvecLot, Rejoint
    <3>. QED
      BY <3>1, <3>5, <3>6, <3>7, <3>9, <3>10, NouveauVa
  <2>. QED
    BY <1>4, <2>1, <2>2 DEF ChercherPlace
<1>5. CASE CreerPlace(q)
  <2>1. pc[q] = "creerPlace" /\ Repondre(q)
    BY <1>5 DEF CreerPlace
  <2>. QED
    BY <1>5, <2>1, RepondreVa DEF Transfere
<1>6. CASE Quitter(q)
  <2>1. PICK m \in Actifs : Commencer(q, "quitter", [Repos EXCEPT !.qui = m])
    BY <1>6 DEF Quitter
  <2>2. PICK l : l = [Repos EXCEPT !.qui = m]
    OBVIOUS
  <2>3. m \in Membres
    BY DEF Actifs
  <2>4. l \in Locales /\ l.qui = m /\ l.lot = {}
    <3>1. PICK r \in Locales : r = Repos
      BY ChampsRepos
    <3>. QED
      BY <2>2, <2>3, <3>1, ChampsRepos DEF Locales
  <2>5. pc[q] = "libre" /\ Vers(q, "quitter") /\ loc' = [loc EXCEPT ![q] = l]
    BY <2>1, <2>2 DEF Commencer
  <2>6. EtapeBonne("quitter", l) /\ "quitter" \in Etapes
    BY <2>3, <2>4 DEF EtapeBonne, Transfere, AvecLot, Etapes, Rejoint
  <2>7. ~Choisir(q)
    BY <2>5 DEF Choisir
  <2>8. OrigineOrdre(q, "quitter", l) /\ OrigineDistribution(q, "quitter", l)
    BY <2>5, <2>7 DEF OrigineOrdre, OrigineDistribution, Ordonne, Active, Apres,
       Distribue, Transfere, Place, Adhere, Rejoint
  <2>9. OrigineMembre(q, "quitter", l)
    BY <1>6, <2>4 DEF OrigineMembre, AvecLot
  <2>. QED
    BY <2>4, <2>5, <2>6, <2>8, <2>9, NouveauVa
<1>7. CASE Partir(q)
  <2>1. pc[q] = "quitter" /\ Repondre(q)
    BY <1>7 DEF Partir
  <2>. QED
    BY <2>1, RepondreVa DEF Transfere, Place
<1>. QED
  BY <1>1, <1>2, <1>3, <1>4, <1>5, <1>6, <1>7

(* A handler that starts, on no member.                                    *)
LEMMA DepartVa ==
  ASSUME TypeInv, NEW q \in Requetes, NEW l \in Locales, l.lot = {},
         NEW e \in {"listerActifs", "compterActifs", "compterNonServis", "suspendre",
                    "reactiver", "compterParts"},
         Commencer(q, e, l),
         e = "listerActifs" => Ordonner(q), e = "compterActifs" => ActiverTontine(q),
         e \in Apres => statut # "CREATION",
         e = "compterParts" => Distribuer(q) /\ l.montant = solde
  PROVE  Avancee(q)
<1>1. pc[q] = "libre" /\ Vers(q, e) /\ loc' = [loc EXCEPT ![q] = l]
  BY DEF Commencer
<1>2. ~Choisir(q)
  BY <1>1 DEF Choisir
<1>3. EtapeBonne(e, l) /\ e \in Etapes
  BY DEF EtapeBonne, SurMembre, Adhere, Rejoint, Place, Transfere, AvecLot, Etapes,
     Ordonne, Active, Distribue
<1>4. OrigineOrdre(q, e, l)
  BY <1>1 DEF OrigineOrdre, Adhere, Rejoint, Place, Ordonne, Active
<1>5. OrigineDistribution(q, e, l)
  BY <1>1, <1>2 DEF OrigineDistribution, Distribue, Transfere
<1>6. OrigineMembre(q, e, l)
  BY DEF OrigineMembre, Rejoint, AvecLot
<1>. QED
  BY <1>1, <1>3, <1>4, <1>5, <1>6, NouveauVa

(* A handler that prepares or ends the group goes on, and keeps what it     *)
(* holds but for the number counted and the mode.                          *)
LEMMA SuiteVa ==
  ASSUME TypeInv, NEW q \in Requetes, NEW l \in Locales, l.lot = loc[q].lot,
         NEW e \in {"listerActifs", "activer", "compterPlaces", "relireOrdre", "terminer"},
         Vers(q, e), loc' = [loc EXCEPT ![q] = l],
         e # "terminer" => pc[q] \in Ordonne \cup Active,
         e = "terminer" => pc[q] = "compterNonServis" /\ NonServis = {}
  PROVE  Avancee(q)
<1>0. EtapeBonne(pc[q], loc[q])
  BY DEF TypeInv, EtapeOK
<1>1. pc[q] \in Ordonne \cup Active \cup {"compterNonServis"}
  OBVIOUS
<1>2. ~Choisir(q)
  BY <1>1 DEF Choisir, Ordonne, Active
<1>3. EtapeBonne(e, l) /\ e \in Etapes
  BY <1>0, <1>1 DEF EtapeBonne, SurMembre, Adhere, Rejoint, Place, Transfere, AvecLot,
     Etapes, Ordonne, Active
<1>4. OrigineOrdre(q, e, l)
  BY <1>1 DEF OrigineOrdre, Adhere, Rejoint, Place, Ordonne, Active
<1>5. OrigineDistribution(q, e, l)
  BY <1>1, <1>2 DEF OrigineDistribution, Distribue, Transfere, Apres, Ordonne, Active
<1>6. OrigineMembre(q, e, l)
  BY DEF OrigineMembre, Rejoint, AvecLot
<1>. QED
  BY <1>3, <1>4, <1>5, <1>6, NouveauVa

(* The handler ends, when it holds no place.                               *)
LEMMA FinVa ==
  ASSUME TypeInv, NEW q \in Requetes, Repondre(q),
         pc[q] \notin Place \cup Transfere \cup {"inscrire", "choisir"}
  PROVE  Avancee(q)
  BY RepondreVa

(* The order of the draw.                                                  *)
LEMMA OrdreAvance ==
  ASSUME TypeInv, NEW q \in Requetes,
         \/ Ordonner(q) \/ RelireOrdre(q) \/ ListerActifs(q) \/ EcrireOrdre(q)
  PROVE  Avancee(q)
<1>. TypeOK
  BY DEF TypeInv
<1>0. EtapeBonne(pc[q], loc[q]) /\ loc[q] \in Locales
  BY Lignes DEF TypeInv, EtapeOK
<1>1. CASE Ordonner(q)
  <2>1. PICK c \in {"MANUEL", "ALEATOIRE"} :
           Commencer(q, "listerActifs", [Repos EXCEPT !.mode = c])
    BY <1>1 DEF Ordonner
  <2>2. PICK l : l = [Repos EXCEPT !.mode = c]
    OBVIOUS
  <2>3. l \in Locales /\ l.lot = {}
    BY <2>2, ChampsRepos DEF Locales
  <2>. QED
    BY <1>1, <2>1, <2>2, <2>3, DepartVa DEF Apres, Distribue, Transfere
<1>2. CASE RelireOrdre(q)
  <2>1. pc[q] = "relireOrdre" /\ Si(q, statut = "CREATION", "listerActifs")
    BY <1>2 DEF RelireOrdre
  <2>2. CASE Repondre(q)
    BY <2>1, <2>2, FinVa DEF Place, Transfere
  <2>3. CASE Vers(q, "listerActifs") /\ UNCHANGED loc
    <3>1. loc' = [loc EXCEPT ![q] = loc[q]]
      BY <2>3 DEF TypeOK
    <3>. QED
      BY <1>0, <2>1, <2>3, <3>1, SuiteVa DEF Ordonne
  <2>. QED
    BY <2>1, <2>2, <2>3 DEF Si
<1>3. CASE ListerActifs(q)
  <2>1. pc[q] = "listerActifs"
    BY <1>3 DEF ListerActifs
  <2>2. CASE Repondre(q)
    BY <2>1, <2>2, FinVa DEF Place, Transfere
  <2>3. ASSUME NEW s \in SetToSeqs(Actifs), Vers(q, "ecrireOrdre"),
               loc' = [loc EXCEPT ![q].suite = s]
        PROVE  Avancee(q)
    <3>1. Actifs \in SUBSET Membres /\ IsFiniteSet(Membres)
      BY GroupeAssumption DEF Actifs
    <3>2. IsFiniteSet(Actifs)
      BY <3>1, FS_Subset
    <3>3. /\ s \in Seq(Actifs) /\ Distincts(s)
          /\ \A x \in Actifs : \E i \in DOMAIN s : s[i] = x
      BY <3>2, ListeComplete
    <3>4. s \in Seq(Membres)
      BY <3>1, <3>3
    <3>5. PICK k \in Locales : k = loc[q]
      BY <1>0
    <3>6. PICK l : l = [k EXCEPT !.suite = s]
      OBVIOUS
    <3>7. l \in Locales /\ l.suite = s /\ l.lot = k.lot
      BY <3>4, <3>6 DEF Locales
    <3>8. loc' = [loc EXCEPT ![q] = l]
      BY <2>3, <3>5, <3>6
    <3>9. EtapeBonne("ecrireOrdre", l) /\ "ecrireOrdre" \in Etapes
      BY <1>0, <2>1, <3>3, <3>5, <3>7 DEF EtapeBonne, SurMembre, Adhere, Rejoint, Place,
         Transfere, AvecLot, Etapes, Ordonne
    <3>10. ~Choisir(q)
      BY <2>1 DEF Choisir
    <3>11. OrigineOrdre(q, "ecrireOrdre", l)
      BY <2>1, <3>3, <3>7 DEF OrigineOrdre, Adhere, Rejoint, Place, Ordonne, Active
    <3>12. OrigineDistribution(q, "ecrireOrdre", l)
      BY <2>1, <3>10 DEF OrigineDistribution, Distribue, Transfere, Apres
    <3>13. OrigineMembre(q, "ecrireOrdre", l)
      BY <3>5, <3>7 DEF OrigineMembre, Rejoint, AvecLot
    <3>. QED
      BY <2>3, <3>7, <3>8, <3>9, <3>11, <3>12, <3>13, NouveauVa
  <2>. QED
    BY <1>3, <2>2, <2>3 DEF ListerActifs
<1>4. CASE EcrireOrdre(q)
  <2>1. pc[q] = "ecrireOrdre" /\ Si(q, loc[q].mode = "ACTIVATION", "activer")
    BY <1>4 DEF EcrireOrdre
  <2>2. CASE Repondre(q)
    BY <2>1, <2>2, FinVa DEF Place, Transfere
  <2>3. CASE Vers(q, "activer") /\ UNCHANGED loc
    <3>1. loc' = [loc EXCEPT ![q] = loc[q]]
      BY <2>3 DEF TypeOK
    <3>. QED
      BY <1>0, <2>1, <2>3, <3>1, SuiteVa DEF Ordonne
  <2>. QED
    BY <2>1, <2>2, <2>3 DEF Si
<1>. QED
  BY <1>1, <1>2, <1>3, <1>4

(* Activation, end, suspension.                                            *)
LEMMA StatutAvance ==
  ASSUME TypeInv, NEW q \in Requetes,
         \/ ActiverTontine(q) \/ CompterActifs(q) \/ CompterPlaces(q)
         \/ TerminerTontine(q) \/ CompterNonServis(q) \/ Suspendre(q) \/ Reactiver(q)
         \/ EcrireStatut(q)
  PROVE  Avancee(q)
<1>. TypeOK
  BY DEF TypeInv
<1>0. EtapeBonne(pc[q], loc[q]) /\ loc[q] \in Locales
  BY Lignes DEF TypeInv, EtapeOK
<1>1. CASE ActiverTontine(q)
  <2>1. Commencer(q, "compterActifs", [Repos EXCEPT !.mode = mode])
    BY <1>1 DEF ActiverTontine
  <2>2. PICK m \in {"MANUEL", "ALEATOIRE"} : m = mode
    BY DEF TypeOK
  <2>3. PICK l : l = [Repos EXCEPT !.mode = m]
    OBVIOUS
  <2>4. l \in Locales /\ l.lot = {}
    BY <2>3, ChampsRepos DEF Locales
  <2>. QED
    BY <1>1, <2>1, <2>2, <2>3, <2>4, DepartVa DEF Apres, Distribue, Transfere
<1>2. CASE CompterActifs(q)
  <2>1. pc[q] = "compterActifs"
    BY <1>2 DEF CompterActifs
  <2>2. CASE Repondre(q)
    BY <2>1, <2>2, FinVa DEF Place, Transfere
  <2>3. PICK k \in Locales : k = loc[q]
    BY <1>0
  <2>4. CASE Vers(q, "compterPlaces") /\ loc' = [loc EXCEPT ![q].n = Cardinality(Actifs)]
    <3>1. Actifs \in SUBSET Membres /\ IsFiniteSet(Membres)
      BY GroupeAssumption DEF Actifs
    <3>2. PICK n \in Nat : n = Cardinality(Actifs)
      BY <3>1, FS_Subset, FS_CardinalityType
    <3>3. PICK l : l = [k EXCEPT !.n = n]
      OBVIOUS
    <3>4. l \in Locales /\ l.lot = k.lot
      BY <3>3 DEF Locales
    <3>5. loc' = [loc EXCEPT ![q] = l]
      BY <2>3, <2>4, <3>2, <3>3
    <3>. QED
      BY <2>1, <2>3, <2>4, <3>4, <3>5, SuiteVa DEF Active
  <2>5. CASE Vers(q, "relireOrdre") /\ loc' = [loc EXCEPT ![q].mode = "ACTIVATION"]
    <3>1. PICK l : l = [k EXCEPT !.mode = "ACTIVATION"]
      OBVIOUS
    <3>2. l \in Locales /\ l.lot = k.lot
      BY <3>1 DEF Locales
    <3>3. loc' = [loc EXCEPT ![q] = l]
      BY <2>3, <2>5, <3>1
    <3>. QED
      BY <2>1, <2>3, <2>5, <3>2, <3>3, SuiteVa DEF Active
  <2>. QED
    BY <1>2, <2>2, <2>4, <2>5 DEF CompterActifs
<1>3. CASE CompterPlaces(q)
  <2>1. pc[q] = "compterPlaces" /\ Si(q, Len(ordre) >= loc[q].n, "activer")
    BY <1>3 DEF CompterPlaces
  <2>2. CASE Repondre(q)
    BY <2>1, <2>2, FinVa DEF Place, Transfere
  <2>3. CASE Vers(q, "activer") /\ UNCHANGED loc
    <3>1. loc' = [loc EXCEPT ![q] = loc[q]]
      BY <2>3 DEF TypeOK
    <3>. QED
      BY <1>0, <2>1, <2>3, <3>1, SuiteVa DEF Active
  <2>. QED
    BY <2>1, <2>2, <2>3 DEF Si
<1>4. CASE TerminerTontine(q)
  <2>1. Commencer(q, "compterNonServis", Repos) /\ statut = "ACTIVE"
    BY <1>4 DEF TerminerTontine
  <2>. QED
    BY <2>1, ChampsRepos, DepartVa
<1>5. CASE CompterNonServis(q)
  <2>1. pc[q] = "compterNonServis" /\ Si(q, NonServis = {}, "terminer")
    BY <1>5 DEF CompterNonServis
  <2>2. CASE Repondre(q)
    BY <2>1, <2>2, FinVa DEF Place, Transfere
  <2>3. CASE Vers(q, "terminer") /\ UNCHANGED loc /\ NonServis = {}
    <3>1. loc' = [loc EXCEPT ![q] = loc[q]]
      BY <2>3 DEF TypeOK
    <3>. QED
      BY <1>0, <2>1, <2>3, <3>1, SuiteVa
  <2>. QED
    BY <2>1, <2>2, <2>3 DEF Si
<1>6. CASE Suspendre(q)
  <2>1. Commencer(q, "suspendre", Repos) /\ statut = "ACTIVE"
    BY <1>6 DEF Suspendre
  <2>. QED
    BY <2>1, ChampsRepos, DepartVa
<1>7. CASE Reactiver(q)
  <2>1. Commencer(q, "reactiver", Repos) /\ statut = "SUSPENDUE"
    BY <1>7 DEF Reactiver
  <2>. QED
    BY <2>1, ChampsRepos, DepartVa
<1>8. CASE EcrireStatut(q)
  <2>1. Repondre(q) /\ pc[q] \in {"activer", "reactiver", "suspendre", "terminer", "cloturer"}
    BY <1>8 DEF EcrireStatut
  <2>. QED
    BY <2>1, FinVa DEF Place, Transfere
<1>. QED
  BY <1>1, <1>2, <1>3, <1>4, <1>5, <1>6, <1>7, <1>8

(* The distribution.                                                       *)
LEMMA DistributionAvance ==
  ASSUME TypeInv, NEW q \in Requetes,
         \/ Distribuer(q) \/ CompterParts(q) \/ Choisir(q) \/ CompterRestants(q)
         \/ Enregistrer(q)
  PROVE  Avancee(q)
<1>. TypeOK
  BY DEF TypeInv
<1>0. EtapeBonne(pc[q], loc[q]) /\ loc[q] \in Locales
  BY Lignes DEF TypeInv, EtapeOK
<1>1. CASE Distribuer(q)
  <2>1. Commencer(q, "compterParts", [Repos EXCEPT !.montant = solde]) /\ statut = "ACTIVE"
    BY <1>1 DEF Distribuer
  <2>2. PICK n \in Nat : n = solde
    BY DEF TypeOK
  <2>3. PICK l : l = [Repos EXCEPT !.montant = n]
    OBVIOUS
  <2>4. l \in Locales /\ l.lot = {} /\ l.montant = n
    BY <2>3, ChampsRepos DEF Locales
  <2>. QED
    BY <1>1, <2>1, <2>2, <2>3, <2>4, DepartVa
<1>2. CASE CompterParts(q)
  <2>1. /\ pc[q] = "compterParts"
        /\ \/ Si(q, Cardinality(Actifs) * Part <= loc[q].montant, "choisir")
           \/ Repondre(q)
    BY <1>2 DEF CompterParts
  <2>2. CASE Repondre(q)
    BY <2>1, <2>2, FinVa DEF Place, Transfere
  <2>3. CASE Vers(q, "choisir") /\ UNCHANGED loc
    <3>1. EtapeBonne("choisir", loc[q]) /\ "choisir" \in Etapes
      BY <1>0, <2>1 DEF EtapeBonne, SurMembre, Adhere, Rejoint, Place, Transfere, AvecLot,
         Etapes, Distribue
    <3>2. ~Choisir(q)
      BY <2>1 DEF Choisir
    <3>3. OrigineOrdre(q, "choisir", loc[q])
      BY <2>1 DEF OrigineOrdre, Adhere, Rejoint, Place, Ordonne, Active
    <3>4. OrigineDistribution(q, "choisir", loc[q])
      BY <2>1, <3>2 DEF OrigineDistribution, Distribue, Transfere, Apres
    <3>5. OrigineMembre(q, "choisir", loc[q])
      BY DEF OrigineMembre, Rejoint, AvecLot
    <3>. QED
      BY <2>3, <3>1, <3>3, <3>4, <3>5, GardeVa
  <2>. QED
    BY <2>1, <2>2, <2>3 DEF Si
<1>3. CASE Choisir(q)
  <2>1. pc[q] = "choisir"
    BY <1>3 DEF Choisir
  <2>2. CASE /\ NonServis = {} /\ Vers(q, "cloturer") /\ UNCHANGED <<loc, versements, attendu>>
    <3>1. EtapeBonne("cloturer", loc[q]) /\ "cloturer" \in Etapes
      BY <1>0, <2>1 DEF EtapeBonne, SurMembre, Adhere, Rejoint, Place, Transfere, AvecLot,
         Etapes
    <3>2. OrigineOrdre(q, "cloturer", loc[q])
      BY <2>1 DEF OrigineOrdre, Adhere, Rejoint, Place, Ordonne, Active
    <3>3. OrigineDistribution(q, "cloturer", loc[q])
      BY <2>1, <2>2 DEF OrigineDistribution, Distribue, Transfere, Apres
    <3>4. OrigineMembre(q, "cloturer", loc[q])
      BY DEF OrigineMembre, Rejoint, AvecLot
    <3>. QED
      BY <2>2, <3>1, <3>2, <3>3, <3>4, GardeVa
  <2>3. ASSUME NEW p \in NonServis,
               versements' = [versements EXCEPT ![ordre[p].qui] = @ + 1],
               attendu' = attendu - loc[q].montant,
               loc' = [loc EXCEPT ![q].place = p, ![q].tirage = tirages],
               Vers(q, "compterRestants")
        PROVE  Avancee(q)
    <3>1. p \in DOMAIN ordre /\ p \in Nat /\ tirages \in Nat
      BY Lignes DEF NonServis
    <3>2. PICK k \in Locales : k = loc[q]
      BY <1>0
    <3>3. PICK l : l = [k EXCEPT !.place = p, !.tirage = tirages]
      OBVIOUS
    <3>4. /\ l \in Locales /\ l.lot = k.lot /\ l.place = p /\ l.tirage = tirages
          /\ l.montant = k.montant
      BY <3>1, <3>3 DEF Locales
    <3>5. loc' = [loc EXCEPT ![q] = l]
      BY <2>3, <3>2, <3>3
    <3>6. EtapeBonne("compterRestants", l) /\ "compterRestants" \in Etapes
      BY <1>0, <2>1, <3>1, <3>2, <3>4 DEF EtapeBonne, SurMembre, Adhere, Rejoint, Place,
         Transfere, AvecLot, Etapes, Distribue
    <3>7. OrigineOrdre(q, "compterRestants", l)
      BY <2>1 DEF OrigineOrdre, Adhere, Rejoint, Place, Ordonne, Active
    <3>8. OrigineDistribution(q, "compterRestants", l)
      BY <1>3, <2>1, <2>3, <3>2, <3>4 DEF OrigineDistribution, Distribue, Transfere, Apres
    <3>9. OrigineMembre(q, "compterRestants", l)
      BY <3>2, <3>4 DEF OrigineMembre, Rejoint, AvecLot
    <3>. QED
      BY <2>3, <3>4, <3>5, <3>6, <3>7, <3>8, <3>9, NouveauVa
  <2>. QED
    BY <1>3, <2>2, <2>3 DEF Choisir
<1>4. CASE CompterRestants(q)
  <2>1. /\ pc[q] = "compterRestants" /\ Vers(q, "enregistrer")
        /\ loc' = [loc EXCEPT ![q].n = Cardinality(NonServis)]
    BY <1>4 DEF CompterRestants
  <2>2. PICK n \in Nat : n = Cardinality(NonServis)
    <3>1. DOMAIN ordre = 1 .. Len(ordre) /\ Len(ordre) \in Nat
      BY Lignes
    <3>2. NonServis \in SUBSET (1 .. Len(ordre)) /\ IsFiniteSet(1 .. Len(ordre))
      BY <3>1, FS_Interval DEF NonServis
    <3>. QED
      BY <3>2, FS_Subset, FS_CardinalityType
  <2>3. PICK k \in Locales : k = loc[q]
    BY <1>0
  <2>4. PICK l : l = [k EXCEPT !.n = n]
    OBVIOUS
  <2>5. /\ l \in Locales /\ l.lot = k.lot /\ l.n = n /\ l.place = k.place
        /\ l.tirage = k.tirage /\ l.montant = k.montant
    BY <2>4 DEF Locales
  <2>6. loc' = [loc EXCEPT ![q] = l]
    BY <2>1, <2>2, <2>3, <2>4
  <2>7. EtapeBonne("enregistrer", l) /\ "enregistrer" \in Etapes
    BY <1>0, <2>1, <2>3, <2>5 DEF EtapeBonne, SurMembre, Adhere, Rejoint, Place,
       Transfere, AvecLot, Etapes, Distribue
  <2>8. ~Choisir(q)
    BY <2>1 DEF Choisir
  <2>9. OrigineOrdre(q, "enregistrer", l)
    BY <2>1 DEF OrigineOrdre, Adhere, Rejoint, Place, Ordonne, Active
  <2>10. OrigineDistribution(q, "enregistrer", l)
    BY <2>1, <2>2, <2>3, <2>5, <2>8 DEF OrigineDistribution, Distribue, Transfere, Apres
  <2>11. OrigineMembre(q, "enregistrer", l)
    BY <2>3, <2>5 DEF OrigineMembre, Rejoint, AvecLot
  <2>. QED
    BY <2>1, <2>5, <2>6, <2>7, <2>9, <2>10, <2>11, NouveauVa
<1>5. CASE Enregistrer(q)
  <2>1. pc[q] = "enregistrer" /\ Repondre(q)
    BY <1>5 DEF Enregistrer
  <2>. QED
    BY <1>5, <2>1, RepondreVa DEF Place
<1>. QED
  BY <1>1, <1>2, <1>3, <1>4, <1>5

(* The daily job.                                                          *)
LEMMA JobAvance ==
  ASSUME TypeInv, NEW q \in Requetes, Detecter(q) \/ Examiner(q) \/ Defaillir(q)
  PROVE  Avancee(q)
<1>. TypeOK
  BY DEF TypeInv
<1>0. EtapeBonne(pc[q], loc[q]) /\ loc[q] \in Locales
  BY Lignes DEF TypeInv, EtapeOK
<1>1. ASSUME NEW lot \in SUBSET Lu, MembreSuivant(q, lot),
             pc[q] \in AvecLot /\ lot \subseteq loc[q].lot,
             \A x, y \in lot : x.qui = y.qui => x = y
      PROVE  Avancee(q)
  <2>1. CASE lot = {}
    <3>1. Repondre(q)
      BY <1>1, <2>1 DEF MembreSuivant
    <3>. QED
      BY <1>1, <3>1, FinVa DEF AvecLot, Place, Transfere
  <2>2. CASE lot # {}
    <3>1. PICK l : l = [Repos EXCEPT !.lot = lot]
      OBVIOUS
    <3>2. l \in Locales /\ l.lot = lot
      BY <3>1, ChampsRepos DEF Locales
    <3>3. Vers(q, "examiner") /\ loc' = [loc EXCEPT ![q] = l]
      BY <1>1, <2>2, <3>1 DEF MembreSuivant
    <3>4. EtapeBonne("examiner", l) /\ "examiner" \in Etapes
      BY <1>1, <3>2 DEF EtapeBonne, SurMembre, Adhere, Rejoint, Place, Transfere, AvecLot, Etapes
    <3>5. ~Choisir(q)
      BY <1>1 DEF Choisir, AvecLot
    <3>6. OrigineOrdre(q, "examiner", l)
      BY <1>1 DEF OrigineOrdre, Adhere, Rejoint, Place, Ordonne, Active, AvecLot
    <3>7. OrigineDistribution(q, "examiner", l)
      BY <1>1, <3>5 DEF OrigineDistribution, Distribue, Transfere, Apres, AvecLot
    <3>8. OrigineMembre(q, "examiner", l)
      BY <1>1, <3>2 DEF OrigineMembre, Rejoint
    <3>. QED
      BY <3>2, <3>3, <3>4, <3>6, <3>7, <3>8, NouveauVa
  <2>. QED
    BY <2>1, <2>2
<1>2. CASE Detecter(q)
  <2>0. PICK payeurs \in SUBSET AListes : \E lus, lot :
           /\ lus = {[qui |-> m, paye |-> m \in payeurs, nb |-> membres[m].nb,
                      caution |-> membres[m].caution] : m \in AListes}
           /\ lot = {x \in lus : \/ ~x.paye \/ x.nb > 0
                                 \/ membres[x.qui].statut = "DEFAILLANT"}
           /\ Commencer(q, "examiner", [Repos EXCEPT !.lot = lot])
    BY <1>2 DEF Detecter
  <2>1. PICK lus, lot :
           /\ lus = {[qui |-> m, paye |-> m \in payeurs, nb |-> membres[m].nb,
                      caution |-> membres[m].caution] : m \in AListes}
           /\ lot = {x \in lus : \/ ~x.paye \/ x.nb > 0
                                 \/ membres[x.qui].statut = "DEFAILLANT"}
           /\ Commencer(q, "examiner", [Repos EXCEPT !.lot = lot])
    BY <2>0
  <2>2. ASSUME NEW x \in lus
        PROVE  /\ x \in Lu /\ x.qui \in AListes /\ x.nb = membres[x.qui].nb
    <3>1. PICK m \in AListes : x = [qui |-> m, paye |-> m \in payeurs,
                                    nb |-> membres[m].nb, caution |-> membres[m].caution]
      BY <2>1
    <3>2. PICK d \in Membre : d = membres[m]
      BY <3>1, Lignes DEF AListes
    <3>3. PICK b \in BOOLEAN : b <=> (m \in payeurs)
      OBVIOUS
    <3>4. x = [qui |-> m, paye |-> b, nb |-> d.nb, caution |-> d.caution]
      BY <3>1, <3>2, <3>3
    <3>5. m \in Membres /\ d.nb \in Nat /\ d.caution \in Int
      BY <3>1, <3>2, ChampsMembre DEF AListes
    <3>. QED
      BY <3>1, <3>2, <3>4, <3>5 DEF Lu
  <2>3. \A x, y \in lot : x.qui = y.qui => x = y
    BY <2>1
  <2>4. lot \subseteq Lu /\ \A x \in lot : LuPar(x)
    <3>1. ASSUME NEW x \in lot PROVE x \in Lu /\ LuPar(x)
      <4>1. x \in lus /\ (~x.paye \/ x.nb > 0 \/ membres[x.qui].statut = "DEFAILLANT")
        BY <2>1
      <4>. QED
        BY <2>2, <4>1 DEF LuPar
    <3>. QED
      BY <3>1
  <2>5. PICK l : l = [Repos EXCEPT !.lot = lot]
    OBVIOUS
  <2>6. l \in Locales /\ l.lot = lot
    BY <2>4, <2>5, ChampsRepos DEF Locales
  <2>7. pc[q] = "libre" /\ Vers(q, "examiner") /\ loc' = [loc EXCEPT ![q] = l]
    BY <2>1, <2>5 DEF Commencer
  <2>8. EtapeBonne("examiner", l) /\ "examiner" \in Etapes
    BY <2>6, <2>3 DEF EtapeBonne, SurMembre, Adhere, Rejoint, Place, Transfere, AvecLot, Etapes
  <2>9. ~Choisir(q)
    BY <2>7 DEF Choisir
  <2>10. OrigineOrdre(q, "examiner", l) /\ OrigineDistribution(q, "examiner", l)
    BY <2>7, <2>9 DEF OrigineOrdre, OrigineDistribution, Distribue, Transfere, Apres,
       Adhere, Rejoint, Place, Ordonne, Active
  <2>11. OrigineMembre(q, "examiner", l)
    BY <1>2, <2>4, <2>6 DEF OrigineMembre, Rejoint
  <2>. QED
    BY <2>6, <2>7, <2>8, <2>10, <2>11, NouveauVa
<1>3. CASE Examiner(q)
  <2>1. pc[q] = "examiner"
    BY <1>3 DEF Examiner
  <2>2. PICK x \in loc[q].lot :
           /\ x \in Lu /\ x.qui \in Membres
           /\ \/ x.paye /\ MembreSuivant(q, loc[q].lot \ {x})
              \/ /\ ~x.paye /\ Vers(q, "defaillir")
                 /\ loc' = [loc EXCEPT ![q] = [Repos EXCEPT !.qui = x.qui, !.n = x.nb,
                                               !.lot = loc[q].lot \ {x}]]
    BY <1>3, ExaminerFait
  <2>3. PICK lot : lot = loc[q].lot \ {x}
    OBVIOUS
  <2>4. lot \in SUBSET Lu /\ lot \subseteq loc[q].lot
    BY <1>0, <2>3, ChampsLocaux
  <2>5. /\ \A y, z \in lot : y.qui = z.qui => y = z
        /\ \A y \in lot : y.qui # x.qui
    BY <1>0, <2>2, <2>3 DEF EtapeBonne
  <2>6. CASE MembreSuivant(q, lot)
    BY <1>1, <2>1, <2>4, <2>6, <2>5 DEF AvecLot
  <2>7. CASE /\ Vers(q, "defaillir")
             /\ loc' = [loc EXCEPT ![q] = [Repos EXCEPT !.qui = x.qui, !.n = x.nb,
                                           !.lot = lot]]
    <3>1. PICK l : l = [Repos EXCEPT !.qui = x.qui, !.n = x.nb, !.lot = lot]
      OBVIOUS
    <3>2. x.nb \in Nat
      BY <2>2 DEF Lu
    <3>3. l \in Locales /\ l.qui = x.qui /\ l.lot = lot
      BY <2>2, <2>4, <3>1, <3>2, ChampsRepos DEF Locales
    <3>4. loc' = [loc EXCEPT ![q] = l]
      BY <2>7, <3>1
    <3>5. EtapeBonne("defaillir", l) /\ "defaillir" \in Etapes
      BY <2>2, <2>5, <3>3 DEF EtapeBonne, SurMembre, Adhere, Rejoint, Place, Transfere,
         AvecLot, Etapes
    <3>6. ~Choisir(q)
      BY <2>1 DEF Choisir
    <3>7. OrigineOrdre(q, "defaillir", l) /\ OrigineDistribution(q, "defaillir", l)
      BY <2>1, <3>6 DEF OrigineOrdre, OrigineDistribution, Distribue, Transfere, Apres,
         Adhere, Rejoint, Place, Ordonne, Active
    <3>8. OrigineMembre(q, "defaillir", l)
      BY <2>1, <2>2, <2>4, <3>3 DEF OrigineMembre, Rejoint, AvecLot
    <3>. QED
      BY <2>7, <3>3, <3>4, <3>5, <3>7, <3>8, NouveauVa
  <2>. QED
    BY <2>2, <2>3, <2>6, <2>7
<1>4. CASE Defaillir(q)
  <2>1. pc[q] = "defaillir" /\ MembreSuivant(q, loc[q].lot)
    BY <1>4 DEF Defaillir
  <2>2. loc[q].lot \in SUBSET Lu /\ \A x, y \in loc[q].lot : x.qui = y.qui => x = y
    BY <1>0, ChampsLocaux DEF EtapeBonne
  <2>. QED
    BY <1>1, <2>1, <2>2 DEF AvecLot
<1>. QED
  BY <1>2, <1>3, <1>4

(* Every step of a handler is such a move.                                 *)
LEMMA TraiterAvance ==
  ASSUME TypeInv, NEW q \in Requetes, Traiter(q)
  PROVE  Avancee(q)
  BY AdhesionAvance, OrdreAvance, StatutAvance, DistributionAvance, JobAvance DEF Traiter

(* What a move says of the handlers, the others included.                  *)
LEMMA Mouvement ==
  ASSUME TypeInv, NEW q \in Requetes, Avancee(q)
  PROVE  /\ pc' \in [Requetes -> Etapes] /\ loc' \in [Requetes -> Locales]
         /\ \A p \in Requetes \ {q} : pc'[p] = pc[p] /\ loc'[p] = loc[p]
         /\ EtapeBonne(pc'[q], loc'[q])
         /\ OrigineOrdre(q, pc'[q], loc'[q])
         /\ OrigineDistribution(q, pc'[q], loc'[q])
         /\ OrigineMembre(q, pc'[q], loc'[q])
<1>1. PICK e \in Etapes, l \in Locales :
         /\ Va(q, e, l) /\ EtapeBonne(e, l)
         /\ OrigineOrdre(q, e, l) /\ OrigineDistribution(q, e, l) /\ OrigineMembre(q, e, l)
  BY DEF Avancee
<1>2. /\ pc' \in [Requetes -> Etapes] /\ loc' \in [Requetes -> Locales]
      /\ pc'[q] = e /\ loc'[q] = l
      /\ \A p \in Requetes \ {q} : pc'[p] = pc[p] /\ loc'[p] = loc[p]
  BY <1>1 DEF Va, TypeInv, TypeOK
<1>. QED
  BY <1>1, <1>2

-----------------------------------------------------------------------------
(* Which action writes which table.                                        *)

(* Each table and counter has its writers.                                 *)
LEMMA QuiEcrit ==
  ASSUME NEW q \in Requetes, Traiter(q)
  PROVE  /\ \/ UNCHANGED membres
            \/ Inscrire(q) \/ Partir(q) \/ Enregistrer(q) \/ Examiner(q) \/ Defaillir(q)
         /\ \/ UNCHANGED <<ordre, tirages>>
            \/ CreerPlace(q) \/ EcrireOrdre(q) \/ Enregistrer(q)
         /\ UNCHANGED <<mode>> \/ EcrireOrdre(q)
         /\ UNCHANGED statut \/ EcrireStatut(q) \/ Enregistrer(q)
         /\ UNCHANGED solde \/ Enregistrer(q)
         /\ UNCHANGED <<attendu, versements>> \/ Choisir(q)
         /\ UNCHANGED paiements
         /\ UNCHANGED jobs \/ Detecter(q)
<1>1. CASE \/ Rejoindre(q) \/ VerifierAdhesion(q) \/ Inscrire(q) \/ ChercherPlace(q)
           \/ CreerPlace(q) \/ Quitter(q) \/ Partir(q)
  BY <1>1 DEF Rejoindre, VerifierAdhesion, Inscrire, ChercherPlace, CreerPlace, Quitter,
     Partir, argentVars, ordreVars, bornesVars
<1>2. CASE \/ Ordonner(q) \/ RelireOrdre(q) \/ ListerActifs(q) \/ EcrireOrdre(q)
           \/ ActiverTontine(q) \/ CompterActifs(q) \/ CompterPlaces(q)
  BY <1>2 DEF Ordonner, RelireOrdre, ListerActifs, EcrireOrdre, ActiverTontine,
     CompterActifs, CompterPlaces, argentVars, ordreVars, bornesVars
<1>3. CASE \/ TerminerTontine(q) \/ CompterNonServis(q) \/ Suspendre(q) \/ Reactiver(q)
           \/ EcrireStatut(q)
  BY <1>3 DEF TerminerTontine, CompterNonServis, Suspendre, Reactiver, EcrireStatut,
     argentVars, ordreVars, bornesVars
<1>4. CASE \/ Distribuer(q) \/ CompterParts(q) \/ Choisir(q) \/ CompterRestants(q)
           \/ Enregistrer(q)
  BY <1>4 DEF Distribuer, CompterParts, Choisir, CompterRestants, Enregistrer,
     argentVars, ordreVars, bornesVars
<1>5. CASE Detecter(q) \/ Examiner(q) \/ Defaillir(q)
  BY <1>5 DEF Detecter, Examiner, Defaillir, argentVars, ordreVars, bornesVars
<1>. QED
  BY <1>1, <1>2, <1>3, <1>4, <1>5 DEF Traiter

(* A flag that an accident raises.                                         *)
LEMMA Drapeau ==
  ASSUME NEW x \in BOOLEAN, NEW y, NEW z, z = x \/ z = (x \/ y)
  PROVE  z \in BOOLEAN /\ (x => z)
  OBVIOUS

(* The accidents only add up.                                              *)
LEMMA Accidents ==
  ASSUME TypeOK, Next
  PROVE  /\ defautCreation' \in BOOLEAN /\ (defautCreation => defautCreation')
         /\ coupure' \in BOOLEAN /\ (coupure => coupure')
         /\ courseSolde' \in BOOLEAN /\ (courseSolde => courseSolde')
         /\ courseDistribution' \in BOOLEAN /\ (courseDistribution => courseDistribution')
         /\ courseMembre' \in BOOLEAN /\ (courseMembre => courseMembre')
         /\ courseOrdre' \in BOOLEAN /\ (courseOrdre => courseOrdre')
<1>0. /\ defautCreation \in BOOLEAN /\ coupure \in BOOLEAN /\ courseSolde \in BOOLEAN
      /\ courseDistribution \in BOOLEAN /\ courseMembre \in BOOLEAN
      /\ courseOrdre \in BOOLEAN
  BY DEF TypeOK
<1>1. ASSUME NEW q \in Requetes, Traiter(q)
      PROVE  /\ UNCHANGED <<coupure, courseSolde>>
             /\ UNCHANGED defautCreation \/ Defaillir(q)
             /\ UNCHANGED courseDistribution \/ Distribuer(q)
             /\ UNCHANGED courseMembre \/ \E m : MarquerMembre(q, m)
             /\ UNCHANGED courseOrdre \/ \E m : MarquerOrdre(q, m)
  <2>1. CASE \/ Rejoindre(q) \/ VerifierAdhesion(q) \/ Inscrire(q) \/ ChercherPlace(q)
             \/ CreerPlace(q) \/ Quitter(q) \/ Partir(q)
    BY Zenon, <2>1 DEF Rejoindre, VerifierAdhesion, Inscrire, ChercherPlace, CreerPlace,
       Quitter, Partir, courseVars
  <2>2. CASE \/ Ordonner(q) \/ RelireOrdre(q) \/ ListerActifs(q) \/ EcrireOrdre(q)
             \/ ActiverTontine(q) \/ CompterActifs(q) \/ CompterPlaces(q)
    BY Zenon, <2>2 DEF Ordonner, RelireOrdre, ListerActifs, EcrireOrdre, ActiverTontine,
       CompterActifs, CompterPlaces, courseVars
  <2>3. CASE \/ TerminerTontine(q) \/ CompterNonServis(q) \/ Suspendre(q) \/ Reactiver(q)
             \/ EcrireStatut(q)
    BY Zenon, <2>3 DEF TerminerTontine, CompterNonServis, Suspendre, Reactiver,
       EcrireStatut, courseVars
  <2>4. CASE \/ Distribuer(q) \/ CompterParts(q) \/ Choisir(q) \/ CompterRestants(q)
             \/ Enregistrer(q)
    BY Zenon, <2>4 DEF Distribuer, CompterParts, Choisir, CompterRestants, Enregistrer,
       courseVars
  <2>5. CASE Detecter(q) \/ Examiner(q) \/ Defaillir(q)
    BY Zenon, <2>5 DEF Detecter, Examiner, Defaillir, courseVars
  <2>. QED
    BY <1>1, <2>1, <2>2, <2>3, <2>4, <2>5 DEF Traiter
<1>2. ASSUME NEW q \in Requetes, Traiter(q)
      PROVE  /\ defautCreation' \in BOOLEAN /\ (defautCreation => defautCreation')
             /\ coupure' = coupure /\ courseSolde' = courseSolde
             /\ courseDistribution' \in BOOLEAN /\ (courseDistribution => courseDistribution')
             /\ courseMembre' \in BOOLEAN /\ (courseMembre => courseMembre')
             /\ courseOrdre' \in BOOLEAN /\ (courseOrdre => courseOrdre')
  <2>1. /\ UNCHANGED <<coupure, courseSolde>>
        /\ UNCHANGED defautCreation \/ Defaillir(q)
        /\ UNCHANGED courseDistribution \/ Distribuer(q)
        /\ UNCHANGED courseMembre \/ \E m : MarquerMembre(q, m)
        /\ UNCHANGED courseOrdre \/ \E m : MarquerOrdre(q, m)
    BY <1>1, <1>2
  <2>2. defautCreation' \in BOOLEAN /\ (defautCreation => defautCreation')
    <3>1. \/ defautCreation' = defautCreation
          \/ defautCreation' = (defautCreation \/ statut = "CREATION")
      BY Zenon, <2>1 DEF Defaillir
    <3>. QED
      BY Zenon, <1>0, <3>1, Drapeau
  <2>3. courseDistribution' \in BOOLEAN /\ (courseDistribution => courseDistribution')
    <3>1. \/ courseDistribution' = courseDistribution
          \/ courseDistribution' = (courseDistribution \/ Autre(q, Distribue))
      BY Zenon, <2>1 DEF Distribuer
    <3>. QED
      BY Zenon, <1>0, <3>1, Drapeau
  <2>4. courseMembre' \in BOOLEAN /\ (courseMembre => courseMembre')
    <3>1. \/ courseMembre' = courseMembre
          \/ \E m : courseMembre' = (courseMembre \/ \E p \in Requetes \ {q} : Tient(p, m))
      BY Zenon, <2>1 DEF MarquerMembre
    <3>. QED
      BY Zenon, <1>0, <3>1, Drapeau
  <2>5. courseOrdre' \in BOOLEAN /\ (courseOrdre => courseOrdre')
    <3>1. \/ courseOrdre' = courseOrdre
          \/ \E y : courseOrdre' = (courseOrdre \/ y)
      BY Zenon, <2>1 DEF MarquerOrdre
    <3>. QED
      BY Zenon, <1>0, <3>1, Drapeau
  <2>. QED
    BY <2>1, <2>2, <2>3, <2>4, <2>5
<1>3. CASE \E q \in Requetes : Traiter(q)
  BY <1>0, <1>2, <1>3
<1>4. CASE Payer \/ Retirer
  BY <1>0, <1>4 DEF Payer, Retirer, MarquerSolde
<1>5. CASE Panne
  BY <1>0, <1>5 DEF Panne
<1>. QED
  BY <1>3, <1>4, <1>5 DEF Next

-----------------------------------------------------------------------------
(* The types.                                                              *)

(* A step of a handler keeps the types of the tables.                      *)
LEMMA TablesTypees ==
  ASSUME TypeInv, NEW q \in Requetes, Traiter(q)
  PROVE  /\ statut' \in {"CREATION", "ACTIVE", "SUSPENDUE", "TERMINEE"}
         /\ mode' \in {"MANUEL", "ALEATOIRE"} /\ solde' \in Nat /\ attendu' \in Int
         /\ membres' \in [Membres -> Membre]
         /\ ordre' \in Seq(Rang) /\ tirages' \in Nat
         /\ versements' \in [Membres -> Nat]
         /\ paiements' \in 0..MaxPaiements /\ jobs' \in 0..MaxJobs
<1>. TypeOK
  BY DEF TypeInv
<1>0. /\ statut \in {"CREATION", "ACTIVE", "SUSPENDUE", "TERMINEE"}
      /\ mode \in {"MANUEL", "ALEATOIRE"} /\ solde \in Nat /\ attendu \in Int
      /\ membres \in [Membres -> Membre]
      /\ ordre \in Seq(Rang) /\ tirages \in Nat
      /\ versements \in [Membres -> Nat]
      /\ paiements \in 0..MaxPaiements /\ jobs \in 0..MaxJobs
      /\ MaxJobs \in Nat
  BY GroupeAssumption DEF TypeOK
<1>1. statut' \in {"CREATION", "ACTIVE", "SUSPENDUE", "TERMINEE"}
  BY <1>0, QuiEcrit DEF EcrireStatut, Enregistrer
<1>2. mode' \in {"MANUEL", "ALEATOIRE"}
  BY <1>0, QuiEcrit DEF EcrireOrdre
<1>3. solde' \in Nat
  <2>1. CASE Enregistrer(q)
    <3>1. solde' = solde \/ solde' = 0
      BY <2>1 DEF Enregistrer
    <3>. QED
      BY <1>0, <3>1
  <2>. QED
    BY <1>0, <2>1, QuiEcrit
<1>4. attendu' \in Int /\ versements' \in [Membres -> Nat]
  <2>1. CASE UNCHANGED <<attendu, versements>>
    BY <1>0, <2>1
  <2>2. CASE Choisir(q)
    <3>1. PICK k \in Locales : k = loc[q]
      BY Lignes
    <3>2. k.montant \in Int
      BY ChampsLocaux
    <3>3. CASE UNCHANGED <<attendu, versements>>
      BY <1>0, <3>3
    <3>4. ASSUME NEW p \in NonServis, attendu' = attendu - k.montant,
                 versements' = [versements EXCEPT ![ordre[p].qui] = @ + 1]
          PROVE  attendu' \in Int /\ versements' \in [Membres -> Nat]
      <4>1. ordre[p].qui \in Membres
        BY Lignes, ChampsRang DEF NonServis
      <4>. QED
        BY <1>0, <3>2, <3>4, <4>1
    <3>. QED
      BY <2>2, <3>1, <3>3, <3>4 DEF Choisir
  <2>. QED
    BY <2>1, <2>2, QuiEcrit
<1>5. membres' \in [Membres -> Membre]
  <2>1. CASE UNCHANGED membres
    BY <1>0, <2>1
  <2>2. CASE Inscrire(q)
    BY <2>2, InscrireFait, RangeeEcrite
  <2>3. CASE Partir(q)
    BY <2>3, PartirFait, RangeeEcrite
  <2>4. CASE Enregistrer(q)
    <3>1. CASE loc[q].tirage = tirages
      BY <2>4, <3>1, EnregistrerFait, RangeeEcrite
    <3>2. CASE loc[q].tirage # tirages
      BY <1>0, <2>4, <3>2 DEF Enregistrer
    <3>. QED
      BY <3>1, <3>2
  <2>5. CASE Examiner(q)
    BY <2>5, ExaminerFait, RangeeEcrite
  <2>6. CASE Defaillir(q)
    BY <2>6, DefaillirFait, RangeeEcrite
  <2>. QED
    BY <2>1, <2>2, <2>3, <2>4, <2>5, <2>6, QuiEcrit
<1>6. ordre' \in Seq(Rang) /\ tirages' \in Nat
  <2>1. CASE UNCHANGED <<ordre, tirages>>
    BY <1>0, <2>1
  <2>2. CASE CreerPlace(q)
    <3>1. tirages' = tirages
      BY <2>2 DEF CreerPlace
    <3>. QED
      BY <1>0, <2>2, <3>1, CreerPlaceFait
  <2>3. CASE EcrireOrdre(q)
    <3>1. tirages' = tirages + 1
      BY <2>3 DEF EcrireOrdre
    <3>. QED
      BY <1>0, <2>3, <3>1, EcrireOrdreFait
  <2>4. CASE Enregistrer(q)
    <3>0. tirages' = tirages /\ (ordre' = ordre \/ loc[q].tirage = tirages)
      BY <2>4 DEF Enregistrer
    <3>. QED
      BY <1>0, <2>4, <3>0, EnregistrerFait
  <2>. QED
    BY <2>1, <2>2, <2>3, <2>4, QuiEcrit
<1>7. paiements' \in 0..MaxPaiements /\ jobs' \in 0..MaxJobs
  <2>1. CASE Detecter(q)
    <3>1. jobs < MaxJobs /\ jobs' = jobs + 1
      BY <2>1 DEF Detecter
    <3>. QED
      BY <1>0, <3>1, QuiEcrit
  <2>. QED
    BY <1>0, <2>1, QuiEcrit
<1>. QED
  BY <1>1, <1>2, <1>3, <1>4, <1>5, <1>6, <1>7

(* The order only loses a row when it is written anew.                     *)
LEMMA OrdreGrandit ==
  ASSUME TypeInv, NEW q \in Requetes, Traiter(q)
  PROVE  \/ tirages' = tirages /\ DOMAIN ordre \subseteq DOMAIN ordre'
         \/ tirages' = tirages + 1 /\ EcrireOrdre(q)
<1>1. CASE UNCHANGED <<ordre, tirages>>
  BY <1>1
<1>2. CASE CreerPlace(q)
  <2>1. tirages' = tirages
    BY <1>2 DEF CreerPlace
  <2>. QED
    BY <1>2, <2>1, CreerPlaceFait
<1>3. CASE EcrireOrdre(q)
  <2>1. tirages' = tirages + 1
    BY <1>3 DEF EcrireOrdre
  <2>. QED
    BY <1>3, <2>1
<1>4. CASE Enregistrer(q)
  <2>1. tirages' = tirages /\ (ordre' = ordre \/ loc[q].tirage = tirages)
    BY <1>4 DEF Enregistrer
  <2>. QED
    BY <1>4, <2>1, EnregistrerFait
<1>. QED
  BY <1>1, <1>2, <1>3, <1>4, QuiEcrit

(* What a handler holds stays good while others work.                      *)
LEMMA EtapeStable ==
  ASSUME NEW e, NEW l \in Locales, EtapeBonne(e, l), tirages \in Nat,
         \/ tirages' = tirages /\ DOMAIN ordre \subseteq DOMAIN ordre'
         \/ tirages' = tirages + 1
  PROVE  EtapeBonne(e, l)'
<1>1. l.tirage \in Nat
  BY ChampsLocaux
<1>. QED
  BY <1>1 DEF EtapeBonne

(* Every step keeps the types.                                             *)
LEMMA TypesPas ==
  ASSUME TypeInv, [Next]_vars
  PROVE  TypeInv'
<1>. TypeOK
  BY DEF TypeInv
<1>0. /\ tirages \in Nat /\ \A q \in Requetes : loc[q] \in Locales
  BY Lignes
<1>1. ASSUME NEW q \in Requetes, Traiter(q)
      PROVE  TypeInv'
  <2>1. Avancee(q)
    BY <1>1, TraiterAvance
  <2>2. /\ pc' \in [Requetes -> Etapes] /\ loc' \in [Requetes -> Locales]
        /\ \A p \in Requetes \ {q} : pc'[p] = pc[p] /\ loc'[p] = loc[p]
        /\ EtapeBonne(pc'[q], loc'[q])
    BY <2>1, Mouvement
  <2>3. \/ tirages' = tirages /\ DOMAIN ordre \subseteq DOMAIN ordre'
        \/ tirages' = tirages + 1
    BY <1>1, OrdreGrandit
  <2>4. ASSUME NEW p \in Requetes PROVE EtapeOK(p)'
    <3>1. PICK l \in Locales : l = loc'[p]
      BY <2>2
    <3>2. PICK e : e = pc'[p]
      OBVIOUS
    <3>3. EtapeBonne(e, l)
      <4>1. CASE p = q
        BY <2>2, <3>1, <3>2, <4>1
      <4>2. CASE p # q
        BY <2>2, <3>1, <3>2, <4>2 DEF TypeInv, EtapeOK
      <4>. QED
        BY <4>1, <4>2
    <3>4. EtapeBonne(e, l)'
      BY <1>0, <2>3, <3>3, EtapeStable
    <3>. QED
      BY <3>1, <3>2, <3>4 DEF EtapeOK
  <2>5. TypeOK'
    <3>1. Next
      BY <1>1 DEF Next
    <3>. QED
      BY <1>1, <2>2, <3>1, TablesTypees, Accidents DEF TypeOK
  <2>. QED
    BY <2>4, <2>5 DEF TypeInv
<1>2. CASE Payer \/ Retirer
  <2>1. /\ UNCHANGED <<statut, versements, membres, ordre, tirages, mode, pc, loc, jobs>>
    BY <1>2 DEF Payer, Retirer, ordreVars, procVars, bornesVars
  <2>2. solde' \in Nat /\ attendu' \in Int /\ paiements' \in 0..MaxPaiements
    <3>1. /\ solde \in Nat /\ attendu \in Int /\ paiements \in 0..MaxPaiements
          /\ Montants \subseteq Nat /\ MaxPaiements \in Nat
      BY GroupeAssumption DEF TypeOK
    <3>2. CASE Payer
      BY <3>1, <3>2 DEF Payer
    <3>3. CASE Retirer
      BY <3>1, <3>3 DEF Retirer, bornesVars
    <3>. QED
      BY <1>2, <3>2, <3>3
  <2>3. TypeOK'
    <3>1. Next
      BY <1>2 DEF Next
    <3>. QED
      BY <2>1, <2>2, <3>1, Accidents DEF TypeOK
  <2>. QED
    BY <2>1, <2>3 DEF TypeInv, EtapeOK, EtapeBonne
<1>3. CASE Panne
  <2>1. /\ UNCHANGED <<statut, solde, attendu, versements, membres, ordre, tirages, mode,
                       paiements, jobs>>
        /\ pc' = [q \in Requetes |-> "libre"] /\ loc' = [q \in Requetes |-> Repos]
    BY <1>3 DEF Panne, argentVars, ordreVars, bornesVars
  <2>2. pc' \in [Requetes -> Etapes] /\ loc' \in [Requetes -> Locales]
    BY <2>1, ChampsRepos DEF Etapes
  <2>3. TypeOK'
    <3>1. Next
      BY <1>3 DEF Next
    <3>. QED
      BY <2>1, <2>2, <3>1, Accidents DEF TypeOK
  <2>4. \A q \in Requetes : EtapeOK(q)'
    BY <2>1, ChampsRepos DEF EtapeOK, EtapeBonne, SurMembre, Adhere, Rejoint, Place,
       Transfere
  <2>. QED
    BY <2>3, <2>4 DEF TypeInv
<1>4. CASE UNCHANGED vars
  BY <1>4 DEF vars, argentVars, ordreVars, procVars, bornesVars, courseVars, TypeInv,
     TypeOK, EtapeOK, EtapeBonne
<1>. QED
  BY <1>1, <1>2, <1>3, <1>4 DEF Next

(* The types hold at the start.                                            *)
LEMMA TypesInit ==
  ASSUME Init
  PROVE  TypeInv
<1>1. /\ \A S : <<>> \in Seq(S) /\ Len(<<>>) = 0
      /\ DOMAIN <<>> = {}
  OBVIOUS
<1>2. membres \in [Membres -> Membre] /\ versements \in [Membres -> Nat]
  BY DEF Init, Membre
<1>3. pc \in [Requetes -> Etapes] /\ loc \in [Requetes -> Locales]
  BY ChampsRepos DEF Init, Etapes
<1>4. TypeOK
  <2>1. ordre \in Seq(Rang) /\ mode \in {"MANUEL", "ALEATOIRE"}
    BY <1>1, GroupeAssumption DEF Init
  <2>2. paiements \in 0..MaxPaiements /\ jobs \in 0..MaxJobs
    BY GroupeAssumption DEF Init
  <2>3. /\ defautCreation \in BOOLEAN /\ coupure \in BOOLEAN /\ courseSolde \in BOOLEAN
        /\ courseDistribution \in BOOLEAN /\ courseMembre \in BOOLEAN
        /\ courseOrdre \in BOOLEAN
    BY Zenon DEF Init
  <2>4. statut = "CREATION" /\ solde = 0 /\ attendu = 0 /\ tirages = 0
    BY DEF Init
  <2>. QED
    BY <1>2, <1>3, <2>1, <2>2, <2>3, <2>4 DEF TypeOK
<1>5. \A q \in Requetes : EtapeOK(q)
  BY ChampsRepos DEF Init, EtapeOK, EtapeBonne, SurMembre, Adhere, Rejoint, Place, Transfere
<1>. QED
  BY <1>4, <1>5 DEF TypeInv

(* The tables, the local variables and the flags keep their types, and what *)
(* a handler holds at each step is good: a member, a row of the order.      *)
THEOREM GroupeTypes == Spec => []TypeOK
<1>1. TypeInv => TypeOK
  BY DEF TypeInv
<1>. QED
  BY <1>1, TypesInit, TypesPas, PTL DEF Spec

-----------------------------------------------------------------------------
(* What the invariants need of the steps.                                  *)

(* Where the writes of the tables happen, and where they lead.             *)
LEMMA Arrivees ==
  ASSUME TypeOK, NEW q \in Requetes
  PROVE  /\ CreerPlace(q) => pc[q] = "creerPlace" /\ pc'[q] = "libre"
         /\ EcrireOrdre(q) => pc[q] = "ecrireOrdre" /\ pc'[q] \in {"libre", "activer"}
         /\ Enregistrer(q) => pc[q] = "enregistrer" /\ pc'[q] = "libre"
         /\ EcrireStatut(q) => /\ pc[q] \in {"activer", "reactiver", "suspendre",
                                             "terminer", "cloturer"}
                               /\ pc'[q] = "libre"
         /\ Choisir(q) => pc[q] = "choisir"
<1>1. pc \in [Requetes -> Etapes]
  BY DEF TypeOK
<1>2. \A e : Vers(q, e) => pc'[q] = e
  BY <1>1 DEF Vers
<1>3. Repondre(q) => pc'[q] = "libre"
  BY <1>2 DEF Repondre
<1>. QED
  BY <1>2, <1>3 DEF CreerPlace, EcrireOrdre, Si, Enregistrer, EcrireStatut, Choisir

(* What the handlers that prepare the group check when they start.         *)
LEMMA Departs ==
  ASSUME TypeOK, NEW q \in Requetes
  PROVE  /\ Rejoindre(q) => /\ statut = "CREATION" /\ pc[q] = "libre"
                            /\ MarquerOrdre(q, loc'[q].qui)
         /\ Ordonner(q) \/ ActiverTontine(q) =>
               statut = "CREATION" /\ pc[q] = "libre" /\ MarquerOrdre(q, Personne)
<1>1. ASSUME Rejoindre(q) PROVE MarquerOrdre(q, loc'[q].qui)
  <2>1. PICK m \in Membres, c \in Cautions :
           /\ Commencer(q, "lireMembre", [Repos EXCEPT !.qui = m, !.montant = c])
           /\ MarquerOrdre(q, m)
    BY <1>1 DEF Rejoindre
  <2>2. loc'[q] = [Repos EXCEPT !.qui = m, !.montant = c]
    BY <2>1 DEF Commencer, TypeOK
  <2>3. loc'[q].qui = m
    BY <2>2 DEF Repos
  <2>. QED
    BY <2>1, <2>3
<1>2. Rejoindre(q) => statut = "CREATION" /\ pc[q] = "libre"
  BY DEF Rejoindre, Commencer
<1>3. Ordonner(q) \/ ActiverTontine(q) =>
         statut = "CREATION" /\ pc[q] = "libre" /\ MarquerOrdre(q, Personne)
  BY DEF Ordonner, ActiverTontine, Commencer
<1>. QED
  BY <1>1, <1>2, <1>3

(* The statut never goes back to CREATION.                                 *)
LEMMA JamaisCreation ==
  ASSUME NEW q \in Requetes, Traiter(q), statut' = "CREATION"
  PROVE  statut = "CREATION" /\ ~EcrireStatut(q)
<1>1. ~EcrireStatut(q)
  BY DEF EcrireStatut
<1>2. CASE Enregistrer(q)
  BY <1>1, <1>2 DEF Enregistrer
<1>. QED
  BY <1>1, <1>2, QuiEcrit

(* Payments and withdrawals only touch the money.                          *)
LEMMA ArgentDehors ==
  ASSUME Payer \/ Retirer
  PROVE  UNCHANGED <<statut, versements, membres, ordre, tirages, mode, pc, loc>>
  BY DEF Payer, Retirer, ordreVars, procVars

(* A crash only stops the handlers.                                        *)
LEMMA PanneFait ==
  ASSUME Panne
  PROVE  /\ UNCHANGED <<statut, solde, attendu, versements, membres, ordre, tirages>>
         /\ \A q \in Requetes : pc'[q] = "libre" /\ loc'[q] = Repos
         /\ ~coupure' => \A q \in Requetes : pc[q] \notin Place \cup Transfere
<1>1. /\ UNCHANGED <<statut, solde, attendu, versements, membres, ordre, tirages>>
      /\ \A q \in Requetes : pc'[q] = "libre" /\ loc'[q] = Repos
  BY DEF Panne, argentVars, ordreVars
<1>2. coupure' = (coupure \/ \E q \in Requetes : pc[q] \in Place \cup Transfere)
  BY Zenon DEF Panne
<1>. QED
  BY <1>1, <1>2

-----------------------------------------------------------------------------
(* The phases.                                                             *)

(* Every step keeps the phases.                                            *)
LEMMA PhasePas ==
  ASSUME TypeInv, PhaseInv, [Next]_vars
  PROVE  PhaseInv'
<1>. TypeOK
  BY DEF TypeInv
<1>1. ASSUME NEW q \in Requetes, Traiter(q)
      PROVE  PhaseInv'
  <2>1. Avancee(q)
    BY <1>1, TraiterAvance
  <2>2. /\ \A p \in Requetes \ {q} : pc'[p] = pc[p]
        /\ OrigineDistribution(q, pc'[q], loc'[q])
    BY <2>1, Mouvement
  <2>3. statut # "CREATION" => statut' # "CREATION"
    BY <1>1, JamaisCreation
  <2>4. \A p \in Requetes : pc'[p] \in Apres => statut' # "CREATION"
    BY <2>2, <2>3 DEF PhaseInv, OrigineDistribution
  <2>5. ASSUME statut' = "CREATION"
        PROVE  /\ \A m \in Membres : versements'[m] = 0
               /\ \A p \in DOMAIN ordre' : ~ordre'[p].aRecu
    <3>1. statut = "CREATION"
      BY <2>3, <2>5
    <3>2. pc[q] \notin Apres
      BY <3>1 DEF PhaseInv
    <3>3. ~Choisir(q) /\ ~Enregistrer(q)
      BY <3>2, Arrivees DEF Apres, Distribue, Transfere
    <3>4. UNCHANGED versements
      BY <1>1, <3>3, QuiEcrit
    <3>5. CASE UNCHANGED ordre
      BY <3>1, <3>4, <3>5 DEF PhaseInv
    <3>6. CASE CreerPlace(q)
      BY <3>1, <3>4, <3>6, CreerPlaceFait DEF PhaseInv
    <3>7. CASE EcrireOrdre(q)
      BY <3>1, <3>4, <3>7, EcrireOrdreFait DEF PhaseInv
    <3>. QED
      BY <1>1, <3>3, <3>5, <3>6, <3>7, QuiEcrit
  <2>. QED
    BY <2>4, <2>5 DEF PhaseInv
<1>2. CASE Payer \/ Retirer
  BY <1>2, ArgentDehors DEF PhaseInv
<1>3. CASE Panne
  BY <1>3, PanneFait DEF PhaseInv, Apres, Distribue, Transfere
<1>4. CASE UNCHANGED vars
  BY <1>4 DEF vars, argentVars, ordreVars, procVars, PhaseInv
<1>. QED
  BY <1>1, <1>2, <1>3, <1>4 DEF Next

-----------------------------------------------------------------------------
(* The order of the draw.                                                  *)

(* A step of a handler keeps the order, but for an accident.               *)
LEMMA OrdreTraiter ==
  ASSUME TypeInv, PhaseInv, OrdreTenu, NEW q \in Requetes, Traiter(q), ~courseOrdre'
  PROVE  OrdreTenu'
<1>. TypeOK
  BY DEF TypeInv
<1>0. Avancee(q)
  BY TraiterAvance
<1>1. /\ \A p \in Requetes \ {q} : pc'[p] = pc[p] /\ loc'[p] = loc[p]
      /\ OrigineOrdre(q, pc'[q], loc'[q])
  BY <1>0, Mouvement
<1>2. MarquerOrdre(q, Personne) =>
         \A p \in Requetes \ {q} : pc[p] \notin Prepare
  BY DEF MarquerOrdre, Autre, Prepare
<1>3. ASSUME NEW m, MarquerOrdre(q, m)
      PROVE  \A p \in Requetes \ {q} : /\ pc[p] \notin Ordonne \cup Active
                                       /\ pc[p] \in Adhere => loc[p].qui # m
  BY <1>3 DEF MarquerOrdre, Autre
<1>4. statut' # "CREATION" => \A p \in Requetes : pc'[p] \notin Prepare
  <2>1. CASE statut # "CREATION"
    <3>1. ~Rejoindre(q) /\ ~Ordonner(q) /\ ~ActiverTontine(q)
      BY <2>1, Departs
    <3>2. \A p \in Requetes : pc[p] \notin Prepare
      BY <2>1 DEF OrdreTenu
    <3>. QED
      BY <1>1, <3>1, <3>2 DEF OrigineOrdre, Prepare
  <2>2. CASE statut = "CREATION" /\ statut' # "CREATION"
    <3>1. pc[q] \notin Apres
      BY <2>2 DEF PhaseInv
    <3>2. ~Enregistrer(q)
      BY <3>1, Arrivees DEF Apres, Distribue, Transfere
    <3>3. EcrireStatut(q)
      BY <2>2, <3>2, QuiEcrit
    <3>4. pc[q] = "activer" /\ pc'[q] = "libre"
      BY <3>1, <3>3, Arrivees DEF Apres
    <3>5. \A p \in Requetes \ {q} : pc[p] \notin Prepare
      BY <3>4 DEF OrdreTenu, Active
    <3>. QED
      BY <1>1, <3>4, <3>5 DEF Prepare, Adhere, Rejoint, Place, Ordonne, Active
  <2>. QED
    BY <2>1, <2>2
<1>5. ASSUME NEW p \in Requetes \ {q}
      PROVE  /\ pc'[q] \in Ordonne \cup Active => pc'[p] \notin Prepare
             /\ pc'[p] \in Ordonne \cup Active => pc'[q] \notin Prepare
             /\ pc'[q] \in Adhere /\ pc'[p] \in Adhere => loc'[p].qui # loc'[q].qui
  <2>0. pc'[p] = pc[p] /\ loc'[p] = loc[p]
    BY <1>1
  <2>1. pc'[q] \in Ordonne \cup Active => pc[p] \notin Prepare
    BY <1>1, <1>2, Departs DEF OrigineOrdre, OrdreTenu
  <2>2. pc[p] \in Ordonne \cup Active => pc'[q] \notin Prepare
    <3>1. pc[p] \in Ordonne \cup Active => pc[q] \notin Prepare /\ q \in Requetes \ {p}
      BY DEF OrdreTenu
    <3>2. pc[p] \in Ordonne \cup Active => ~Rejoindre(q)
      BY <1>3, Departs
    <3>. QED
      BY <1>1, <2>1, <3>1, <3>2 DEF OrigineOrdre, Prepare
  <2>3. pc'[q] \in Adhere /\ pc[p] \in Adhere => loc[p].qui # loc'[q].qui
    BY <1>1, <1>3, Departs DEF OrigineOrdre, OrdreTenu
  <2>. QED
    BY <2>0, <2>1, <2>2, <2>3
<1>6. \A a \in Requetes : \A b \in Requetes \ {a} :
         /\ pc'[a] \in Ordonne \cup Active => pc'[b] \notin Prepare
         /\ pc'[a] \in Adhere /\ pc'[b] \in Adhere => loc'[b].qui # loc'[a].qui
  <2>1. ASSUME NEW a \in Requetes, NEW b \in Requetes \ {a}
        PROVE  /\ pc'[a] \in Ordonne \cup Active => pc'[b] \notin Prepare
               /\ pc'[a] \in Adhere /\ pc'[b] \in Adhere => loc'[b].qui # loc'[a].qui
    <3>1. CASE a = q
      BY <1>5, <3>1
    <3>2. CASE b = q
      BY <1>5, <3>2
    <3>3. CASE a # q /\ b # q
      BY <1>1, <3>3 DEF OrdreTenu
    <3>. QED
      BY <3>1, <3>2, <3>3
  <2>. QED
    BY <2>1
<1>7. /\ \A i, j \in DOMAIN ordre' : ordre'[i].qui = ordre'[j].qui => i = j
      /\ \A p \in Requetes : pc'[p] \in {"compterOrdre", "creerPlace"} =>
            \A i \in DOMAIN ordre' : ordre'[i].qui # loc'[p].qui
  <2>1. ASSUME DOMAIN ordre' = DOMAIN ordre,
               \A i \in DOMAIN ordre : ordre'[i].qui = ordre[i].qui
        PROVE  /\ \A i, j \in DOMAIN ordre' : ordre'[i].qui = ordre'[j].qui => i = j
               /\ \A p \in Requetes : pc'[p] \in {"compterOrdre", "creerPlace"} =>
                     \A i \in DOMAIN ordre' : ordre'[i].qui # loc'[p].qui
    <3>1. \A i, j \in DOMAIN ordre' : ordre'[i].qui = ordre'[j].qui => i = j
      BY <2>1 DEF OrdreTenu
    <3>2. ASSUME NEW p \in Requetes \ {q}, pc'[p] \in {"compterOrdre", "creerPlace"}
          PROVE  \A i \in DOMAIN ordre' : ordre'[i].qui # loc'[p].qui
      BY <1>1, <2>1, <3>2 DEF OrdreTenu
    <3>3. ASSUME pc'[q] \in {"compterOrdre", "creerPlace"}
          PROVE  \A i \in DOMAIN ordre' : ordre'[i].qui # loc'[q].qui
      <4>1. CASE pc[q] = "compterOrdre"
        <5>1. ~Rejoindre(q)
          BY <4>1, Departs
        <5>2. loc'[q].qui = loc[q].qui
          BY <1>1, <3>3, <5>1 DEF OrigineOrdre, Adhere, Place
        <5>. QED
          BY <2>1, <4>1, <5>2 DEF OrdreTenu
      <4>2. CASE \A i \in DOMAIN ordre : ordre[i].qui # loc'[q].qui
        BY <2>1, <4>2
      <4>. QED
        BY <1>1, <3>3, <4>1, <4>2 DEF OrigineOrdre
    <3>. QED
      BY <3>1, <3>2, <3>3
  <2>2. CASE UNCHANGED <<ordre, tirages>>
    BY <2>1, <2>2
  <2>3. CASE Enregistrer(q)
    <3>1. CASE loc[q].tirage = tirages
      BY <2>1, <2>3, <3>1, EnregistrerFait
    <3>2. CASE loc[q].tirage # tirages
      <4>1. ordre' = ordre
        BY <2>3, <3>2 DEF Enregistrer
      <4>. QED
        BY <2>1, <4>1
    <3>. QED
      BY <3>1, <3>2
  <2>4. CASE CreerPlace(q)
    <3>1. pc[q] = "creerPlace" /\ pc'[q] = "libre" /\ pc[q] \in Adhere
      BY <2>4, Arrivees DEF Adhere, Place
    <3>2. \A i \in DOMAIN ordre : ordre[i].qui # loc[q].qui
      BY <3>1 DEF OrdreTenu
    <3>3. PICK k : k = Len(ordre) + 1
      OBVIOUS
    <3>4. /\ DOMAIN ordre' = DOMAIN ordre \cup {k} /\ k \notin DOMAIN ordre
          /\ \A i \in DOMAIN ordre : ordre'[i] = ordre[i]
          /\ ordre'[k].qui = loc[q].qui
      BY <2>4, <3>3, CreerPlaceFait
    <3>5. \A i, j \in DOMAIN ordre' : ordre'[i].qui = ordre'[j].qui => i = j
      BY <3>2, <3>4 DEF OrdreTenu
    <3>6. ASSUME NEW p \in Requetes \ {q}, pc[p] \in {"compterOrdre", "creerPlace"}
          PROVE  \A i \in DOMAIN ordre' : ordre'[i].qui # loc[p].qui
      <4>1. \A i \in DOMAIN ordre : ordre[i].qui # loc[p].qui
        BY <3>6 DEF OrdreTenu
      <4>2. loc[p].qui # loc[q].qui
        BY <3>1, <3>6 DEF OrdreTenu, Adhere, Place
      <4>. QED
        BY <3>4, <4>1, <4>2
    <3>. QED
      BY <1>1, <3>1, <3>5, <3>6
  <2>5. CASE EcrireOrdre(q)
    <3>1. pc[q] = "ecrireOrdre" /\ pc'[q] \in {"libre", "activer"}
      BY <2>5, Arrivees
    <3>2. /\ DOMAIN ordre' = DOMAIN loc[q].suite
          /\ \A i \in DOMAIN ordre' : ordre'[i].qui = loc[q].suite[i]
          /\ Distincts(loc[q].suite)
      BY <2>5, EcrireOrdreFait
    <3>3. \A i, j \in DOMAIN ordre' : ordre'[i].qui = ordre'[j].qui => i = j
      BY <3>2 DEF Distincts
    <3>4. \A p \in Requetes \ {q} : pc[p] \notin Prepare
      BY <3>1 DEF OrdreTenu, Ordonne
    <3>5. \A p \in Requetes : pc'[p] \notin {"compterOrdre", "creerPlace"}
      BY <1>1, <3>1, <3>4 DEF Prepare, Adhere, Place
    <3>. QED
      BY <3>3, <3>5
  <2>. QED
    BY <2>2, <2>3, <2>4, <2>5, QuiEcrit
<1>. QED
  BY <1>4, <1>6, <1>7 DEF OrdreTenu

(* Every step keeps the order.                                             *)
LEMMA OrdrePas ==
  ASSUME TypeInv, PhaseInv, OrdreInv, [Next]_vars
  PROVE  OrdreInv'
<1>. SUFFICES ASSUME ~courseOrdre' PROVE OrdreTenu'
  BY DEF OrdreInv
<1>0. OrdreTenu
  <2>1. CASE UNCHANGED vars
    BY <2>1 DEF OrdreInv, vars, courseVars
  <2>2. CASE Next
    BY <2>2, Accidents DEF OrdreInv, TypeInv
  <2>. QED
    BY <2>1, <2>2
<1>1. CASE \E q \in Requetes : Traiter(q)
  BY <1>0, <1>1, OrdreTraiter
<1>2. CASE Payer \/ Retirer
  BY <1>0, <1>2, ArgentDehors DEF OrdreTenu
<1>3. CASE Panne
  BY <1>0, <1>3, PanneFait DEF OrdreTenu, Prepare, Adhere, Rejoint, Place, Ordonne, Active
<1>4. CASE UNCHANGED vars
  BY <1>0, <1>4 DEF vars, ordreVars, procVars, OrdreTenu
<1>. QED
  BY <1>1, <1>2, <1>3, <1>4 DEF Next

-----------------------------------------------------------------------------
(* The distributions.                                                      *)

(* Once a distribution has begun the order only gets served places.        *)
LEMMA OrdreFige ==
  ASSUME TypeInv, OrdreTenu, NEW q \in Requetes, Traiter(q), statut # "CREATION"
  PROVE  /\ tirages' = tirages /\ DOMAIN ordre' = DOMAIN ordre
         /\ \A i \in DOMAIN ordre : ordre'[i].qui = ordre[i].qui
         /\ \/ ordre' = ordre
            \/ /\ Enregistrer(q) /\ loc[q].tirage = tirages
               /\ \A i \in DOMAIN ordre :
                     ordre'[i].aRecu <=> (ordre[i].aRecu \/ i = loc[q].place)
<1>. TypeOK
  BY DEF TypeInv
<1>1. pc[q] \notin Prepare
  BY DEF OrdreTenu
<1>2. ~CreerPlace(q) /\ ~EcrireOrdre(q)
  BY <1>1, Arrivees DEF Prepare, Adhere, Place, Ordonne
<1>3. CASE UNCHANGED <<ordre, tirages>>
  BY <1>3
<1>4. CASE Enregistrer(q)
  <2>1. tirages' = tirages /\ (ordre' = ordre \/ loc[q].tirage = tirages)
    BY <1>4 DEF Enregistrer
  <2>. QED
    BY <1>4, <2>1, EnregistrerFait
<1>. QED
  BY <1>2, <1>3, <1>4, QuiEcrit

(* A step of a handler keeps the distributions, but for an accident.       *)
LEMMA DistTraiter ==
  ASSUME TypeInv, PhaseInv, OrdreTenu, Distributions, NEW q \in Requetes, Traiter(q),
         ~courseDistribution'
  PROVE  Distributions'
<1>. TypeOK
  BY DEF TypeInv
<1>0. Avancee(q)
  BY TraiterAvance
<1>1. /\ \A p \in Requetes \ {q} : pc'[p] = pc[p] /\ loc'[p] = loc[p]
      /\ OrigineDistribution(q, pc'[q], loc'[q])
  BY <1>0, Mouvement
<1>2. \A p \in Requetes : pc[p] \in Transfere => pc[p] \in Distribue
  BY DEF Distribue
<1>3. \A p, r \in Requetes : pc'[p] \in Distribue /\ pc'[r] \in Distribue => p = r
  <2>1. Distribuer(q) => \A p \in Requetes \ {q} : pc[p] \notin Distribue
    BY DEF Distribuer, Autre
  <2>2. ASSUME NEW p \in Requetes \ {q}, pc'[q] \in Distribue, pc[p] \in Distribue
        PROVE  FALSE
    BY <1>1, <2>1, <2>2 DEF OrigineDistribution, Distributions
  <2>3. ASSUME NEW p \in Requetes \ {q}, NEW r \in Requetes \ {q},
               pc'[p] \in Distribue, pc'[r] \in Distribue
        PROVE  p = r
    BY <1>1, <2>3 DEF Distributions
  <2>. QED
    BY <1>1, <2>2, <2>3
<1>4. ASSUME NEW p \in Requetes, pc'[p] \in Transfere
      PROVE  loc'[p].tirage = tirages' /\ ~ordre'[loc'[p].place].aRecu
  <2>1. CASE p # q
    <3>1. pc[p] \in Transfere /\ loc'[p] = loc[p] /\ p \in EnTransfert
      BY <1>1, <1>4, <2>1 DEF EnTransfert
    <3>2. statut # "CREATION"
      BY <1>2, <3>1 DEF PhaseInv, Apres
    <3>3. ~Enregistrer(q)
      BY <1>2, <2>1, <3>1, Arrivees DEF Distributions, Transfere
    <3>4. ordre' = ordre /\ tirages' = tirages
      BY <3>2, <3>3, OrdreFige
    <3>. QED
      BY <3>1, <3>4 DEF Distributions
  <2>2. CASE p = q /\ Choisir(q)
    <3>1. pc[q] \in Distribue /\ ~Enregistrer(q)
      BY <2>2, Arrivees DEF Distribue
    <3>2. statut # "CREATION"
      BY <3>1 DEF PhaseInv, Apres
    <3>3. ordre' = ordre /\ tirages' = tirages
      BY <3>1, <3>2, OrdreFige
    <3>4. loc'[q].place \in NonServis /\ loc'[q].tirage = tirages
      BY <1>1, <1>4, <2>2 DEF OrigineDistribution, Transfere
    <3>. QED
      BY <2>2, <3>3, <3>4 DEF NonServis
  <2>3. CASE p = q /\ ~Choisir(q)
    <3>1. /\ pc[q] \in Transfere /\ q \in EnTransfert
          /\ loc'[q].tirage = loc[q].tirage /\ loc'[q].place = loc[q].place
      BY <1>1, <1>4, <2>3 DEF OrigineDistribution, EnTransfert
    <3>2. statut # "CREATION"
      BY <1>2, <3>1 DEF PhaseInv, Apres
    <3>3. ~Enregistrer(q)
      BY <1>4, <2>3, Arrivees DEF Transfere
    <3>4. ordre' = ordre /\ tirages' = tirages
      BY <3>2, <3>3, OrdreFige
    <3>. QED
      BY <2>3, <3>1, <3>4 DEF Distributions
  <2>. QED
    BY <2>1, <2>2, <2>3
<1>5. ASSUME NEW m \in Membres, versements[m] # 0
      PROVE  Servi(m)'
  <2>1. PICK i \in DOMAIN ordre :
           /\ ordre[i].qui = m
           /\ ordre[i].aRecu \/ \E x \in EnTransfert : loc[x].place = i
    BY <1>5 DEF Distributions, Servi
  <2>2. statut # "CREATION"
    BY <1>5 DEF PhaseInv
  <2>3. i \in DOMAIN ordre' /\ ordre'[i].qui = m /\ (ordre[i].aRecu => ordre'[i].aRecu)
    BY <2>1, <2>2, OrdreFige
  <2>4. CASE ordre[i].aRecu
    BY <2>3, <2>4 DEF Servi
  <2>5. ASSUME NEW x \in EnTransfert, loc[x].place = i
        PROVE  Servi(m)'
    <3>1. x \in Requetes /\ pc[x] \in Transfere
      BY DEF EnTransfert
    <3>2. CASE x # q
      <4>1. x \in EnTransfert' /\ loc'[x].place = i
        BY <1>1, <2>5, <3>1, <3>2 DEF EnTransfert
      <4>. QED
        BY <2>3, <4>1 DEF Servi
    <3>3. CASE x = q /\ Enregistrer(q)
      <4>1. loc[q].tirage = tirages
        BY <3>3 DEF Distributions
      <4>2. ordre'[i].aRecu
        BY <2>1, <2>5, <3>3, <4>1, EnregistrerFait
      <4>. QED
        BY <2>3, <4>2 DEF Servi
    <3>4. CASE x = q /\ ~Enregistrer(q)
      <4>1. ~Choisir(q)
        BY <3>1, <3>4, Arrivees DEF Transfere
      <4>2. pc'[q] \in Transfere /\ loc'[q].place = loc[q].place
        BY <1>1, <3>1, <3>4, <4>1 DEF OrigineDistribution
      <4>3. q \in EnTransfert' /\ loc'[q].place = i
        BY <2>5, <3>4, <4>2 DEF EnTransfert
      <4>. QED
        BY <2>3, <4>3 DEF Servi
    <3>. QED
      BY <3>2, <3>3, <3>4
  <2>. QED
    BY <2>1, <2>4, <2>5
<1>6. ASSUME NEW m \in Membres, versements'[m] # 0
      PROVE  versements'[m] = 1 /\ Servi(m)'
  <2>1. CASE UNCHANGED versements
    BY <1>5, <1>6, <2>1 DEF Distributions
  <2>2. CASE Choisir(q) /\ pc'[q] = "compterRestants"
    <3>1. /\ loc'[q].place \in NonServis
          /\ versements' = [versements EXCEPT ![ordre[loc'[q].place].qui] = @ + 1]
      BY <1>1, <2>2 DEF OrigineDistribution
    <3>2. PICK p : p = loc'[q].place
      OBVIOUS
    <3>3. p \in DOMAIN ordre /\ ~ordre[p].aRecu
      BY <3>1, <3>2 DEF NonServis
    <3>4. PICK n \in Membres : n = ordre[p].qui
      BY <3>3, Lignes, ChampsRang
    <3>5. versements \in [Membres -> Nat]
      BY DEF TypeOK
    <3>6. versements' = [versements EXCEPT ![n] = @ + 1]
      BY <3>1, <3>2, <3>4
    <3>7. \A x \in Membres : versements'[x] = IF x = n THEN versements[x] + 1 ELSE versements[x]
      BY <3>5, <3>6
    <3>8. pc[q] \in Distribue /\ pc[q] \notin Transfere /\ ~Enregistrer(q)
      BY <2>2, Arrivees DEF Distribue, Transfere
    <3>9. EnTransfert = {}
      BY <1>2, <3>8 DEF EnTransfert, Distributions
    <3>10. versements[n] = 0
      BY <3>3, <3>4, <3>9 DEF Distributions, Servi, OrdreTenu
    <3>11. CASE m = n
      <4>1. versements'[m] = 1
        BY <3>7, <3>10, <3>11
      <4>2. statut # "CREATION"
        BY <3>8 DEF PhaseInv, Apres
      <4>3. ordre' = ordre
        BY <3>8, <4>2, OrdreFige
      <4>4. q \in EnTransfert'
        BY <2>2 DEF EnTransfert, Transfere
      <4>. QED
        BY <3>2, <3>3, <3>4, <3>11, <4>1, <4>3, <4>4 DEF Servi
    <3>12. CASE m # n
      BY <1>5, <1>6, <3>7, <3>12 DEF Distributions
    <3>. QED
      BY <3>11, <3>12
  <2>. QED
    BY <1>1, <2>1, <2>2, QuiEcrit DEF OrigineDistribution
<1>7. \A p \in EnTransfert' : loc'[p].tirage = tirages' /\ ~ordre'[loc'[p].place].aRecu
  BY <1>4 DEF EnTransfert
<1>. QED
  BY <1>3, <1>6, <1>7 DEF Distributions

(* Every step keeps the distributions.                                     *)
LEMMA DistPas ==
  ASSUME TypeInv, PhaseInv, OrdreInv, DistInv, [Next]_vars
  PROVE  DistInv'
<1>. SUFFICES ASSUME ~courseDistribution', ~coupure', ~courseOrdre' PROVE Distributions'
  BY DEF DistInv
<1>0. OrdreTenu /\ Distributions
  <2>1. CASE UNCHANGED vars
    BY <2>1 DEF OrdreInv, DistInv, vars, courseVars
  <2>2. CASE Next
    BY <2>2, Accidents DEF OrdreInv, DistInv, TypeInv
  <2>. QED
    BY <2>1, <2>2
<1>1. CASE \E q \in Requetes : Traiter(q)
  BY <1>0, <1>1, DistTraiter
<1>2. CASE Payer \/ Retirer
  BY <1>0, <1>2, ArgentDehors DEF Distributions, Servi, EnTransfert
<1>3. CASE Panne
  <2>1. EnTransfert = {} /\ EnTransfert' = {}
    BY <1>3, PanneFait DEF EnTransfert, Transfere
  <2>2. ordre' = ordre /\ versements' = versements /\ \A q \in Requetes : pc'[q] = "libre"
    BY <1>3, PanneFait
  <2>. QED
    BY <1>0, <2>1, <2>2 DEF Distributions, Servi, Distribue, Transfere
<1>4. CASE UNCHANGED vars
  BY <1>0, <1>4 DEF vars, ordreVars, procVars, argentVars, Distributions, Servi, EnTransfert
<1>. QED
  BY <1>1, <1>2, <1>3, <1>4 DEF Next

-----------------------------------------------------------------------------
(* Who received the pot.                                                   *)

(* A place is served by the record of a distribution, and by nothing else.  *)
LEMMA Servies ==
  ASSUME TypeInv, NEW q \in Requetes, Traiter(q), NEW i \in DOMAIN ordre', ordre'[i].aRecu
  PROVE  /\ i \in DOMAIN ordre /\ ordre'[i].qui = ordre[i].qui
         /\ \/ ordre[i].aRecu
            \/ Enregistrer(q) /\ loc[q].tirage = tirages /\ i = loc[q].place
<1>1. CASE UNCHANGED <<ordre, tirages>>
  BY <1>1
<1>2. CASE CreerPlace(q)
  BY <1>2, CreerPlaceFait
<1>3. CASE EcrireOrdre(q)
  BY <1>3, EcrireOrdreFait
<1>4. CASE Enregistrer(q)
  <2>1. CASE loc[q].tirage = tirages
    BY <1>4, <2>1, EnregistrerFait
  <2>2. CASE loc[q].tirage # tirages
    <3>1. ordre' = ordre
      BY <1>4, <2>2 DEF Enregistrer
    <3>. QED
      BY <3>1
  <2>. QED
    BY <2>1, <2>2
<1>. QED
  BY <1>1, <1>2, <1>3, <1>4, QuiEcrit

(* A handler that no handler precedes on a row leaves it alone.            *)
LEMMA RangeeLibre ==
  ASSUME TypeInv, NEW q \in Requetes, Traiter(q), NEW m \in Membres,
         \A p \in Requetes : ~Tient(p, m)
  PROVE  \/ membres'[m] = membres[m]
         \/ Enregistrer(q) /\ loc[q].tirage = tirages /\ m = ordre[loc[q].place].qui
<1>. TypeOK
  BY DEF TypeInv
<1>1. CASE UNCHANGED membres
  BY <1>1
<1>2. CASE Inscrire(q)
  <2>1. Tient(q, loc[q].qui)
    BY <1>2 DEF Inscrire, Tient, Rejoint
  <2>. QED
    BY <1>2, <2>1, InscrireFait, RangeeEcrite
<1>3. CASE Partir(q)
  <2>1. Tient(q, loc[q].qui)
    BY <1>3 DEF Partir, Tient
  <2>. QED
    BY <1>3, <2>1, PartirFait, RangeeEcrite
<1>4. CASE Defaillir(q)
  <2>1. Tient(q, loc[q].qui)
    BY <1>4 DEF Defaillir, Tient
  <2>. QED
    BY <1>4, <2>1, DefaillirFait, RangeeEcrite
<1>5. CASE Examiner(q)
  <2>1. PICK x \in loc[q].lot : x.qui \in Membres /\ \E e \in Membre : Ecrit(x.qui, e)
    BY <1>5, ExaminerFait
  <2>2. x.qui # m
    BY DEF Tient
  <2>. QED
    BY <2>1, <2>2, RangeeEcrite
<1>6. CASE Enregistrer(q)
  <2>1. CASE loc[q].tirage = tirages
    BY <1>6, <2>1, EnregistrerFait, RangeeEcrite
  <2>2. CASE loc[q].tirage # tirages
    <3>1. membres' = membres
      BY <1>6, <2>2 DEF Enregistrer
    <3>. QED
      BY <3>1
  <2>. QED
    BY <2>1, <2>2
<1>. QED
  BY <1>1, <1>2, <1>3, <1>4, <1>5, <1>6, QuiEcrit

(* Nobody begins to work on the row of a client who received the pot.       *)
LEMMA NulNeTient ==
  ASSUME TypeInv, NEW q \in Requetes, Traiter(q), NEW m \in Membres,
         statut # "CREATION", membres[m].statut = "A_RECU", ~Tient(q, m)
  PROVE  ~Tient(q, m)'
<1>. TypeOK
  BY DEF TypeInv
<1>1. Avancee(q)
  BY TraiterAvance
<1>2. OrigineMembre(q, pc'[q], loc'[q])
  BY <1>1, Mouvement
<1>3. m \notin Actifs /\ m \notin AListes /\ ~Rejoindre(q)
  BY Departs DEF Actifs, AListes
<1>4. ~(\E x \in loc'[q].lot : x.qui = m)
  BY <1>2, <1>3 DEF OrigineMembre, LuPar, Tient
<1>5. ~(pc'[q] \in Rejoint \cup {"quitter"} /\ loc'[q].qui = m)
  BY <1>2, <1>3 DEF OrigineMembre, Tient
<1>6. ~(pc'[q] = "defaillir" /\ loc'[q].qui = m)
  BY <1>2 DEF OrigineMembre, Tient
<1>. QED
  BY <1>4, <1>5, <1>6 DEF Tient

(* A step of a handler leaves alone who received the pot.                  *)
LEMMA RecusTraiter ==
  ASSUME TypeInv, PhaseInv, Recus, NEW q \in Requetes, Traiter(q), ~courseMembre'
  PROVE  Recus'
<1>. TypeOK
  BY DEF TypeInv
<1>0. Avancee(q)
  BY TraiterAvance
<1>1. /\ \A p \in Requetes \ {q} : pc'[p] = pc[p] /\ loc'[p] = loc[p]
      /\ EtapeBonne(pc'[q], loc'[q])
  BY <1>0, Mouvement
<1>2. SUFFICES ASSUME NEW i \in DOMAIN ordre', ordre'[i].aRecu
               PROVE  /\ membres'[ordre'[i].qui].statut = "A_RECU"
                      /\ \A p \in Requetes : ~Tient(p, ordre[i].qui)'
  BY DEF Recus, Tient
<1>3. i \in DOMAIN ordre /\ ordre'[i].qui = ordre[i].qui
  BY <1>2, Servies
<1>4. PICK m \in Membres : m = ordre[i].qui
  BY <1>3, Lignes, ChampsRang
<1>5. \A p \in Requetes \ {q} : Tient(p, m)' <=> Tient(p, m)
  BY <1>1 DEF Tient
<1>6. CASE Enregistrer(q) /\ loc[q].tirage = tirages /\ m = ordre[loc[q].place].qui
  <2>1. membres'[m].statut = "A_RECU"
    BY <1>6, EnregistrerFait, RangeeEcrite
  <2>2. MarquerMembre(q, m)
    BY <1>6 DEF Enregistrer
  <2>3. \A p \in Requetes \ {q} : ~Tient(p, m)
    BY <2>2 DEF MarquerMembre
  <2>4. pc'[q] = "libre"
    BY <1>6, Arrivees
  <2>5. loc'[q].lot = {}
    BY <1>1, <2>4 DEF EtapeBonne, AvecLot
  <2>6. ~Tient(q, m)'
    BY <2>4, <2>5 DEF Tient, Rejoint
  <2>. QED
    BY <1>3, <1>4, <1>5, <2>1, <2>3, <2>6 DEF Tient
<1>7. CASE ~(Enregistrer(q) /\ loc[q].tirage = tirages /\ m = ordre[loc[q].place].qui)
  <2>1. ordre[i].aRecu
    BY <1>2, <1>4, <1>7, Servies
  <2>2. membres[m].statut = "A_RECU" /\ \A p \in Requetes : ~Tient(p, m)
    BY <1>3, <1>4, <2>1 DEF Recus
  <2>3. statut # "CREATION"
    BY <1>3, <2>1 DEF PhaseInv
  <2>4. membres'[m] = membres[m]
    BY <1>7, <2>2, RangeeLibre
  <2>5. ~Tient(q, m)'
    BY <2>2, <2>3, NulNeTient
  <2>. QED
    BY <1>3, <1>4, <1>5, <2>2, <2>4, <2>5 DEF Tient
<1>. QED
  BY <1>6, <1>7

(* Every step leaves alone who received the pot.                           *)
LEMMA MembrePas ==
  ASSUME TypeInv, PhaseInv, MembreInv, [Next]_vars
  PROVE  MembreInv'
<1>. SUFFICES ASSUME ~courseMembre' PROVE Recus'
  BY DEF MembreInv
<1>0. Recus
  <2>1. CASE UNCHANGED vars
    BY <2>1 DEF MembreInv, vars, courseVars
  <2>2. CASE Next
    BY <2>2, Accidents DEF MembreInv, TypeInv
  <2>. QED
    BY <2>1, <2>2
<1>1. CASE \E q \in Requetes : Traiter(q)
  BY <1>0, <1>1, RecusTraiter
<1>2. CASE Payer \/ Retirer
  BY <1>0, <1>2, ArgentDehors DEF Recus, Tient
<1>3. CASE Panne
  BY <1>0, <1>3, PanneFait, ChampsRepos DEF Recus, Tient, Rejoint
<1>4. CASE UNCHANGED vars
  BY <1>0, <1>4 DEF vars, ordreVars, procVars, Recus, Tient
<1>. QED
  BY <1>1, <1>2, <1>3, <1>4 DEF Next

-----------------------------------------------------------------------------
(* The money.                                                              *)

(* A step of a handler keeps the account of the money.                     *)
LEMMA ArgentTraiter ==
  ASSUME TypeInv, Distributions, Argent, NEW q \in Requetes, Traiter(q),
         ~courseDistribution'
  PROVE  Argent'
<1>. TypeOK
  BY DEF TypeInv
<1>0. Avancee(q)
  BY TraiterAvance
<1>1. /\ \A p \in Requetes \ {q} : pc'[p] = pc[p] /\ loc'[p] = loc[p]
      /\ OrigineDistribution(q, pc'[q], loc'[q])
  BY <1>0, Mouvement
<1>2. \A p \in Requetes : pc[p] \in Transfere => pc[p] \in Distribue
  BY DEF Distribue
<1>3. solde \in Nat /\ attendu \in Int
  BY DEF TypeOK
<1>4. ASSUME pc[q] \in Distribue
      PROVE  \A p \in Requetes \ {q} : pc[p] \notin Distribue
  BY <1>4 DEF Distributions
<1>5. CASE Enregistrer(q)
  <2>1. pc[q] = "enregistrer" /\ pc'[q] = "libre" /\ pc[q] \in Distribue /\ q \in EnTransfert
    BY <1>5, Arrivees DEF EnTransfert, Transfere, Distribue
  <2>2. loc[q].tirage = tirages /\ attendu = 0
    BY <2>1 DEF Distributions, Argent
  <2>3. solde' = 0 /\ attendu' = attendu
    BY <1>5, <2>2 DEF Enregistrer
  <2>4. \A p \in Requetes : pc'[p] \notin Distribue
    BY <1>1, <1>4, <2>1 DEF Distribue, Transfere
  <2>5. EnTransfert' = {}
    BY <2>4 DEF EnTransfert, Distribue
  <2>. QED
    BY <2>2, <2>3, <2>4, <2>5 DEF Argent
<1>6. CASE Choisir(q)
  <2>1. pc[q] \in Distribue /\ pc[q] \notin Transfere /\ ~Enregistrer(q)
    BY <1>6, Arrivees DEF Distribue, Transfere
  <2>2. solde' = solde
    BY <1>6 DEF Choisir
  <2>3. EnTransfert = {}
    BY <1>2, <1>4, <2>1 DEF EnTransfert
  <2>4. attendu = solde /\ loc[q].montant = solde
    BY <2>1, <2>3 DEF Argent
  <2>5. ~Distribuer(q)
    BY <1>6 DEF Choisir, Distribuer, Commencer
  <2>6. pc'[q] \in Distribue => loc'[q].montant = solde
    BY <1>1, <2>4, <2>5 DEF OrigineDistribution
  <2>7. \A p \in Requetes \ {q} : pc'[p] \notin Distribue /\ pc'[p] \notin Transfere
    BY <1>1, <1>2, <1>4, <2>1
  <2>8. CASE pc'[q] = "cloturer" /\ UNCHANGED attendu
    <3>1. EnTransfert' = {}
      BY <2>7, <2>8 DEF EnTransfert, Transfere
    <3>. QED
      BY <2>2, <2>4, <2>6, <2>7, <2>8, <3>1 DEF Argent
  <2>9. CASE pc'[q] = "compterRestants" /\ attendu' = attendu - loc[q].montant
    <3>1. attendu' = 0
      BY <1>3, <2>4, <2>9
    <3>2. q \in EnTransfert'
      BY <2>9 DEF EnTransfert, Transfere
    <3>. QED
      BY <2>2, <2>6, <2>7, <3>1, <3>2 DEF Argent
  <2>. QED
    BY <1>1, <1>6, <2>8, <2>9 DEF OrigineDistribution
<1>7. CASE ~Enregistrer(q) /\ ~Choisir(q)
  <2>1. solde' = solde /\ attendu' = attendu
    BY <1>7, QuiEcrit
  <2>2. \A p \in Requetes : pc'[p] \in Distribue => loc'[p].montant = solde
    BY <1>1 DEF OrigineDistribution, Argent
  <2>3. \A p \in Requetes : pc'[p] \in Transfere <=> pc[p] \in Transfere
    BY <1>1, <1>7 DEF OrigineDistribution
  <2>4. EnTransfert' = EnTransfert
    BY <2>3 DEF EnTransfert
  <2>. QED
    BY <2>1, <2>2, <2>4 DEF Argent
<1>. QED
  BY <1>5, <1>6, <1>7

(* Every step keeps the account of the money.                              *)
LEMMA ArgentPas ==
  ASSUME TypeInv, DistInv, ArgentInv, [Next]_vars
  PROVE  ArgentInv'
<1>. SUFFICES ASSUME ~courseSolde', ~courseDistribution', ~coupure', ~courseOrdre'
              PROVE  Argent'
  BY DEF ArgentInv
<1>0. Distributions /\ Argent
  <2>1. CASE UNCHANGED vars
    BY <2>1 DEF ArgentInv, DistInv, vars, courseVars
  <2>2. CASE Next
    BY <2>2, Accidents DEF ArgentInv, DistInv, TypeInv
  <2>. QED
    BY <2>1, <2>2
<1>1. CASE \E q \in Requetes : Traiter(q)
  BY <1>0, <1>1, ArgentTraiter
<1>2. CASE Payer \/ Retirer
  <2>1. MarquerSolde
    BY <1>2 DEF Payer, Retirer
  <2>2. \A q \in Requetes : pc[q] \notin Distribue
    BY <2>1 DEF MarquerSolde
  <2>3. EnTransfert = {} /\ EnTransfert' = {} /\ pc' = pc
    BY <1>2, <2>2, ArgentDehors DEF EnTransfert, Distribue
  <2>4. solde = attendu
    BY <1>0, <2>3 DEF Argent
  <2>5. solde' = attendu'
    BY <1>2, <2>4 DEF Payer, Retirer
  <2>. QED
    BY <2>2, <2>3, <2>5 DEF Argent
<1>3. CASE Panne
  <2>1. EnTransfert = {} /\ EnTransfert' = {}
    BY <1>3, PanneFait DEF EnTransfert, Transfere
  <2>2. solde' = solde /\ attendu' = attendu /\ \A q \in Requetes : pc'[q] = "libre"
    BY <1>3, PanneFait
  <2>. QED
    BY <1>0, <2>1, <2>2 DEF Argent, Distribue, Transfere
<1>4. CASE UNCHANGED vars
  BY <1>0, <1>4 DEF vars, ordreVars, procVars, argentVars, Argent, EnTransfert
<1>. QED
  BY <1>1, <1>2, <1>3, <1>4 DEF Next

-----------------------------------------------------------------------------
(* The places.                                                             *)

(* What a step may do to a member's row, and who was warned.               *)
LEMMA Rangee ==
  ASSUME TypeInv, NEW q \in Requetes, Traiter(q), NEW m \in Membres,
         membres'[m] # membres[m]
  PROVE  /\ MarquerMembre(q, m)
         /\ \/ /\ Inscrire(q) /\ pc[q] = "inscrire" /\ loc[q].qui = m
               /\ membres'[m].statut = "ACTIF" /\ membres'[m].nb = membres[m].nb
            \/ /\ pc[q] \in {"quitter", "enregistrer"}
               /\ membres'[m].statut \in {"EXCLU", "A_RECU"}
               /\ membres'[m].nb = membres[m].nb
            \/ /\ pc[q] = "examiner"
               /\ \E x \in loc[q].lot :
                     /\ x.qui = m
                     /\ x.paye => membres'[m].statut = "ACTIF"
                     /\ ~x.paye => /\ membres'[m].statut = membres[m].statut
                                   /\ membres'[m].nb = membres[m].nb
            \/ /\ Defaillir(q) /\ pc[q] = "defaillir" /\ loc[q].qui = m
               /\ membres'[m].statut \in {"DEFAILLANT", "EXCLU"}
<1>. TypeOK
  BY DEF TypeInv
<1>2. CASE Inscrire(q)
  <2>1. /\ loc[q].qui = m /\ membres'[m].statut = "ACTIF"
        /\ membres'[m].nb = membres[m].nb
    BY <1>2, InscrireFait, RangeeEcrite
  <2>2. pc[q] = "inscrire" /\ MarquerMembre(q, loc[q].qui)
    BY <1>2 DEF Inscrire
  <2>. QED
    BY <1>2, <2>1, <2>2
<1>3. CASE Partir(q)
  <2>1. /\ loc[q].qui = m /\ membres'[m].statut = "EXCLU"
        /\ membres'[m].nb = membres[m].nb
    BY <1>3, PartirFait, RangeeEcrite
  <2>2. pc[q] = "quitter" /\ MarquerMembre(q, loc[q].qui)
    BY <1>3 DEF Partir
  <2>. QED
    BY <2>1, <2>2
<1>4. CASE Defaillir(q)
  <2>1. loc[q].qui = m /\ membres'[m].statut \in {"DEFAILLANT", "EXCLU"}
    BY <1>4, DefaillirFait, RangeeEcrite
  <2>2. pc[q] = "defaillir" /\ MarquerMembre(q, loc[q].qui)
    BY <1>4 DEF Defaillir
  <2>. QED
    BY <1>4, <2>1, <2>2
<1>5. CASE Examiner(q)
  <2>1. PICK x \in loc[q].lot, e \in Membre :
           /\ x.qui \in Membres /\ Ecrit(x.qui, e)
           /\ x.paye => e.statut = "ACTIF" /\ e.nb = 0
           /\ ~x.paye => e.statut = membres[x.qui].statut /\ e.nb = membres[x.qui].nb
           /\ MarquerMembre(q, x.qui)
    BY <1>5, ExaminerFait
  <2>2. x.qui = m /\ membres'[m] = e
    BY <2>1, RangeeEcrite
  <2>3. pc[q] = "examiner"
    BY <1>5 DEF Examiner
  <2>4. MarquerMembre(q, m)
    BY <2>1, <2>2
  <2>5. /\ x.paye => membres'[m].statut = "ACTIF"
        /\ ~x.paye => /\ membres'[m].statut = membres[m].statut
                      /\ membres'[m].nb = membres[m].nb
    BY <2>1, <2>2
  <2>. QED
    BY <2>2, <2>3, <2>4, <2>5
<1>6. CASE Enregistrer(q)
  <2>1. loc[q].tirage = tirages
    BY <1>6 DEF Enregistrer
  <2>2. /\ m = ordre[loc[q].place].qui /\ membres'[m].statut = "A_RECU"
        /\ membres'[m].nb = membres[m].nb
    BY <1>6, <2>1, EnregistrerFait, RangeeEcrite
  <2>3. pc[q] = "enregistrer" /\ MarquerMembre(q, m)
    BY <1>6, <2>1, <2>2 DEF Enregistrer
  <2>. QED
    BY <2>2, <2>3
<1>. QED
  BY <1>2, <1>3, <1>4, <1>5, <1>6, QuiEcrit

(* A place is not lost, but to an order written anew.                      *)
LEMMA PlacesGardees ==
  ASSUME TypeInv, NEW q \in Requetes, Traiter(q), ~EcrireOrdre(q),
         NEW i \in DOMAIN ordre
  PROVE  i \in DOMAIN ordre' /\ ordre'[i].qui = ordre[i].qui
<1>1. CASE UNCHANGED ordre
  BY <1>1
<1>2. CASE CreerPlace(q)
  BY <1>2, CreerPlaceFait
<1>3. CASE Enregistrer(q)
  <2>1. ordre' = ordre \/ loc[q].tirage = tirages
    BY <1>3 DEF Enregistrer
  <2>. QED
    BY <1>3, <2>1, EnregistrerFait
<1>. QED
  BY <1>1, <1>2, <1>3, QuiEcrit

(* A member with a place, or one being made, keeps it.                     *)
LEMMA PlaceGardee ==
  ASSUME TypeInv, OrdreTenu, Places, NEW q \in Requetes, Traiter(q),
         NEW m \in AListes
  PROVE  Placee(m)'
<1>. TypeOK
  BY DEF TypeInv
<1>0. Avancee(q)
  BY TraiterAvance
<1>1. /\ \A p \in Requetes \ {q} : pc'[p] = pc[p] /\ loc'[p] = loc[p]
      /\ OrigineOrdre(q, pc'[q], loc'[q])
  BY <1>0, Mouvement
<1>2. CASE EcrireOrdre(q)
  <2>1. pc[q] = "ecrireOrdre" /\ pc[q] \in Prepare
    BY <1>2, Arrivees DEF Prepare, Ordonne
  <2>2. statut = "CREATION"
    BY <2>1 DEF OrdreTenu
  <2>3. m \in Actifs
    BY <2>2 DEF Places, AListes, Actifs
  <2>4. PICK i \in DOMAIN loc[q].suite : loc[q].suite[i] = m
    BY <2>1, <2>3 DEF Places
  <2>5. i \in DOMAIN ordre' /\ ordre'[i].qui = m
    BY <1>2, <2>4, EcrireOrdreFait
  <2>. QED
    BY <2>5 DEF Placee
<1>3. CASE ~EcrireOrdre(q)
  <2>1. ASSUME NEW i \in DOMAIN ordre, ordre[i].qui = m
        PROVE  Placee(m)'
    BY <1>3, <2>1, PlacesGardees DEF Placee
  <2>2. ASSUME NEW p \in Requetes, pc[p] \in Place, loc[p].qui = m
        PROVE  Placee(m)'
    <3>1. CASE p # q
      <4>1. pc'[p] \in Place /\ loc'[p].qui = m
        BY <1>1, <2>2, <3>1
      <4>. QED
        BY <4>1 DEF Placee
    <3>2. CASE p = q /\ pc'[q] \in Place /\ loc'[q].qui = loc[q].qui
      BY <2>2, <3>2 DEF Placee
    <3>3. CASE p = q /\ CreerPlace(q)
      <4>1. Len(ordre) + 1 \in DOMAIN ordre' /\ ordre'[Len(ordre) + 1].qui = m
        BY <2>2, <3>3, CreerPlaceFait
      <4>. QED
        BY <4>1 DEF Placee
    <3>. QED
      BY <1>1, <2>1, <2>2, <3>1, <3>2, <3>3 DEF OrigineOrdre
  <2>. QED
    BY <2>1, <2>2 DEF Places, Placee
<1>. QED
  BY <1>2, <1>3

(* A step of a handler keeps the places of the members.                    *)
LEMMA PlacesTraiter ==
  ASSUME TypeInv, OrdreTenu, Places, NEW q \in Requetes, Traiter(q),
         ~courseMembre', ~defautCreation'
  PROVE  Places'
<1>. TypeOK
  BY DEF TypeInv
<1>0. Avancee(q)
  BY TraiterAvance
<1>1. /\ \A p \in Requetes \ {q} : pc'[p] = pc[p] /\ loc'[p] = loc[p]
      /\ OrigineOrdre(q, pc'[q], loc'[q]) /\ OrigineMembre(q, pc'[q], loc'[q])
      /\ EtapeBonne(pc'[q], loc'[q])
  BY <1>0, Mouvement
<1>2. EtapeBonne(pc[q], loc[q])
  BY DEF TypeInv, EtapeOK
<1>3. \A m : MarquerMembre(q, m) => \A p \in Requetes \ {q} : ~Tient(p, m)
  BY DEF MarquerMembre
<1>4. ASSUME Defaillir(q) PROVE statut # "CREATION"
  BY <1>4 DEF Defaillir
<1>5. ASSUME NEW m \in Membres, pc[q] \in AvecLot, Tient(q, m)
      PROVE  m \in AListes
  BY <1>5 DEF Places
<1>6. ASSUME NEW m \in AListes'
      PROVE  Placee(m)'
  <2>0. m \in Membres /\ membres'[m].statut \in {"ACTIF", "DEFAILLANT"}
    BY DEF AListes
  <2>1. CASE m \in AListes
    BY <2>1, PlaceGardee
  <2>2. CASE m \notin AListes
    <3>1. membres'[m] # membres[m]
      BY <2>0, <2>2 DEF AListes
    <3>2. pc[q] \notin AvecLot \/ ~Tient(q, m)
      BY <1>5, <2>0, <2>2
    <3>3. ~(pc[q] = "examiner" /\ \E x \in loc[q].lot : x.qui = m)
      BY <3>2 DEF AvecLot, Tient
    <3>4. ~(pc[q] = "defaillir" /\ loc[q].qui = m)
      BY <3>2 DEF AvecLot, Tient
    <3>5. Inscrire(q) /\ pc[q] = "inscrire" /\ loc[q].qui = m
      BY <2>0, <3>1, <3>3, <3>4, Rangee
    <3>6. ordre' = ordre /\ ~CreerPlace(q)
      BY <3>5, Arrivees DEF Inscrire, ordreVars
    <3>7. \/ pc'[q] \in Place /\ loc'[q].qui = m
          \/ \E i \in DOMAIN ordre : ordre[i].qui = m
      BY <1>1, <3>5, <3>6 DEF OrigineOrdre
    <3>. QED
      BY <3>6, <3>7 DEF Placee
  <2>. QED
    BY <2>1, <2>2
<1>7. ASSUME statut' = "CREATION"
      PROVE  /\ \A m \in Membres : membres'[m].nb = 0 /\ membres'[m].statut # "DEFAILLANT"
             /\ \A p \in Requetes : \A x \in loc'[p].lot : ~x.paye
  <2>1. statut = "CREATION" /\ ~Defaillir(q)
    BY <1>4, <1>7, JamaisCreation
  <2>2. /\ \A m \in Membres : membres[m].nb = 0 /\ membres[m].statut # "DEFAILLANT"
        /\ \A p \in Requetes : \A x \in loc[p].lot : ~x.paye
    BY <2>1 DEF Places
  <2>3. ASSUME NEW m \in Membres
        PROVE  membres'[m].nb = 0 /\ membres'[m].statut # "DEFAILLANT"
    <3>1. CASE membres'[m] = membres[m]
      BY <2>2, <3>1
    <3>2. CASE membres'[m] # membres[m]
      BY <2>1, <2>2, <3>2, Rangee
    <3>. QED
      BY <3>1, <3>2
  <2>4. \A x \in loc'[q].lot : ~x.paye
    <3>1. \A x : LuPar(x) => ~x.paye
      <4>1. ASSUME NEW x, LuPar(x), x.paye PROVE FALSE
        <5>1. x.qui \in Membres
          BY <4>1 DEF LuPar, AListes
        <5>2. membres[x.qui].nb = 0 /\ membres[x.qui].statut # "DEFAILLANT"
          BY <2>2, <5>1
        <5>. QED
          BY <4>1, <5>2 DEF LuPar
      <4>. QED
        BY <4>1
    <3>. QED
      BY <1>1, <2>2, <3>1 DEF OrigineMembre
  <2>. QED
    BY <1>1, <2>2, <2>3, <2>4
<1>8. ASSUME NEW p \in Requetes, pc'[p] \in AvecLot, NEW m \in Membres, Tient(p, m)'
      PROVE  m \in AListes'
  <2>1. CASE p # q
    <3>1. pc[p] \in AvecLot /\ Tient(p, m)
      BY <1>1, <1>8, <2>1 DEF Tient
    <3>2. m \in AListes
      BY <3>1 DEF Places
    <3>3. membres'[m] = membres[m]
      BY <1>3, <2>1, <3>1, Rangee
    <3>. QED
      BY <3>2, <3>3 DEF AListes
  <2>2. CASE p = q /\ Detecter(q)
    <3>1. pc'[q] = "examiner" /\ membres' = membres /\ pc[q] = "libre"
      BY <2>2 DEF Detecter, Commencer, Vers, TypeOK
    <3>2. loc[q].lot = {}
      BY <1>2, <3>1 DEF EtapeBonne, AvecLot
    <3>3. \A x \in loc'[q].lot : x.qui \in AListes
      BY <1>1, <3>2 DEF OrigineMembre, LuPar
    <3>4. m \in AListes
      BY <1>8, <2>2, <3>1, <3>3 DEF Tient, Rejoint
    <3>. QED
      BY <3>1, <3>4 DEF AListes
  <2>3. CASE p = q /\ ~Detecter(q)
    <3>1. pc[q] \in AvecLot /\ loc'[q].lot \subseteq loc[q].lot
      BY <1>1, <1>8, <2>3 DEF OrigineMembre
    <3>2. \E x \in loc[q].lot : x.qui = m
      <4>1. CASE \E x \in loc'[q].lot : x.qui = m
        BY <3>1, <4>1
      <4>2. CASE pc'[q] = "defaillir" /\ loc'[q].qui = m
        BY <1>1, <4>2 DEF OrigineMembre
      <4>. QED
        BY <1>8, <2>3, <4>1, <4>2 DEF Tient, AvecLot, Rejoint
    <3>3. m \in AListes
      BY <1>5, <3>1, <3>2 DEF Tient
    <3>4. ~(pc[q] = "defaillir" /\ loc[q].qui = m)
      BY <1>2, <3>2 DEF EtapeBonne
    <3>5. membres'[m] = membres[m] \/ membres'[m].statut \in {"ACTIF", membres[m].statut}
      BY <3>1, <3>4, Rangee DEF AvecLot
    <3>. QED
      BY <3>3, <3>5 DEF AListes
  <2>. QED
    BY <2>1, <2>2, <2>3
<1>9. ASSUME NEW p \in Requetes, pc'[p] = "ecrireOrdre", NEW m \in Actifs'
      PROVE  \E i \in DOMAIN loc'[p].suite : loc'[p].suite[i] = m
  <2>0. m \in Membres /\ membres'[m].statut = "ACTIF"
    BY DEF Actifs
  <2>1. CASE p = q
    <3>1. pc[q] \in Ordonne \cup Active \cup {"libre"}
      BY <1>1, <1>9, <2>1, Departs DEF OrigineOrdre, Ordonne
    <3>2. membres'[m] = membres[m]
      BY <2>0, <3>1, Rangee DEF Ordonne, Active
    <3>3. m \in Actifs
      BY <2>0, <3>2 DEF Actifs
    <3>. QED
      BY <1>1, <1>9, <2>1, <3>3 DEF OrigineOrdre
  <2>2. CASE p # q
    <3>1. pc[p] = "ecrireOrdre" /\ loc'[p] = loc[p] /\ pc[p] \in Ordonne
      BY <1>1, <1>9, <2>2 DEF Ordonne
    <3>2. pc[q] \notin Prepare /\ statut = "CREATION"
      BY <2>2, <3>1 DEF OrdreTenu, Prepare
    <3>3. \A x \in loc[q].lot : ~x.paye
      BY <3>2 DEF Places
    <3>4. membres'[m] = membres[m] \/ membres'[m].statut = membres[m].statut
      BY <2>0, <3>2, <3>3, Rangee DEF Prepare, Adhere, Rejoint
    <3>5. m \in Actifs
      BY <2>0, <3>4 DEF Actifs
    <3>. QED
      BY <3>1, <3>5 DEF Places
  <2>. QED
    BY <2>1, <2>2
<1>. QED
  BY <1>6, <1>7, <1>8, <1>9 DEF Places

(* Every step keeps the places of the members.                             *)
LEMMA PlacesPas ==
  ASSUME TypeInv, OrdreInv, PlacesInv, [Next]_vars
  PROVE  PlacesInv'
<1>. SUFFICES ASSUME ~defautCreation', ~coupure', ~courseMembre', ~courseOrdre'
              PROVE  Places'
  BY DEF PlacesInv
<1>0. OrdreTenu /\ Places
  <2>1. CASE UNCHANGED vars
    BY <2>1 DEF OrdreInv, PlacesInv, vars, courseVars
  <2>2. CASE Next
    BY <2>2, Accidents DEF OrdreInv, PlacesInv, TypeInv
  <2>. QED
    BY <2>1, <2>2
<1>1. CASE \E q \in Requetes : Traiter(q)
  BY <1>0, <1>1, PlacesTraiter
<1>2. CASE Payer \/ Retirer
  BY <1>0, <1>2, ArgentDehors DEF Places, Placee, AListes, Actifs, Tient
<1>3. CASE Panne
  <2>1. /\ UNCHANGED <<statut, membres, ordre>>
        /\ \A q \in Requetes : pc'[q] = "libre" /\ loc'[q].lot = {}
        /\ \A q \in Requetes : pc[q] \notin Place
    BY <1>3, PanneFait, ChampsRepos
  <2>2. \A m \in AListes' : Placee(m)'
    BY <1>0, <2>1 DEF Places, Placee, AListes
  <2>. QED
    BY <1>0, <2>1, <2>2 DEF Places, AvecLot
<1>4. CASE UNCHANGED vars
  BY <1>0, <1>4 DEF vars, ordreVars, procVars, Places, Placee, AListes, Actifs, Tient
<1>. QED
  BY <1>1, <1>2, <1>3, <1>4 DEF Next

-----------------------------------------------------------------------------
(* The end of the group.                                                   *)

(* The places that are not served are never more than before.              *)
LEMMA ServisCroit ==
  ASSUME TypeInv, OrdreTenu, NEW q \in Requetes, Traiter(q), statut # "CREATION"
  PROVE  NonServis' \subseteq NonServis /\ (~Enregistrer(q) => NonServis' = NonServis)
<1>1. CASE ordre' = ordre
  BY <1>1 DEF NonServis
<1>2. CASE ordre' # ordre
  <2>1. /\ Enregistrer(q) /\ DOMAIN ordre' = DOMAIN ordre
        /\ \A i \in DOMAIN ordre : ordre[i].aRecu => ordre'[i].aRecu
    BY <1>2, OrdreFige
  <2>. QED
    BY <2>1 DEF NonServis
<1>. QED
  BY <1>1, <1>2

(* A step of a handler ends the group only when all are served.            *)
LEMMA FinTraiter ==
  ASSUME TypeInv, PhaseInv, OrdreTenu, Distributions, Fins, NEW q \in Requetes, Traiter(q)
  PROVE  Fins'
<1>. TypeOK
  BY DEF TypeInv
<1>0. Avancee(q)
  BY TraiterAvance
<1>1. /\ \A p \in Requetes \ {q} : pc'[p] = pc[p] /\ loc'[p] = loc[p]
      /\ OrigineDistribution(q, pc'[q], loc'[q])
  BY <1>0, Mouvement
<1>2. \A p \in Requetes : pc'[p] \in Apres => statut # "CREATION"
  BY <1>1 DEF OrigineDistribution, PhaseInv
<1>3. ASSUME NEW p \in Requetes, pc'[p] = "enregistrer"
      PROVE  loc'[p].n = Cardinality(NonServis')
  <2>1. statut # "CREATION"
    BY <1>2, <1>3 DEF Apres, Distribue, Transfere
  <2>2. ~Enregistrer(q)
    <3>1. CASE p = q
      BY <1>3, <3>1, Arrivees
    <3>2. CASE p # q
      <4>1. pc[p] \in Distribue
        BY <1>1, <1>3, <3>2 DEF Distribue, Transfere
      <4>2. pc[q] \notin Distribue
        BY <3>2, <4>1 DEF Distributions
      <4>. QED
        BY <4>2, Arrivees DEF Distribue, Transfere
    <3>. QED
      BY <3>1, <3>2
  <2>3. NonServis' = NonServis
    BY <2>1, <2>2, ServisCroit
  <2>4. loc'[p].n = Cardinality(NonServis)
    BY <1>1, <1>3 DEF OrigineDistribution, Fins
  <2>. QED
    BY <2>3, <2>4
<1>4. ASSUME NEW p \in Requetes, pc'[p] \in {"terminer", "cloturer"}
      PROVE  NonServis' = {}
  <2>1. statut # "CREATION"
    BY <1>2, <1>4 DEF Apres
  <2>2. NonServis = {}
    BY <1>1, <1>4 DEF OrigineDistribution, Fins
  <2>. QED
    BY <2>1, <2>2, ServisCroit
<1>5. ASSUME statut' = "TERMINEE"
      PROVE  NonServis' = {}
  <2>1. CASE statut = "TERMINEE"
    <3>1. statut # "CREATION" /\ NonServis = {}
      BY <2>1 DEF Fins
    <3>. QED
      BY <3>1, ServisCroit
  <2>2. CASE EcrireStatut(q)
    <3>1. pc[q] \in {"terminer", "cloturer"}
      BY <1>5, <2>2 DEF EcrireStatut
    <3>2. statut # "CREATION" /\ NonServis = {}
      BY <3>1 DEF PhaseInv, Apres, Fins
    <3>. QED
      BY <3>2, ServisCroit
  <2>3. CASE Enregistrer(q) /\ statut # "TERMINEE"
    <3>1. pc[q] = "enregistrer" /\ pc[q] \in Distribue /\ q \in EnTransfert
      BY <2>3, Arrivees DEF Distribue, Transfere, EnTransfert
    <3>2. loc[q].tirage = tirages /\ ~ordre[loc[q].place].aRecu
      BY <3>1 DEF Distributions
    <3>3. PICK p : p = loc[q].place
      OBVIOUS
    <3>4. /\ p \in DOMAIN ordre /\ DOMAIN ordre' = DOMAIN ordre
          /\ \A i \in DOMAIN ordre : ordre'[i].aRecu <=> (ordre[i].aRecu \/ i = p)
      BY <2>3, <3>2, <3>3, EnregistrerFait
    <3>5. loc[q].n = 1
      BY <1>5, <2>3, <3>2 DEF Enregistrer
    <3>6. Cardinality(NonServis) = 1
      BY <3>1, <3>5 DEF Fins
    <3>7. IsFiniteSet(NonServis)
      <4>1. DOMAIN ordre = 1 .. Len(ordre) /\ Len(ordre) \in Nat
        BY Lignes
      <4>2. NonServis \in SUBSET (1 .. Len(ordre)) /\ IsFiniteSet(1 .. Len(ordre))
        BY <4>1, FS_Interval DEF NonServis
      <4>. QED
        BY <4>2, FS_Subset
    <3>8. PICK x : NonServis = {x}
      BY <3>6, <3>7, FS_Singleton
    <3>9. p \in NonServis
      BY <3>2, <3>3, <3>4 DEF NonServis
    <3>10. NonServis = {p}
      BY <3>8, <3>9
    <3>. QED
      BY <3>4, <3>10 DEF NonServis
  <2>. QED
    BY <1>5, <2>1, <2>2, <2>3, QuiEcrit
<1>. QED
  BY <1>3, <1>4, <1>5 DEF Fins

(* Every step ends the group only when all are served.                     *)
LEMMA FinPas ==
  ASSUME TypeInv, PhaseInv, OrdreInv, DistInv, FinInv, [Next]_vars
  PROVE  FinInv'
<1>. SUFFICES ASSUME ~courseDistribution', ~coupure', ~courseOrdre' PROVE Fins'
  BY DEF FinInv
<1>0. OrdreTenu /\ Distributions /\ Fins
  <2>1. CASE UNCHANGED vars
    BY <2>1 DEF OrdreInv, DistInv, FinInv, vars, courseVars
  <2>2. CASE Next
    BY <2>2, Accidents DEF OrdreInv, DistInv, FinInv, TypeInv
  <2>. QED
    BY <2>1, <2>2
<1>1. CASE \E q \in Requetes : Traiter(q)
  BY <1>0, <1>1, FinTraiter
<1>2. CASE Payer \/ Retirer
  BY <1>0, <1>2, ArgentDehors DEF Fins, NonServis
<1>3. CASE Panne
  BY <1>0, <1>3, PanneFait DEF Fins, NonServis
<1>4. CASE UNCHANGED vars
  BY <1>0, <1>4 DEF vars, ordreVars, procVars, Fins, NonServis
<1>. QED
  BY <1>1, <1>2, <1>3, <1>4 DEF Next

-----------------------------------------------------------------------------
(* The invariants together.                                                *)

GroupeInv ==
    /\ TypeInv /\ PhaseInv /\ OrdreInv /\ DistInv /\ MembreInv /\ ArgentInv
    /\ PlacesInv /\ FinInv

(* They hold at the start.                                                 *)
LEMMA GroupeInit == Init => GroupeInv
<1>. SUFFICES ASSUME Init PROVE GroupeInv
  OBVIOUS
<1>1. TypeInv
  BY TypesInit
<1>2. DOMAIN <<>> = {}
  OBVIOUS
<1>3. /\ statut = "CREATION" /\ ordre = <<>> /\ solde = 0 /\ attendu = 0
      /\ DOMAIN ordre = {} /\ EnTransfert = {}
      /\ \A m \in Membres : /\ versements[m] = 0 /\ membres[m].nb = 0
                            /\ membres[m].statut = "AUCUN"
      /\ \A q \in Requetes : pc[q] = "libre" /\ loc[q] = Repos
  BY <1>2 DEF Init, EnTransfert, Transfere
<1>4. PhaseInv
  BY <1>3 DEF PhaseInv, Apres, Distribue, Transfere
<1>5. OrdreTenu
  BY <1>3 DEF OrdreTenu, Adhere, Rejoint, Place, Ordonne, Active
<1>6. Distributions
  BY <1>3 DEF Distributions, Distribue, Transfere
<1>7. Recus
  BY <1>3 DEF Recus
<1>8. Argent
  BY <1>3 DEF Argent, Distribue, Transfere
<1>9. Places
  BY <1>3, ChampsRepos DEF Places, AListes, Actifs, AvecLot
<1>10. Fins
  BY <1>3 DEF Fins
<1>. QED
  BY <1>1, <1>4, <1>5, <1>6, <1>7, <1>8, <1>9, <1>10
     DEF GroupeInv, OrdreInv, DistInv, MembreInv, ArgentInv, PlacesInv, FinInv

(* Every step keeps them.                                                  *)
LEMMA GroupePas == GroupeInv /\ [Next]_vars => GroupeInv'
<1>. SUFFICES ASSUME GroupeInv, [Next]_vars PROVE GroupeInv'
  OBVIOUS
<1>. TypeInv /\ PhaseInv /\ OrdreInv /\ DistInv /\ MembreInv /\ ArgentInv
     /\ PlacesInv /\ FinInv
  BY DEF GroupeInv
<1>. QED
  BY TypesPas, PhasePas, OrdrePas, DistPas, MembrePas, ArgentPas, PlacesPas, FinPas
     DEF GroupeInv

(* All of them hold at all times.                                          *)
THEOREM GroupeTenu == Spec => []GroupeInv
  BY GroupeInit, GroupePas, PTL DEF Spec

-----------------------------------------------------------------------------
(* What a run checks.                                                      *)

(* The balance of the group is what its members paid in less what was      *)
(* withdrawn and transferred, unless money moved while distribuer held the *)
(* balance it read, two distributions ran together, the server stopped     *)
(* between the transfer and its record, or the order changed under it.     *)
THEOREM BalanceJuste == Spec => []ArgentConserve
<1>1. ASSUME GroupeInv PROVE ArgentConserve
  <2>. SUFFICES ASSUME ~courseSolde, ~courseDistribution, ~coupure, ~courseOrdre
                PROVE  /\ EnTransfert = {} => solde = attendu
                       /\ \A q \in EnTransfert :
                             EnTransfert = {q} /\ solde = attendu + loc[q].montant
    BY DEF ArgentConserve
  <2>1. Argent /\ Distributions /\ solde \in Nat
    BY <1>1 DEF GroupeInv, ArgentInv, DistInv, TypeInv, TypeOK
  <2>2. ASSUME NEW q \in EnTransfert
        PROVE  EnTransfert = {q} /\ solde = attendu + loc[q].montant
    <3>1. q \in Requetes /\ pc[q] \in Distribue
      BY DEF EnTransfert, Distribue
    <3>2. \A p \in EnTransfert : p = q
      BY <2>1, <3>1 DEF EnTransfert, Distribue, Distributions
    <3>3. loc[q].montant = solde /\ attendu = 0
      BY <2>1, <3>1 DEF Argent
    <3>. QED
      BY <2>1, <3>2, <3>3
  <2>. QED
    BY <2>1, <2>2 DEF Argent
<1>. QED
  BY <1>1, GroupeTenu, PTL

(* Nobody receives the pot twice, and who received it stays A_RECU: neither *)
(* the daily job nor a departure or a subscription makes them pay or       *)
(* receive again.                                                          *)
THEOREM PotUneFois == Spec => []UneDistribution
<1>1. ASSUME GroupeInv PROVE UneDistribution
  <2>1. \A m \in Membres : versements[m] \in Nat
    BY <1>1, Lignes DEF GroupeInv, TypeInv
  <2>2. courseDistribution \/ coupure \/ courseOrdre \/ \A m \in Membres : versements[m] <= 1
    BY <1>1, <2>1 DEF GroupeInv, DistInv, Distributions
  <2>3. courseMembre
        \/ \A p \in DOMAIN ordre : ordre[p].aRecu => membres[ordre[p].qui].statut = "A_RECU"
    BY <1>1 DEF GroupeInv, MembreInv, Recus
  <2>. QED
    BY <2>2, <2>3 DEF UneDistribution
<1>. QED
  BY <1>1, GroupeTenu, PTL

(* When the group is over every place was served and no member still waits *)
(* for the pot.                                                            *)
THEOREM FinServie == Spec => []TermineeServie
<1>1. ASSUME GroupeInv PROVE TermineeServie
  <2>. SUFFICES ASSUME ~defautCreation, ~coupure, ~courseDistribution, ~courseMembre,
                       ~courseOrdre, statut = "TERMINEE"
                PROVE  NonServis = {} /\ Actifs = {}
    BY DEF TermineeServie
  <2>1. OrdreTenu /\ Recus /\ Places /\ Fins
    BY <1>1 DEF GroupeInv, OrdreInv, MembreInv, PlacesInv, FinInv
  <2>2. NonServis = {}
    BY <2>1 DEF Fins
  <2>3. ASSUME NEW m \in Actifs PROVE FALSE
    <3>1. m \in AListes /\ membres[m].statut = "ACTIF"
      BY DEF Actifs, AListes
    <3>2. Placee(m)
      BY <2>1, <3>1 DEF Places
    <3>3. \A q \in Requetes : pc[q] \notin Place
      BY <2>1 DEF OrdreTenu, Prepare, Adhere
    <3>4. PICK i \in DOMAIN ordre : ordre[i].qui = m
      BY <3>2, <3>3 DEF Placee
    <3>5. ordre[i].aRecu
      BY <2>2 DEF NonServis
    <3>. QED
      BY <2>1, <3>1, <3>4, <3>5 DEF Recus
  <2>. QED
    BY <2>2, <2>3
<1>. QED
  BY <1>1, GroupeTenu, PTL
=============================================================================
