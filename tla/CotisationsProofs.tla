------------------------- MODULE CotisationsProofs -------------------------
(***************************************************************************)
(* Theorems about contributions: the balance is the sum of the settled     *)
(* rows, the chain of hashes is whole, the ceiling of the collector and     *)
(* the circuit breaker hold, for every number of requests and rows.        *)
(***************************************************************************)
EXTENDS Cotisations, Sommes

-----------------------------------------------------------------------------
(* What a handler holds at the steps that use it.                          *)

SurDemande == {"idempotence", "caution", "chercherAlerte", "ouvrirAlerte", "derniere",
               "creer"}
SurWebhook == {"recevoir", "echec", "compter", "suspendre", "alerter", "accuser"}
SurLigne   == {"ref", "chaine", "crediter"}

EtapeBonne(e, l) ==
    /\ e = "libre" => l.op = "aucune"
    /\ e \in SurDemande => l.op = "cotiser" /\ l.tx = 0 /\ l.montant \in Montants
    /\ e \in SurWebhook => l.op = "webhook"
    /\ l.op = "webhook" => l.tx \in DOMAIN tx /\ l.issue \in issues[l.tx]
    /\ e \in SurLigne => l.tx \in DOMAIN tx
    /\ e = "ref" => l.op = "cotiser"
    /\ e \in {"chaine", "crediter"} =>
          \/ l.op = "webhook" /\ l.issue = "SUCCESS"
          \/ l.op = "cotiser" /\ sandbox
    /\ e = "crediter" => l.hash \in Nat

EtapeOK(q) == EtapeBonne(pc[q], loc[q])

Demandeurs == {q \in Requetes : loc[q].op = "cotiser" /\ loc[q].tx = 0}

(* The provider knows the rows whose reference was stored.                 *)
IssuesOK(t) == issues[t] # {} => ~sandbox /\ t \in DOMAIN tx /\ tx[t].ref

TypeInv ==
    /\ TypeOK
    /\ \A q \in Requetes : EtapeOK(q)
    /\ \A t \in TxIds : IssuesOK(t)
    /\ Len(tx) + Cardinality(Demandeurs) <= MaxTransactions

-----------------------------------------------------------------------------
(* A row is settled by the handler that holds it, once.                    *)

\* cotiser made the row that q holds.
Demande(q) == loc[q].op = "cotiser" /\ loc[q].tx # 0

DemandesInv ==
    /\ \A p, q \in Requetes : Demande(p) /\ Demande(q) /\ loc[p].tx = loc[q].tx => p = q
    /\ \A q \in Requetes : pc[q] = "ref" => ~tx[loc[q].tx].ref
    /\ \A q \in Requetes : Demande(q) => tx[loc[q].tx].statut = "EN_ATTENTE"

Reglements ==
    /\ \A p, q \in Requetes, t \in DOMAIN tx : Regle(p, t) /\ Regle(q, t) => p = q
    /\ \A q \in Requetes, t \in DOMAIN tx : Regle(q, t) => tx[t].statut = "EN_ATTENTE"

ReglementInv == courseWebhook \/ Reglements

(* What was credited was paid, and no two rows have one key.               *)
CreditInv ==
    /\ \A t \in TxIds : credite[t] > 0 => sandbox \/ "SUCCESS" \in issues[t]
    /\ \A s, t \in DOMAIN tx : tx[s].cle # Nul /\ tx[s].cle = tx[t].cle => s = t

SoldeInv == courseWebhook \/ solde = SoldeInitial - debits + Somme(Reussies)

-----------------------------------------------------------------------------
(* The settled rows are chained in their order, and a handler that settles  *)
(* one holds the end of the chain.                                         *)
Chaines ==
    /\ ~Rupture
    /\ \A p, q \in Requetes : pc[p] = "crediter" /\ pc[q] = "crediter" => p = q
    /\ \A q \in Requetes : pc[q] = "crediter" =>
          /\ \A u \in Reussies : u < loc[q].tx
          /\ loc[q].hash = IF Reussies = {} THEN 0 ELSE tx[DerniereReussie].hash

ChaineInv == courseWebhook \/ courseChaine \/ Chaines

-----------------------------------------------------------------------------
(* At most one payment of the month is on its way, and has its room left.  *)

DuMois == {t \in Reussies : t > debutMois}
EnAttente == {t \in DOMAIN tx : t > debutMois /\ tx[t].statut = "EN_ATTENTE"}

Plafonds ==
    /\ Somme(DuMois) < Caution
    /\ \A p, q \in Requetes : Verifie(p) /\ Verifie(q) => p = q
    /\ \A q \in Requetes : Verifie(q) => /\ EnAttente = {}
                                         /\ Somme(DuMois) + loc[q].montant < Caution
    /\ \A s, t \in EnAttente : s = t
    /\ \A t \in EnAttente : Somme(DuMois) + tx[t].montant < Caution

PlafondInv == Caution > 0 => courseWebhook \/ courseCaution \/ Plafonds

AlerteInv ==
    courseAlerte \/
    /\ alertes <= 1
    /\ \A p, q \in Requetes : pc[p] = "ouvrirAlerte" /\ pc[q] = "ouvrirAlerte" => p = q
    /\ \A q \in Requetes : pc[q] = "ouvrirAlerte" => alertes = 0

-----------------------------------------------------------------------------
(* What the rows and the local variables are.                              *)

(* The rows are numbered from 1 on and have the fields of their type.      *)
LEMMA Lignes ==
  ASSUME TypeOK
  PROVE  /\ Len(tx) \in Nat /\ DOMAIN tx = 1..Len(tx) /\ DOMAIN tx \subseteq TxIds
         /\ TxIds \subseteq Nat \ {0} /\ 0 \notin DOMAIN tx
         /\ \A t \in DOMAIN tx : tx[t] \in Transaction
<1>1. tx \in Seq(Transaction) /\ Len(tx) <= MaxTransactions /\ MaxTransactions \in Nat
  BY CotisationsAssumption DEF TypeOK
<1>2. Len(tx) \in Nat /\ DOMAIN tx = 1..Len(tx) /\ \A t \in DOMAIN tx : tx[t] \in Transaction
  BY <1>1
<1>. QED
  BY <1>1, <1>2 DEF TxIds

(* The fields of a row.                                                    *)
LEMMA ChampsLigne ==
  ASSUME NEW x \in Transaction
  PROVE  /\ x.statut \in {"EN_ATTENTE", "SUCCES", "ECHOUE"} /\ x.montant \in Montants
         /\ x.cle \in Cles \cup {Nul} /\ x.ref \in BOOLEAN
         /\ x.precedent \in Int /\ x.hash \in Nat
  BY DEF Transaction

(* The fields of the local variables.                                      *)
LEMMA ChampsLocaux ==
  ASSUME NEW l \in Locales
  PROVE  /\ l.op \in {"aucune", "cotiser", "webhook"} /\ l.montant \in Montants \cup {0}
         /\ l.cle \in Cles \cup {Nul} /\ l.tx \in Nat
         /\ l.issue \in {"aucune", "SUCCESS", "FAILED"} /\ l.hash \in Int
  BY DEF Locales

(* A request keeps what it was made with.                                  *)
LEMMA ChampsRequete ==
  ASSUME NEW op \in {"aucune", "cotiser", "webhook"}, NEW m \in Montants \cup {0},
         NEW k \in Cles \cup {Nul}, NEW t \in Nat, NEW i \in {"aucune", "SUCCESS", "FAILED"}
  PROVE  \A l : l = Requete(op, m, k, t, i) =>
            /\ l \in Locales /\ l.op = op /\ l.montant = m /\ l.cle = k /\ l.tx = t
            /\ l.issue = i /\ l.hash = 0
<1>1. ASSUME NEW l, l = Requete(op, m, k, t, i)
      PROVE  l = [op |-> op, montant |-> m, cle |-> k, tx |-> t, issue |-> i, hash |-> 0]
  BY <1>1 DEF Requete
<1>2. 0 \in Int
  OBVIOUS
<1>. QED
  BY <1>1, <1>2 DEF Locales

(* A handler at rest holds nothing.                                        *)
LEMMA ChampsRepos ==
  Repos \in Locales /\ Repos.op = "aucune" /\ Repos.tx = 0
  BY DEF Repos, Requete, Locales

(* The handlers read a new hash into the local variables.                  *)
LEMMA HashLu ==
  ASSUME NEW l \in Locales, NEW h \in Int
  PROVE  \A e : e = [l EXCEPT !.hash = h] =>
            /\ e \in Locales /\ e.op = l.op /\ e.montant = l.montant /\ e.cle = l.cle
            /\ e.tx = l.tx /\ e.issue = l.issue /\ e.hash = h
  BY DEF Locales

(* The newest settled row.                                                 *)
LEMMA Derniere ==
  ASSUME TypeOK
  PROVE  /\ Reussies \subseteq DOMAIN tx /\ IsFiniteSet(DOMAIN tx)
         /\ Reussies = {} => DerniereReussie = 0
         /\ Reussies # {} => /\ DerniereReussie \in Reussies
                             /\ \A u \in Reussies : u <= DerniereReussie
<1>1. /\ Reussies \in SUBSET Nat /\ Reussies \subseteq DOMAIN tx
      /\ \A u \in Reussies : u <= Len(tx)
  BY Lignes DEF Reussies
<1>2. IsFiniteSet(DOMAIN tx)
  BY Lignes, FS_Interval
<1>3. Reussies # {} => Max(Reussies) \in Reussies /\ \A u \in Reussies : u <= Max(Reussies)
  BY <1>1, Lignes, PlusGrand
<1>. QED
  BY <1>1, <1>2, <1>3 DEF DerniereReussie

(* A settlement makes a hash of its own.                                   *)
LEMMA HashNouveau ==
  ASSUME TypeOK
  PROVE  NouveauHash \in Nat \ {0}
<1>1. IsFiniteSet(TxIds)
  BY CotisationsAssumption, FS_Interval DEF TxIds
<1>2. DOMAIN credite = TxIds /\ \A t \in TxIds : credite[t] \in Nat
  BY DEF TypeOK
<1>3. PICK f : f = credite
  OBVIOUS
<1>4. SumFunctionOnSet(f, TxIds) \in Nat
  BY <1>1, <1>2, <1>3, SommeSans
<1>. QED
  BY <1>2, <1>3, <1>4 DEF NouveauHash, SumFunction

-----------------------------------------------------------------------------
(* What a step writes into the rows.                                       *)

(* Row t changes its statut, the other rows and the payment stay.          *)
Ecrite(t, st) ==
    /\ tx' \in Seq(Transaction) /\ Len(tx') = Len(tx)
    /\ \A u \in DOMAIN tx \ {t} : tx'[u] = tx[u]
    /\ tx'[t].statut = st /\ tx'[t].montant = tx[t].montant /\ tx'[t].cle = tx[t].cle

Ajoutee(q) ==
    /\ tx' \in Seq(Transaction) /\ Len(tx') = Len(tx) + 1
    /\ \A u \in DOMAIN tx : tx'[u] = tx[u]
    /\ tx'[Len(tx) + 1].statut = "EN_ATTENTE" /\ ~tx'[Len(tx) + 1].ref
    /\ tx'[Len(tx) + 1].montant = loc[q].montant /\ tx'[Len(tx) + 1].cle = loc[q].cle
    /\ CleLibre(loc[q].cle)

(* A row written at one place.                                             *)
LEMMA RangeeEcrite ==
  ASSUME TypeOK, NEW t \in DOMAIN tx, NEW e \in Transaction
  PROVE  \A s : s = [tx EXCEPT ![t] = e] =>
            /\ s \in Seq(Transaction) /\ Len(s) = Len(tx)
            /\ \A u \in DOMAIN tx \ {t} : s[u] = tx[u]
            /\ s[t] = e
  BY DEF TypeOK

(* cotiser adds a pending row.                                             *)
LEMMA CreerFait ==
  ASSUME TypeOK, NEW q \in Requetes, Creer(q), CleLibre(loc[q].cle),
         loc[q].montant \in Montants
  PROVE  Ajoutee(q)
<1>1. PICK x : x = [statut |-> "EN_ATTENTE", montant |-> loc[q].montant, cle |-> loc[q].cle,
                    ref |-> FALSE, precedent |-> loc[q].hash, hash |-> 0]
  OBVIOUS
<1>2. loc[q] \in Locales /\ tx \in Seq(Transaction)
  BY DEF TypeOK
<1>3. /\ x \in Transaction /\ x.statut = "EN_ATTENTE" /\ ~x.ref
      /\ x.montant = loc[q].montant /\ x.cle = loc[q].cle
  BY <1>1, <1>2, ChampsLocaux DEF Transaction
<1>4. tx' = Append(tx, x)
  BY <1>1 DEF Creer
<1>5. /\ tx' \in Seq(Transaction) /\ Len(tx') = Len(tx) + 1 /\ tx'[Len(tx) + 1] = x
      /\ \A u \in DOMAIN tx : tx'[u] = tx[u]
  BY <1>2, <1>3, <1>4
<1>. QED
  BY <1>3, <1>5 DEF Ajoutee

(* The reference is all that cotiser stores afterwards.                    *)
LEMMA RefFait ==
  ASSUME TypeOK, NEW q \in Requetes, StockerRef(q), loc[q].tx \in DOMAIN tx
  PROVE  LET t == loc[q].tx IN
         /\ Ecrite(t, tx[t].statut)
         /\ tx'[t].ref /\ tx'[t].precedent = tx[t].precedent /\ tx'[t].hash = tx[t].hash
<1>1. PICK t \in DOMAIN tx : t = loc[q].tx
  OBVIOUS
<1>2. PICK d \in Transaction : d = tx[t]
  BY Lignes
<1>3. PICK e : e = [d EXCEPT !.ref = TRUE]
  OBVIOUS
<1>4. /\ e \in Transaction /\ e.ref /\ e.statut = d.statut /\ e.montant = d.montant
      /\ e.cle = d.cle /\ e.precedent = d.precedent /\ e.hash = d.hash
  BY <1>3 DEF Transaction
<1>5. tx' = [tx EXCEPT ![t] = e]
  BY <1>1, <1>2, <1>3 DEF StockerRef
<1>6. /\ tx' \in Seq(Transaction) /\ Len(tx') = Len(tx) /\ tx'[t] = e
      /\ \A u \in DOMAIN tx \ {t} : tx'[u] = tx[u]
  <2>1. e \in Transaction
    BY <1>4
  <2>. QED
    BY <2>1, <1>5, RangeeEcrite
<1>. QED
  BY <1>1, <1>2, <1>4, <1>6, Zenon DEF Ecrite

(* A failed payment marks its row.                                         *)
LEMMA EchecFait ==
  ASSUME TypeOK, NEW q \in Requetes, MarquerEchec(q), loc[q].tx \in DOMAIN tx
  PROVE  LET t == loc[q].tx IN Ecrite(t, "ECHOUE") /\ tx'[t].ref = tx[t].ref
<1>1. PICK t \in DOMAIN tx : t = loc[q].tx
  OBVIOUS
<1>2. PICK d \in Transaction : d = tx[t]
  BY Lignes
<1>3. PICK e : e = [d EXCEPT !.statut = "ECHOUE"]
  OBVIOUS
<1>4. /\ e \in Transaction /\ e.statut = "ECHOUE" /\ e.montant = d.montant
      /\ e.cle = d.cle
  BY <1>3 DEF Transaction
<1>8. e.ref = d.ref
  BY <1>3 DEF Transaction
<1>5. tx' = [tx EXCEPT ![t] = e]
  BY <1>1, <1>2, <1>3 DEF MarquerEchec
<1>6. tx'[t] = e /\ tx'[t].ref = tx[t].ref
  BY <1>2, <1>4, <1>5, <1>8, RangeeEcrite, Zenon
<1>7. Ecrite(t, "ECHOUE")
  <2>1. /\ tx' \in Seq(Transaction) /\ Len(tx') = Len(tx) /\ tx'[t] = e
        /\ \A u \in DOMAIN tx \ {t} : tx'[u] = tx[u]
    <3>1. e \in Transaction
      BY <1>4
    <3>. QED
      BY <3>1, <1>5, RangeeEcrite
  <2>. QED
    BY <1>2, <1>4, <2>1, Zenon DEF Ecrite
<1>. QED
  BY <1>1, <1>6, <1>7, Zenon

(* A settled payment marks and chains its row, and is on the balance.      *)
LEMMA CreditFait ==
  ASSUME TypeOK, NEW q \in Requetes, Crediter(q), loc[q].tx \in DOMAIN tx,
         loc[q].hash \in Nat
  PROVE  LET t == loc[q].tx IN
         /\ Ecrite(t, "SUCCES") /\ tx'[t].ref = tx[t].ref
         /\ tx'[t].precedent = loc[q].hash /\ tx'[t].hash = NouveauHash
         /\ solde' = solde + tx[t].montant
         /\ credite' = [credite EXCEPT ![t] = credite[t] + 1]
<1>1. PICK t \in DOMAIN tx : t = loc[q].tx
  OBVIOUS
<1>2. PICK d \in Transaction : d = tx[t]
  BY Lignes
<1>3. PICK n \in Nat \ {0} : n = NouveauHash
  BY HashNouveau
<1>4. PICK h \in Nat : h = loc[q].hash
  OBVIOUS
<1>5. PICK e : e = [d EXCEPT !.statut = "SUCCES", !.precedent = h, !.hash = n]
  OBVIOUS
<1>6. /\ e \in Transaction /\ e.statut = "SUCCES" /\ e.montant = d.montant
      /\ e.cle = d.cle /\ e.precedent = h /\ e.hash = n
  <2>1. h \in Int /\ n \in Nat
    OBVIOUS
  <2>. QED
    BY <1>5, <2>1 DEF Transaction
<1>7. tx' = [tx EXCEPT ![t] = e]
  <2>1. tx' = [tx EXCEPT ![t] = [tx[t] EXCEPT !.statut = "SUCCES", !.precedent = h, !.hash = n]]
    BY <1>1, <1>3, <1>4 DEF Crediter
  <2>. QED
    BY <1>2, <1>5, <2>1
<1>8. solde' = solde + tx[t].montant /\ credite' = [credite EXCEPT ![t] = credite[t] + 1]
  BY <1>1 DEF Crediter
<1>11. e.ref = d.ref
  BY <1>5 DEF Transaction
<1>9. tx'[t] = e /\ tx'[t].ref = tx[t].ref
  BY <1>2, <1>6, <1>7, <1>11, RangeeEcrite, Zenon
<1>10. Ecrite(t, "SUCCES")
  <2>1. /\ tx' \in Seq(Transaction) /\ Len(tx') = Len(tx) /\ tx'[t] = e
        /\ \A u \in DOMAIN tx \ {t} : tx'[u] = tx[u]
    <3>1. e \in Transaction
      BY <1>6
    <3>. QED
      BY <3>1, <1>7, RangeeEcrite
  <2>. QED
    BY <1>2, <1>6, <2>1, Zenon DEF Ecrite
<1>. QED
  BY <1>1, <1>3, <1>4, <1>6, <1>8, <1>9, <1>10, Zenon

-----------------------------------------------------------------------------
(* How a handler moves.                                                    *)

Va(q, e, l) == pc' = [pc EXCEPT ![q] = e] /\ loc' = [loc EXCEPT ![q] = l]

Meme(q, l) ==
    /\ l.op = loc[q].op /\ l.tx = loc[q].tx
    /\ l.montant = loc[q].montant /\ l.issue = loc[q].issue

Suites ==
    {<<"idempotence", "caution">>, <<"caution", "chercherAlerte">>, <<"caution", "derniere">>,
     <<"chercherAlerte", "derniere">>, <<"chercherAlerte", "ouvrirAlerte">>,
     <<"ouvrirAlerte", "derniere">>, <<"derniere", "creer">>, <<"ref", "chaine">>,
     <<"recevoir", "chaine">>, <<"recevoir", "echec">>, <<"recevoir", "accuser">>,
     <<"echec", "compter">>, <<"compter", "suspendre">>, <<"compter", "accuser">>,
     <<"suspendre", "alerter">>, <<"alerter", "accuser">>, <<"chaine", "crediter">>,
     <<"crediter", "accuser">>}

(* The step a handler reaches, and what it takes along.                    *)
Passe(q, e, l) ==
    \/ e = "libre" /\ l = Repos
    \/ /\ pc[q] = "libre" /\ e \in {"idempotence", "caution"}
       /\ l.op = "cotiser" /\ l.tx = 0 /\ l.montant \in Montants
       /\ LignesPrevues < MaxTransactions
    \/ /\ pc[q] = "libre" /\ e = "recevoir"
       /\ l.op = "webhook" /\ l.tx \in TxIds /\ l.issue \in issues[l.tx]
    \/ /\ pc[q] = "creer" /\ e = "ref" /\ Ajoutee(q)
       /\ l.op = "cotiser" /\ l.tx = Len(tx) + 1
    \/ /\ Meme(q, l) /\ <<pc[q], e>> \in Suites
       /\ e = "crediter" => /\ l.hash \in Nat
                            /\ l.hash = IF DerniereReussie = 0 THEN 0
                                        ELSE tx[DerniereReussie].hash
       /\ pc[q] = "recevoir" => /\ e = "chaine" => loc[q].issue = "SUCCESS"
                                /\ e # "accuser" => tx[loc[q].tx].statut = "EN_ATTENTE"
       /\ pc[q] = "ref" => sandbox
       /\ pc[q] = "crediter" => loc[q].op = "webhook"

(* A handler that answers rests.                                           *)
LEMMA RepondrePasse ==
  ASSUME NEW q \in Requetes, Repondre(q)
  PROVE  /\ Va(q, "libre", Repos) /\ "libre" \in Etapes /\ Repos \in Locales
         /\ Passe(q, "libre", Repos)
  BY ChampsRepos DEF Repondre, Vers, Va, Etapes, Passe

(* A handler that goes on with what it holds.                              *)
LEMMA GardePasse ==
  ASSUME TypeOK, NEW q \in Requetes, NEW e \in Etapes, Vers(q, e), UNCHANGED loc,
         <<pc[q], e>> \in Suites, e # "crediter", pc[q] \notin {"recevoir", "ref"},
         pc[q] = "crediter" => loc[q].op = "webhook"
  PROVE  /\ Va(q, e, loc[q]) /\ loc[q] \in Locales
         /\ Passe(q, e, loc[q])
<1>1. loc \in [Requetes -> Locales]
  BY DEF TypeOK
<1>2. loc' = [loc EXCEPT ![q] = loc[q]] /\ loc[q] \in Locales
  BY <1>1
<1>. QED
  BY <1>2 DEF Vers, Va, Passe, Meme

Traiter(q) ==
    \/ Cotiser(q) \/ Poursuivre(q)
    \/ \E t \in TxIds : Livrer(q, t) \/ Doubler(q, t)

Avancee(q) == \E e \in Etapes, l \in Locales : Va(q, e, l) /\ Passe(q, e, l)

(* A request of a client begins.                                           *)
LEMMA CotiserAvance ==
  ASSUME TypeInv, NEW q \in Requetes, Cotiser(q)
  PROVE  Avancee(q)
<1>1. PICK m \in Montants, k \in Cles \cup {Nul} :
         Commencer(q, IF k = Nul THEN "caution" ELSE "idempotence",
                   Requete("cotiser", m, k, 0, "aucune"))
  BY DEF Cotiser
<1>2. PICK e \in {"idempotence", "caution"} : e = IF k = Nul THEN "caution" ELSE "idempotence"
  OBVIOUS
<1>3. PICK l : l = Requete("cotiser", m, k, 0, "aucune")
  OBVIOUS
<1>4. l \in Locales /\ l.op = "cotiser" /\ l.tx = 0 /\ l.montant = m
  BY <1>3, ChampsRequete
<1>5. pc[q] = "libre" /\ Va(q, e, l)
  BY <1>1, <1>2, <1>3 DEF Commencer, Vers, Va
<1>6. LignesPrevues < MaxTransactions
  BY DEF Cotiser
<1>7. Passe(q, e, l)
  BY <1>4, <1>5, <1>6 DEF Passe
<1>. QED
  BY <1>4, <1>5, <1>7 DEF Avancee, Etapes

(* A webhook arrives.                                                      *)
LEMMA WebhookAvance ==
  ASSUME TypeInv, NEW q \in Requetes, NEW t \in TxIds, NEW i \in issues[t],
         Commencer(q, "recevoir", Requete("webhook", 0, Nul, t, i))
  PROVE  Avancee(q)
<1>1. t \in Nat /\ i \in {"SUCCESS", "FAILED"}
  <2>1. t \in Nat
    BY CotisationsAssumption DEF TxIds
  <2>2. i \in {"SUCCESS", "FAILED"}
    BY DEF TypeInv, TypeOK
  <2>. QED
    BY <2>1, <2>2
<1>2. PICK l : l = Requete("webhook", 0, Nul, t, i)
  OBVIOUS
<1>3. l \in Locales /\ l.op = "webhook" /\ l.tx = t /\ l.issue = i
  BY <1>1, <1>2, ChampsRequete
<1>4. pc[q] = "libre" /\ Va(q, "recevoir", l)
  BY <1>2 DEF Commencer, Vers, Va
<1>5. Passe(q, "recevoir", l)
  BY <1>3, <1>4 DEF Passe
<1>. QED
  BY <1>3, <1>4, <1>5 DEF Avancee, Etapes

(* A request reads the key, the ceiling and the alert.                     *)
LEMMA ControleAvance ==
  ASSUME TypeInv, NEW q \in Requetes,
         \/ ChercherCle(q) \/ VerifierCaution(q) \/ ChercherAlerte(q) \/ OuvrirAlerte(q)
  PROVE  Avancee(q)
<1>. TypeOK
  BY DEF TypeInv
<1>1. CASE Repondre(q)
  BY <1>1, RepondrePasse DEF Avancee
<1>2. CASE ~Repondre(q)
  <2>1. PICK e \in Etapes : /\ Vers(q, e) /\ UNCHANGED loc /\ <<pc[q], e>> \in Suites
                            /\ e # "crediter" /\ pc[q] \notin {"recevoir", "ref", "crediter"}
    BY <1>2 DEF ChercherCle, VerifierCaution, ChercherAlerte, OuvrirAlerte, Suites, Etapes
  <2>. QED
    BY <2>1, GardePasse DEF Avancee
<1>. QED
  BY <1>1, <1>2

(* A request reads the end of the chain and makes its row.                 *)
LEMMA CreationAvance ==
  ASSUME TypeInv, NEW q \in Requetes, LireDerniere(q) \/ Creer(q) \/ StockerRef(q)
  PROVE  Avancee(q)
<1>. TypeOK /\ EtapeOK(q) /\ loc[q] \in Locales
  BY DEF TypeInv, TypeOK
<1>1. CASE LireDerniere(q)
  <2>1. PICK h : h = IF Len(tx) = 0 THEN GENESIS
                     ELSE IF tx[Len(tx)].hash = 0 THEN GENESIS ELSE tx[Len(tx)].hash
    OBVIOUS
  <2>2. h \in Int
    <3>1. CASE Len(tx) = 0
      BY <2>1, <3>1 DEF GENESIS
    <3>2. CASE Len(tx) # 0
      <4>1. tx[Len(tx)] \in Transaction
        BY <3>2, Lignes
      <4>2. tx[Len(tx)].hash \in Nat
        BY <4>1, ChampsLigne
      <4>. QED
        BY <2>1, <3>2, <4>2 DEF GENESIS
    <3>. QED
      BY <3>1, <3>2
  <2>3. PICK l : l = [loc[q] EXCEPT !.hash = h]
    OBVIOUS
  <2>4. l \in Locales /\ Meme(q, l)
    BY <2>2, <2>3, HashLu DEF Meme
  <2>5. pc[q] = "derniere" /\ Va(q, "creer", l)
    BY <1>1, <2>1, <2>3 DEF LireDerniere, Vers, Va
  <2>6. Passe(q, "creer", l)
    BY <2>4, <2>5 DEF Passe, Suites
  <2>. QED
    BY <2>4, <2>5, <2>6 DEF Avancee, Etapes
<1>2. CASE Creer(q)
  <2>1. CASE ~CleLibre(loc[q].cle)
    BY <1>2, <2>1, RepondrePasse DEF Creer, Avancee
  <2>2. CASE CleLibre(loc[q].cle)
    <3>1. pc[q] = "creer" /\ loc[q].montant \in Montants
      BY <1>2 DEF Creer, EtapeOK, EtapeBonne, SurDemande
    <3>2. Ajoutee(q)
      BY <1>2, <2>2, <3>1, CreerFait
    <3>3. PICK l : l = Requete("cotiser", loc[q].montant, loc[q].cle, Len(tx) + 1, "aucune")
      OBVIOUS
    <3>4. Len(tx) + 1 \in Nat /\ loc[q].cle \in Cles \cup {Nul}
      <4>1. Len(tx) \in Nat
        BY Lignes
      <4>2. loc[q].cle \in Cles \cup {Nul}
        BY ChampsLocaux
      <4>. QED
        BY <4>1, <4>2
    <3>5. l \in Locales /\ l.op = "cotiser" /\ l.tx = Len(tx) + 1
      BY <3>1, <3>3, <3>4, ChampsRequete
    <3>6. Va(q, "ref", l)
      BY <1>2, <2>2, <3>3 DEF Creer, Vers, Va
    <3>7. Passe(q, "ref", l)
      BY <3>1, <3>2, <3>5 DEF Passe
    <3>. QED
      BY <3>5, <3>6, <3>7 DEF Avancee, Etapes
  <2>. QED
    BY <2>1, <2>2
<1>3. CASE StockerRef(q)
  <2>1. CASE sandbox
    <3>1. pc[q] = "ref" /\ Vers(q, "chaine") /\ UNCHANGED loc
      BY <1>3, <2>1 DEF StockerRef
    <3>2. loc \in [Requetes -> Locales]
      BY DEF TypeOK
    <3>3. loc' = [loc EXCEPT ![q] = loc[q]]
      BY <3>1, <3>2
    <3>4. Va(q, "chaine", loc[q])
      BY <3>1, <3>3 DEF Vers, Va
    <3>5. Passe(q, "chaine", loc[q])
      BY <2>1, <3>1 DEF Passe, Meme, Suites
    <3>. QED
      BY <3>4, <3>5 DEF Avancee, Etapes
  <2>2. CASE ~sandbox
    BY <1>3, <2>2, RepondrePasse DEF StockerRef, Avancee
  <2>. QED
    BY <2>1, <2>2
<1>. QED
  BY <1>1, <1>2, <1>3

(* A webhook is handled, up to its answer.                                 *)
LEMMA ReponseAvance ==
  ASSUME TypeInv, NEW q \in Requetes,
         \/ Recevoir(q) \/ MarquerEchec(q) \/ CompterEchecs(q) \/ Suspendre(q)
         \/ Alerter(q) \/ Accuser(q)
  PROVE  Avancee(q)
<1>. TypeOK /\ EtapeOK(q) /\ loc[q] \in Locales
  BY DEF TypeInv, TypeOK
<1>1. CASE Recevoir(q)
  <2>1. PICK e \in {"chaine", "echec", "accuser"} :
           /\ Vers(q, e) /\ UNCHANGED loc /\ pc[q] = "recevoir"
           /\ e = "chaine" => loc[q].issue = "SUCCESS"
           /\ e # "accuser" => tx[loc[q].tx].statut = "EN_ATTENTE"
    BY <1>1 DEF Recevoir, EstATraiter, Suite
  <2>2. loc \in [Requetes -> Locales]
    BY DEF TypeOK
  <2>3. loc' = [loc EXCEPT ![q] = loc[q]]
    BY <2>1, <2>2
  <2>4. Va(q, e, loc[q]) /\ <<pc[q], e>> \in Suites
    BY <2>1, <2>3 DEF Vers, Va, Suites
  <2>5. Passe(q, e, loc[q])
    BY <2>1, <2>4 DEF Passe, Meme
  <2>. QED
    BY <2>4, <2>5 DEF Avancee, Etapes
<1>2. CASE MarquerEchec(q) \/ CompterEchecs(q) \/ Suspendre(q) \/ Alerter(q)
  <2>1. PICK e \in Etapes : /\ Vers(q, e) /\ UNCHANGED loc /\ <<pc[q], e>> \in Suites
                            /\ e # "crediter" /\ pc[q] \notin {"recevoir", "ref", "crediter"}
    BY <1>2 DEF MarquerEchec, CompterEchecs, Suspendre, Alerter, Suites, Etapes
  <2>. QED
    BY <2>1, GardePasse DEF Avancee
<1>3. CASE Accuser(q)
  BY <1>3, RepondrePasse DEF Accuser, Avancee
<1>. QED
  BY <1>1, <1>2, <1>3

(* A row is settled.                                                       *)
LEMMA ReglementAvance ==
  ASSUME TypeInv, NEW q \in Requetes, LireChaine(q) \/ Crediter(q)
  PROVE  Avancee(q)
<1>. TypeOK /\ EtapeOK(q) /\ loc[q] \in Locales
  BY DEF TypeInv, TypeOK
<1>1. CASE LireChaine(q)
  <2>1. PICK h : h = IF DerniereReussie = 0 THEN 0 ELSE tx[DerniereReussie].hash
    OBVIOUS
  <2>2. h \in Nat /\ h \in Int
    <3>1. CASE DerniereReussie = 0
      BY <2>1, <3>1
    <3>2. CASE DerniereReussie # 0
      <4>1. tx[DerniereReussie] \in Transaction
        BY <3>2, Derniere, Lignes
      <4>. QED
        BY <2>1, <3>2, <4>1, ChampsLigne
    <3>. QED
      BY <3>1, <3>2
  <2>3. PICK l : l = [loc[q] EXCEPT !.hash = h]
    OBVIOUS
  <2>4. l \in Locales /\ Meme(q, l) /\ l.hash = h
    BY <2>2, <2>3, HashLu DEF Meme
  <2>5. pc[q] = "chaine" /\ Va(q, "crediter", l)
    BY <1>1, <2>1, <2>3 DEF LireChaine, Vers, Va
  <2>6. Passe(q, "crediter", l)
    BY <2>1, <2>2, <2>4, <2>5 DEF Passe, Suites
  <2>. QED
    BY <2>4, <2>5, <2>6 DEF Avancee, Etapes
<1>2. CASE Crediter(q)
  <2>1. CASE loc[q].op = "webhook"
    <3>1. pc[q] = "crediter" /\ Vers(q, "accuser") /\ UNCHANGED loc
      BY <1>2, <2>1 DEF Crediter
    <3>. QED
      BY <2>1, <3>1, GardePasse DEF Avancee, Suites, Etapes
  <2>2. CASE loc[q].op # "webhook"
    BY <1>2, <2>2, RepondrePasse DEF Crediter, Avancee
  <2>. QED
    BY <2>1, <2>2
<1>. QED
  BY <1>1, <1>2

(* Every step of a handler is in the table.                                *)
LEMMA TraiterAvance ==
  ASSUME TypeInv, NEW q \in Requetes, Traiter(q)
  PROVE  Avancee(q)
<1>1. CASE \E t \in TxIds : Livrer(q, t) \/ Doubler(q, t)
  BY <1>1, WebhookAvance DEF Livrer, Doubler
<1>. QED
  BY <1>1, CotiserAvance, ControleAvance, CreationAvance, ReponseAvance, ReglementAvance
     DEF Traiter, Poursuivre

-----------------------------------------------------------------------------
(* What a step writes.                                                     *)

Effet(q) ==
    LET t == loc[q].tx IN
    \/ UNCHANGED <<tx, solde, credite>>
    \/ /\ pc[q] = "creer" /\ Ajoutee(q) /\ pc'[q] = "ref"
       /\ UNCHANGED <<solde, credite>>
    \/ /\ pc[q] = "ref" /\ Ecrite(t, tx[t].statut) /\ tx'[t].ref
       /\ tx'[t].precedent = tx[t].precedent /\ tx'[t].hash = tx[t].hash
       /\ UNCHANGED <<solde, credite>>
    \/ /\ pc[q] = "echec" /\ Ecrite(t, "ECHOUE") /\ tx'[t].ref = tx[t].ref
       /\ UNCHANGED <<solde, credite>>
    \/ /\ pc[q] = "crediter" /\ Ecrite(t, "SUCCES") /\ tx'[t].ref = tx[t].ref
       /\ tx'[t].precedent = loc[q].hash /\ tx'[t].hash = NouveauHash
       /\ solde' = solde + tx[t].montant
       /\ credite' = [credite EXCEPT ![t] = credite[t] + 1]

(* Each table is written by a few actions.                                 *)
LEMMA QuiEcrit ==
  ASSUME NEW q \in Requetes, Traiter(q)
  PROVE  /\ UNCHANGED <<sandbox, debits, debutMois, anciennes, issues, pannes>>
         /\ tx' = tx \/ Creer(q) \/ StockerRef(q) \/ MarquerEchec(q) \/ Crediter(q)
         /\ UNCHANGED <<solde, credite>> \/ Crediter(q)
         /\ suspendu' = suspendu \/ Suspendre(q)
         /\ alertes' = alertes \/ OuvrirAlerte(q)
         /\ disjonctions' = disjonctions \/ Alerter(q)
         /\ recus' = recus \/ Accuser(q)
         /\ courseWebhook' = courseWebhook \/ Recevoir(q)
         /\ courseChaine' = courseChaine \/ LireChaine(q)
         /\ courseCaution' = courseCaution \/ VerifierCaution(q)
         /\ courseAlerte' = courseAlerte \/ ChercherAlerte(q)
         /\ doublons' \in {doublons, doublons + 1}
  BY DEF Traiter, Poursuivre, Cotiser, Commencer, Livrer, Doubler, ChercherCle,
     VerifierCaution, ChercherAlerte, OuvrirAlerte, LireDerniere, Creer, StockerRef,
     Recevoir, MarquerEchec, CompterEchecs, Suspendre, Alerter, LireChaine, Crediter,
     Accuser, tableVars, tempsVars, kkiapayVars, histVars, courseVars

(* Every step of a handler writes at most one row.                         *)
LEMMA EffetDe ==
  ASSUME TypeInv, NEW q \in Requetes, Traiter(q)
  PROVE  Effet(q)
<1>. TypeOK /\ EtapeOK(q)
  BY DEF TypeInv
<1>1. CASE Creer(q)
  <2>1. pc[q] = "creer" /\ loc[q].montant \in Montants /\ UNCHANGED <<solde, credite>>
    BY <1>1 DEF Creer, EtapeOK, EtapeBonne, SurDemande, histVars
  <2>2. CASE ~CleLibre(loc[q].cle)
    BY <1>1, <2>1, <2>2 DEF Creer, Effet
  <2>3. CASE CleLibre(loc[q].cle)
    <3>1. Ajoutee(q)
      BY <1>1, <2>1, <2>3, CreerFait
    <3>2. pc'[q] = "ref"
      BY <1>1, <2>3 DEF Creer, Vers, TypeOK
    <3>. QED
      BY <2>1, <3>1, <3>2 DEF Effet
  <2>. QED
    BY <2>2, <2>3
<1>2. CASE StockerRef(q)
  <2>1. pc[q] = "ref" /\ loc[q].tx \in DOMAIN tx /\ UNCHANGED <<solde, credite>>
    BY <1>2 DEF StockerRef, EtapeOK, EtapeBonne, SurLigne, histVars
  <2>. QED
    BY <1>2, <2>1, RefFait DEF Effet
<1>3. CASE MarquerEchec(q)
  <2>1. pc[q] = "echec" /\ loc[q].tx \in DOMAIN tx /\ UNCHANGED <<solde, credite>>
    BY <1>3 DEF MarquerEchec, EtapeOK, EtapeBonne, SurWebhook, histVars
  <2>2. Ecrite(loc[q].tx, "ECHOUE") /\ tx'[loc[q].tx].ref = tx[loc[q].tx].ref
    BY <1>3, <2>1, EchecFait
  <2>. QED
    BY <2>1, <2>2, Zenon DEF Effet
<1>4. CASE Crediter(q)
  <2>1. pc[q] = "crediter" /\ loc[q].tx \in DOMAIN tx /\ loc[q].hash \in Nat
    BY <1>4 DEF Crediter, EtapeOK, EtapeBonne, SurLigne
  <2>2. /\ Ecrite(loc[q].tx, "SUCCES") /\ tx'[loc[q].tx].ref = tx[loc[q].tx].ref
        /\ tx'[loc[q].tx].precedent = loc[q].hash /\ tx'[loc[q].tx].hash = NouveauHash
        /\ solde' = solde + tx[loc[q].tx].montant
        /\ credite' = [credite EXCEPT ![loc[q].tx] = credite[loc[q].tx] + 1]
    BY <1>4, <2>1, CreditFait
  <2>. QED
    BY <2>1, <2>2, Zenon DEF Effet
<1>5. CASE ~(Creer(q) \/ StockerRef(q) \/ MarquerEchec(q) \/ Crediter(q))
  BY <1>5, QuiEcrit DEF Effet
<1>. QED
  BY <1>1, <1>2, <1>3, <1>4, <1>5

(* Every step is one of a handler, or one of the world around it.          *)
LEMMA Mouvement ==
  ASSUME [Next]_vars
  PROVE  \/ \E q \in Requetes : Traiter(q)
         \/ \E t \in TxIds, i \in {"SUCCESS", "FAILED"} : Payer(t, i)
         \/ Debiter \/ NouveauMois \/ Vieillir \/ Panne \/ UNCHANGED vars
  BY DEF Next, Traiter

(* Rows are never deleted, and keep their payment and their key.           *)
LEMMA LignesGardees ==
  ASSUME TypeInv, [Next]_vars
  PROVE  /\ DOMAIN tx \subseteq DOMAIN tx'
         /\ \A t \in DOMAIN tx : /\ tx'[t].montant = tx[t].montant /\ tx'[t].cle = tx[t].cle
                                 /\ tx[t].ref => tx'[t].ref
         /\ sandbox' = sandbox /\ \A t \in TxIds : issues[t] \subseteq issues'[t]
<1>. TypeOK
  BY DEF TypeInv
<1>1. CASE UNCHANGED <<tx, issues, sandbox>>
  BY <1>1
<1>2. ASSUME NEW t \in TxIds, NEW i \in {"SUCCESS", "FAILED"}, Payer(t, i)
      PROVE  UNCHANGED <<tx, sandbox>> /\ \A u \in TxIds : issues[u] \subseteq issues'[u]
  BY <1>2 DEF Payer, tableVars, TypeOK
<1>3. ASSUME NEW q \in Requetes, Traiter(q)
      PROVE  /\ UNCHANGED <<issues, sandbox>> /\ DOMAIN tx \subseteq DOMAIN tx'
             /\ \A t \in DOMAIN tx : /\ tx'[t].montant = tx[t].montant /\ tx'[t].cle = tx[t].cle
                                     /\ tx[t].ref => tx'[t].ref
  <2>1. Effet(q) /\ UNCHANGED <<issues, sandbox>>
    BY <1>3, EffetDe, QuiEcrit
  <2>2. CASE tx' = tx
    BY <2>1, <2>2
  <2>3. CASE Ajoutee(q)
    <3>1. DOMAIN tx \subseteq DOMAIN tx' /\ \A t \in DOMAIN tx : tx'[t] = tx[t]
      BY <2>3, Lignes DEF Ajoutee
    <3>. QED
      BY <2>1, <3>1
  <2>4. ASSUME NEW st, Ecrite(loc[q].tx, st),
               tx'[loc[q].tx].ref \/ tx'[loc[q].tx].ref = tx[loc[q].tx].ref
        PROVE  /\ DOMAIN tx \subseteq DOMAIN tx'
               /\ \A t \in DOMAIN tx : /\ tx'[t].montant = tx[t].montant /\ tx'[t].cle = tx[t].cle
                                       /\ tx[t].ref => tx'[t].ref
    <3>1. DOMAIN tx' = DOMAIN tx
      BY <2>4, Lignes DEF Ecrite
    <3>. QED
      BY <2>4, <3>1, Zenon DEF Ecrite
  <2>. QED
    BY <2>1, <2>2, <2>3, <2>4, Zenon DEF Effet
<1>. QED
  BY <1>1, <1>2, <1>3, Mouvement DEF Debiter, NouveauMois, Vieillir, Panne, tableVars,
     kkiapayVars, vars

-----------------------------------------------------------------------------
(* Types.                                                                  *)

(* What a handler holds stays good while the tables grow.                  *)
LEMMA EtapeGardee ==
  ASSUME TypeInv, [Next]_vars, NEW e \in Etapes, NEW l \in Locales, EtapeBonne(e, l)
  PROVE  EtapeBonne(e, l)'
<1>1. /\ DOMAIN tx \subseteq DOMAIN tx' /\ sandbox' = sandbox
      /\ l.tx \in DOMAIN tx => issues[l.tx] \subseteq issues'[l.tx]
  BY LignesGardees, Lignes DEF TypeInv
<1>. QED
  BY <1>1 DEF EtapeBonne

(* A step reaches what the next one needs.                                 *)
LEMMA EtapeSuivante ==
  ASSUME TypeInv, NEW q \in Requetes, Traiter(q), NEW e \in Etapes, NEW l \in Locales,
         Passe(q, e, l)
  PROVE  EtapeBonne(e, l)'
<1>. TypeOK /\ EtapeOK(q)
  BY DEF TypeInv
<1>1. [Next]_vars
  BY DEF Traiter, Next
<1>2. UNCHANGED sandbox /\ UNCHANGED issues
  BY QuiEcrit
<1>3. CASE e = "libre" /\ l = Repos
  BY <1>3, ChampsRepos DEF EtapeBonne, SurDemande, SurWebhook, SurLigne
<1>4. CASE /\ e \in {"idempotence", "caution"} /\ l.op = "cotiser" /\ l.tx = 0
           /\ l.montant \in Montants
  BY <1>4 DEF EtapeBonne, SurDemande, SurWebhook, SurLigne
<1>5. CASE e = "recevoir" /\ l.op = "webhook" /\ l.tx \in TxIds /\ l.issue \in issues[l.tx]
  <2>1. l.tx \in DOMAIN tx
    BY <1>5 DEF TypeInv, IssuesOK
  <2>2. EtapeBonne(e, l)
    BY <1>5, <2>1 DEF EtapeBonne, SurDemande, SurWebhook, SurLigne
  <2>. QED
    BY <1>1, <2>2, EtapeGardee
<1>6. CASE e = "ref" /\ Ajoutee(q) /\ l.op = "cotiser" /\ l.tx = Len(tx) + 1
  <2>1. l.tx \in DOMAIN tx'
    BY <1>6, Lignes DEF Ajoutee
  <2>. QED
    BY <1>6, <2>1 DEF EtapeBonne, SurDemande, SurWebhook, SurLigne
<1>7. CASE /\ Meme(q, l) /\ <<pc[q], e>> \in Suites
           /\ e = "crediter" => l.hash \in Nat
           /\ pc[q] = "recevoir" => (e = "chaine" => loc[q].issue = "SUCCESS")
           /\ pc[q] = "ref" => sandbox
           /\ pc[q] = "crediter" => loc[q].op = "webhook"
  <2>1. EtapeBonne(pc[q], loc[q])
    BY DEF EtapeOK
  <2>2. /\ pc[q] # "libre" /\ e # "libre" /\ e # "recevoir" /\ e # "ref"
        /\ e \in SurDemande => pc[q] \in SurDemande
        /\ e \in SurWebhook => pc[q] \in SurWebhook \/ (pc[q] = "crediter" /\ e = "accuser")
        /\ e = "chaine" => pc[q] \in {"ref", "recevoir"}
        /\ e = "crediter" => pc[q] = "chaine"
    BY <1>7 DEF Suites, SurDemande, SurWebhook
  <2>3. EtapeBonne(e, l)
    <3>1. /\ l.op = loc[q].op /\ l.tx = loc[q].tx
          /\ l.montant = loc[q].montant /\ l.issue = loc[q].issue
      BY <1>7 DEF Meme
    <3>2. /\ e \in SurDemande => l.op = "cotiser" /\ l.tx = 0 /\ l.montant \in Montants
          /\ e \in SurWebhook => l.op = "webhook"
          /\ l.op = "webhook" => l.tx \in DOMAIN tx /\ l.issue \in issues[l.tx]
      BY <1>7, <2>1, <2>2, <3>1, Zenon DEF EtapeBonne
    <3>3. e \in {"chaine", "crediter"} =>
             /\ l.tx \in DOMAIN tx
             /\ \/ l.op = "webhook" /\ l.issue = "SUCCESS"
                \/ l.op = "cotiser" /\ sandbox
      BY <1>7, <2>1, <2>2, <3>1 DEF EtapeBonne, SurWebhook, SurLigne
    <3>. QED
      BY <1>7, <2>2, <3>2, <3>3 DEF EtapeBonne, SurLigne
  <2>. QED
    BY <1>1, <2>3, EtapeGardee
<1>. QED
  BY <1>3, <1>4, <1>5, <1>6, <1>7 DEF Passe

(* Only the handler that moves changes.                                    *)
LEMMA VaSeul ==
  ASSUME TypeOK, NEW q \in Requetes, NEW e \in Etapes, NEW l \in Locales, Va(q, e, l)
  PROVE  /\ pc' \in [Requetes -> Etapes] /\ loc' \in [Requetes -> Locales]
         /\ pc'[q] = e /\ loc'[q] = l
         /\ \A p \in Requetes \ {q} : pc'[p] = pc[p] /\ loc'[p] = loc[p]
  BY DEF TypeOK, Va

(* There is room for the rows that requests will make.                     *)
LEMMA LignesBornees ==
  ASSUME TypeInv, NEW q \in Requetes, Traiter(q), NEW e \in Etapes, NEW l \in Locales,
         Va(q, e, l), Passe(q, e, l)
  PROVE  (Len(tx) + Cardinality(Demandeurs) <= MaxTransactions)'
<1>. TypeOK /\ EtapeOK(q) /\ Effet(q)
  BY EffetDe DEF TypeInv
<1>1. /\ IsFiniteSet(Demandeurs) /\ Cardinality(Demandeurs) \in Nat /\ Len(tx) \in Nat
      /\ MaxTransactions \in Nat /\ Len(tx) + Cardinality(Demandeurs) <= MaxTransactions
  BY CotisationsAssumption, Lignes, FS_Subset, FS_CardinalityType DEF TypeInv, Demandeurs
<1>2. /\ pc'[q] = e /\ loc'[q] = l
      /\ \A p \in Requetes \ {q} : loc'[p] = loc[p]
  BY VaSeul
<1>3. CASE Demandeurs' \subseteq Demandeurs /\ Len(tx') = Len(tx)
  <2>1. Cardinality(Demandeurs') <= Cardinality(Demandeurs) /\ Cardinality(Demandeurs') \in Nat
    BY <1>1, <1>3, FS_Subset, FS_CardinalityType
  <2>. QED
    BY <1>1, <1>3, <2>1
<1>4. CASE Len(tx') = Len(tx) /\ LignesPrevues < MaxTransactions
  <2>1. Demandeurs' \subseteq Demandeurs \cup {q}
    BY <1>2 DEF Demandeurs
  <2>2. /\ IsFiniteSet(Demandeurs \cup {q})
        /\ Cardinality(Demandeurs \cup {q}) <= Cardinality(Demandeurs) + 1
        /\ Cardinality(Demandeurs \cup {q}) \in Nat
    <3>1. /\ IsFiniteSet(Demandeurs \cup {q})
          /\ Cardinality(Demandeurs \cup {q}) =
                IF q \in Demandeurs THEN Cardinality(Demandeurs) ELSE Cardinality(Demandeurs) + 1
      BY <1>1, FS_AddElement
    <3>. QED
      BY <1>1, <3>1
  <2>3. /\ Cardinality(Demandeurs') <= Cardinality(Demandeurs \cup {q})
        /\ Cardinality(Demandeurs') \in Nat
    BY <2>1, <2>2, FS_Subset, FS_CardinalityType
  <2>4. Len(tx) + Cardinality(Demandeurs) < MaxTransactions
    BY <1>4 DEF LignesPrevues, Demandeurs
  <2>. QED
    BY <1>1, <1>4, <2>2, <2>3, <2>4
<1>5. CASE Ajoutee(q) /\ pc[q] = "creer" /\ e = "ref" /\ l.tx = Len(tx) + 1
  <2>1. q \in Demandeurs
    BY <1>5 DEF Demandeurs, EtapeOK, EtapeBonne, SurDemande
  <2>2. Demandeurs' \subseteq Demandeurs \ {q}
    BY <1>1, <1>2, <1>5 DEF Demandeurs
  <2>3. /\ IsFiniteSet(Demandeurs \ {q})
        /\ Cardinality(Demandeurs \ {q}) = Cardinality(Demandeurs) - 1
    BY <1>1, <2>1, FS_RemoveElement
  <2>4. /\ Cardinality(Demandeurs') <= Cardinality(Demandeurs \ {q})
        /\ Cardinality(Demandeurs') \in Nat
    BY <2>2, <2>3, FS_Subset, FS_CardinalityType
  <2>5. Len(tx') = Len(tx) + 1
    BY <1>5 DEF Ajoutee
  <2>. QED
    BY <1>1, <2>3, <2>4, <2>5
<1>6. Len(tx') = Len(tx) \/ (pc[q] = "creer" /\ pc'[q] = "ref" /\ Ajoutee(q))
  BY DEF Effet, Ecrite
<1>7. CASE Ajoutee(q) /\ pc[q] = "creer" /\ e = "ref"
  <2>1. l.tx = Len(tx) + 1
    BY <1>7 DEF Passe, Suites
  <2>. QED
    BY <1>5, <1>7, <2>1
<1>8. CASE Len(tx') = Len(tx)
  <2>1. CASE l.op = "cotiser" /\ l.tx = 0 /\ q \notin Demandeurs
    <3>1. LignesPrevues < MaxTransactions
      BY <1>1, <1>8, <2>1, ChampsRepos DEF Passe, Meme, Demandeurs, Ajoutee
    <3>. QED
      BY <1>4, <1>8, <3>1
  <2>2. CASE ~(l.op = "cotiser" /\ l.tx = 0 /\ q \notin Demandeurs)
    <3>1. Demandeurs' \subseteq Demandeurs
      BY <1>2, <2>2 DEF Demandeurs
    <3>. QED
      BY <1>3, <1>8, <3>1
  <2>. QED
    BY <2>1, <2>2
<1>. QED
  BY <1>2, <1>6, <1>7, <1>8

(* A handler leaves every column with its type.                            *)
LEMMA ColonnesGardees ==
  ASSUME TypeInv, NEW q \in Requetes, Traiter(q)
  PROVE  TypeOK'
<1>. TypeOK /\ EtapeOK(q) /\ Effet(q)
  BY EffetDe DEF TypeInv
<1>1. PICK e \in Etapes, l \in Locales : Va(q, e, l) /\ Passe(q, e, l)
  BY TraiterAvance DEF Avancee
<1>2. pc' \in [Requetes -> Etapes] /\ loc' \in [Requetes -> Locales]
  BY <1>1, VaSeul
<1>3. tx' \in Seq(Transaction) /\ Len(tx') <= MaxTransactions
  <2>1. tx' \in Seq(Transaction)
    BY DEF Effet, Ecrite, Ajoutee, TypeOK
  <2>2. Len(tx') + Cardinality(Demandeurs') <= MaxTransactions
    BY <1>1, LignesBornees
  <2>3. Cardinality(Demandeurs') \in Nat
    BY CotisationsAssumption, FS_Subset, FS_CardinalityType DEF Demandeurs
  <2>. QED
    BY <2>1, <2>2, <2>3, CotisationsAssumption
<1>4. solde' \in Int /\ credite' \in [TxIds -> Nat]
  <2>1. CASE UNCHANGED <<solde, credite>>
    BY <2>1 DEF TypeOK
  <2>2. CASE /\ pc[q] = "crediter" /\ solde' = solde + tx[loc[q].tx].montant
             /\ credite' = [credite EXCEPT ![loc[q].tx] = credite[loc[q].tx] + 1]
    <3>1. loc[q].tx \in DOMAIN tx
      BY <2>2 DEF EtapeOK, EtapeBonne, SurLigne
    <3>2. loc[q].tx \in TxIds /\ tx[loc[q].tx].montant \in Nat
      BY <3>1, Lignes, ChampsLigne, CotisationsAssumption
    <3>. QED
      BY <2>2, <3>2 DEF TypeOK
  <2>. QED
    BY <2>1, <2>2 DEF Effet
<1>5. recus' \in [TxIds -> SUBSET {"SUCCESS", "FAILED"}]
  <2>1. CASE recus' = recus
    BY <2>1 DEF TypeOK
  <2>2. CASE Accuser(q)
    <3>1. /\ pc[q] = "accuser"
          /\ recus' = [recus EXCEPT ![loc[q].tx] = @ \cup {loc[q].issue}]
      BY <2>2 DEF Accuser
    <3>2. loc[q].tx \in DOMAIN tx /\ loc[q].issue \in issues[loc[q].tx]
      BY <3>1 DEF EtapeOK, EtapeBonne, SurWebhook
    <3>3. loc[q].tx \in TxIds /\ loc[q].issue \in {"SUCCESS", "FAILED"}
      BY <3>2, Lignes DEF TypeOK
    <3>. QED
      BY <3>1, <3>3 DEF TypeOK
  <2>. QED
    BY <2>1, <2>2, QuiEcrit
<1>6. /\ suspendu' \in BOOLEAN /\ courseWebhook' \in BOOLEAN /\ courseChaine' \in BOOLEAN
      /\ courseCaution' \in BOOLEAN /\ courseAlerte' \in BOOLEAN
  <2>1. suspendu' \in BOOLEAN
    BY QuiEcrit DEF TypeOK, Suspendre
  <2>2. courseWebhook' \in BOOLEAN
    BY QuiEcrit DEF TypeOK, Recevoir
  <2>3. courseChaine' \in BOOLEAN
    BY QuiEcrit DEF TypeOK, LireChaine
  <2>4. courseCaution' \in BOOLEAN
    BY QuiEcrit DEF TypeOK, VerifierCaution
  <2>5. courseAlerte' \in BOOLEAN
    BY QuiEcrit DEF TypeOK, ChercherAlerte
  <2>. QED
    BY <2>1, <2>2, <2>3, <2>4, <2>5
<1>7. alertes' \in Nat /\ disjonctions' \in Nat /\ doublons' \in Nat
  <2>1. alertes' \in Nat
    BY QuiEcrit DEF TypeOK, OuvrirAlerte
  <2>2. disjonctions' \in Nat
    BY QuiEcrit DEF TypeOK, Alerter
  <2>3. doublons' \in Nat
    <3>1. doublons' \in {doublons, doublons + 1}
      BY QuiEcrit
    <3>2. doublons \in Nat
      BY DEF TypeOK
    <3>. QED
      BY <3>1, <3>2
  <2>. QED
    BY <2>1, <2>2, <2>3
<1>8. UNCHANGED <<sandbox, debits, debutMois, anciennes, issues, pannes>>
  BY QuiEcrit
<1>. QED
  BY <1>2, <1>3, <1>4, <1>5, <1>6, <1>7, <1>8 DEF TypeOK

(* A handler keeps the types and what each step holds.                     *)
LEMMA TypesTraiter ==
  ASSUME TypeInv, NEW q \in Requetes, Traiter(q)
  PROVE  TypeInv'
<1>. TypeOK
  BY DEF TypeInv
<1>1. PICK e \in Etapes, l \in Locales : Va(q, e, l) /\ Passe(q, e, l)
  BY TraiterAvance DEF Avancee
<1>2. [Next]_vars
  BY DEF Traiter, Next
<1>3. \A p \in Requetes : EtapeOK(p)'
  <2>1. EtapeOK(q)'
    BY <1>1, EtapeSuivante, VaSeul DEF EtapeOK
  <2>2. ASSUME NEW p \in Requetes \ {q} PROVE EtapeOK(p)'
    <3>1. pc'[p] = pc[p] /\ loc'[p] = loc[p] /\ pc[p] \in Etapes /\ loc[p] \in Locales
      BY <1>1, VaSeul DEF TypeOK
    <3>2. EtapeBonne(pc[p], loc[p])'
      BY <1>2, <3>1, EtapeGardee DEF TypeInv, EtapeOK
    <3>. QED
      BY <3>1, <3>2 DEF EtapeOK
  <2>. QED
    BY <2>1, <2>2
<1>4. \A t \in TxIds : IssuesOK(t)'
  BY <1>2, LignesGardees, QuiEcrit DEF IssuesOK, TypeInv
<1>. QED
  BY <1>1, <1>3, <1>4, ColonnesGardees, LignesBornees DEF TypeInv

(* The world around keeps them too.                                        *)
LEMMA TypesMonde ==
  ASSUME TypeInv, [Next]_vars, UNCHANGED <<sandbox, tx>>,
         UNCHANGED <<pc, loc>> \/ Panne,
         UNCHANGED issues \/ \E t \in TxIds, i \in {"SUCCESS", "FAILED"} : Payer(t, i),
         TypeOK'
  PROVE  TypeInv'
<1>. TypeOK
  BY DEF TypeInv
<1>1. CASE UNCHANGED <<pc, loc>>
  <2>1. \A p \in Requetes : EtapeOK(p)'
    <3>1. ASSUME NEW p \in Requetes PROVE EtapeOK(p)'
      <4>1. pc[p] \in Etapes /\ loc[p] \in Locales /\ EtapeBonne(pc[p], loc[p])
        BY DEF TypeInv, TypeOK, EtapeOK
      <4>2. EtapeBonne(pc[p], loc[p])'
        BY <1>1, <4>1, EtapeGardee
      <4>. QED
        BY <4>2 DEF EtapeOK
    <3>. QED
      BY <3>1
  <2>2. \A t \in TxIds : IssuesOK(t)'
    BY DEF TypeInv, IssuesOK, Payer, TypeOK
  <2>3. Demandeurs' = Demandeurs
    BY <1>1 DEF Demandeurs
  <2>. QED
    BY <2>1, <2>2, <2>3 DEF TypeInv
<1>2. CASE Panne
  <2>1. /\ pc' = [q \in Requetes |-> "libre"] /\ loc' = [q \in Requetes |-> Repos]
        /\ UNCHANGED issues
    BY <1>2 DEF Panne
  <2>2. \A p \in Requetes : EtapeOK(p)'
    BY <2>1, ChampsRepos DEF EtapeOK, EtapeBonne, SurDemande, SurWebhook, SurLigne
  <2>3. Demandeurs' = {}
    BY <2>1, ChampsRepos DEF Demandeurs
  <2>4. Cardinality(Demandeurs') = 0
    BY <2>3, FS_EmptySet
  <2>5. (Len(tx) + Cardinality(Demandeurs) <= MaxTransactions)'
    BY <2>4, Lignes, CotisationsAssumption DEF TypeOK
  <2>6. \A t \in TxIds : IssuesOK(t)'
    BY <2>1 DEF TypeInv, IssuesOK
  <2>. QED
    BY <2>2, <2>5, <2>6 DEF TypeInv
<1>. QED
  BY <1>1, <1>2

(* Every step keeps the types.                                             *)
LEMMA TypesPas ==
  ASSUME TypeInv, [Next]_vars
  PROVE  TypeInv'
<1>. TypeOK
  BY DEF TypeInv
<1>1. CASE \E q \in Requetes : Traiter(q)
  BY <1>1, TypesTraiter
<1>2. CASE \E t \in TxIds, i \in {"SUCCESS", "FAILED"} : Payer(t, i)
  <2>1. UNCHANGED <<sandbox, tx, pc, loc>> /\ TypeOK'
    BY <1>2 DEF Payer, TypeOK, tableVars, tempsVars, procVars, histVars, courseVars
  <2>. QED
    BY <1>2, <2>1, TypesMonde
<1>3. CASE Debiter
  <2>1. UNCHANGED <<sandbox, tx, pc, loc, issues>> /\ TypeOK'
    BY <1>3, CotisationsAssumption DEF Debiter, TypeOK, tempsVars, procVars, kkiapayVars, courseVars
  <2>. QED
    BY <2>1, TypesMonde
<1>4. CASE NouveauMois \/ Vieillir
  <2>1. UNCHANGED <<sandbox, tx, pc, loc, issues>> /\ debutMois' \in Nat /\ anciennes' \in Nat
    BY <1>4, Lignes DEF NouveauMois, Vieillir, TypeOK, tableVars, procVars, kkiapayVars
  <2>2. TypeOK'
    BY <1>4, <2>1 DEF NouveauMois, Vieillir, TypeOK, tableVars, procVars, kkiapayVars,
       histVars, courseVars
  <2>. QED
    BY <2>1, <2>2, TypesMonde
<1>5. CASE Panne
  <2>1. UNCHANGED <<sandbox, tx, issues>> /\ TypeOK'
    BY <1>5, ChampsRepos DEF Panne, TypeOK, tableVars, tempsVars, histVars, courseVars, Etapes
  <2>. QED
    BY <1>5, <2>1, TypesMonde
<1>6. CASE UNCHANGED vars
  <2>1. UNCHANGED <<sandbox, tx, pc, loc, issues>> /\ TypeOK'
    BY <1>6 DEF vars, TypeOK, tableVars, tempsVars, procVars, kkiapayVars, histVars, courseVars
  <2>. QED
    BY <2>1, TypesMonde
<1>. QED
  BY <1>1, <1>2, <1>3, <1>4, <1>5, <1>6, Mouvement

(* The types hold at the start.                                            *)
LEMMA TypesInit ==
  ASSUME Init
  PROVE  TypeInv
<1>1. TypeOK
  <2>1. tx \in Seq(Transaction) /\ Len(tx) = 0
    BY DEF Init
  <2>2. /\ pc \in [Requetes -> Etapes] /\ loc \in [Requetes -> Locales]
        /\ issues \in [TxIds -> SUBSET {"SUCCESS", "FAILED"}]
        /\ recus \in [TxIds -> SUBSET {"SUCCESS", "FAILED"}]
        /\ credite \in [TxIds -> Nat]
    BY ChampsRepos DEF Init, Etapes
  <2>3. sandbox \in BOOLEAN /\ solde \in Int /\ Len(tx) <= MaxTransactions
    BY <2>1, CotisationsAssumption DEF Init
  <2>. QED
    BY <2>1, <2>2, <2>3 DEF Init, TypeOK
<1>2. \A q \in Requetes : EtapeOK(q)
  BY ChampsRepos DEF Init, EtapeOK, EtapeBonne, SurDemande, SurWebhook, SurLigne
<1>3. \A t \in TxIds : IssuesOK(t)
  BY DEF Init, IssuesOK
<1>4. Demandeurs = {}
  BY ChampsRepos DEF Init, Demandeurs
<1>5. Len(tx) + Cardinality(Demandeurs) <= MaxTransactions
  BY <1>4, FS_EmptySet, CotisationsAssumption DEF Init
<1>. QED
  BY <1>1, <1>2, <1>3, <1>5 DEF TypeInv

(* Every column keeps its type, every handler holds what its step needs,   *)
(* and the provider only knows rows whose reference was stored.            *)
THEOREM CotisationsTypees == Spec => []TypeInv
BY TypesInit, TypesPas, PTL DEF Spec

(* Every column and every local variable keeps its type.                   *)
THEOREM CotisationsTypes == Spec => []TypeOK
<1>1. TypeInv => TypeOK
  BY DEF TypeInv
<1>. QED
  BY <1>1, CotisationsTypees, PTL

-----------------------------------------------------------------------------
(* The rows that cotiser holds.                                            *)

(* A request that made a row is at one of three steps.                     *)
LEMMA DemandeSurLigne ==
  ASSUME TypeInv, NEW p \in Requetes
  PROVE  /\ Demande(p) => /\ pc[p] \in SurLigne /\ loc[p].tx \in DOMAIN tx
                          /\ pc[p] = "ref" \/ sandbox
         /\ loc[p].op = "webhook" => /\ ~sandbox /\ loc[p].tx \in DOMAIN tx
                                     /\ tx[loc[p].tx].ref
         /\ pc[p] \in SurLigne => Demande(p) \/ loc[p].op = "webhook"
<1>. TypeOK /\ EtapeOK(p) /\ pc[p] \in Etapes /\ loc[p] \in Locales
  BY DEF TypeInv, TypeOK
<1>1. Demande(p) => pc[p] \in SurLigne
  BY DEF Demande, EtapeOK, EtapeBonne, SurDemande, SurWebhook, SurLigne, Etapes
<1>2. pc[p] \in SurLigne => loc[p].tx \in DOMAIN tx /\ loc[p].tx # 0
  BY Lignes DEF EtapeOK, EtapeBonne
<1>3. Demande(p) => pc[p] = "ref" \/ sandbox
  BY <1>1 DEF Demande, EtapeOK, EtapeBonne, SurLigne
<1>4. pc[p] \in SurLigne => loc[p].op \in {"cotiser", "webhook"}
  BY DEF EtapeOK, EtapeBonne, SurLigne
<1>5. loc[p].op = "webhook" => /\ ~sandbox /\ loc[p].tx \in DOMAIN tx
                               /\ tx[loc[p].tx].ref
  <2>1. loc[p].op = "webhook" => loc[p].tx \in DOMAIN tx /\ issues[loc[p].tx] # {}
    BY DEF EtapeOK, EtapeBonne
  <2>2. loc[p].tx \in DOMAIN tx => loc[p].tx \in TxIds
    BY Lignes
  <2>. QED
    BY <2>1, <2>2 DEF TypeInv, IssuesOK
<1>. QED
  BY <1>1, <1>2, <1>3, <1>4, <1>5 DEF Demande

(* No other handler writes the row that a request made.                    *)
LEMMA DemandeIntacte ==
  ASSUME TypeInv, DemandesInv, NEW q \in Requetes, Traiter(q),
         NEW p \in Requetes, p # q, Demande(p)
  PROVE  tx'[loc[p].tx] = tx[loc[p].tx]
<1>. TypeOK /\ EtapeOK(q) /\ Effet(q)
  BY EffetDe DEF TypeInv
<1>1. loc[p].tx \in DOMAIN tx /\ (pc[p] = "ref" \/ sandbox)
  BY DemandeSurLigne
<1>2. ASSUME pc[q] \in {"ref", "echec", "crediter"}
      PROVE  loc[q].tx # loc[p].tx
  <2>1. Demande(q) \/ loc[q].op = "webhook"
    BY <1>2, DemandeSurLigne DEF EtapeOK, EtapeBonne, SurLigne, SurWebhook
  <2>2. CASE Demande(q)
    BY <2>2 DEF DemandesInv
  <2>3. CASE loc[q].op = "webhook"
    <3>1. ~sandbox /\ tx[loc[q].tx].ref
      BY <2>3, DemandeSurLigne
    <3>. QED
      BY <1>1, <3>1 DEF DemandesInv
  <2>. QED
    BY <2>1, <2>2, <2>3
<1>3. \A st : Ecrite(loc[q].tx, st) /\ loc[q].tx # loc[p].tx => tx'[loc[p].tx] = tx[loc[p].tx]
  BY <1>1 DEF Ecrite
<1>4. Ajoutee(q) => tx'[loc[p].tx] = tx[loc[p].tx]
  BY <1>1 DEF Ajoutee
<1>. QED
  BY <1>2, <1>3, <1>4 DEF Effet

(* Handlers keep apart the rows that cotiser made.                         *)
LEMMA DemandesTraiter ==
  ASSUME TypeInv, DemandesInv, NEW q \in Requetes, Traiter(q)
  PROVE  DemandesInv'
<1>. TypeOK /\ EtapeOK(q) /\ Effet(q) /\ [Next]_vars
  BY EffetDe DEF TypeInv, Traiter, Next
<1>1. PICK e \in Etapes, l \in Locales : Va(q, e, l) /\ Passe(q, e, l)
  BY TraiterAvance DEF Avancee
<1>2. /\ pc'[q] = e /\ loc'[q] = l
      /\ \A p \in Requetes \ {q} : pc'[p] = pc[p] /\ loc'[p] = loc[p]
  BY <1>1, VaSeul
<1>3. TypeInv'
  BY TypesTraiter
<1>4. \A p \in Requetes \ {q} : Demande(p)' <=> Demande(p)
  BY <1>2, Zenon DEF Demande
<1>5. ASSUME NEW p \in Requetes, p # q, Demande(p)
      PROVE  tx'[loc'[p].tx].statut = "EN_ATTENTE" /\ (pc'[p] = "ref" => ~tx'[loc'[p].tx].ref)
  BY <1>2, <1>5, DemandeIntacte DEF DemandesInv
<1>6. \A p \in Requetes : pc'[p] = "ref" => Demande(p)'
  <2>1. ASSUME NEW p \in Requetes, pc'[p] = "ref"
        PROVE  (loc[p].op = "cotiser" /\ loc[p].tx # 0)'
    <3>1. loc'[p].op = "cotiser" /\ loc'[p].tx \in DOMAIN tx'
      <4>1. EtapeOK(p)'
        BY <1>3 DEF TypeInv
      <4>. QED
        BY <2>1, <4>1 DEF EtapeOK, EtapeBonne, SurLigne
    <3>2. 0 \notin DOMAIN tx'
      <4>1. tx' \in Seq(Transaction)
        BY <1>3 DEF TypeInv, TypeOK
      <4>. QED
        BY <4>1
    <3>. QED
      BY <3>1, <3>2
  <2>. QED
    BY <2>1 DEF Demande
<1>7. CASE pc[q] = "creer" /\ e = "ref" /\ Ajoutee(q) /\ l.tx = Len(tx) + 1
  <2>1. \A p \in Requetes \ {q} : Demande(p) => loc[p].tx # Len(tx) + 1
    BY DemandeSurLigne, Lignes
  <2>2. tx'[loc'[q].tx].statut = "EN_ATTENTE" /\ ~tx'[loc'[q].tx].ref
    BY <1>2, <1>7 DEF Ajoutee
  <2>3. \A p, r \in Requetes : Demande(p)' /\ Demande(r)' /\ loc'[p].tx = loc'[r].tx => p = r
    BY <1>2, <1>4, <1>7, <2>1 DEF DemandesInv
  <2>. QED
    BY <1>4, <1>5, <1>6, <2>2, <2>3 DEF DemandesInv
<1>8. CASE Demande(q)' => /\ Demande(q) /\ loc'[q].tx = loc[q].tx /\ pc'[q] # "ref"
                          /\ tx'[loc'[q].tx].statut = "EN_ATTENTE"
  <2>1. \A p, r \in Requetes : Demande(p)' /\ Demande(r)' /\ loc'[p].tx = loc'[r].tx => p = r
    BY <1>2, <1>4, <1>8 DEF DemandesInv
  <2>. QED
    BY <1>4, <1>5, <1>6, <1>8, <2>1 DEF DemandesInv
<1>9. CASE Demande(q)' /\ Meme(q, l) /\ <<pc[q], e>> \in Suites
  <2>1. Demande(q) /\ loc'[q].tx = loc[q].tx
    BY <1>2, <1>9 DEF Demande, Meme
  <2>2. pc[q] \in {"ref", "chaine", "crediter"} /\ tx[loc[q].tx].statut = "EN_ATTENTE"
    BY <2>1, DemandeSurLigne DEF SurLigne, DemandesInv
  <2>3. pc[q] # "crediter"
    BY <1>1, <1>9, <2>1, <2>2 DEF Passe, Suites, Demande, Ajoutee
  <2>4. pc'[q] # "ref"
    BY <1>2, <1>9 DEF Suites
  <2>5. tx'[loc[q].tx].statut = "EN_ATTENTE"
    BY <2>2, <2>3 DEF Effet, Ecrite
  <2>. QED
    BY <1>8, <2>1, <2>4, <2>5
<1>10. \/ Demande(q)' => FALSE
       \/ pc[q] = "creer" /\ e = "ref" /\ Ajoutee(q) /\ l.tx = Len(tx) + 1
       \/ Meme(q, l) /\ <<pc[q], e>> \in Suites
  <2>1. Demande(q)' <=> l.op = "cotiser" /\ l.tx # 0
    BY <1>2, Zenon DEF Demande
  <2>. QED
    BY <1>1, <2>1, ChampsRepos DEF Passe
<1>. QED
  BY <1>7, <1>8, <1>9, <1>10

(* The world around writes no row, and moves no handler but by a crash.    *)
Dehors ==
    \/ \E t \in TxIds, i \in {"SUCCESS", "FAILED"} : Payer(t, i)
    \/ Debiter \/ NouveauMois \/ Vieillir \/ Panne \/ UNCHANGED vars

(* The world around changes neither rows nor what was credited.            *)
LEMMA DehorsGarde ==
  ASSUME Dehors
  PROVE  /\ UNCHANGED <<sandbox, tx, suspendu, alertes, disjonctions, credite>>
         /\ UNCHANGED <<courseWebhook, courseChaine, courseCaution, courseAlerte>>
         /\ \/ UNCHANGED <<pc, loc>>
            \/ /\ pc' = [p \in Requetes |-> "libre"] /\ loc' = [p \in Requetes |-> Repos]
               /\ pannes' = pannes + 1
         /\ Reussies' = Reussies /\ \A S : Somme(S)' = Somme(S)
<1>1. UNCHANGED <<sandbox, tx, suspendu, alertes, disjonctions, credite>>
  BY DEF Dehors, Payer, Debiter, NouveauMois, Vieillir, Panne, tableVars, histVars, vars
<1>2. UNCHANGED <<courseWebhook, courseChaine, courseCaution, courseAlerte>>
  BY DEF Dehors, Payer, Debiter, NouveauMois, Vieillir, Panne, histVars, courseVars, vars
<1>3. \/ UNCHANGED <<pc, loc>>
      \/ /\ pc' = [p \in Requetes |-> "libre"] /\ loc' = [p \in Requetes |-> Repos]
         /\ pannes' = pannes + 1
  BY DEF Dehors, Payer, Debiter, NouveauMois, Vieillir, Panne, procVars, vars
<1>. QED
  BY <1>1, <1>2, <1>3 DEF Reussies, Somme

(* A crash leaves no handler at work.                                      *)
LEMMA Arret ==
  ASSUME NEW p \in Requetes, pc' = [r \in Requetes |-> "libre"],
         loc' = [r \in Requetes |-> Repos]
  PROVE  pc'[p] = "libre" /\ loc'[p] = Repos /\ loc'[p].op = "aucune"
  BY ChampsRepos

(* Every step keeps apart the rows that cotiser made.                      *)
LEMMA DemandesPas ==
  ASSUME TypeInv, DemandesInv, [Next]_vars
  PROVE  DemandesInv'
<1>1. CASE \E q \in Requetes : Traiter(q)
  BY <1>1, DemandesTraiter
<1>2. CASE Dehors
  <2>1. UNCHANGED tx
    BY <1>2, DehorsGarde
  <2>2. CASE UNCHANGED <<pc, loc>>
    BY <2>1, <2>2 DEF DemandesInv, Demande
  <2>3. CASE pc' = [r \in Requetes |-> "libre"] /\ loc' = [r \in Requetes |-> Repos]
    <3>1. \A p \in Requetes : pc'[p] = "libre" /\ loc'[p].op = "aucune"
      BY <2>3, Arret
    <3>. QED
      BY <3>1 DEF DemandesInv, Demande
  <2>. QED
    BY <1>2, <2>2, <2>3, DehorsGarde
<1>. QED
  BY <1>1, <1>2, Mouvement DEF Dehors

-----------------------------------------------------------------------------
(* Rows are settled once, unless two handlers meet.                        *)

(* The step of a handler says which action it is.                          *)
LEMMA QuiAgit ==
  ASSUME NEW q \in Requetes, Traiter(q)
  PROVE  /\ pc[q] = "caution" => VerifierCaution(q)
         /\ pc[q] = "chercherAlerte" => ChercherAlerte(q)
         /\ pc[q] = "ouvrirAlerte" => OuvrirAlerte(q)
         /\ pc[q] = "recevoir" => Recevoir(q)
         /\ pc[q] = "echec" => MarquerEchec(q)
         /\ pc[q] = "compter" => CompterEchecs(q)
         /\ pc[q] = "suspendre" => Suspendre(q)
         /\ pc[q] = "chaine" => LireChaine(q)
         /\ pc[q] = "crediter" => Crediter(q)
  BY DEF Traiter, Poursuivre, Cotiser, Commencer, Livrer, Doubler, ChercherCle,
     VerifierCaution, ChercherAlerte, OuvrirAlerte, LireDerniere, Creer, StockerRef,
     Recevoir, MarquerEchec, CompterEchecs, Suspendre, Alerter, LireChaine, Crediter,
     Accuser

(* A meeting that happened is not forgotten.                               *)
LEMMA CoursesRestent ==
  ASSUME TypeInv, [Next]_vars
  PROVE  /\ (courseWebhook => courseWebhook') /\ (courseChaine => courseChaine')
         /\ (courseCaution => courseCaution') /\ (courseAlerte => courseAlerte')
<1>1. CASE Dehors
  BY <1>1, DehorsGarde
<1>2. ASSUME NEW q \in Requetes, Traiter(q)
      PROVE  /\ (courseWebhook => courseWebhook') /\ (courseChaine => courseChaine')
             /\ (courseCaution => courseCaution') /\ (courseAlerte => courseAlerte')
  BY <1>2, QuiEcrit DEF Recevoir, LireChaine, VerifierCaution, ChercherAlerte
<1>. QED
  BY <1>1, <1>2, Mouvement DEF Dehors

(* The step that takes a row up finds nobody settling it.                  *)
LEMMA PriseEnCharge ==
  ASSUME TypeInv, DemandesInv, NEW q \in Requetes, Traiter(q), ~courseWebhook',
         NEW t \in DOMAIN tx', Regle(q, t)', ~Regle(q, t)
  PROVE  /\ t \in DOMAIN tx /\ tx'[t].statut = "EN_ATTENTE"
         /\ \A p \in Requetes : ~Regle(p, t)
<1>. TypeOK /\ EtapeOK(q) /\ Effet(q)
  BY EffetDe DEF TypeInv
<1>1. PICK e \in Etapes, l \in Locales : Va(q, e, l) /\ Passe(q, e, l)
  BY TraiterAvance DEF Avancee
<1>2. pc'[q] = e /\ loc'[q] = l
  BY <1>1, VaSeul
<1>3. e \in {"echec", "chaine", "crediter"} /\ l.tx = t
  BY <1>2 DEF Regle
<1>4. Meme(q, l) /\ <<pc[q], e>> \in Suites
  BY <1>1, <1>3 DEF Passe
<1>5. loc[q].tx = t
  BY <1>3, <1>4 DEF Meme
<1>6. pc[q] \in {"recevoir", "ref"}
  BY <1>3, <1>4, <1>5 DEF Suites, Regle
<1>7. CASE pc[q] = "recevoir"
  <2>1. Recevoir(q) /\ e # "accuser"
    BY <1>3, <1>7, QuiAgit
  <2>2. loc[q].op = "webhook" /\ t \in DOMAIN tx
    BY <1>5, <1>7 DEF EtapeOK, EtapeBonne, SurWebhook
  <2>3. UNCHANGED tx
    BY <2>1 DEF Recevoir, tableVars
  <2>4. EstATraiter(t) /\ \A p \in Requetes : ~Regle(p, t)
    <3>1. \/ pc'[q] = "accuser"
          \/ /\ EstATraiter(loc[q].tx)
             /\ courseWebhook' = (courseWebhook \/ \E p \in Requetes : Regle(p, loc[q].tx))
      BY <2>1 DEF Recevoir, Vers, TypeOK
    <3>2. EstATraiter(t) /\ courseWebhook' = (courseWebhook \/ \E p \in Requetes : Regle(p, t))
      BY <1>2, <1>5, <2>1, <3>1
    <3>. QED
      BY <3>2
  <2>. QED
    BY <2>2, <2>3, <2>4 DEF EstATraiter
<1>8. CASE pc[q] = "ref"
  <2>1. sandbox /\ Demande(q) /\ t \in DOMAIN tx
    BY <1>1, <1>3, <1>4, <1>5, <1>8, DemandeSurLigne, Lignes DEF Passe, EtapeOK,
       EtapeBonne, SurLigne, Demande
  <2>2. tx'[t].statut = "EN_ATTENTE"
    <3>1. tx[t].statut = "EN_ATTENTE"
      BY <1>5, <2>1 DEF DemandesInv
    <3>. QED
      BY <1>5, <1>8, <3>1 DEF Effet, Ecrite
  <2>3. ASSUME NEW p \in Requetes, Regle(p, t) PROVE FALSE
    <3>1. pc[p] \in SurLigne \/ pc[p] = "echec"
      BY <2>3 DEF Regle, SurLigne
    <3>2. loc[p].op # "webhook"
      BY <2>1, DemandeSurLigne
    <3>3. pc[p] \in SurLigne
      BY <3>1, <3>2 DEF TypeInv, EtapeOK, EtapeBonne, SurWebhook
    <3>4. Demande(p) /\ loc[p].tx = t
      BY <2>3, <3>2, <3>3, DemandeSurLigne DEF Regle
    <3>5. p = q
      BY <1>5, <2>1, <3>4 DEF DemandesInv
    <3>. QED
      BY <1>8, <2>3, <3>5 DEF Regle
  <2>. QED
    BY <2>1, <2>2, <2>3
<1>. QED
  BY <1>6, <1>7, <1>8

(* Two handlers that settle one row have met.                              *)
LEMMA ReglementsTraiter ==
  ASSUME TypeInv, DemandesInv, Reglements, NEW q \in Requetes, Traiter(q), ~courseWebhook'
  PROVE  Reglements'
<1>. TypeOK /\ EtapeOK(q) /\ Effet(q)
  BY EffetDe DEF TypeInv
<1>1. PICK e \in Etapes, l \in Locales : Va(q, e, l) /\ Passe(q, e, l)
  BY TraiterAvance DEF Avancee
<1>2. \A p \in Requetes \ {q} : pc'[p] = pc[p] /\ loc'[p] = loc[p]
  BY <1>1, VaSeul
<1>3. \A p \in Requetes \ {q} : \A t : Regle(p, t)' <=> Regle(p, t)
  BY <1>2, Zenon DEF Regle
<1>4. \A p \in Requetes : \A t : Regle(p, t) => t \in DOMAIN tx
  BY DEF TypeInv, EtapeOK, EtapeBonne, SurWebhook, SurLigne, Regle
<1>5. ASSUME NEW p \in Requetes, NEW t \in DOMAIN tx', Regle(p, t)', Regle(q, t)'
      PROVE  p = q
  <2>1. CASE Regle(q, t)
    BY <1>3, <1>4, <1>5, <2>1 DEF Reglements
  <2>2. CASE ~Regle(q, t)
    BY <1>3, <1>5, <2>2, PriseEnCharge
  <2>. QED
    BY <2>1, <2>2
<1>6. \A p, r \in Requetes, t \in DOMAIN tx' : Regle(p, t)' /\ Regle(r, t)' => p = r
  <2>1. ASSUME NEW p \in Requetes, NEW r \in Requetes, NEW t \in DOMAIN tx',
               Regle(p, t)', Regle(r, t)', p # q, r # q
        PROVE  p = r
    BY <1>3, <1>4, <2>1 DEF Reglements
  <2>. QED
    BY <1>5, <2>1
<1>7. ASSUME NEW p \in Requetes, NEW t \in DOMAIN tx', Regle(p, t)'
      PROVE  tx'[t].statut = "EN_ATTENTE"
  <2>1. CASE p = q /\ ~Regle(q, t)
    BY <1>7, <2>1, PriseEnCharge
  <2>2. CASE Regle(p, t)
    <3>1. t \in DOMAIN tx /\ tx[t].statut = "EN_ATTENTE"
      BY <1>4, <2>2 DEF Reglements
    <3>2. CASE pc[q] \in {"echec", "crediter"} /\ loc[q].tx = t
      <4>1. p = q
        BY <2>2, <3>1, <3>2 DEF Regle, Reglements
      <4>2. pc'[q] \notin {"echec", "chaine", "crediter"}
        BY <1>1, <3>2, VaSeul DEF Passe, Suites
      <4>. QED
        BY <1>7, <4>1, <4>2 DEF Regle
    <3>3. CASE ~(pc[q] \in {"echec", "crediter"} /\ loc[q].tx = t)
      BY <3>1, <3>3 DEF Effet, Ecrite, Ajoutee
    <3>. QED
      BY <3>2, <3>3
  <2>. QED
    BY <1>3, <1>7, <2>1, <2>2
<1>. QED
  BY <1>6, <1>7 DEF Reglements

(* Every step keeps the settlements apart, or records a meeting.           *)
LEMMA ReglementPas ==
  ASSUME TypeInv, DemandesInv, ReglementInv, [Next]_vars
  PROVE  ReglementInv'
<1>1. CASE Dehors
  <2>1. UNCHANGED <<tx, courseWebhook>>
    BY <1>1, DehorsGarde
  <2>2. CASE UNCHANGED <<pc, loc>>
    BY <2>1, <2>2 DEF ReglementInv, Reglements, Regle
  <2>3. CASE pc' = [r \in Requetes |-> "libre"] /\ loc' = [r \in Requetes |-> Repos]
    BY <2>1, <2>3, Arret DEF ReglementInv, Reglements, Regle
  <2>. QED
    BY <1>1, <2>2, <2>3, DehorsGarde
<1>2. ASSUME NEW q \in Requetes, Traiter(q) PROVE ReglementInv'
  <2>1. courseWebhook => courseWebhook'
    BY CoursesRestent
  <2>2. CASE courseWebhook'
    BY <2>2 DEF ReglementInv
  <2>3. CASE ~courseWebhook'
    <3>1. Reglements
      BY <2>1, <2>3 DEF ReglementInv
    <3>2. Reglements'
      BY <1>2, <2>3, <3>1, ReglementsTraiter
    <3>. QED
      BY <3>2 DEF ReglementInv
  <2>. QED
    BY <2>2, <2>3
<1>. QED
  BY <1>1, <1>2, Mouvement DEF Dehors

-----------------------------------------------------------------------------
(* The balance.                                                            *)

(* A sum of rows does not change, and counts every row once.               *)
LEMMA SommeLignes ==
  ASSUME TypeInv, [Next]_vars, NEW S \in SUBSET DOMAIN tx
  PROVE  /\ Somme(S)' = Somme(S) /\ Somme(S) \in Nat
         /\ \A t \in DOMAIN tx \ S : Somme(S \cup {t}) = Somme(S) + tx[t].montant
<1>. TypeOK
  BY DEF TypeInv
<1>1. PICK f : f = [t \in DOMAIN tx |-> tx[t].montant]
  OBVIOUS
<1>2. PICK g : g = [t \in DOMAIN tx' |-> tx'[t].montant]
  OBVIOUS
<1>3. \A t \in DOMAIN tx : f[t] = tx[t].montant /\ f[t] \in Nat /\ f[t] \in Int
  <2>1. ASSUME NEW t \in DOMAIN tx
        PROVE  f[t] = tx[t].montant /\ tx[t].montant \in Nat
    <3>1. tx[t].montant \in Montants
      BY Lignes, ChampsLigne
    <3>. QED
      BY <1>1, <3>1, CotisationsAssumption
  <2>. QED
    BY <2>1
<1>4. \A t \in DOMAIN tx : g[t] = f[t]
  BY <1>1, <1>2, LignesGardees
<1>5. IsFiniteSet(S)
  BY Derniere, FS_Subset
<1>6. /\ Somme(S)' = SumFunctionOnSet(g, S)
      /\ \A T : Somme(T) = SumFunctionOnSet(f, T)
  BY <1>1, <1>2 DEF Somme
<1>7. SumFunctionOnSet(f, S) = SumFunctionOnSet(g, S)
  <2>1. \A t \in S : g[t] = f[t]
    BY <1>4
  <2>. QED
    BY <1>5, <2>1, SommeEgale
<1>8. SumFunctionOnSet(f, S) \in Nat
  <2>1. \A t \in S : f[t] \in Nat /\ f[t] \in Int
    BY <1>3
  <2>. QED
    BY <1>5, <2>1, SommeSans
<1>9. ASSUME NEW t \in DOMAIN tx \ S
      PROVE  SumFunctionOnSet(f, S \cup {t}) = SumFunctionOnSet(f, S) + f[t]
  <2>1. t \notin S /\ f[t] \in Int /\ \A u \in S : f[u] \in Int
    BY <1>3
  <2>. QED
    BY <1>5, <2>1, SommeAvec
<1>10. ASSUME NEW t \in DOMAIN tx \ S
       PROVE  Somme(S \cup {t}) = Somme(S) + tx[t].montant
  BY <1>3, <1>6, <1>9
<1>. QED
  BY <1>6, <1>7, <1>8, <1>10

(* The rows that are settled, and the balance, move together.              *)
Solder(q) ==
    LET t == loc[q].tx IN
    /\ pc[q] = "crediter" /\ t \in DOMAIN tx /\ tx[t].statut = "EN_ATTENTE"
    /\ Ecrite(t, "SUCCES") /\ Reussies' = Reussies \cup {t}
    /\ tx'[t].precedent = loc[q].hash /\ tx'[t].hash = NouveauHash
    /\ solde' = solde + tx[t].montant
    /\ credite' = [credite EXCEPT ![t] = credite[t] + 1]

(* A handler settles its pending row, or no row.                           *)
LEMMA ReussiesPas ==
  ASSUME TypeInv, Reglements, NEW q \in Requetes, Traiter(q)
  PROVE  \/ Solder(q)
         \/ Reussies' = Reussies /\ UNCHANGED <<solde, credite>> /\ pc[q] # "crediter"
<1>. TypeOK /\ EtapeOK(q) /\ Effet(q)
  BY EffetDe DEF TypeInv
<1>1. PICK t : t = loc[q].tx
  OBVIOUS
<1>2. pc[q] \in {"echec", "crediter"} =>
         t \in DOMAIN tx /\ tx[t].statut = "EN_ATTENTE"
  BY <1>1 DEF EtapeOK, EtapeBonne, SurWebhook, SurLigne, Reglements, Regle
<1>3. Ajoutee(q) => Reussies' = Reussies
  <2>1. Ajoutee(q) => DOMAIN tx' = DOMAIN tx \cup {Len(tx) + 1}
    BY Lignes DEF Ajoutee
  <2>. QED
    BY <2>1, Lignes DEF Ajoutee, Reussies
<1>4. \A st : Ecrite(t, st) => DOMAIN tx' = DOMAIN tx
  BY Lignes DEF Ecrite
<1>5. CASE pc[q] = "ref" /\ Ecrite(t, tx[t].statut) /\ UNCHANGED <<solde, credite>>
  BY <1>4, <1>5 DEF Ecrite, Reussies
<1>6. CASE pc[q] = "echec" /\ Ecrite(t, "ECHOUE") /\ UNCHANGED <<solde, credite>>
  BY <1>2, <1>4, <1>6 DEF Ecrite, Reussies
<1>7. CASE /\ pc[q] = "crediter" /\ Ecrite(t, "SUCCES")
           /\ tx'[t].precedent = loc[q].hash /\ tx'[t].hash = NouveauHash
           /\ solde' = solde + tx[t].montant
           /\ credite' = [credite EXCEPT ![t] = credite[t] + 1]
  <2>1. Reussies' = Reussies \cup {t}
    BY <1>2, <1>4, <1>7 DEF Ecrite, Reussies
  <2>. QED
    BY <1>1, <1>2, <1>7, <2>1 DEF Solder
<1>8. CASE UNCHANGED <<tx, solde, credite>> /\ pc[q] # "crediter"
  BY <1>8 DEF Reussies
<1>9. pc[q] = "crediter" => Ecrite(t, "SUCCES") /\ tx'[t].precedent = loc[q].hash
         /\ tx'[t].hash = NouveauHash /\ solde' = solde + tx[t].montant
         /\ credite' = [credite EXCEPT ![t] = credite[t] + 1]
  BY <1>1, <1>2, QuiAgit, CreditFait DEF EtapeOK, EtapeBonne
<1>. QED
  BY <1>1, <1>3, <1>5, <1>6, <1>7, <1>8, <1>9 DEF Effet

(* Every step keeps the balance.                                           *)
LEMMA SoldePas ==
  ASSUME TypeInv, ReglementInv, SoldeInv, [Next]_vars
  PROVE  SoldeInv'
<1>. TypeOK
  BY DEF TypeInv
<1>1. courseWebhook => courseWebhook'
  BY CoursesRestent
<1>2. SUFFICES ASSUME ~courseWebhook'
               PROVE  (solde = SoldeInitial - debits + Somme(Reussies))'
  BY DEF SoldeInv
<1>3. solde = SoldeInitial - debits + Somme(Reussies) /\ Reglements
  BY <1>1, <1>2 DEF SoldeInv, ReglementInv
<1>4. /\ SoldeInitial \in Int /\ debits \in Int /\ solde \in Int /\ Montants \subseteq Int
      /\ Reussies \subseteq DOMAIN tx
  BY CotisationsAssumption, Derniere DEF TypeOK
<1>5. /\ Somme(Reussies) \in Int
      /\ \A S \in SUBSET DOMAIN tx : Somme(S)' = Somme(S)
  BY <1>4, SommeLignes
<1>6. CASE Dehors
  <2>1. Somme(Reussies)' = Somme(Reussies)
    BY <1>6, DehorsGarde
  <2>2. \/ UNCHANGED <<solde, debits>>
        \/ \E m \in Montants : solde' = solde - m /\ debits' = debits + m
    BY <1>6 DEF Dehors, Payer, Debiter, NouveauMois, Vieillir, Panne, tableVars, histVars, vars
  <2>. QED
    BY <1>3, <1>4, <1>5, <2>1, <2>2
<1>7. ASSUME NEW q \in Requetes, Traiter(q)
      PROVE  (solde = SoldeInitial - debits + Somme(Reussies))'
  <2>1. debits' = debits
    BY <1>7, QuiEcrit
  <2>2. CASE Solder(q)
    <3>1. PICK t \in DOMAIN tx : t = loc[q].tx
      BY <2>2 DEF Solder
    <3>2. /\ t \notin Reussies /\ Reussies' = Reussies \cup {t}
          /\ solde' = solde + tx[t].montant
      BY <2>2, <3>1 DEF Solder, Reussies
    <3>3. Somme(Reussies \cup {t}) = Somme(Reussies) + tx[t].montant
      BY <1>4, <3>2, SommeLignes
    <3>4. Somme(Reussies)' = Somme(Reussies) + tx[t].montant
      <4>1. Somme(Reussies \cup {t})' = Somme(Reussies \cup {t})
        BY <1>4, <1>5, <3>2
      <4>. QED
        BY <3>2, <3>3, <4>1
    <3>5. tx[t].montant \in Int
      BY <1>4, Lignes, ChampsLigne
    <3>. QED
      BY <1>3, <1>4, <1>5, <2>1, <3>2, <3>4, <3>5
  <2>3. CASE Reussies' = Reussies /\ UNCHANGED <<solde, credite>>
    <3>1. Somme(Reussies)' = Somme(Reussies)
      BY <1>4, <1>5, <2>3
    <3>. QED
      BY <1>3, <2>1, <2>3, <3>1
  <2>. QED
    BY <1>3, <1>7, <2>2, <2>3, ReussiesPas
<1>. QED
  BY <1>6, <1>7, Mouvement DEF Dehors

(* What is credited was paid, and a key is never used twice.               *)
LEMMA CreditPas ==
  ASSUME TypeInv, CreditInv, [Next]_vars
  PROVE  CreditInv'
<1>. TypeOK
  BY DEF TypeInv
<1>1. /\ sandbox' = sandbox /\ \A t \in TxIds : issues[t] \subseteq issues'[t]
      /\ DOMAIN tx \subseteq DOMAIN tx' /\ \A t \in DOMAIN tx : tx'[t].cle = tx[t].cle
  BY LignesGardees
<1>2. CASE Dehors
  <2>1. UNCHANGED <<tx, credite>>
    BY <1>2, DehorsGarde
  <2>. QED
    BY <1>1, <2>1 DEF CreditInv
<1>3. ASSUME NEW q \in Requetes, Traiter(q)
      PROVE  CreditInv'
  <2>. EtapeOK(q) /\ Effet(q)
    BY <1>3, EffetDe DEF TypeInv
  <2>1. ASSUME NEW t \in TxIds, credite'[t] > 0
        PROVE  sandbox' \/ "SUCCESS" \in issues'[t]
    <3>1. CASE credite[t] > 0
      BY <1>1, <3>1 DEF CreditInv
    <3>2. CASE pc[q] = "crediter" /\ loc[q].tx = t
      <4>1. sandbox \/ "SUCCESS" \in issues[t]
        BY <3>2 DEF EtapeOK, EtapeBonne
      <4>. QED
        BY <1>1, <4>1
    <3>3. credite[t] > 0 \/ (pc[q] = "crediter" /\ loc[q].tx = t)
      BY <2>1 DEF Effet, TypeOK
    <3>. QED
      BY <3>1, <3>2, <3>3
  <2>2. ASSUME NEW s \in DOMAIN tx', NEW t \in DOMAIN tx', tx'[s].cle # Nul,
               tx'[s].cle = tx'[t].cle
        PROVE  s = t
    <3>1. CASE DOMAIN tx' = DOMAIN tx
      BY <1>1, <2>2, <3>1 DEF CreditInv
    <3>2. CASE Ajoutee(q)
      <4>1. /\ DOMAIN tx' = DOMAIN tx \cup {Len(tx) + 1}
            /\ CleLibre(tx'[Len(tx) + 1].cle)
        BY <3>2, Lignes DEF Ajoutee
      <4>. QED
        BY <1>1, <2>2, <4>1 DEF CreditInv, CleLibre
    <3>3. DOMAIN tx' = DOMAIN tx \/ Ajoutee(q)
      BY Lignes DEF Effet, Ecrite
    <3>. QED
      BY <3>1, <3>2, <3>3
  <2>. QED
    BY <2>1, <2>2 DEF CreditInv
<1>. QED
  BY <1>2, <1>3, Mouvement DEF Dehors

(* The accounts: types, the rows held by cotiser, one settlement of a row  *)
(* at a time, payments, and the balance.                                   *)
ComptesInv == TypeInv /\ DemandesInv /\ ReglementInv /\ CreditInv /\ SoldeInv

(* The accounts hold at the start.                                         *)
LEMMA ComptesInit ==
  ASSUME Init
  PROVE  ComptesInv
<1>1. /\ DOMAIN tx = {} /\ Reussies = {}
      /\ \A q \in Requetes : pc[q] = "libre" /\ loc[q].op = "aucune"
  BY ChampsRepos DEF Init, Reussies
<1>2. DemandesInv /\ ReglementInv
  BY <1>1 DEF DemandesInv, ReglementInv, Reglements, Demande, Regle
<1>3. CreditInv
  BY <1>1 DEF Init, CreditInv
<1>4. SoldeInv
  <2>1. Somme({}) = 0
    BY SommeVide DEF Somme
  <2>. QED
    BY <1>1, <2>1, CotisationsAssumption DEF Init, SoldeInv
<1>. QED
  BY <1>2, <1>3, <1>4, TypesInit DEF ComptesInv

(* Every step keeps the accounts.                                          *)
LEMMA ComptesPas ==
  ASSUME ComptesInv, [Next]_vars
  PROVE  ComptesInv'
BY TypesPas, DemandesPas, ReglementPas, CreditPas, SoldePas DEF ComptesInv

(* The accounts always hold.                                               *)
THEOREM ComptesTenus == Spec => []ComptesInv
BY ComptesInit, ComptesPas, PTL DEF Spec

(* The nightly accounting check finds the balance equal to the settled     *)
(* rows minus the withdrawals whatever crashed, unless two handlers        *)
(* settled one row together; every row on the balance was paid, and no     *)
(* key is on it twice.                                                     *)
THEOREM SoldeJuste == Spec => []SoldeCoherent
<1>1. ComptesInv => SoldeCoherent
  BY DEF ComptesInv, CreditInv, SoldeInv, SoldeCoherent
<1>. QED
  BY <1>1, ComptesTenus, PTL

-----------------------------------------------------------------------------
(* The chain of hashes.                                                    *)

(* A handler that settles no row leaves the settled rows alone.            *)
LEMMA MaillonsGardes ==
  ASSUME TypeInv, Reglements, NEW q \in Requetes, Traiter(q), Reussies' = Reussies,
         pc[q] # "crediter"
  PROVE  \A u \in Reussies : tx'[u].hash = tx[u].hash /\ tx'[u].precedent = tx[u].precedent
<1>. TypeOK /\ EtapeOK(q) /\ Effet(q) /\ Reussies \subseteq DOMAIN tx
  BY EffetDe, Derniere DEF TypeInv
<1>1. pc[q] = "echec" => loc[q].tx \notin Reussies
  BY DEF EtapeOK, EtapeBonne, SurWebhook, Reglements, Regle, Reussies
<1>2. \A st : Ecrite(loc[q].tx, st) => \A u \in Reussies \ {loc[q].tx} : tx'[u] = tx[u]
  BY DEF Ecrite
<1>3. Ajoutee(q) => \A u \in Reussies : tx'[u] = tx[u]
  BY DEF Ajoutee
<1>. QED
  BY <1>1, <1>2, <1>3 DEF Effet

(* A chain whose settled rows are as before is whole as before.            *)
LEMMA ChaineGardee ==
  ASSUME TypeInv, TypeInv', Chaines, Reussies' = Reussies,
         \A u \in Reussies : tx'[u].hash = tx[u].hash /\ tx'[u].precedent = tx[u].precedent
  PROVE  /\ ~Rupture' /\ DerniereReussie' = DerniereReussie
         /\ Reussies # {} => tx'[DerniereReussie].hash = tx[DerniereReussie].hash
<1>1. DerniereReussie' = DerniereReussie
  BY DEF DerniereReussie
<1>2. Reussies # {} => DerniereReussie \in Reussies
  BY Derniere DEF TypeInv
<1>3. ~Rupture'
  <2>1. SUFFICES ASSUME NEW s \in DOMAIN tx', NEW t \in DOMAIN tx', Voisines(s, t)',
                        tx'[t].precedent # 0, tx'[t].precedent # tx'[s].hash
                 PROVE  FALSE
    BY DEF Rupture
  <2>2. /\ s \in Reussies /\ t \in Reussies /\ s < t
        /\ \A u \in Reussies : ~(s < u /\ u < t)
    BY <2>1 DEF Voisines
  <2>3. Voisines(s, t) /\ tx[t].precedent # 0 /\ tx[t].precedent # tx[s].hash
    BY <2>1, <2>2 DEF Voisines
  <2>4. s \in DOMAIN tx /\ t \in DOMAIN tx
    BY <2>2 DEF Reussies
  <2>. QED
    BY <2>3, <2>4 DEF Chaines, Rupture
<1>. QED
  BY <1>1, <1>2, <1>3

(* A row settled at the end of the chain makes it longer.                  *)
LEMMA ChaineAllongee ==
  ASSUME TypeInv, TypeInv', Chaines, NEW q \in Requetes, Solder(q)
  PROVE  ~Rupture'
<1>. TypeOK /\ TypeOK'
  BY DEF TypeInv
<1>1. PICK n \in DOMAIN tx : n = loc[q].tx
  BY DEF Solder
<1>2. /\ Reussies' = Reussies \cup {n} /\ n \notin Reussies
      /\ \A u \in DOMAIN tx \ {n} : tx'[u] = tx[u]
      /\ tx'[n].precedent = loc[q].hash /\ pc[q] = "crediter"
  BY <1>1 DEF Solder, Ecrite, Reussies
<1>3. /\ \A u \in Reussies : u < n
      /\ loc[q].hash = IF Reussies = {} THEN 0 ELSE tx[DerniereReussie].hash
  BY <1>1, <1>2 DEF Chaines
<1>4. Reussies \subseteq DOMAIN tx /\ DOMAIN tx \subseteq Nat
  BY Derniere, Lignes, CotisationsAssumption
<1>5. SUFFICES ASSUME NEW s \in DOMAIN tx', NEW t \in DOMAIN tx', Voisines(s, t)',
                      tx'[t].precedent # 0, tx'[t].precedent # tx'[s].hash
               PROVE  FALSE
  BY DEF Rupture
<1>6. /\ s \in Reussies' /\ t \in Reussies' /\ s < t
      /\ \A u \in Reussies' : ~(s < u /\ u < t)
  BY <1>5 DEF Voisines
<1>7. CASE t = n
  <2>1. s \in Reussies /\ Reussies # {}
    BY <1>2, <1>4, <1>6, <1>7
  <2>2. DerniereReussie \in Reussies /\ \A u \in Reussies : u <= DerniereReussie
    BY <2>1, Derniere
  <2>3. s = DerniereReussie
    <3>1. s \in Nat /\ DerniereReussie \in Nat /\ s <= DerniereReussie /\ DerniereReussie < n
      BY <1>3, <1>4, <2>1, <2>2
    <3>2. ~(s < DerniereReussie)
      BY <1>2, <1>6, <1>7, <2>2, <3>1
    <3>. QED
      BY <3>1, <3>2
  <2>4. tx'[s] = tx[s]
    BY <1>2, <1>4, <2>1
  <2>. QED
    BY <1>2, <1>3, <1>5, <1>7, <2>1, <2>3, <2>4
<1>8. CASE t # n
  <2>1. t \in Reussies /\ t < n /\ s # n
    BY <1>2, <1>3, <1>4, <1>6, <1>8
  <2>2. s \in Reussies
    BY <1>2, <1>6, <2>1
  <2>3. tx'[s] = tx[s] /\ tx'[t] = tx[t]
    BY <1>2, <1>4, <1>8, <2>1, <2>2
  <2>4. Voisines(s, t)
    BY <1>2, <1>6, <2>1, <2>2 DEF Voisines
  <2>5. s \in DOMAIN tx /\ t \in DOMAIN tx
    BY <1>4, <2>1, <2>2
  <2>. QED
    BY <1>5, <2>3, <2>4, <2>5 DEF Chaines, Rupture
<1>. QED
  BY <1>7, <1>8

(* A handler that reads the end of the chain alone may settle its row.     *)
LEMMA ChainesTraiter ==
  ASSUME TypeInv, Reglements, Chaines, NEW q \in Requetes, Traiter(q), ~courseChaine'
  PROVE  Chaines'
<1>. TypeOK /\ EtapeOK(q) /\ TypeInv'
  BY TypesTraiter DEF TypeInv
<1>1. PICK e \in Etapes, l \in Locales : Va(q, e, l) /\ Passe(q, e, l)
  BY TraiterAvance DEF Avancee
<1>2. /\ pc'[q] = e /\ loc'[q] = l
      /\ \A p \in Requetes \ {q} : pc'[p] = pc[p] /\ loc'[p] = loc[p]
  BY <1>1, VaSeul
<1>3. CASE Solder(q)
  <2>1. ~Rupture'
    BY <1>3, ChaineAllongee
  <2>2. pc[q] = "crediter" /\ e # "crediter"
    BY <1>1, <1>3 DEF Solder, Passe, Suites
  <2>3. \A p \in Requetes : pc'[p] # "crediter"
    BY <1>2, <2>2 DEF Chaines
  <2>. QED
    BY <2>1, <2>3 DEF Chaines
<1>4. CASE Reussies' = Reussies /\ pc[q] # "crediter"
  <2>1. \A u \in Reussies : tx'[u].hash = tx[u].hash /\ tx'[u].precedent = tx[u].precedent
    BY <1>4, MaillonsGardes
  <2>2. /\ ~Rupture' /\ DerniereReussie' = DerniereReussie
        /\ Reussies # {} => tx'[DerniereReussie].hash = tx[DerniereReussie].hash
    BY <1>4, <2>1, ChaineGardee
  <2>3. CASE e # "crediter"
    <3>1. \A p \in Requetes : pc'[p] = "crediter" => pc[p] = "crediter" /\ loc'[p] = loc[p]
      BY <1>2, <2>3
    <3>. QED
      BY <1>4, <2>2, <3>1 DEF Chaines
  <2>4. CASE e = "crediter"
    <3>1. pc[q] = "chaine" /\ loc'[q].tx = loc[q].tx
      BY <1>1, <1>2, <1>4, <2>4 DEF Passe, Suites, Meme
    <3>2. LireChaine(q)
      BY <1>4, <3>1, QuiAgit
    <3>3. /\ \A p \in Requetes : pc[p] # "crediter"
          /\ ~(DerniereReussie > loc[q].tx)
      BY <3>2 DEF LireChaine
    <3>4. loc[q].tx \in DOMAIN tx /\ loc[q].tx \notin Reussies
      BY <3>1 DEF EtapeOK, EtapeBonne, SurLigne, Reglements, Regle, Reussies
    <3>5. \A u \in Reussies : u < loc[q].tx
      <4>1. ASSUME NEW u \in Reussies PROVE u < loc[q].tx
        <5>1. /\ u \in Nat /\ loc[q].tx \in Nat /\ u # loc[q].tx
              /\ DerniereReussie \in Nat /\ u <= DerniereReussie
          BY <3>4, Derniere, Lignes
        <5>. QED
          BY <3>3, <5>1
      <4>. QED
        BY <4>1
    <3>6. loc'[q].hash = IF Reussies = {} THEN 0 ELSE tx[DerniereReussie].hash
      <4>1. loc'[q].hash = IF DerniereReussie = 0 THEN 0 ELSE tx[DerniereReussie].hash
        BY <1>1, <1>2, <2>4, ChampsRepos DEF Passe
      <4>2. DerniereReussie = 0 <=> Reussies = {}
        BY Derniere, Lignes
      <4>. QED
        BY <4>1, <4>2
    <3>7. \A p \in Requetes : pc'[p] = "crediter" => p = q
      BY <1>2, <3>3
    <3>8. /\ \A u \in Reussies' : u < loc'[q].tx
          /\ loc'[q].hash = IF Reussies' = {} THEN 0 ELSE tx'[DerniereReussie'].hash
      BY <1>4, <2>2, <3>1, <3>5, <3>6
    <3>. QED
      BY <2>2, <3>7, <3>8 DEF Chaines
  <2>. QED
    BY <2>3, <2>4
<1>. QED
  BY <1>3, <1>4, ReussiesPas

(* Every step keeps the chain, or records an overlap.                      *)
LEMMA ChainePas ==
  ASSUME ComptesInv, ChaineInv, [Next]_vars
  PROVE  ChaineInv'
<1>. TypeInv /\ ReglementInv /\ TypeInv'
  BY TypesPas DEF ComptesInv
<1>1. (courseWebhook => courseWebhook') /\ (courseChaine => courseChaine')
  BY CoursesRestent
<1>2. SUFFICES ASSUME ~courseWebhook', ~courseChaine'
               PROVE  Chaines'
  BY DEF ChaineInv
<1>3. Chaines /\ Reglements
  BY <1>1, <1>2 DEF ChaineInv, ReglementInv
<1>4. CASE Dehors
  <2>1. UNCHANGED tx /\ Reussies' = Reussies
    BY <1>4, DehorsGarde
  <2>2. /\ ~Rupture' /\ DerniereReussie' = DerniereReussie
    BY <1>3, <2>1, ChaineGardee
  <2>3. CASE UNCHANGED <<pc, loc>>
    BY <1>3, <2>1, <2>2, <2>3 DEF Chaines
  <2>4. CASE pc' = [r \in Requetes |-> "libre"] /\ loc' = [r \in Requetes |-> Repos]
    <3>1. \A p \in Requetes : pc'[p] # "crediter"
      BY <2>4
    <3>. QED
      BY <2>2, <3>1 DEF Chaines
  <2>. QED
    BY <1>4, <2>3, <2>4, DehorsGarde
<1>5. ASSUME NEW q \in Requetes, Traiter(q) PROVE Chaines'
  BY <1>2, <1>3, <1>5, ChainesTraiter
<1>. QED
  BY <1>4, <1>5, Mouvement DEF Dehors

(* The nightly check finds the chain of hashes whole unless settlements    *)
(* overlapped or an older row was settled after a younger one.             *)
THEOREM ChaineTenue == Spec => []ChaineIntacte
<1>1. Init => ChaineInv
  <2>1. ASSUME Init PROVE ~Rupture /\ \A p \in Requetes : pc[p] # "crediter"
    BY <2>1 DEF Init, Rupture
  <2>. QED
    BY <2>1 DEF ChaineInv, Chaines
<1>2. ComptesInv /\ ChaineInv /\ [Next]_vars => ChaineInv'
  BY ChainePas
<1>3. ChaineInv => ChaineIntacte
  BY DEF ChaineInv, Chaines, ChaineIntacte
<1>. QED
  BY <1>1, <1>2, <1>3, ComptesTenus, PTL DEF Spec

-----------------------------------------------------------------------------
(* The ceiling of the collector.                                           *)

(* What a handler does to the payments of the month.                       *)
MoisPas(q) ==
    LET t == loc[q].tx IN
    \/ DuMois' = DuMois /\ EnAttente' \subseteq EnAttente
    \/ /\ DuMois' = DuMois /\ EnAttente' \subseteq EnAttente \cup {Len(tx) + 1}
       /\ Ajoutee(q) /\ pc[q] = "creer" /\ pc'[q] = "ref"
    \/ /\ t \in EnAttente /\ t \notin DuMois /\ DuMois' = DuMois \cup {t}
       /\ EnAttente' \subseteq EnAttente \ {t} /\ pc[q] = "crediter"

(* A payment is on its way, then settled or failed.                        *)
LEMMA MoisAvance ==
  ASSUME TypeInv, Reglements, NEW q \in Requetes, Traiter(q)
  PROVE  MoisPas(q)
<1>. TypeOK /\ EtapeOK(q) /\ Effet(q) /\ debutMois' = debutMois
  BY EffetDe, QuiEcrit DEF TypeInv
<1>1. PICK t : t = loc[q].tx
  OBVIOUS
<1>2. CASE Solder(q)
  <2>1. /\ t \in DOMAIN tx /\ tx[t].statut = "EN_ATTENTE" /\ pc[q] = "crediter"
        /\ Reussies' = Reussies \cup {t} /\ Ecrite(t, "SUCCES") /\ t \notin Reussies
    BY <1>1, <1>2 DEF Solder, Reussies
  <2>2. DOMAIN tx' = DOMAIN tx
    BY <2>1, Lignes DEF Ecrite
  <2>3. EnAttente' \subseteq EnAttente \ {t}
    BY <2>1, <2>2 DEF EnAttente, Ecrite
  <2>4. CASE t > debutMois
    BY <1>1, <2>1, <2>3, <2>4 DEF MoisPas, DuMois, EnAttente
  <2>5. CASE ~(t > debutMois)
    BY <2>1, <2>3, <2>5 DEF MoisPas, DuMois
  <2>. QED
    BY <2>4, <2>5
<1>3. CASE Reussies' = Reussies /\ pc[q] # "crediter"
  <2>1. DuMois' = DuMois
    BY <1>3 DEF DuMois
  <2>2. CASE pc[q] = "creer" /\ Ajoutee(q) /\ pc'[q] = "ref"
    <3>1. DOMAIN tx' = DOMAIN tx \cup {Len(tx) + 1}
      BY <2>2, Lignes DEF Ajoutee
    <3>2. EnAttente' \subseteq EnAttente \cup {Len(tx) + 1}
      BY <2>2, <3>1 DEF EnAttente, Ajoutee
    <3>. QED
      BY <2>1, <2>2, <3>2 DEF MoisPas
  <2>3. CASE ~(pc[q] = "creer" /\ Ajoutee(q) /\ pc'[q] = "ref")
    <3>1. ASSUME NEW st, Ecrite(t, st), st \in {tx[t].statut, "ECHOUE"}
          PROVE  EnAttente' \subseteq EnAttente
      <4>1. DOMAIN tx' = DOMAIN tx
        BY <3>1, Lignes DEF Ecrite
      <4>. QED
        BY <3>1, <4>1 DEF EnAttente, Ecrite
    <3>2. UNCHANGED tx => EnAttente' = EnAttente
      BY DEF EnAttente
    <3>3. EnAttente' \subseteq EnAttente
      BY <1>1, <1>3, <2>3, <3>1, <3>2 DEF Effet
    <3>. QED
      BY <2>1, <3>3 DEF MoisPas
  <2>. QED
    BY <2>2, <2>3
<1>. QED
  BY <1>2, <1>3, ReussiesPas

(* A request that passes the ceiling finds no other one on its way.        *)
LEMMA CautionVerifiee ==
  ASSUME TypeInv, NEW q \in Requetes, VerifierCaution(q), Caution > 0, ~courseCaution',
         Verifie(q)'
  PROVE  /\ \A p \in Requetes : ~Verifie(p)
         /\ EnAttente = {} /\ Somme(DuMois) + loc[q].montant < Caution
<1>. TypeOK /\ EtapeOK(q)
  BY DEF TypeInv
<1>1. pc[q] = "caution" /\ loc[q].montant \in Montants
  BY DEF VerifierCaution, EtapeOK, EtapeBonne, SurDemande
<1>2. ~Repondre(q)
  BY DEF Verifie, Repondre, Vers, TypeOK
<1>3. /\ ~PlafondAtteint(loc[q].montant)
      /\ courseCaution' = (courseCaution
                \/ \E p \in Requetes : Verifie(p)
                \/ \E t \in DOMAIN tx : t > debutMois /\ tx[t].statut = "EN_ATTENTE")
  BY <1>2 DEF VerifierCaution
<1>4. (\A p \in Requetes : ~Verifie(p)) /\ EnAttente = {}
  BY <1>3 DEF EnAttente
<1>5. ~(loc[q].montant + Somme(DuMois) >= Caution)
  BY <1>3 DEF PlafondAtteint, Collecte, DuMois
<1>6. Somme(DuMois) \in Nat
  <2>1. [Next]_vars /\ DuMois \subseteq DOMAIN tx
    BY Derniere DEF Next, Poursuivre, DuMois
  <2>. QED
    BY <2>1, SommeLignes
<1>7. loc[q].montant \in Nat /\ Caution \in Nat
  BY <1>1, CotisationsAssumption
<1>8. Somme(DuMois) + loc[q].montant < Caution
  BY <1>5, <1>6, <1>7
<1>. QED
  BY <1>4, <1>8

(* The request that passes the ceiling, and its row until it is settled,   *)
(* are alone with the room that is left.                                   *)
LEMMA PlafondsTraiter ==
  ASSUME TypeInv, Reglements, Plafonds, Caution > 0, NEW q \in Requetes, Traiter(q),
         ~courseCaution'
  PROVE  Plafonds'
<1>. TypeOK /\ EtapeOK(q) /\ MoisPas(q) /\ [Next]_vars
  BY MoisAvance DEF TypeInv, Traiter, Next
<1>1. PICK e \in Etapes, l \in Locales : Va(q, e, l) /\ Passe(q, e, l)
  BY TraiterAvance DEF Avancee
<1>2. /\ pc'[q] = e /\ loc'[q] = l
      /\ \A p \in Requetes \ {q} : pc'[p] = pc[p] /\ loc'[p] = loc[p]
  BY <1>1, VaSeul
<1>3. \A p \in Requetes \ {q} : Verifie(p)' <=> Verifie(p)
  BY <1>2, Zenon DEF Verifie
<1>4. /\ DuMois \subseteq DOMAIN tx /\ EnAttente \subseteq DOMAIN tx
      /\ DOMAIN tx \subseteq DOMAIN tx' /\ \A t \in DOMAIN tx : tx'[t].montant = tx[t].montant
  BY Derniere, LignesGardees DEF DuMois, EnAttente
<1>5. /\ DuMois' = DuMois => Somme(DuMois)' = Somme(DuMois)
      /\ Somme(DuMois) \in Nat /\ Caution \in Nat
  <2>1. /\ Somme(DuMois) \in Nat /\ \A S \in SUBSET DOMAIN tx : Somme(S)' = Somme(S)
    BY <1>4, SommeLignes
  <2>. QED
    BY <1>4, <2>1, CotisationsAssumption
<1>6. CASE /\ DuMois' = DuMois /\ EnAttente' \subseteq EnAttente /\ Verifie(q)'
  <2>1. /\ EnAttente = {} /\ \A p \in Requetes : Verifie(p) => p = q
        /\ Somme(DuMois) + loc'[q].montant < Caution
    <3>1. CASE Verifie(q)
      <4>1. loc'[q].montant = loc[q].montant
        <5>1. pc[q] \in {"chercherAlerte", "ouvrirAlerte", "derniere", "creer"}
          BY <3>1 DEF Verifie
        <5>2. e \in {"chercherAlerte", "ouvrirAlerte", "derniere", "creer"}
          BY <1>2, <1>6 DEF Verifie
        <5>. QED
          BY <1>1, <1>2, <5>1, <5>2 DEF Passe, Meme
      <4>. QED
        BY <3>1, <4>1 DEF Plafonds
    <3>2. CASE ~Verifie(q)
      <4>1. pc[q] = "caution" /\ Meme(q, l)
        BY <1>1, <1>2, <1>6, <3>2 DEF Verifie, Passe, Suites
      <4>2. VerifierCaution(q)
        BY <4>1, QuiAgit
      <4>3. /\ \A p \in Requetes : ~Verifie(p)
            /\ EnAttente = {} /\ Somme(DuMois) + loc[q].montant < Caution
        BY <1>6, <4>2, CautionVerifiee
      <4>. QED
        BY <1>2, <4>1, <4>3 DEF Meme
    <3>. QED
      BY <3>1, <3>2
  <2>2. EnAttente' = {}
    BY <1>6, <2>1
  <2>3. \A p \in Requetes : Verifie(p)' => p = q
    BY <1>3, <2>1
  <2>4. Somme(DuMois)' = Somme(DuMois)
    BY <1>5, <1>6
  <2>. QED
    BY <2>1, <2>2, <2>3, <2>4 DEF Plafonds
<1>7. CASE /\ DuMois' = DuMois /\ EnAttente' \subseteq EnAttente /\ ~Verifie(q)'
  <2>1. Somme(DuMois)' = Somme(DuMois)
    BY <1>5, <1>7
  <2>2. \A p \in Requetes : Verifie(p)' => Verifie(p) /\ loc'[p] = loc[p]
    BY <1>2, <1>3, <1>7
  <2>. QED
    BY <1>4, <1>7, <2>1, <2>2 DEF Plafonds
<1>8. CASE /\ DuMois' = DuMois /\ EnAttente' \subseteq EnAttente \cup {Len(tx) + 1}
           /\ Ajoutee(q) /\ pc[q] = "creer" /\ pc'[q] = "ref"
  <2>1. Verifie(q) /\ ~Verifie(q)'
    BY <1>8 DEF Verifie
  <2>2. EnAttente = {} /\ Somme(DuMois) + loc[q].montant < Caution
    BY <2>1 DEF Plafonds
  <2>3. \A p \in Requetes : ~Verifie(p)'
    BY <1>3, <2>1 DEF Plafonds
  <2>4. EnAttente' \subseteq {Len(tx) + 1} /\ tx'[Len(tx) + 1].montant = loc[q].montant
    BY <1>8, <2>2 DEF Ajoutee
  <2>5. Somme(DuMois)' = Somme(DuMois)
    BY <1>5, <1>8
  <2>6. Somme(DuMois) < Caution
    BY DEF Plafonds
  <2>. QED
    BY <2>2, <2>3, <2>4, <2>5, <2>6 DEF Plafonds
<1>9. ASSUME NEW t, t = loc[q].tx, t \in EnAttente, t \notin DuMois,
             DuMois' = DuMois \cup {t}, EnAttente' \subseteq EnAttente \ {t},
             pc[q] = "crediter"
      PROVE  Plafonds'
  <2>1. Somme(DuMois)' = Somme(DuMois) + tx[t].montant
    <3>1. DuMois \cup {t} \in SUBSET DOMAIN tx
      BY <1>4, <1>9
    <3>2. Somme(DuMois \cup {t})' = Somme(DuMois \cup {t})
      <4>1. \A S \in SUBSET DOMAIN tx : Somme(S)' = Somme(S)
        BY SommeLignes
      <4>. QED
        BY <1>9, <3>1, <4>1
    <3>3. Somme(DuMois \cup {t}) = Somme(DuMois) + tx[t].montant
      BY <1>4, <1>9, SommeLignes
    <3>. QED
      BY <1>9, <3>2, <3>3
  <2>2. Somme(DuMois)' < Caution
    BY <1>9, <2>1 DEF Plafonds
  <2>3. EnAttente' = {}
    BY <1>9 DEF Plafonds
  <2>4. \A p \in Requetes : ~Verifie(p)'
    <3>1. \A p \in Requetes : ~Verifie(p)
      BY <1>9 DEF Plafonds
    <3>2. ~Verifie(q)'
      BY <1>1, <1>2, <1>9 DEF Verifie, Passe, Suites
    <3>. QED
      BY <1>3, <3>1, <3>2
  <2>. QED
    BY <2>2, <2>3, <2>4 DEF Plafonds
<1>. QED
  BY <1>6, <1>7, <1>8, <1>9 DEF MoisPas

(* A new month begins with nothing collected and nothing on its way.       *)
LEMMA MoisNouveau ==
  ASSUME TypeInv, Plafonds, Dehors
  PROVE  Plafonds'
<1>. TypeOK /\ [Next]_vars
  BY DEF TypeInv, Dehors, Next
<1>1. /\ UNCHANGED tx /\ Reussies' = Reussies /\ \A S : Somme(S)' = Somme(S)
  BY DehorsGarde
<1>2. /\ \A q \in Requetes : Verifie(q)' => Verifie(q) /\ loc'[q] = loc[q]
  <2>1. CASE UNCHANGED <<pc, loc>>
    BY <2>1 DEF Verifie
  <2>2. CASE pc' = [r \in Requetes |-> "libre"] /\ loc' = [r \in Requetes |-> Repos]
    BY <2>2 DEF Verifie
  <2>. QED
    BY <2>1, <2>2, DehorsGarde
<1>3. CASE debutMois' = debutMois
  <2>1. DuMois' = DuMois /\ EnAttente' = EnAttente
    BY <1>1, <1>3 DEF DuMois, EnAttente
  <2>2. Somme(DuMois)' = Somme(DuMois)
    BY <1>1, <2>1
  <2>. QED
    BY <1>1, <1>2, <2>1, <2>2 DEF Plafonds
<1>4. CASE NouveauMois
  <2>1. Caution > 0 /\ debutMois' = Len(tx)
    BY <1>4 DEF NouveauMois
  <2>2. \A t \in DOMAIN tx : ~(t > Len(tx))
    BY Lignes
  <2>3. EnAttente' = {} /\ DuMois' = {}
    BY <1>1, <2>1, <2>2 DEF DuMois, EnAttente, Reussies
  <2>4. Somme(DuMois)' = 0
    <3>1. Somme({})' = 0
      BY SommeVide DEF Somme
    <3>. QED
      BY <2>3, <3>1
  <2>5. Somme(DuMois) \in Nat /\ Caution \in Nat
    <3>1. DuMois \subseteq DOMAIN tx
      BY Derniere DEF DuMois
    <3>. QED
      BY <3>1, SommeLignes, CotisationsAssumption
  <2>6. \A q \in Requetes : loc[q].montant \in Nat
    <3>1. ASSUME NEW q \in Requetes PROVE loc[q].montant \in Nat
      <4>1. loc[q].montant \in Montants \cup {0}
        BY ChampsLocaux DEF TypeOK
      <4>2. Montants \cup {0} \subseteq Nat
        BY CotisationsAssumption
      <4>. QED
        BY <4>1, <4>2
    <3>. QED
      BY <3>1
  <2>7. \A q \in Requetes : Verifie(q)' => 0 + loc'[q].montant < Caution
    BY <1>2, <2>5, <2>6 DEF Plafonds
  <2>8. \A p, q \in Requetes : Verifie(p)' /\ Verifie(q)' => p = q
    BY <1>2 DEF Plafonds
  <2>. QED
    BY <2>1, <2>3, <2>4, <2>5, <2>7, <2>8 DEF Plafonds
<1>. QED
  BY <1>3, <1>4 DEF Dehors, Payer, Debiter, Vieillir, Panne, tempsVars, vars

(* Every step keeps the ceiling, or records that two payments met.         *)
LEMMA PlafondPas ==
  ASSUME ComptesInv, PlafondInv, [Next]_vars
  PROVE  PlafondInv'
<1>. TypeInv /\ ReglementInv
  BY DEF ComptesInv
<1>1. (courseWebhook => courseWebhook') /\ (courseCaution => courseCaution')
  BY CoursesRestent
<1>2. SUFFICES ASSUME Caution > 0, ~courseWebhook', ~courseCaution'
               PROVE  Plafonds'
  BY DEF PlafondInv
<1>3. Plafonds /\ Reglements
  BY <1>1, <1>2 DEF PlafondInv, ReglementInv
<1>4. CASE Dehors
  BY <1>3, <1>4, MoisNouveau
<1>5. ASSUME NEW q \in Requetes, Traiter(q) PROVE Plafonds'
  BY <1>2, <1>3, <1>5, PlafondsTraiter
<1>. QED
  BY <1>4, <1>5, Mouvement DEF Dehors

(* The alert about the ceiling is opened once.                             *)
LEMMA AlertePas ==
  ASSUME TypeInv, AlerteInv, [Next]_vars
  PROVE  AlerteInv'
<1>. TypeOK
  BY DEF TypeInv
<1>1. courseAlerte => courseAlerte'
  BY CoursesRestent
<1>2. SUFFICES ASSUME ~courseAlerte' PROVE AlerteInv'
  BY DEF AlerteInv
<1>3. /\ alertes <= 1 /\ alertes \in Nat
      /\ \A p, q \in Requetes : pc[p] = "ouvrirAlerte" /\ pc[q] = "ouvrirAlerte" => p = q
      /\ \A q \in Requetes : pc[q] = "ouvrirAlerte" => alertes = 0
  BY <1>1, <1>2 DEF AlerteInv, TypeOK
<1>4. CASE Dehors
  <2>1. UNCHANGED alertes
    BY <1>4, DehorsGarde
  <2>2. \A p \in Requetes : pc'[p] = "ouvrirAlerte" => pc[p] = "ouvrirAlerte"
    BY <1>4, DehorsGarde
  <2>. QED
    BY <1>3, <2>1, <2>2 DEF AlerteInv
<1>5. ASSUME NEW q \in Requetes, Traiter(q) PROVE AlerteInv'
  <2>1. PICK e \in Etapes, l \in Locales : Va(q, e, l) /\ Passe(q, e, l)
    BY <1>5, TraiterAvance DEF Avancee
  <2>2. pc'[q] = e /\ \A p \in Requetes \ {q} : pc'[p] = pc[p]
    BY <2>1, VaSeul
  <2>3. CASE pc[q] = "ouvrirAlerte"
    <3>1. OuvrirAlerte(q) /\ alertes' = 1 /\ e = "derniere"
      BY <1>3, <1>5, <2>2, <2>3, QuiAgit DEF OuvrirAlerte, Vers, TypeOK
    <3>2. \A p \in Requetes : pc'[p] # "ouvrirAlerte"
      BY <1>3, <2>2, <2>3, <3>1
    <3>. QED
      BY <3>1, <3>2 DEF AlerteInv
  <2>4. CASE pc[q] # "ouvrirAlerte" /\ e # "ouvrirAlerte"
    <3>1. UNCHANGED alertes
      BY <1>5, <2>4, QuiEcrit DEF OuvrirAlerte
    <3>2. \A p \in Requetes : pc'[p] = "ouvrirAlerte" => pc[p] = "ouvrirAlerte"
      BY <2>2, <2>4
    <3>. QED
      BY <1>3, <3>1, <3>2 DEF AlerteInv
  <2>5. CASE e = "ouvrirAlerte"
    <3>1. pc[q] = "chercherAlerte"
      BY <2>1, <2>5 DEF Passe, Suites
    <3>2. ChercherAlerte(q)
      BY <1>5, <3>1, QuiAgit
    <3>3. UNCHANGED alertes /\ \A p \in Requetes : pc[p] # "ouvrirAlerte"
      BY <1>2, <3>2 DEF ChercherAlerte, tableVars
    <3>4. ~(alertes > 0)
      BY <2>2, <2>5, <3>2 DEF ChercherAlerte, Vers, TypeOK
    <3>5. alertes' = 0 /\ \A p \in Requetes : pc'[p] = "ouvrirAlerte" => p = q
      BY <1>3, <2>2, <3>3, <3>4
    <3>. QED
      BY <3>5 DEF AlerteInv
  <2>. QED
    BY <2>3, <2>4, <2>5
<1>. QED
  BY <1>4, <1>5, Mouvement DEF Dehors

(* What a collector collects in a month stays under his ceiling, and he    *)
(* has one alert about it, unless two requests were checked together.      *)
THEOREM PlafondTenu == Spec => []PlafondRespecte
<1>1. Init => PlafondInv /\ AlerteInv
  <2>1. ASSUME Init, Caution > 0 PROVE Plafonds
    <3>1. DuMois = {} /\ EnAttente = {} /\ \A q \in Requetes : ~Verifie(q)
      BY <2>1 DEF Init, DuMois, EnAttente, Reussies, Verifie
    <3>2. Somme({}) = 0
      BY SommeVide DEF Somme
    <3>. QED
      BY <2>1, <3>1, <3>2 DEF Plafonds
  <2>2. ASSUME Init PROVE AlerteInv
    BY <2>2 DEF Init, AlerteInv
  <2>. QED
    BY <2>1, <2>2 DEF PlafondInv
<1>2. ComptesInv /\ PlafondInv /\ AlerteInv /\ [Next]_vars => PlafondInv' /\ AlerteInv'
  BY PlafondPas, AlertePas DEF ComptesInv
<1>3. PlafondInv /\ AlerteInv => PlafondRespecte
  BY DEF PlafondInv, AlerteInv, Plafonds, DuMois, PlafondRespecte
<1>. QED
  BY <1>1, <1>2, <1>3, ComptesTenus, PTL DEF Spec

-----------------------------------------------------------------------------
(* The circuit breaker.                                                    *)

\* Enough failures, and none of them still to be counted.
AssezDEchecs ==
    /\ \A q \in Requetes : pc[q] \notin {"compter", "suspendre"}
    /\ TropDEchecs

(* Only a failure that is going to be counted adds to the recent ones.     *)
LEMMA EchecsRecule ==
  ASSUME TypeInv, NEW q \in Requetes, Traiter(q), pc[q] # "echec"
  PROVE  EchecsRecents' \subseteq EchecsRecents
<1>. TypeOK /\ Effet(q) /\ anciennes' = anciennes
  BY EffetDe, QuiEcrit DEF TypeInv
<1>1. ASSUME NEW st, Ecrite(loc[q].tx, st), st = "ECHOUE" => tx[loc[q].tx].statut = "ECHOUE"
      PROVE  EchecsRecents' \subseteq EchecsRecents
  <2>1. DOMAIN tx' = DOMAIN tx
    BY <1>1, Lignes DEF Ecrite
  <2>. QED
    BY <1>1, <2>1 DEF Ecrite, EchecsRecents
<1>2. CASE Ajoutee(q)
  <2>1. DOMAIN tx' = DOMAIN tx \cup {Len(tx) + 1}
    BY <1>2, Lignes DEF Ajoutee
  <2>. QED
    BY <1>2, <2>1 DEF Ajoutee, EchecsRecents
<1>3. CASE UNCHANGED tx
  BY <1>3 DEF EchecsRecents
<1>. QED
  BY <1>1, <1>2, <1>3 DEF Effet

(* With fewer recent failures there are not enough if there were not.      *)
LEMMA EchecsCompte ==
  ASSUME TypeInv, EchecsRecents' \subseteq EchecsRecents, TropDEchecs'
  PROVE  TropDEchecs
<1>. TypeOK
  BY DEF TypeInv
<1>1. IsFiniteSet(EchecsRecents)
  <2>1. EchecsRecents \subseteq DOMAIN tx
    BY DEF EchecsRecents
  <2>. QED
    BY <2>1, Derniere, FS_Subset
<1>2. /\ Cardinality(EchecsRecents) \in Nat /\ Cardinality(EchecsRecents') \in Nat
      /\ Cardinality(EchecsRecents') <= Cardinality(EchecsRecents)
  BY <1>1, FS_Subset, FS_CardinalityType
<1>. QED
  BY <1>2, CotisationsAssumption DEF TropDEchecs

DisjoncteurInv == pannes = 0 /\ AssezDEchecs => suspendu

(* Every step keeps the circuit breaker.                                   *)
LEMMA DisjoncteurPas ==
  ASSUME TypeInv, DisjoncteurInv, [Next]_vars
  PROVE  DisjoncteurInv'
<1>. TypeOK
  BY DEF TypeInv
<1>1. SUFFICES ASSUME pannes' = 0, AssezDEchecs'
               PROVE  suspendu'
  BY DEF DisjoncteurInv
<1>2. CASE Dehors
  <2>1. UNCHANGED <<tx, suspendu>> /\ UNCHANGED <<pc, loc>>
    BY <1>1, <1>2, DehorsGarde DEF TypeOK
  <2>2. EchecsRecents' \subseteq EchecsRecents /\ pannes = 0
    <3>1. anciennes' = anciennes \/ anciennes' \in (anciennes + 1)..Len(tx)
      BY <1>2 DEF Dehors, Payer, Debiter, NouveauMois, Vieillir, Panne, tempsVars, vars
    <3>2. \A t \in DOMAIN tx : t > anciennes' => t > anciennes
      BY <3>1, Lignes DEF TypeOK
    <3>3. pannes' = pannes
      BY <1>1, <1>2 DEF Dehors, Payer, Debiter, NouveauMois, Vieillir, Panne, kkiapayVars,
         vars, TypeOK
    <3>. QED
      BY <1>1, <2>1, <3>2, <3>3 DEF EchecsRecents
  <2>3. AssezDEchecs
    BY <1>1, <2>1, <2>2, EchecsCompte DEF AssezDEchecs
  <2>. QED
    BY <2>1, <2>2, <2>3 DEF DisjoncteurInv
<1>3. ASSUME NEW q \in Requetes, Traiter(q) PROVE suspendu'
  <2>1. PICK e \in Etapes, l \in Locales : Va(q, e, l) /\ Passe(q, e, l)
    BY <1>3, TraiterAvance DEF Avancee
  <2>2. pc'[q] = e /\ \A p \in Requetes \ {q} : pc'[p] = pc[p]
    BY <2>1, VaSeul
  <2>3. e \notin {"compter", "suspendre"} /\ pannes = 0
    BY <1>1, <1>3, <2>2, QuiEcrit DEF AssezDEchecs
  <2>4. pc[q] # "echec"
    BY <1>3, <2>2, <2>3, QuiAgit DEF MarquerEchec, Vers, TypeOK
  <2>5. TropDEchecs
    <3>1. EchecsRecents' \subseteq EchecsRecents
      BY <1>3, <2>4, EchecsRecule
    <3>. QED
      BY <1>1, <3>1, EchecsCompte DEF AssezDEchecs
  <2>6. CASE pc[q] = "compter"
    <3>1. CompterEchecs(q)
      BY <1>3, <2>6, QuiAgit
    <3>. QED
      BY <2>2, <2>3, <2>5, <3>1 DEF CompterEchecs, Vers, TypeOK
  <2>7. CASE pc[q] = "suspendre"
    BY <1>3, <2>7, QuiAgit DEF Suspendre
  <2>8. CASE pc[q] \notin {"compter", "suspendre"}
    <3>1. \A p \in Requetes : pc[p] \notin {"compter", "suspendre"}
      BY <1>1, <2>2, <2>8 DEF AssezDEchecs
    <3>2. suspendu
      BY <2>3, <2>5, <3>1 DEF AssezDEchecs, DisjoncteurInv
    <3>3. UNCHANGED suspendu \/ Suspendre(q)
      BY <1>3, QuiEcrit
    <3>. QED
      BY <3>2, <3>3 DEF Suspendre
  <2>. QED
    BY <2>6, <2>7, <2>8
<1>. QED
  BY <1>2, <1>3, Mouvement DEF Dehors

(* Enough recent failures suspend the account once they are counted, also  *)
(* when they came all at once.                                             *)
THEOREM DisjoncteurTenu == Spec => []DisjoncteurDeclenche
<1>1. Init => DisjoncteurInv
  <2>1. ASSUME Init PROVE ~TropDEchecs
    <3>1. EchecsRecents = {}
      BY <2>1 DEF Init, EchecsRecents
    <3>. QED
      BY <3>1, FS_EmptySet, CotisationsAssumption DEF TropDEchecs
  <2>. QED
    BY <2>1 DEF DisjoncteurInv, AssezDEchecs
<1>2. TypeInv /\ DisjoncteurInv /\ [Next]_vars => DisjoncteurInv'
  BY DisjoncteurPas
<1>3. DisjoncteurInv => DisjoncteurDeclenche
  BY DEF DisjoncteurInv, AssezDEchecs, TropDEchecs, DisjoncteurDeclenche
<1>. QED
  BY <1>1, <1>2, <1>3, CotisationsTypees, PTL DEF Spec
=============================================================================
