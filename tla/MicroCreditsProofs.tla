------------------------- MODULE MicroCreditsProofs -------------------------
(***************************************************************************)
(* Theorems about the micro-credits: what is left to pay follows from the  *)
(* instalments recorded, and the principal is sent once, with the client's *)
(* consent, for every amount and every number of requests and credits.     *)
(***************************************************************************)
EXTENDS MicroCredits, FiniteSetTheorems, TLAPS

-----------------------------------------------------------------------------
(* What a handler holds at the steps that use it.                          *)

SurCredit == {"lirePin", "consentir", "lireValider", "activer", "lireRefus", "refuser",
              "expirer", "compterJob", "defautJob"}
SurRemb   == {"recevoir", "regler", "echec", "compter", "defaut", "accuser"}
AvecLot   == {"prelever", "compterJob", "defautJob"}

EtapeBonne(e, l) ==
    /\ e \in {"chercherActif", "creer"} => l.choix \in Methodes
    /\ e = "chercherSms" => l.choix \in {"1", "2"}
    /\ e \in SurCredit => l.credit \in DOMAIN credits
    /\ e \in SurRemb => l.remb \in DOMAIN rembs \cap RembIds
    /\ e = "regler" => issues[l.remb] = "SUCCESS"
    /\ e = "echec" => issues[l.remb] = "FAILED"
    /\ e \in {"compterJob", "defautJob"} =>
          \E r \in DOMAIN rembs : rembs[r].credit = l.credit
    /\ l.lot \subseteq DOMAIN credits

EtapeOK(q) == EtapeBonne(pc[q], loc[q])

(* An instalment is of a credit, and is paid only if the provider said so.  *)
RembOK(r) ==
    /\ rembs[r].credit \in DOMAIN credits
    /\ rembs[r].statut = "SUCCES" => r \in RembIds /\ issues[r] = "SUCCESS"

Demandeurs == {q \in Requetes : pc[q] \in {"chercherActif", "creer"}}

TypeInv ==
    /\ TypeOK
    /\ \A q \in Requetes : EtapeOK(q)
    /\ \A r \in DOMAIN rembs : RembOK(r)
    /\ \A r \in RembIds : issues[r] # "" => r \in DOMAIN rembs
    /\ Len(credits) + Cardinality(Demandeurs) <= MaxCredits

-----------------------------------------------------------------------------
(* The decisions on a demand.                                              *)

Vivant(c) == credits[c].statut \in {"ACTIF", "EN_DEFAUT", "TERMINE"}

(* Credit c was debited, or a job is about to.                             *)
Preleve(c) ==
    \/ \E r \in DOMAIN rembs : rembs[r].credit = c
    \/ \E q \in Requetes : pc[q] \in AvecLot /\ c \in loc[q].lot

Decisions ==
    /\ \A c \in DOMAIN credits :
          /\ Preleve(c) => Vivant(c)
          /\ credits[c].statut = "EXPIRE" => ~credits[c].consenti
    /\ \A q \in Requetes, c \in DOMAIN credits :
          Decide(q, c) => /\ credits[c].statut = "EN_ATTENTE"
                          /\ pc[q] \in {"expirer", "expirerLot"} => ~credits[c].consenti
    /\ \A p, q \in Requetes, c \in DOMAIN credits : Decide(p, c) /\ Decide(q, c) => p = q

DecisionInv == courseDecision \/ Decisions

-----------------------------------------------------------------------------
(* The transfer of the principal.                                          *)

ConsentiInv ==
    /\ \A c \in DOMAIN credits : decaissements[c] > 0 => credits[c].consenti
    /\ \A q \in Requetes : pc[q] = "activer" => credits[loc[q].credit].consenti
    /\ \A c \in CreditIds \ DOMAIN credits : decaissements[c] = 0

EnActivation(c) == \E q \in Requetes : pc[q] = "activer" /\ loc[q].credit = c

UneFois ==
    \A c \in DOMAIN credits :
       decaissements[c] # 0 => decaissements[c] = 1 /\ (Vivant(c) \/ EnActivation(c))

DecaissementInv == courseDecision \/ pannes > 0 \/ UneFois

-----------------------------------------------------------------------------
(* What is left to pay.                                                    *)

Payes(c) == Cardinality(De(c, "SUCCES"))

Solde(c) == /\ credits[c].restant = PosMax(Total - Payes(c) * Journalier)
            /\ credits[c].jours = Payes(c)

(* What a handler computed is still what it will have to write.             *)
ReglementOK(q) ==
    LET c == rembs[loc[q].remb].credit IN
    /\ rembs[loc[q].remb].statut = "EN_ATTENTE"
    /\ loc[q].restant = PosMax(credits[c].restant - Journalier)
    /\ loc[q].jours = credits[c].jours + 1

Soldes ==
    /\ \A c \in DOMAIN credits : Solde(c)
    /\ \A q \in Requetes : pc[q] = "regler" => ReglementOK(q)
    /\ \A p, q \in Requetes :
          pc[p] = "regler" /\ Regle(q, rembs[loc[p].remb].credit) => p = q

SoldesInv == courseRemb \/ Soldes

SoldeFerme ==
    courseRemb \/ courseDecision \/
    \A c \in DOMAIN credits : credits[c].restant = 0 => credits[c].statut # "ACTIF"

-----------------------------------------------------------------------------
(* Lists and records.                                                      *)

(* A list of the same length with elements of S.                           *)
LEMMA MemeLongueur ==
  ASSUME NEW S, NEW s \in Seq(S), NEW t, t = [i \in DOMAIN s |-> t[i]],
         \A i \in DOMAIN s : t[i] \in S
  PROVE  t \in Seq(S) /\ DOMAIN t = DOMAIN s /\ Len(t) = Len(s)
<1>1. DOMAIN s = 1 .. Len(s) /\ Len(s) \in Nat
  OBVIOUS
<1>. QED
  BY <1>1

(* The rows of the tables have their type.                                 *)
LEMMA Lignes ==
  ASSUME TypeOK
  PROVE  /\ credits \in Seq(MicroCredit) /\ \A c \in DOMAIN credits : credits[c] \in MicroCredit
         /\ rembs \in Seq(Remboursement) /\ \A r \in DOMAIN rembs : rembs[r] \in Remboursement
         /\ \A q \in Requetes : loc[q] \in Locales
<1>1. \A S : \A s \in Seq(S) : \A i \in DOMAIN s : s[i] \in S
  OBVIOUS
<1>2. credits \in Seq(MicroCredit) /\ rembs \in Seq(Remboursement)
  BY DEF TypeOK
<1>3. \A q \in Requetes : loc[q] \in Locales
  BY DEF TypeOK
<1>. QED
  BY <1>1, <1>2, <1>3

(* What the columns of a credit are.                                       *)
LEMMA ChampsCredit ==
  ASSUME NEW c \in MicroCredit
  PROVE  /\ c.restant \in Nat /\ c.jours \in Nat /\ c.consenti \in BOOLEAN
         /\ c.methode \in Methodes
  BY DEF MicroCredit

(* The statuts a credit can have.                                          *)
Statuts == {"EN_ATTENTE", "ACTIF", "EN_DEFAUT", "TERMINE", "REFUSE", "EXPIRE"}

(* The statut of some credits is written, and nothing else.                *)
LEMMA StatutEcrit ==
  ASSUME TypeOK, NEW S, NEW s \in Statuts, Statut(S, s)
  PROVE  /\ credits' \in Seq(MicroCredit)
         /\ DOMAIN credits' = DOMAIN credits /\ Len(credits') = Len(credits)
         /\ \A c \in DOMAIN credits :
              /\ credits'[c].restant = credits[c].restant
              /\ credits'[c].jours = credits[c].jours
              /\ credits'[c].consenti <=> credits[c].consenti
              /\ credits'[c].statut = IF c \in S THEN s ELSE credits[c].statut
<1>1. /\ credits \in Seq(MicroCredit) /\ \A c \in DOMAIN credits : credits[c] \in MicroCredit
  BY Lignes
<1>2. ASSUME NEW c \in DOMAIN credits
      PROVE  /\ credits'[c] \in MicroCredit
             /\ credits'[c].restant = credits[c].restant
             /\ credits'[c].jours = credits[c].jours
             /\ credits'[c].consenti <=> credits[c].consenti
             /\ credits'[c].statut = IF c \in S THEN s ELSE credits[c].statut
  <2>1. PICK d \in MicroCredit : d = credits[c]
    BY <1>1
  <2>2. credits'[c] = IF c \in S THEN [d EXCEPT !.statut = s] ELSE d
    BY <2>1 DEF Statut
  <2>. QED
    BY <2>1, <2>2 DEF MicroCredit, Statuts
<1>3. credits' = [c \in DOMAIN credits |-> credits'[c]]
  BY DEF Statut
<1>. QED
  BY <1>1, <1>2, <1>3, MemeLongueur

(* The consent is written, and nothing else.                               *)
LEMMA ConsentementEcrit ==
  ASSUME TypeInv, NEW q \in Requetes, Consentir(q)
  PROVE  /\ credits' \in Seq(MicroCredit)
         /\ DOMAIN credits' = DOMAIN credits /\ Len(credits') = Len(credits)
         /\ loc[q].credit \in DOMAIN credits
         /\ \A c \in DOMAIN credits :
              /\ credits'[c].restant = credits[c].restant
              /\ credits'[c].jours = credits[c].jours
              /\ credits'[c].consenti <=> (credits[c].consenti \/ c = loc[q].credit)
              /\ credits'[c].statut = credits[c].statut
<1>1. /\ credits \in Seq(MicroCredit) /\ \A c \in DOMAIN credits : credits[c] \in MicroCredit
      /\ loc[q].credit \in DOMAIN credits
  BY Lignes DEF TypeInv, EtapeOK, EtapeBonne, Consentir, SurCredit
<1>2. PICK o : o = loc[q].credit
  OBVIOUS
<1>3. PICK d \in MicroCredit : d = credits[o]
  BY <1>1, <1>2
<1>4. PICK e : e = [d EXCEPT !.consenti = TRUE]
  OBVIOUS
<1>5. /\ e \in MicroCredit /\ e.restant = d.restant /\ e.jours = d.jours
      /\ e.consenti /\ e.statut = d.statut
  BY <1>4 DEF MicroCredit
<1>6. credits' = [credits EXCEPT ![o] = e]
  BY <1>1, <1>2, <1>3, <1>4 DEF Consentir
<1>7. /\ credits' = [c \in DOMAIN credits |-> credits'[c]]
      /\ \A c \in DOMAIN credits : credits'[c] = IF c = o THEN e ELSE credits[c]
  BY <1>1, <1>2, <1>6
<1>8. credits' \in Seq(MicroCredit) /\ DOMAIN credits' = DOMAIN credits
      /\ Len(credits') = Len(credits)
  BY <1>1, <1>5, <1>7, MemeLongueur
<1>. QED
  BY <1>1, <1>2, <1>3, <1>5, <1>7, <1>8

(* A new demand.                                                           *)
LEMMA CreditCree ==
  ASSUME TypeInv, NEW q \in Requetes, Creer(q)
  PROVE  /\ credits' \in Seq(MicroCredit)
         /\ DOMAIN credits' = DOMAIN credits \cup {Len(credits) + 1}
         /\ Len(credits') = Len(credits) + 1 /\ Len(credits) + 1 \notin DOMAIN credits
         /\ \A c \in DOMAIN credits : credits'[c] = credits[c]
         /\ LET c == credits'[Len(credits) + 1] IN
            /\ c.statut = "EN_ATTENTE" /\ ~c.consenti
            /\ c.restant = Total /\ c.jours = 0
<1>1. credits \in Seq(MicroCredit) /\ loc[q].choix \in Methodes
  BY DEF TypeInv, TypeOK, EtapeOK, EtapeBonne, Creer
<1>2. PICK c : c = [statut |-> "EN_ATTENTE", methode |-> loc[q].choix,
                    consenti |-> FALSE, restant |-> Total, jours |-> 0]
  OBVIOUS
<1>3. /\ c \in MicroCredit /\ c.statut = "EN_ATTENTE" /\ ~c.consenti
      /\ c.restant = Total /\ c.jours = 0
  BY <1>1, <1>2, MicroCreditsAssumption DEF MicroCredit
<1>4. credits' = Append(credits, c)
  BY <1>2 DEF Creer
<1>. QED
  BY <1>1, <1>3, <1>4

(* An instalment is settled: the credit takes the values computed before.  *)
LEMMA CreditRegle ==
  ASSUME TypeInv, NEW q \in Requetes, Regler(q), NEW o, o = rembs[loc[q].remb].credit
  PROVE  /\ credits' \in Seq(MicroCredit)
         /\ DOMAIN credits' = DOMAIN credits /\ Len(credits') = Len(credits)
         /\ o \in DOMAIN credits
         /\ \A c \in DOMAIN credits \ {o} : credits'[c] = credits[c]
         /\ credits'[o].restant = loc[q].restant /\ credits'[o].jours = loc[q].jours
         /\ credits'[o].consenti <=> credits[o].consenti
         /\ credits'[o].statut = IF loc[q].restant = 0 THEN "TERMINE" ELSE "ACTIF"
<1>1. /\ credits \in Seq(MicroCredit) /\ \A c \in DOMAIN credits : credits[c] \in MicroCredit
      /\ o \in DOMAIN credits /\ loc[q] \in Locales
  BY Lignes DEF TypeInv, EtapeOK, EtapeBonne, RembOK, Regler, SurRemb
<1>2. loc[q].restant \in Nat /\ loc[q].jours \in Nat
  BY <1>1 DEF Locales
<1>3. PICK d \in MicroCredit : d = credits[o]
  BY <1>1
<1>4. PICK s : s = StatutApres(loc[q].restant)
  OBVIOUS
<1>5. PICK e : e = [statut |-> s, methode |-> d.methode, consenti |-> d.consenti,
                    restant |-> loc[q].restant, jours |-> loc[q].jours]
  OBVIOUS
<1>6. s = (IF loc[q].restant = 0 THEN "TERMINE" ELSE "ACTIF")
  BY <1>2, <1>4 DEF StatutApres
<1>7. /\ e \in MicroCredit /\ e.restant = loc[q].restant /\ e.jours = loc[q].jours
      /\ e.consenti <=> d.consenti
      /\ e.statut = s
  BY <1>2, <1>3, <1>5, <1>6, ChampsCredit DEF MicroCredit
<1>8. credits' = [credits EXCEPT ![o] = e]
  BY <1>1, <1>3, <1>4, <1>5 DEF Regler
<1>9. /\ credits' = [c \in DOMAIN credits |-> credits'[c]]
      /\ \A c \in DOMAIN credits : credits'[c] = IF c = o THEN e ELSE credits[c]
  BY <1>1, <1>8
<1>10. credits' \in Seq(MicroCredit) /\ DOMAIN credits' = DOMAIN credits
       /\ Len(credits') = Len(credits)
  BY <1>1, <1>7, <1>9, MemeLongueur
<1>. QED
  BY <1>1, <1>3, <1>6, <1>7, <1>9, <1>10

(* The statut of an instalment is written.                                 *)
LEMMA RembEcrit ==
  ASSUME TypeInv, NEW q \in Requetes, Regler(q) \/ MarquerEchec(q), NEW o, o = loc[q].remb
  PROVE  /\ rembs' \in Seq(Remboursement)
         /\ DOMAIN rembs' = DOMAIN rembs /\ o \in DOMAIN rembs \cap RembIds
         /\ \A r \in DOMAIN rembs \ {o} : rembs'[r] = rembs[r]
         /\ rembs'[o].credit = rembs[o].credit
         /\ rembs'[o].statut = IF pc[q] = "regler" THEN "SUCCES" ELSE "ECHEC"
<1>1. /\ rembs \in Seq(Remboursement) /\ \A r \in DOMAIN rembs : rembs[r] \in Remboursement
      /\ o \in DOMAIN rembs \cap RembIds
  BY Lignes DEF TypeInv, EtapeOK, EtapeBonne, SurRemb, Regler, MarquerEchec
<1>2. PICK d \in Remboursement : d = rembs[o]
  BY <1>1
<1>3. PICK s \in {"SUCCES", "ECHEC"} : s = IF pc[q] = "regler" THEN "SUCCES" ELSE "ECHEC"
  OBVIOUS
<1>4. PICK e : e = [d EXCEPT !.statut = s]
  OBVIOUS
<1>5. e \in Remboursement /\ e.credit = d.credit /\ e.statut = s
  BY <1>4 DEF Remboursement
<1>6. rembs' = [rembs EXCEPT ![o] = e]
  BY <1>1, <1>2, <1>3, <1>4 DEF Regler, MarquerEchec
<1>7. /\ rembs' = [r \in DOMAIN rembs |-> rembs'[r]]
      /\ \A r \in DOMAIN rembs : rembs'[r] = IF r = o THEN e ELSE rembs[r]
  BY <1>1, <1>6
<1>8. rembs' \in Seq(Remboursement) /\ DOMAIN rembs' = DOMAIN rembs
  BY <1>1, <1>5, <1>7, MemeLongueur
<1>. QED
  BY <1>1, <1>2, <1>3, <1>5, <1>7, <1>8

(* The job debits a credit of its lot.                                     *)
LEMMA RembCree ==
  ASSUME TypeInv, NEW q \in Requetes, pc[q] = "prelever", NEW c \in loc[q].lot,
         NEW s \in {"EN_ATTENTE", "ECHEC"},
         rembs' = Append(rembs, [credit |-> c, statut |-> s])
  PROVE  /\ rembs' \in Seq(Remboursement)
         /\ DOMAIN rembs' = DOMAIN rembs \cup {Len(rembs) + 1}
         /\ Len(rembs) + 1 \notin DOMAIN rembs /\ c \in DOMAIN credits
         /\ \A r \in DOMAIN rembs : rembs'[r] = rembs[r]
         /\ rembs'[Len(rembs) + 1].credit = c /\ rembs'[Len(rembs) + 1].statut = s
<1>1. /\ rembs \in Seq(Remboursement) /\ c \in DOMAIN credits
      /\ loc[q] \in Locales
  BY DEF TypeInv, TypeOK, EtapeOK, EtapeBonne
<1>2. PICK e : e = [credit |-> c, statut |-> s]
  OBVIOUS
<1>3. e \in Remboursement /\ e.credit = c /\ e.statut = s
  BY <1>1, <1>2 DEF Remboursement, Locales
<1>4. rembs' = Append(rembs, e)
  BY <1>2
<1>. QED
  BY <1>1, <1>3, <1>4

-----------------------------------------------------------------------------
(* Which action writes which table.                                        *)

(* The decisions, expiries and defaults: only a statut is written.         *)
EcritStatut(q) ==
    \/ Activer(q) \/ EcrireRefus(q) \/ EcrireExpiration(q) \/ ExpirerLot(q)
    \/ EcrireDefautJob(q) \/ EcrireDefaut(q)

(* They are writes of one statut to some credits.                          *)
LEMMA EcritUnStatut ==
  ASSUME NEW q \in Requetes, EcritStatut(q)
  PROVE  \E S : \E s \in Statuts : Statut(S, s)
<1>0. /\ "ACTIF" \in Statuts /\ "EN_DEFAUT" \in Statuts
      /\ "REFUSE" \in Statuts /\ "EXPIRE" \in Statuts
  BY DEF Statuts
<1>1. CASE Activer(q) \/ EcrireRefus(q) \/ EcrireExpiration(q)
  <2>1. Statut({loc[q].credit}, "ACTIF") \/ Statut({loc[q].credit}, "REFUSE")
        \/ Statut({loc[q].credit}, "EXPIRE")
    BY Zenon, <1>1 DEF Activer, EcrireRefus, EcrireExpiration
  <2>. QED
    BY Zenon, <1>0, <2>1
<1>2. CASE ExpirerLot(q) \/ EcrireDefautJob(q) \/ EcrireDefaut(q)
  <2>1. Statut(loc[q].lot, "EXPIRE") \/ Statut({loc[q].credit}, "EN_DEFAUT")
        \/ Statut({rembs[loc[q].remb].credit}, "EN_DEFAUT")
    BY Zenon, <1>2 DEF ExpirerLot, EcrireDefautJob, EcrireDefaut
  <2>. QED
    BY Zenon, <1>0, <2>1
<1>. QED
  BY <1>1, <1>2 DEF EcritStatut

(* The actions that write a credit.                                        *)
LEMMA QuiEcritCredits ==
  ASSUME [Next]_vars
  PROVE  \/ credits' = credits
         \/ \E q \in Requetes : EcritStatut(q) \/ Creer(q) \/ Consentir(q) \/ Regler(q)
<1> USE DEF tableVars
<1>1. CASE UNCHANGED vars \/ Vieillir \/ Panne
  BY <1>1 DEF vars, Vieillir, Panne
<1>2. ASSUME NEW r, NEW issue, Payer(r, issue) PROVE credits' = credits
  BY <1>2 DEF Payer
<1>3. ASSUME NEW q \in Requetes, Recevables(q) PROVE credits' = credits
  BY <1>3 DEF Recevables, Demander, ConsentementSms, ConfirmerPin, Valider, Refuser,
     LancerExpiration, LancerPrelevements, Livrer, Doubler, Commencer
<1>4. ASSUME NEW q \in Requetes, Poursuivre(q)
      PROVE  credits' = credits \/ EcritStatut(q) \/ Creer(q) \/ Consentir(q) \/ Regler(q)
  BY <1>4 DEF Poursuivre, EcritStatut, ChercherActif, ChercherSms, LirePin, LireValider,
     LireRefus, ListerExpires, ListerActifs, Prelever, PreleverEnErreur, CompterJob,
     Recevoir, MarquerEchec, CompterEchecs, Accuser
<1>. QED
  BY <1>1, <1>2, <1>3, <1>4 DEF Next

(* The actions that write an instalment.                                   *)
LEMMA QuiEcritRembs ==
  ASSUME [Next]_vars
  PROVE  \/ rembs' = rembs
         \/ \E q \in Requetes :
              Prelever(q) \/ PreleverEnErreur(q) \/ Regler(q) \/ MarquerEchec(q)
<1> USE DEF tableVars
<1>1. CASE UNCHANGED vars \/ Vieillir \/ Panne
  BY <1>1 DEF vars, Vieillir, Panne
<1>2. ASSUME NEW r, NEW issue, Payer(r, issue) PROVE rembs' = rembs
  BY <1>2 DEF Payer
<1>3. ASSUME NEW q \in Requetes, Recevables(q) PROVE rembs' = rembs
  BY <1>3 DEF Recevables, Demander, ConsentementSms, ConfirmerPin, Valider, Refuser,
     LancerExpiration, LancerPrelevements, Livrer, Doubler, Commencer
<1>4. ASSUME NEW q \in Requetes, Poursuivre(q)
      PROVE  \/ rembs' = rembs \/ Prelever(q) \/ PreleverEnErreur(q) \/ Regler(q)
             \/ MarquerEchec(q)
  BY <1>4 DEF Poursuivre, ChercherActif, ChercherSms, LirePin, LireValider, LireRefus,
     ListerExpires, ListerActifs, CompterJob, Recevoir, CompterEchecs, Accuser, Creer,
     Consentir, Activer, EcrireRefus, EcrireExpiration, ExpirerLot, EcrireDefautJob,
     EcrireDefaut
<1>. QED
  BY <1>1, <1>2, <1>3, <1>4 DEF Next

(* The provider settles an instalment, and nothing else does.              *)
LEMMA QuiEcritIssues ==
  ASSUME [Next]_vars
  PROVE  issues' = issues \/ \E r \in RembIds, i \in {"SUCCESS", "FAILED"} : Payer(r, i)
<1> USE DEF kkiapayVars
<1>1. CASE UNCHANGED vars \/ Vieillir \/ Panne
  BY <1>1 DEF vars, Vieillir, Panne
<1>3. ASSUME NEW q \in Requetes, Recevables(q) PROVE issues' = issues
  BY <1>3 DEF Recevables, Demander, ConsentementSms, ConfirmerPin, Valider, Refuser,
     LancerExpiration, LancerPrelevements, Livrer, Doubler, Commencer
<1>4. ASSUME NEW q \in Requetes, Poursuivre(q) PROVE issues' = issues
  <2>1. CASE \/ ChercherActif(q) \/ ChercherSms(q) \/ LirePin(q) \/ LireValider(q)
             \/ LireRefus(q) \/ ListerExpires(q) \/ ListerActifs(q) \/ CompterJob(q)
             \/ Recevoir(q) \/ CompterEchecs(q) \/ Accuser(q) \/ Creer(q)
    BY <2>1 DEF ChercherActif, ChercherSms, LirePin, LireValider, LireRefus,
       ListerExpires, ListerActifs, CompterJob, Recevoir, CompterEchecs, Accuser, Creer
  <2>2. CASE \/ Prelever(q) \/ PreleverEnErreur(q) \/ Regler(q) \/ MarquerEchec(q)
             \/ Consentir(q) \/ EcritStatut(q)
    BY <2>2 DEF Prelever, PreleverEnErreur, Regler, MarquerEchec, Consentir, EcritStatut,
       Activer, EcrireRefus, EcrireExpiration, ExpirerLot, EcrireDefautJob, EcrireDefaut
  <2>. QED
    BY <1>4, <2>1, <2>2 DEF Poursuivre, EcritStatut
<1>. QED
  BY <1>1, <1>3, <1>4 DEF Next

(* Credits are neither deleted nor unconsented.                            *)
LEMMA CreditsNext ==
  ASSUME TypeInv, [Next]_vars
  PROVE  /\ credits' \in Seq(MicroCredit) /\ DOMAIN credits \subseteq DOMAIN credits'
         /\ \A c \in DOMAIN credits : credits[c].consenti => credits'[c].consenti
<1>0. credits \in Seq(MicroCredit) /\ TypeOK
  BY Lignes DEF TypeInv
<1>1. ASSUME NEW q \in Requetes, EcritStatut(q)
      PROVE  /\ credits' \in Seq(MicroCredit) /\ DOMAIN credits \subseteq DOMAIN credits'
             /\ \A c \in DOMAIN credits : credits[c].consenti => credits'[c].consenti
  <2>0. PICK S : \E s \in Statuts : Statut(S, s)
    BY <1>1, EcritUnStatut
  <2>1. PICK s \in Statuts : Statut(S, s)
    BY <2>0
  <2>. QED
    BY <1>0, <2>1, StatutEcrit
<1>2. ASSUME NEW q \in Requetes, Creer(q) \/ Consentir(q)
      PROVE  /\ credits' \in Seq(MicroCredit) /\ DOMAIN credits \subseteq DOMAIN credits'
             /\ \A c \in DOMAIN credits : credits[c].consenti => credits'[c].consenti
  BY <1>2, CreditCree, ConsentementEcrit
<1>3. ASSUME NEW q \in Requetes, Regler(q)
      PROVE  /\ credits' \in Seq(MicroCredit) /\ DOMAIN credits \subseteq DOMAIN credits'
             /\ \A c \in DOMAIN credits : credits[c].consenti => credits'[c].consenti
  BY <1>3, CreditRegle
<1>. QED
  BY <1>0, <1>1, <1>2, <1>3, QuiEcritCredits

(* Instalments stay of their credit and are paid only if the provider said  *)
(* so; its answers stay.                                                   *)
LEMMA RembsNext ==
  ASSUME TypeInv, [Next]_vars
  PROVE  /\ rembs' \in Seq(Remboursement) /\ DOMAIN rembs \subseteq DOMAIN rembs'
         /\ \A r \in DOMAIN rembs : rembs'[r].credit = rembs[r].credit
         /\ \A r \in DOMAIN rembs' : RembOK(r)'
         /\ issues' \in [RembIds -> {"", "SUCCESS", "FAILED"}]
         /\ \A r \in RembIds : /\ issues[r] # "" => issues'[r] = issues[r]
                               /\ issues'[r] # "" => r \in DOMAIN rembs'
<1>0. /\ rembs \in Seq(Remboursement) /\ \A r \in DOMAIN rembs : RembOK(r)
      /\ issues \in [RembIds -> {"", "SUCCESS", "FAILED"}]
      /\ \A r \in RembIds : issues[r] # "" => r \in DOMAIN rembs
  BY Lignes DEF TypeInv, TypeOK
<1>1. /\ issues' \in [RembIds -> {"", "SUCCESS", "FAILED"}]
      /\ \A r \in RembIds : /\ issues[r] # "" => issues'[r] = issues[r]
                            /\ issues'[r] # "" => r \in DOMAIN rembs
  <2>1. ASSUME NEW r \in RembIds, NEW i \in {"SUCCESS", "FAILED"}, Payer(r, i)
        PROVE  /\ issues' \in [RembIds -> {"", "SUCCESS", "FAILED"}]
               /\ \A s \in RembIds : /\ issues[s] # "" => issues'[s] = issues[s]
                                     /\ issues'[s] # "" => s \in DOMAIN rembs
    BY <1>0, <2>1 DEF Payer
  <2>. QED
    BY <1>0, <2>1, QuiEcritIssues
<1>2. DOMAIN credits \subseteq DOMAIN credits'
  BY CreditsNext
<1>3. CASE rembs' = rembs
  BY <1>0, <1>1, <1>2, <1>3 DEF RembOK
<1>4. ASSUME NEW q \in Requetes, Prelever(q) \/ PreleverEnErreur(q)
      PROVE  /\ rembs' \in Seq(Remboursement) /\ DOMAIN rembs \subseteq DOMAIN rembs'
             /\ \A r \in DOMAIN rembs : rembs'[r].credit = rembs[r].credit
             /\ \A r \in DOMAIN rembs' : RembOK(r)'
  <2>1. PICK c \in loc[q].lot, s \in {"EN_ATTENTE", "ECHEC"} :
          rembs' = Append(rembs, [credit |-> c, statut |-> s]) /\ pc[q] = "prelever"
    BY <1>4 DEF Prelever, PreleverEnErreur
  <2>2. /\ rembs' \in Seq(Remboursement)
        /\ DOMAIN rembs' = DOMAIN rembs \cup {Len(rembs) + 1}
        /\ c \in DOMAIN credits
        /\ \A r \in DOMAIN rembs : rembs'[r] = rembs[r]
        /\ rembs'[Len(rembs) + 1].credit = c /\ rembs'[Len(rembs) + 1].statut = s
    BY <2>1, RembCree
  <2>. QED
    BY ZenonT(40), <1>0, <1>1, <1>2, <2>1, <2>2 DEF RembOK
<1>5. ASSUME NEW q \in Requetes, Regler(q) \/ MarquerEchec(q)
      PROVE  /\ rembs' \in Seq(Remboursement) /\ DOMAIN rembs \subseteq DOMAIN rembs'
             /\ \A r \in DOMAIN rembs : rembs'[r].credit = rembs[r].credit
             /\ \A r \in DOMAIN rembs' : RembOK(r)'
  <2>0. PICK o : o = loc[q].remb
    OBVIOUS
  <2>2. /\ rembs' \in Seq(Remboursement)
        /\ DOMAIN rembs' = DOMAIN rembs /\ o \in DOMAIN rembs \cap RembIds
        /\ \A r \in DOMAIN rembs \ {o} : rembs'[r] = rembs[r]
        /\ rembs'[o].credit = rembs[o].credit
        /\ rembs'[o].statut = IF pc[q] = "regler" THEN "SUCCES" ELSE "ECHEC"
    BY <1>5, <2>0, RembEcrit
  <2>3. rembs'[o].statut = "SUCCES" => issues[o] = "SUCCESS"
    BY <2>0, <2>2 DEF TypeInv, EtapeOK, EtapeBonne
  <2>. QED
    BY <1>0, <1>1, <1>2, <2>2, <2>3 DEF RembOK
<1>6. /\ rembs' \in Seq(Remboursement) /\ DOMAIN rembs \subseteq DOMAIN rembs'
      /\ \A r \in DOMAIN rembs : rembs'[r].credit = rembs[r].credit
      /\ \A r \in DOMAIN rembs' : RembOK(r)'
  BY <1>3, <1>4, <1>5, <1>0, QuiEcritRembs
<1>. QED
  BY <1>1, <1>6

-----------------------------------------------------------------------------
(* Where the handlers go.                                                  *)

(* A step of one request leaves the others where they were.                *)
LEMMA UnSeul ==
  ASSUME TypeOK, NEW q \in Requetes, Recevables(q) \/ Poursuivre(q)
  PROVE  \A p \in Requetes \ {q} : pc'[p] = pc[p] /\ loc'[p] = loc[p]
<1> USE DEF TypeOK, Vers, Repondre, Commencer, Suivant
<1>1. CASE Recevables(q)
  BY <1>1 DEF Recevables, Demander, ConsentementSms, ConfirmerPin, Valider, Refuser,
     LancerExpiration, LancerPrelevements, Livrer, Doubler
<1>2. CASE \/ ChercherActif(q) \/ Creer(q) \/ ChercherSms(q) \/ LirePin(q) \/ Consentir(q)
           \/ LireValider(q) \/ Activer(q)
  BY <1>2 DEF ChercherActif, Creer, ChercherSms, LirePin, Consentir, LireValider, Activer
<1>3. CASE \/ LireRefus(q) \/ EcrireRefus(q) \/ EcrireExpiration(q) \/ ListerExpires(q)
           \/ ExpirerLot(q)
  BY <1>3 DEF LireRefus, EcrireRefus, EcrireExpiration, ListerExpires, ExpirerLot
<1>4. CASE \/ ListerActifs(q) \/ Prelever(q) \/ PreleverEnErreur(q) \/ CompterJob(q)
           \/ EcrireDefautJob(q)
  BY <1>4 DEF ListerActifs, Prelever, PreleverEnErreur, CompterJob, EcrireDefautJob
<1>5. CASE \/ Recevoir(q) \/ Regler(q) \/ MarquerEchec(q) \/ CompterEchecs(q)
           \/ EcrireDefaut(q) \/ Accuser(q)
  BY <1>5 DEF Recevoir, Regler, MarquerEchec, CompterEchecs, EcrireDefaut, Accuser
<1>. QED
  BY <1>1, <1>2, <1>3, <1>4, <1>5 DEF Poursuivre

(* What is not a handler moves none, except a crash that stops all.        *)
Exterieur ==
    (\E r \in RembIds, issue \in {"SUCCESS", "FAILED"} : Payer(r, issue)) \/ Vieillir \/ Panne

(* It leaves the handlers, or stops them all.                              *)
LEMMA ExterieurProcs ==
  ASSUME TypeOK, Exterieur \/ UNCHANGED vars
  PROVE  \/ UNCHANGED <<pc, loc>>
         \/ Panne /\ \A q \in Requetes : pc'[q] = "libre" /\ loc'[q] = Repos
  BY DEF Exterieur, Payer, Vieillir, Panne, vars, procVars

(* Which action takes a handler to a step, and which from it.              *)
LEMMA Transitions ==
  ASSUME TypeInv, NEW q \in Requetes, Recevables(q) \/ Poursuivre(q)
  PROVE  /\ pc'[q] \in {"chercherActif", "creer"} => Demander(q) \/ ChercherActif(q)
         /\ pc[q] \in {"chercherActif", "creer"} => ChercherActif(q) \/ Creer(q)
         /\ pc'[q] = "consentir" => ChercherSms(q) \/ LirePin(q)
         /\ pc'[q] = "refuser" => ChercherSms(q) \/ LireRefus(q)
         /\ pc'[q] = "expirer" => ChercherSms(q)
         /\ pc'[q] = "activer" => LireValider(q)
         /\ pc'[q] = "expirerLot" => ListerExpires(q)
         /\ pc[q] = "consentir" => Consentir(q)
         /\ pc[q] = "refuser" => EcrireRefus(q)
         /\ pc[q] = "expirer" => EcrireExpiration(q)
         /\ pc[q] = "activer" => Activer(q)
         /\ pc[q] = "expirerLot" => ExpirerLot(q)
         /\ pc'[q] \in AvecLot => \/ ListerActifs(q) \/ Prelever(q) \/ PreleverEnErreur(q)
                                  \/ CompterJob(q) \/ EcrireDefautJob(q)
         /\ pc'[q] = "regler" => Recevoir(q)
         /\ pc[q] = "regler" => Regler(q)
<1> USE DEF TypeOK, Vers, Repondre, Commencer, Suivant, AvecLot
<1>0. TypeOK
  BY DEF TypeInv
<1>1. CASE Recevables(q)
  BY <1>0, <1>1 DEF Recevables, Demander, ConsentementSms, ConfirmerPin, Valider, Refuser,
     LancerExpiration, LancerPrelevements, Livrer, Doubler
<1>2. CASE ChercherActif(q) \/ Creer(q) \/ LirePin(q) \/ Consentir(q)
  BY <1>0, <1>2 DEF ChercherActif, Creer, LirePin, Consentir
<1>3. CASE ChercherSms(q)
  <2>1. loc[q].choix \in {"1", "2"} /\ pc[q] = "chercherSms"
    BY <1>3 DEF ChercherSms, TypeInv, EtapeOK, EtapeBonne
  <2>2. pc'[q] \in {"libre", "expirer", "consentir", "refuser"}
    <3>1. CASE Repondre(q)
      BY <1>0, <3>1
    <3>2. ASSUME NEW c \in SansReponse,
                 Vers(q, CASE c \in vieux -> "expirer"
                           [] c \notin vieux /\ loc[q].choix = "1" -> "consentir"
                           [] c \notin vieux /\ loc[q].choix = "2" -> "refuser")
          PROVE  pc'[q] \in {"libre", "expirer", "consentir", "refuser"}
      <4>1. CASE c \in vieux
        BY <1>0, <3>2, <4>1
      <4>2. CASE c \notin vieux
        BY <1>0, <2>1, <3>2, <4>2
      <4>. QED
        BY <4>1, <4>2
    <3>. QED
      BY <1>3, <3>1, <3>2 DEF ChercherSms
  <2>. QED
    BY <1>3, <2>1, <2>2
<1>4. CASE LireValider(q) \/ Activer(q) \/ LireRefus(q) \/ EcrireRefus(q)
  BY <1>0, <1>4 DEF LireValider, Activer, LireRefus, EcrireRefus
<1>5. CASE EcrireExpiration(q) \/ ListerExpires(q) \/ ExpirerLot(q)
  BY <1>0, <1>5 DEF EcrireExpiration, ListerExpires, ExpirerLot
<1>6. CASE ListerActifs(q) \/ Prelever(q) \/ PreleverEnErreur(q)
  BY <1>0, <1>6 DEF ListerActifs, Prelever, PreleverEnErreur
<1>7. CASE CompterJob(q) \/ EcrireDefautJob(q)
  BY <1>0, <1>7 DEF CompterJob, EcrireDefautJob
<1>8. CASE Recevoir(q) \/ Regler(q) \/ MarquerEchec(q)
  BY <1>0, <1>8 DEF Recevoir, Regler, MarquerEchec
<1>9. CASE CompterEchecs(q) \/ EcrireDefaut(q) \/ Accuser(q)
  BY <1>0, <1>9 DEF CompterEchecs, EcrireDefaut, Accuser
<1>. QED
  BY <1>1, <1>2, <1>3, <1>4, <1>5, <1>6, <1>7, <1>8, <1>9 DEF Poursuivre

-----------------------------------------------------------------------------
(* The bound on the credits.                                               *)

(* The handlers that may still create a credit are finitely many.          *)
LEMMA DemandeursFinis ==
  IsFiniteSet(Demandeurs) /\ Cardinality(Demandeurs) \in Nat
<1>1. IsFiniteSet(Requetes) /\ Demandeurs \subseteq Requetes
  BY MicroCreditsAssumption DEF Demandeurs
<1>. QED
  BY <1>1, FS_Subset, FS_CardinalityType

(* Every credit has an identifier of the model.                            *)
LEMMA Identifiants ==
  ASSUME TypeOK
  PROVE  /\ Len(credits) \in Nat /\ DOMAIN credits = 1 .. Len(credits)
         /\ DOMAIN credits \subseteq CreditIds /\ \A c \in DOMAIN credits : c \in Nat
<1>1. credits \in Seq(MicroCredit)
  BY Lignes
<1>2. Len(credits) \in Nat /\ DOMAIN credits = 1 .. Len(credits)
  BY <1>1
<1>3. Len(credits) <= MaxCredits
  BY DEF TypeOK
<1>. QED
  BY <1>2, <1>3, MicroCreditsAssumption DEF CreditIds

(* A demand is taken only while there is room for its credit.              *)
LEMMA BorneNext ==
  ASSUME TypeInv, [Next]_vars
  PROVE  Len(credits') + Cardinality(Demandeurs') <= MaxCredits
<1> USE MicroCreditsAssumption
<1>0. /\ Len(credits) + Cardinality(Demandeurs) <= MaxCredits
      /\ Len(credits) \in Nat /\ TypeOK
  BY Identifiants DEF TypeInv
<1>1. /\ IsFiniteSet(Demandeurs) /\ Cardinality(Demandeurs) \in Nat
  BY DemandeursFinis
<1>2. ASSUME Demandeurs' \subseteq Demandeurs, Len(credits') = Len(credits)
      PROVE  Len(credits') + Cardinality(Demandeurs') <= MaxCredits
  <2>1. Cardinality(Demandeurs') <= Cardinality(Demandeurs) /\ Cardinality(Demandeurs') \in Nat
    BY <1>1, <1>2, FS_Subset, FS_CardinalityType
  <2>. QED
    BY <1>0, <1>1, <1>2, <2>1
<1>3. ASSUME NEW q \in Requetes, Demander(q)
      PROVE  Len(credits') + Cardinality(Demandeurs') <= MaxCredits
  <2>1. Demandeurs' = Demandeurs \cup {q} /\ q \notin Demandeurs /\ credits' = credits
    BY ZenonT(40), <1>0, <1>3 DEF Demander, Demandeurs, Commencer, Vers, TypeOK, tableVars
  <2>2. Cardinality(Demandeurs') = Cardinality(Demandeurs) + 1
    BY <1>1, <2>1, FS_AddElement
  <2>3. Len(credits) + Cardinality(Demandeurs) < MaxCredits
    BY <1>3 DEF Demander, CreditsPrevus, Demandeurs
  <2>. QED
    BY <1>0, <1>1, <2>1, <2>2, <2>3
<1>4. ASSUME NEW q \in Requetes, Creer(q)
      PROVE  Len(credits') + Cardinality(Demandeurs') <= MaxCredits
  <2>1. Demandeurs' = Demandeurs \ {q} /\ q \in Demandeurs
    BY <1>0, <1>4 DEF Creer, Demandeurs, Repondre, Vers, TypeOK
  <2>2. Cardinality(Demandeurs') = Cardinality(Demandeurs) - 1
    BY <1>1, <2>1, FS_RemoveElement
  <2>3. Len(credits') = Len(credits) + 1
    BY <1>4, CreditCree
  <2>. QED
    BY <1>0, <1>1, <2>2, <2>3
<1>5. ASSUME \A q \in Requetes : ~Creer(q) PROVE Len(credits') = Len(credits)
  <2>1. ASSUME NEW q \in Requetes, EcritStatut(q) PROVE Len(credits') = Len(credits)
    <3>0. PICK S : \E s \in Statuts : Statut(S, s)
      BY <2>1, EcritUnStatut
    <3>1. PICK s \in Statuts : Statut(S, s)
      BY <3>0
    <3>. QED
      BY <1>0, <3>1, StatutEcrit
  <2>. QED
    BY <1>5, <2>1, QuiEcritCredits, ConsentementEcrit, CreditRegle
<1>6. ASSUME NEW q \in Requetes, Recevables(q) \/ Poursuivre(q), ~Creer(q), ~Demander(q)
      PROVE  Demandeurs' \subseteq Demandeurs
  <2>1. pc'[q] \in {"chercherActif", "creer"} => q \in Demandeurs
    BY <1>0, <1>6, Transitions DEF ChercherActif, Demandeurs
  <2>. QED
    BY <1>0, <1>6, <2>1, UnSeul DEF Demandeurs
<1>7. CASE Exterieur \/ UNCHANGED vars
  <2>1. Demandeurs' \subseteq Demandeurs
    BY <1>0, <1>7, ExterieurProcs DEF Demandeurs
  <2>2. credits' = credits
    BY <1>7 DEF Exterieur, Payer, Vieillir, Panne, vars, tableVars
  <2>. QED
    BY <1>2, <2>1, <2>2
<1>8. ASSUME NEW q \in Requetes, Recevables(q) \/ Poursuivre(q)
      PROVE  Len(credits') + Cardinality(Demandeurs') <= MaxCredits
  <2>1. CASE \A p \in Requetes : ~Creer(p)
    BY <1>2, <1>3, <1>5, <1>6, <1>8, <2>1
  <2>. QED
    BY <1>4, <2>1
<1>. QED
  BY <1>7, <1>8 DEF Next, Exterieur

-----------------------------------------------------------------------------
(* The handlers keep the type of their variables.                          *)

(* The handler q is now at step e with the variables l.                    *)
Va(q, e, l) == pc' = [pc EXCEPT ![q] = e] /\ loc' = [loc EXCEPT ![q] = l]

(* The variables of an idle handler.                                       *)
LEMMA ReposType ==
  Repos \in Locales /\ Repos.lot = {} /\ EtapeBonne("libre", Repos)
<1>1. Repos \in Locales /\ Repos.lot = {}
  BY DEF Repos, Requete, Locales
<1>. QED
  BY <1>1 DEF EtapeBonne, SurCredit, SurRemb

(* What a step holds stays true while the others go on.                    *)
LEMMA EtapeStable ==
  ASSUME TypeInv, [Next]_vars, NEW e \in Etapes, NEW l \in Locales, EtapeBonne(e, l)
  PROVE  EtapeBonne(e, l)'
<1>1. /\ DOMAIN credits \subseteq DOMAIN credits' /\ DOMAIN rembs \subseteq DOMAIN rembs'
      /\ \A r \in DOMAIN rembs : rembs'[r].credit = rembs[r].credit
      /\ \A r \in RembIds : issues[r] # "" => issues'[r] = issues[r]
  BY CreditsNext, RembsNext
<1>. QED
  BY <1>1 DEF EtapeBonne, SurRemb

(* The answer to a request.                                                *)
LEMMA RepondreVa ==
  ASSUME TypeInv, NEW q \in Requetes, Repondre(q)
  PROVE  \E e \in Etapes, l \in Locales : Va(q, e, l) /\ EtapeBonne(e, l)
  BY ReposType DEF Repondre, Vers, Va, Etapes

(* A handler that only moves.                                              *)
LEMMA VersVa ==
  ASSUME TypeInv, NEW q \in Requetes, NEW e \in Etapes, Vers(q, e), UNCHANGED loc,
         EtapeBonne(e, loc[q])
  PROVE  \E d \in Etapes, l \in Locales : Va(q, d, l) /\ EtapeBonne(d, l)
<1>1. loc[q] \in Locales /\ loc' = [loc EXCEPT ![q] = loc[q]]
  BY DEF TypeInv, TypeOK
<1>. QED
  BY <1>1 DEF Vers, Va

(* On to the next credit of a lot.                                         *)
LEMMA SuivantVa ==
  ASSUME TypeInv, NEW q \in Requetes, NEW lot, lot \subseteq DOMAIN credits,
         Suivant(q, lot)
  PROVE  \E e \in Etapes, l \in Locales : Va(q, e, l) /\ EtapeBonne(e, l)
<1>1. CASE lot = {}
  BY <1>1, RepondreVa DEF Suivant
<1>2. CASE lot # {}
  <2>1. PICK d \in Locales : d = Repos
    BY ReposType
  <2>2. PICK l : l = [d EXCEPT !.lot = lot]
    OBVIOUS
  <2>3. lot \in SUBSET CreditIds
    BY Identifiants DEF TypeInv
  <2>4. l \in Locales /\ l.lot = lot
    BY <2>2, <2>3 DEF Locales
  <2>5. Va(q, "prelever", l)
    BY <1>2, <2>1, <2>2 DEF Suivant, Vers, Va
  <2>6. EtapeBonne("prelever", l) /\ "prelever" \in Etapes
    BY <2>4 DEF EtapeBonne, SurCredit, SurRemb, Etapes
  <2>. QED
    BY <2>4, <2>5, <2>6
<1>. QED
  BY <1>1, <1>2

(* A request begins.                                                       *)
LEMMA CommencerVa ==
  ASSUME TypeInv, NEW q \in Requetes, Recevables(q)
  PROVE  \E e \in Etapes, l \in Locales : Va(q, e, l) /\ EtapeBonne(e, l)
<1>. TypeOK
  BY DEF TypeInv
<1>a. \A c \in DOMAIN credits : c \in Nat
  BY Identifiants
<1>b. \A r \in RembIds : r \in Nat
  BY MicroCreditsAssumption DEF RembIds
<1>0. /\ \A c \in DOMAIN credits : c \in Nat
      /\ \A r \in RembIds : r \in Nat
      /\ \A r \in RembIds : issues[r] # "" => r \in DOMAIN rembs
  BY <1>a, <1>b DEF TypeInv
<1>1. ASSUME NEW m \in Methodes, Commencer(q, "chercherActif", Requete(0, 0, m))
      PROVE  \E e \in Etapes, l \in Locales : Va(q, e, l) /\ EtapeBonne(e, l)
  <2>1. PICK l : l = Requete(0, 0, m)
    OBVIOUS
  <2>2. l \in Locales /\ l.choix = m /\ l.lot = {}
    BY <2>1 DEF Requete, Locales
  <2>. QED
    BY <1>1, <2>1, <2>2 DEF Commencer, Vers, Va, EtapeBonne, Etapes, SurCredit, SurRemb
<1>2. ASSUME NEW x \in {"1", "2"}, Commencer(q, "chercherSms", Requete(0, 0, x))
      PROVE  \E e \in Etapes, l \in Locales : Va(q, e, l) /\ EtapeBonne(e, l)
  <2>1. PICK l : l = Requete(0, 0, x)
    OBVIOUS
  <2>2. l \in Locales /\ l.choix = x /\ l.lot = {}
    BY <2>1 DEF Requete, Locales
  <2>. QED
    BY <1>2, <2>1, <2>2 DEF Commencer, Vers, Va, EtapeBonne, Etapes, SurCredit, SurRemb
<1>3. ASSUME NEW c \in DOMAIN credits, NEW e \in {"lirePin", "lireValider", "lireRefus"},
             Commencer(q, e, Requete(c, 0, ""))
      PROVE  \E d \in Etapes, l \in Locales : Va(q, d, l) /\ EtapeBonne(d, l)
  <2>1. PICK l : l = Requete(c, 0, "")
    OBVIOUS
  <2>2. l \in Locales /\ l.credit = c /\ l.lot = {}
    BY <2>1, <1>0 DEF Requete, Locales
  <2>. QED
    BY <1>3, <2>1, <2>2 DEF Commencer, Vers, Va, EtapeBonne, Etapes, SurCredit, SurRemb
<1>4. ASSUME NEW e \in {"listerExpires", "listerActifs"}, Commencer(q, e, Repos)
      PROVE  \E d \in Etapes, l \in Locales : Va(q, d, l) /\ EtapeBonne(d, l)
  <2>1. PICK l \in Locales : l = Repos /\ l.lot = {}
    BY ReposType
  <2>. QED
    BY <1>4, <2>1 DEF Commencer, Vers, Va, EtapeBonne, Etapes, SurCredit, SurRemb
<1>5. ASSUME NEW r \in RembIds, issues[r] # "",
             Commencer(q, "recevoir", Requete(0, r, ""))
      PROVE  \E e \in Etapes, l \in Locales : Va(q, e, l) /\ EtapeBonne(e, l)
  <2>1. PICK l : l = Requete(0, r, "")
    OBVIOUS
  <2>2. l \in Locales /\ l.remb = r /\ l.lot = {}
    BY <2>1, <1>0 DEF Requete, Locales
  <2>. QED
    BY <1>0, <1>5, <2>1, <2>2 DEF Commencer, Vers, Va, EtapeBonne, Etapes, SurCredit, SurRemb
<1>6. CASE Demander(q) \/ ConsentementSms(q)
  BY <1>1, <1>2, <1>6 DEF Demander, ConsentementSms
<1>7. CASE ConfirmerPin(q) \/ Valider(q) \/ Refuser(q)
  BY <1>3, <1>7 DEF ConfirmerPin, Valider, Refuser
<1>8. CASE LancerExpiration(q) \/ LancerPrelevements(q)
  BY <1>4, <1>8 DEF LancerExpiration, LancerPrelevements
<1>9. CASE \E r \in RembIds : Livrer(q, r) \/ Doubler(q, r)
  BY <1>5, <1>9 DEF Livrer, Doubler
<1>. QED
  BY <1>6, <1>7, <1>8, <1>9 DEF Recevables

(* A handler of a demand goes on.                                          *)
LEMMA DemandeVa ==
  ASSUME TypeInv, NEW q \in Requetes,
         \/ ChercherActif(q) \/ Creer(q) \/ ChercherSms(q) \/ LirePin(q) \/ Consentir(q)
         \/ LireValider(q) \/ Activer(q) \/ LireRefus(q) \/ EcrireRefus(q)
         \/ EcrireExpiration(q) \/ ListerExpires(q) \/ ExpirerLot(q)
  PROVE  \E e \in Etapes, l \in Locales : Va(q, e, l) /\ EtapeBonne(e, l)
<1>. TypeOK
  BY DEF TypeInv
<1>0. /\ EtapeBonne(pc[q], loc[q]) /\ \A c \in DOMAIN credits : c \in Nat
      /\ DOMAIN credits \subseteq CreditIds
      /\ loc[q] \in Locales
  BY Identifiants, Lignes DEF TypeInv, EtapeOK
<1>1. CASE Repondre(q)
  BY <1>1, RepondreVa
<1>2. CASE ChercherActif(q)
  <2>1. CASE Vers(q, "creer") /\ UNCHANGED loc
    <3>1. EtapeBonne("creer", loc[q]) /\ "creer" \in Etapes
      BY <1>0, <1>2 DEF ChercherActif, EtapeBonne, SurCredit, SurRemb, Etapes
    <3>. QED
      BY <2>1, <3>1, VersVa
  <2>. QED
    BY Zenon, <1>1, <1>2, <2>1 DEF ChercherActif
<1>3. CASE ChercherSms(q)
  <2>1. ASSUME NEW c \in SansReponse, NEW e \in {"expirer", "consentir", "refuser"},
               Vers(q, e), loc' = [loc EXCEPT ![q] = Requete(c, 0, "")]
        PROVE  \E d \in Etapes, l \in Locales : Va(q, d, l) /\ EtapeBonne(d, l)
    <3>0. c \in DOMAIN credits
      BY DEF SansReponse, EnStatut
    <3>1. PICK l : l = Requete(c, 0, "")
      OBVIOUS
    <3>2. l \in Locales /\ l.credit = c /\ l.lot = {}
      BY <3>1, <1>0, <3>0 DEF Requete, Locales
    <3>. QED
      BY <2>1, <3>0, <3>1, <3>2 DEF Vers, Va, EtapeBonne, Etapes, SurCredit, SurRemb
  <2>2. ASSUME NEW c \in SansReponse,
               Vers(q, CASE c \in vieux -> "expirer"
                         [] c \notin vieux /\ loc[q].choix = "1" -> "consentir"
                         [] c \notin vieux /\ loc[q].choix = "2" -> "refuser"),
               loc' = [loc EXCEPT ![q] = Requete(c, 0, "")]
        PROVE  \E d \in Etapes, l \in Locales : Va(q, d, l) /\ EtapeBonne(d, l)
    <3>1. loc[q].choix \in {"1", "2"}
      BY <1>0, <1>3 DEF ChercherSms, EtapeBonne
    <3>2. CASE c \in vieux
      BY <2>1, <2>2, <3>2
    <3>3. CASE c \notin vieux
      BY <2>1, <2>2, <3>1, <3>3
    <3>. QED
      BY <3>2, <3>3
  <2>. QED
    BY <1>1, <1>3, <2>2 DEF ChercherSms
<1>4. CASE LirePin(q) \/ LireValider(q) \/ LireRefus(q)
  <2>1. ASSUME NEW e \in {"consentir", "activer", "refuser"}, Vers(q, e), UNCHANGED loc
        PROVE  \E d \in Etapes, l \in Locales : Va(q, d, l) /\ EtapeBonne(d, l)
    <3>1. EtapeBonne(e, loc[q]) /\ e \in Etapes
      BY <1>0, <1>4 DEF LirePin, LireValider, LireRefus, EtapeBonne, SurCredit, SurRemb,
         Etapes
    <3>. QED
      BY <2>1, <3>1, VersVa
  <2>2. CASE LirePin(q)
    BY Zenon, <1>1, <2>1, <2>2 DEF LirePin
  <2>3. CASE LireValider(q)
    BY Zenon, <1>1, <2>1, <2>3 DEF LireValider
  <2>4. CASE LireRefus(q)
    BY Zenon, <1>1, <2>1, <2>4 DEF LireRefus
  <2>. QED
    BY <1>4, <2>2, <2>3, <2>4
<1>5. CASE Creer(q) \/ Consentir(q) \/ Activer(q) \/ EcrireRefus(q)
  BY <1>1, <1>5 DEF Creer, Consentir, Activer, EcrireRefus
<1>6. CASE EcrireExpiration(q) \/ ExpirerLot(q)
  BY <1>1, <1>6 DEF EcrireExpiration, ExpirerLot
<1>7. CASE ListerExpires(q)
  <2>1. CASE Vers(q, "expirerLot") /\ loc' = [loc EXCEPT ![q].lot = AExpirer]
    <3>0. AExpirer \subseteq DOMAIN credits
      BY DEF AExpirer, SansReponse, EnStatut
    <3>1. PICK d \in Locales : d = loc[q]
      BY <1>0
    <3>2. PICK l : l = [d EXCEPT !.lot = AExpirer]
      OBVIOUS
    <3>3. l \in Locales /\ l.lot = AExpirer
      BY <1>0, <3>0, <3>2 DEF Locales
    <3>4. loc' = [loc EXCEPT ![q] = l]
      BY <2>1, <3>1, <3>2
    <3>. QED
      BY ZenonT(40), <2>1, <3>0, <3>3, <3>4 DEF Vers, Va, EtapeBonne, Etapes, SurCredit, SurRemb
  <2>. QED
    BY <1>1, <1>7, <2>1 DEF ListerExpires
<1>. QED
  BY <1>2, <1>3, <1>4, <1>5, <1>6, <1>7

(* The job that debits goes on.                                            *)
LEMMA TravailVa ==
  ASSUME TypeInv, NEW q \in Requetes,
         ListerActifs(q) \/ Prelever(q) \/ CompterJob(q) \/ EcrireDefautJob(q)
  PROVE  \E e \in Etapes, l \in Locales : Va(q, e, l) /\ EtapeBonne(e, l)
<1>. TypeOK
  BY DEF TypeInv
<1>0. /\ EtapeBonne(pc[q], loc[q]) /\ DOMAIN credits \subseteq CreditIds
      /\ loc[q] \in Locales /\ loc[q].lot \subseteq DOMAIN credits
  BY Identifiants, Lignes DEF TypeInv, EtapeOK, EtapeBonne
<1>1. CASE Repondre(q)
  BY <1>1, RepondreVa
<1>2. CASE ListerActifs(q)
  <2>1. ASSUME NEW lot, lot \subseteq DOMAIN credits, Vers(q, "prelever"),
               loc' = [loc EXCEPT ![q].lot = lot]
        PROVE  \E e \in Etapes, l \in Locales : Va(q, e, l) /\ EtapeBonne(e, l)
    <3>1. PICK d \in Locales : d = loc[q]
      BY <1>0
    <3>2. PICK l : l = [d EXCEPT !.lot = lot]
      OBVIOUS
    <3>3. l \in Locales /\ l.lot = lot
      BY <1>0, <2>1, <3>2 DEF Locales
    <3>4. loc' = [loc EXCEPT ![q] = l]
      BY <2>1, <3>1, <3>2
    <3>. QED
      BY ZenonT(40), <2>1, <3>3, <3>4 DEF Vers, Va, EtapeBonne, Etapes, SurCredit, SurRemb
  <2>2. EnStatut("ACTIF") \subseteq DOMAIN credits
    BY DEF EnStatut
  <2>. QED
    BY <1>1, <1>2, <2>1, <2>2 DEF ListerActifs
<1>3. CASE Prelever(q)
  <2>1. PICK c : Suivant(q, loc[q].lot \ {c})
    BY <1>3 DEF Prelever
  <2>. QED
    BY <1>0, <2>1, SuivantVa
<1>4. CASE CompterJob(q)
  <2>1. CASE Vers(q, "defautJob") /\ UNCHANGED loc
    <3>1. EtapeBonne("defautJob", loc[q]) /\ "defautJob" \in Etapes
      BY <1>0, <1>4 DEF CompterJob, EtapeBonne, SurCredit, SurRemb, Etapes
    <3>. QED
      BY <2>1, <3>1, VersVa
  <2>2. CASE Suivant(q, loc[q].lot)
    BY <1>0, <2>2, SuivantVa
  <2>. QED
    BY Zenon, <1>4, <2>1, <2>2 DEF CompterJob
<1>5. CASE EcrireDefautJob(q)
  BY <1>0, <1>5, SuivantVa DEF EcrireDefautJob
<1>. QED
  BY <1>2, <1>3, <1>4, <1>5

(* The webhook goes on.                                                    *)
LEMMA WebhookVa ==
  ASSUME TypeInv, NEW q \in Requetes,
         \/ Recevoir(q) \/ Regler(q) \/ MarquerEchec(q) \/ CompterEchecs(q)
         \/ EcrireDefaut(q) \/ Accuser(q)
  PROVE  \E e \in Etapes, l \in Locales : Va(q, e, l) /\ EtapeBonne(e, l)
<1>. TypeOK
  BY DEF TypeInv
<1>0. EtapeBonne(pc[q], loc[q]) /\ loc[q] \in Locales
  BY Lignes DEF TypeInv, EtapeOK
<1>1. ASSUME NEW e \in {"accuser", "echec", "compter", "defaut"}, pc[q] \in SurRemb,
             e = "echec" => issues[loc[q].remb] = "FAILED",
             Vers(q, e), UNCHANGED loc
      PROVE  \E d \in Etapes, l \in Locales : Va(q, d, l) /\ EtapeBonne(d, l)
  <2>1. EtapeBonne(e, loc[q]) /\ e \in Etapes
    BY <1>0, <1>1 DEF EtapeBonne, SurCredit, SurRemb, Etapes
  <2>. QED
    BY <1>1, <2>1, VersVa
<1>2. CASE Recevoir(q)
  <2>0. pc[q] \in SurRemb
    BY <1>2 DEF Recevoir, SurRemb
  <2>1. CASE Vers(q, "accuser") /\ UNCHANGED loc
    BY <1>1, <2>0, <2>1
  <2>2. CASE Vers(q, "echec") /\ UNCHANGED loc /\ issues[loc[q].remb] = "FAILED"
    BY <1>1, <2>0, <2>2
  <2>3. ASSUME NEW n, NEW j, n = PosMax(credits[rembs[loc[q].remb].credit].restant - Journalier),
               j = credits[rembs[loc[q].remb].credit].jours + 1,
               issues[loc[q].remb] = "SUCCESS", Vers(q, "regler"),
               loc' = [loc EXCEPT ![q].restant = n, ![q].jours = j]
        PROVE  \E e \in Etapes, l \in Locales : Va(q, e, l) /\ EtapeBonne(e, l)
    <3>0. PICK o : o = rembs[loc[q].remb].credit
      OBVIOUS
    <3>1. loc[q].remb \in DOMAIN rembs \cap RembIds
      BY <1>0, <2>0 DEF EtapeBonne
    <3>2. o \in DOMAIN credits
      BY <3>0, <3>1 DEF TypeInv, RembOK
    <3>3. PICK d \in MicroCredit : d = credits[o]
      BY <3>2, Lignes
    <3>4. n \in Nat /\ j \in Nat
      <4>1. d.restant \in Nat /\ d.jours \in Nat /\ Journalier \in Nat
        BY ChampsCredit, MicroCreditsAssumption
      <4>2. n = PosMax(d.restant - Journalier) /\ j = d.jours + 1
        BY <2>3, <3>0, <3>3
      <4>. QED
        BY <4>1, <4>2 DEF PosMax
    <3>5. PICK k \in Locales : k = loc[q]
      BY <1>0
    <3>6. PICK l : l = [k EXCEPT !.restant = n, !.jours = j]
      OBVIOUS
    <3>7. l \in Locales /\ l.remb = k.remb /\ l.lot = k.lot
      BY <3>4, <3>6 DEF Locales
    <3>8. loc' = [loc EXCEPT ![q] = l]
      BY <2>3, <3>5, <3>6
    <3>9. EtapeBonne("regler", l) /\ "regler" \in Etapes
      BY <1>0, <2>3, <3>1, <3>5, <3>7 DEF EtapeBonne, SurCredit, SurRemb, Etapes
    <3>. QED
      BY <2>3, <3>7, <3>8, <3>9 DEF Vers, Va
  <2>. QED
    BY Zenon, <1>2, <2>1, <2>2, <2>3 DEF Recevoir
<1>3. CASE Regler(q)
  <2>1. loc[q].remb \in DOMAIN rembs \cap RembIds /\ loc[q].remb \in Nat
    BY <1>0, <1>3 DEF Regler, EtapeBonne, SurRemb, Locales
  <2>2. PICK l : l = Requete(0, loc[q].remb, "")
    OBVIOUS
  <2>3. l \in Locales /\ l.remb = loc[q].remb /\ l.lot = {}
    BY <2>1, <2>2 DEF Requete, Locales
  <2>. QED
    BY <1>3, <2>1, <2>2, <2>3 DEF Regler, Vers, Va, EtapeBonne, Etapes, SurCredit, SurRemb
<1>4. CASE MarquerEchec(q) \/ EcrireDefaut(q)
  BY <1>1, <1>4 DEF MarquerEchec, EcrireDefaut, SurRemb
<1>5. CASE CompterEchecs(q)
  BY <1>1, <1>5 DEF CompterEchecs, SurRemb
<1>6. CASE Accuser(q)
  BY <1>6, RepondreVa DEF Accuser
<1>. QED
  BY <1>2, <1>3, <1>4, <1>5, <1>6

(* A debit that failed: the credit has the instalment just recorded.       *)
LEMMA PreleverEnErreurVa ==
  ASSUME TypeInv, NEW q \in Requetes, PreleverEnErreur(q), [Next]_vars
  PROVE  \E e \in Etapes, l \in Locales : Va(q, e, l) /\ EtapeBonne(e, l)'
<1>. TypeOK
  BY DEF TypeInv
<1>0. /\ DOMAIN credits \subseteq CreditIds /\ \A c \in DOMAIN credits : c \in Nat
      /\ loc[q].lot \subseteq DOMAIN credits
      /\ DOMAIN credits \subseteq DOMAIN credits'
  BY Identifiants, CreditsNext DEF TypeInv, EtapeOK, EtapeBonne
<1>1. PICK c \in loc[q].lot :
         /\ rembs' = Append(rembs, [credit |-> c, statut |-> "ECHEC"])
         /\ Vers(q, "compterJob")
         /\ loc' = [loc EXCEPT ![q] = [Repos EXCEPT !.lot = loc[q].lot \ {c}, !.credit = c]]
  BY DEF PreleverEnErreur
<1>2. pc[q] = "prelever"
  BY DEF PreleverEnErreur
<1>3. \E r \in DOMAIN rembs' : rembs'[r].credit = c
  <2>1. "ECHEC" \in {"EN_ATTENTE", "ECHEC"}
    OBVIOUS
  <2>. QED
    BY <1>1, <1>2, <2>1, RembCree
<1>4. PICK lot : lot = loc[q].lot \ {c}
  OBVIOUS
<1>5. PICK d \in Locales : d = Repos
  BY ReposType
<1>6. PICK l : l = [d EXCEPT !.lot = lot, !.credit = c]
  OBVIOUS
<1>7. l \in Locales /\ l.lot = lot /\ l.credit = c
  BY <1>0, <1>4, <1>6 DEF Locales
<1>8. loc' = [loc EXCEPT ![q] = l]
  BY <1>1, <1>4, <1>5, <1>6
<1>9. EtapeBonne("compterJob", l)' /\ "compterJob" \in Etapes
  BY <1>0, <1>3, <1>4, <1>7 DEF EtapeBonne, SurCredit, SurRemb, Etapes
<1>. QED
  BY <1>1, <1>7, <1>8, <1>9 DEF Vers, Va

(* Every handler keeps what its step holds.                                *)
LEMMA ProcsNext ==
  ASSUME TypeInv, [Next]_vars
  PROVE  /\ pc' \in [Requetes -> Etapes] /\ loc' \in [Requetes -> Locales]
         /\ \A q \in Requetes : EtapeOK(q)'
<1>0. /\ TypeOK
      /\ pc \in [Requetes -> Etapes] /\ loc \in [Requetes -> Locales]
      /\ \A q \in Requetes : EtapeBonne(pc[q], loc[q])
  BY DEF TypeInv, TypeOK, EtapeOK
<1>1. \A q \in Requetes : EtapeBonne(pc[q], loc[q])'
         \/ ~(pc'[q] = pc[q] /\ loc'[q] = loc[q])
  <2>1. SUFFICES ASSUME NEW q \in Requetes, pc'[q] = pc[q], loc'[q] = loc[q]
                 PROVE  EtapeBonne(pc[q], loc[q])'
    OBVIOUS
  <2>2. PICK e \in Etapes : e = pc[q]
    BY <1>0
  <2>3. PICK l \in Locales : l = loc[q]
    BY <1>0
  <2>4. EtapeBonne(e, l)'
    BY <1>0, <2>2, <2>3, EtapeStable
  <2>. QED
    BY <2>1, <2>2, <2>3, <2>4
<1>2. ASSUME NEW q \in Requetes, Recevables(q) \/ Poursuivre(q)
      PROVE  \E e \in Etapes, l \in Locales : Va(q, e, l) /\ EtapeBonne(e, l)'
  <2>1. CASE PreleverEnErreur(q)
    BY <2>1, PreleverEnErreurVa
  <2>2. CASE ~PreleverEnErreur(q)
    <3>1. \E e \in Etapes, l \in Locales : Va(q, e, l) /\ EtapeBonne(e, l)
      BY <1>2, <2>2, CommencerVa, DemandeVa, TravailVa, WebhookVa DEF Poursuivre
    <3>. QED
      BY <3>1, EtapeStable
  <2>. QED
    BY <2>1, <2>2
<1>3. ASSUME NEW q \in Requetes, Recevables(q) \/ Poursuivre(q)
      PROVE  /\ pc' \in [Requetes -> Etapes] /\ loc' \in [Requetes -> Locales]
             /\ \A p \in Requetes : EtapeOK(p)'
  <2>1. PICK e \in Etapes, l \in Locales : Va(q, e, l) /\ EtapeBonne(e, l)'
    BY <1>2, <1>3
  <2>2. /\ pc' \in [Requetes -> Etapes] /\ loc' \in [Requetes -> Locales]
        /\ pc'[q] = e /\ loc'[q] = l
        /\ \A p \in Requetes \ {q} : pc'[p] = pc[p] /\ loc'[p] = loc[p]
    BY <1>0, <2>1 DEF Va
  <2>. QED
    BY <1>1, <2>1, <2>2 DEF EtapeOK
<1>4. CASE Exterieur \/ UNCHANGED vars
  <2>1. CASE UNCHANGED <<pc, loc>>
    BY <1>0, <1>1, <2>1 DEF EtapeOK
  <2>2. CASE Panne
    <3>1. EtapeBonne("libre", Repos)'
      BY ReposType DEF EtapeBonne, SurCredit, SurRemb
    <3>2. /\ pc' \in [Requetes -> Etapes] /\ loc' \in [Requetes -> Locales]
          /\ \A q \in Requetes : pc'[q] = "libre" /\ loc'[q] = Repos
      BY <2>2, ReposType DEF Panne, Etapes
    <3>. QED
      BY <3>1, <3>2 DEF EtapeOK
  <2>. QED
    BY <1>0, <1>4, <2>1, <2>2, ExterieurProcs
<1>. QED
  BY <1>3, <1>4 DEF Next, Exterieur

(* The other columns keep their type.                                      *)
LEMMA ColonnesNext ==
  ASSUME TypeInv, [Next]_vars
  PROVE  /\ vieux' \subseteq DOMAIN credits'
         /\ decaissements' \in [CreditIds -> Nat] /\ recus' \subseteq RembIds
         /\ doublons' \in Nat /\ pannes' \in Nat
         /\ courseDecision' \in BOOLEAN /\ courseRemb' \in BOOLEAN
<1> USE DEF tableVars, kkiapayVars, courseVars
<1>. TypeOK
  BY DEF TypeInv
<1>0. /\ vieux \subseteq DOMAIN credits /\ DOMAIN credits \subseteq DOMAIN credits'
      /\ decaissements \in [CreditIds -> Nat] /\ recus \subseteq RembIds
      /\ doublons \in Nat /\ pannes \in Nat
      /\ courseDecision \in BOOLEAN /\ courseRemb \in BOOLEAN
  BY CreditsNext DEF TypeOK
<1>1. vieux' \subseteq DOMAIN credits'
  <2>1. CASE Vieillir
    <3>1. PICK c \in DOMAIN credits : vieux' = vieux \cup 1 .. c
      BY <2>1 DEF Vieillir
    <3>2. 1 .. c \subseteq DOMAIN credits
      BY Identifiants
    <3>. QED
      BY <1>0, <3>1, <3>2
  <2>2. CASE ~Vieillir
    <3>1. ASSUME NEW q \in Requetes, Recevables(q) PROVE vieux' = vieux
      BY <3>1 DEF Recevables, Demander, ConsentementSms, ConfirmerPin, Valider, Refuser,
         LancerExpiration, LancerPrelevements, Livrer, Doubler, Commencer
    <3>2. ASSUME NEW q \in Requetes, Poursuivre(q) PROVE vieux' = vieux
      <4>1. CASE EcritStatut(q)
        BY <4>1 DEF EcritStatut, Activer, EcrireRefus, EcrireExpiration, ExpirerLot,
           EcrireDefautJob, EcrireDefaut
      <4>2. CASE ~EcritStatut(q)
        BY <3>2, <4>2 DEF EcritStatut, Poursuivre, ChercherActif, ChercherSms, LirePin,
           LireValider, LireRefus, ListerExpires, ListerActifs, CompterJob, Recevoir,
           CompterEchecs, Accuser, Creer, Consentir, Prelever, PreleverEnErreur, Regler,
           MarquerEchec
      <4>. QED
        BY <4>1, <4>2
    <3>3. ASSUME NEW r \in RembIds, NEW issue \in {"SUCCESS", "FAILED"}, Payer(r, issue)
          PROVE  vieux' = vieux
      BY <3>3 DEF Payer
    <3>4. CASE UNCHANGED vars
      BY <1>0, <3>4 DEF vars
    <3>5. CASE Panne
      BY <1>0, <3>5 DEF Panne
    <3>. QED
      BY <1>0, <2>2, <3>1, <3>2, <3>3, <3>4, <3>5 DEF Next
  <2>. QED
    BY <2>1, <2>2
<1>2. ASSUME NEW q \in Requetes, Recevables(q)
      PROVE  /\ UNCHANGED <<decaissements, recus, pannes, courseDecision, courseRemb>>
             /\ doublons' \in {doublons, doublons + 1}
  BY <1>2 DEF Recevables, Demander, ConsentementSms, ConfirmerPin, Valider, Refuser,
     LancerExpiration, LancerPrelevements, Livrer, Doubler, Commencer
<1>3. ASSUME NEW q \in Requetes, Poursuivre(q)
      PROVE  UNCHANGED <<doublons, pannes>>
  <2>1. CASE EcritStatut(q)
    BY <2>1 DEF EcritStatut, Activer, EcrireRefus, EcrireExpiration, ExpirerLot,
       EcrireDefautJob, EcrireDefaut
  <2>2. CASE ~EcritStatut(q)
    BY <1>3, <2>2 DEF EcritStatut, Poursuivre, ChercherActif, ChercherSms, LirePin,
       LireValider, LireRefus, ListerExpires, ListerActifs, CompterJob, Recevoir,
       CompterEchecs, Accuser, Creer, Consentir, Prelever, PreleverEnErreur, Regler,
       MarquerEchec
  <2>. QED
    BY <2>1, <2>2
<1>4. CASE Exterieur \/ UNCHANGED vars
  <2>1. ASSUME NEW r, NEW issue, Payer(r, issue)
        PROVE  UNCHANGED <<decaissements, recus, doublons, pannes, courseDecision, courseRemb>>
    BY <2>1 DEF Payer
  <2>2. CASE Vieillir \/ UNCHANGED vars
    BY <1>0, <1>1, <2>2 DEF Vieillir, vars
  <2>3. CASE Panne
    <3>1. /\ UNCHANGED <<decaissements, recus, doublons, courseDecision, courseRemb>>
          /\ pannes' = pannes + 1
      BY <2>3 DEF Panne
    <3>. QED
      BY <1>0, <1>1, <3>1
  <2>. QED
    BY <1>0, <1>1, <1>4, <2>1, <2>2, <2>3 DEF Exterieur
<1>5. ASSUME NEW q \in Requetes, Poursuivre(q)
      PROVE  /\ decaissements' \in [CreditIds -> Nat]
             /\ recus' \subseteq RembIds
  <2>1. CASE LireValider(q)
    <3>1. decaissements' = decaissements
            \/ decaissements' = [decaissements EXCEPT ![loc[q].credit]
                                   = decaissements[loc[q].credit] + 1]
      BY <2>1 DEF LireValider
    <3>2. loc[q].credit \in CreditIds
      BY <2>1, Identifiants DEF LireValider, TypeInv, EtapeOK, EtapeBonne, SurCredit
    <3>. QED
      BY <1>0, <2>1, <3>1, <3>2 DEF LireValider
  <2>2. CASE Accuser(q)
    BY <1>0, <2>2 DEF Accuser, TypeInv, EtapeOK, EtapeBonne, SurRemb
  <2>3. CASE EcritStatut(q)
    BY <1>0, <2>3 DEF EcritStatut, Activer, EcrireRefus, EcrireExpiration, ExpirerLot,
       EcrireDefautJob, EcrireDefaut
  <2>4. CASE ~EcritStatut(q) /\ ~LireValider(q) /\ ~Accuser(q)
    BY <1>0, <1>5, <2>4 DEF EcritStatut, Poursuivre, ChercherActif, ChercherSms, LirePin,
       LireRefus, ListerExpires, ListerActifs, CompterJob, Recevoir,
       CompterEchecs, Creer, Consentir, Prelever, PreleverEnErreur, Regler, MarquerEchec
  <2>. QED
    BY <2>1, <2>2, <2>3, <2>4
<1>6. ASSUME NEW q \in Requetes, Poursuivre(q)
      PROVE  courseDecision' \in BOOLEAN /\ courseRemb' \in BOOLEAN
  <2>1. CASE ChercherSms(q) \/ LirePin(q) \/ LireValider(q)
    BY Zenon, <1>0, <2>1 DEF ChercherSms, LirePin, LireValider, MarquerCourse
  <2>2. CASE LireRefus(q) \/ ListerExpires(q) \/ Recevoir(q)
    BY Zenon, <1>0, <2>2 DEF LireRefus, ListerExpires, Recevoir, MarquerCourse
  <2>3. CASE EcritStatut(q)
    BY <1>0, <2>3 DEF EcritStatut, Activer, EcrireRefus, EcrireExpiration, ExpirerLot,
       EcrireDefautJob, EcrireDefaut
  <2>4. CASE \/ ChercherActif(q) \/ Creer(q) \/ Consentir(q) \/ ListerActifs(q)
             \/ Prelever(q) \/ PreleverEnErreur(q) \/ CompterJob(q) \/ Regler(q)
             \/ MarquerEchec(q) \/ CompterEchecs(q) \/ Accuser(q)
    BY <1>0, <2>4 DEF ChercherActif, Creer, Consentir, ListerActifs, Prelever,
       PreleverEnErreur, CompterJob, Regler, MarquerEchec, CompterEchecs, Accuser
  <2>. QED
    BY <1>6, <2>1, <2>2, <2>3, <2>4 DEF Poursuivre, EcritStatut
<1>. QED
  BY <1>0, <1>1, <1>2, <1>3, <1>4, <1>5, <1>6 DEF Next, Exterieur

(* At first no handler is busy and there is no credit.                     *)
LEMMA TypeInit == Init => TypeInv
<1>. SUFFICES ASSUME Init PROVE TypeInv
  OBVIOUS
<1>1. /\ credits \in Seq(MicroCredit) /\ Len(credits) = 0 /\ DOMAIN credits = {}
      /\ rembs \in Seq(Remboursement) /\ DOMAIN rembs = {}
  <2>1. \A S : <<>> \in Seq(S) /\ Len(<<>>) = 0
    OBVIOUS
  <2>2. DOMAIN <<>> = {}
    OBVIOUS
  <2>3. credits = <<>> /\ rembs = <<>>
    BY DEF Init
  <2>. QED
    BY <2>1, <2>2, <2>3
<1>2. TypeOK
  <2>1. pc \in [Requetes -> Etapes] /\ loc \in [Requetes -> Locales]
    BY ReposType DEF Init, Etapes
  <2>2. vieux = {} /\ recus = {} /\ doublons = 0 /\ pannes = 0
    BY DEF Init
  <2>4. courseDecision \in BOOLEAN /\ courseRemb \in BOOLEAN
    BY DEF Init
  <2>3. /\ decaissements \in [CreditIds -> Nat]
        /\ issues \in [RembIds -> {"", "SUCCESS", "FAILED"}]
    BY DEF Init
  <2>5. /\ Len(credits) <= MaxCredits
        /\ vieux \subseteq DOMAIN credits /\ recus \subseteq RembIds
        /\ doublons \in Nat /\ pannes \in Nat
    BY <1>1, <2>2, MicroCreditsAssumption
  <2>. QED
    BY <1>1, <2>1, <2>3, <2>4, <2>5 DEF TypeOK
<1>3. \A q \in Requetes : EtapeOK(q)
  BY ReposType DEF Init, EtapeOK
<1>4. Cardinality(Demandeurs) = 0
  <2>1. Demandeurs = {}
    BY DEF Init, Demandeurs
  <2>. QED
    BY <2>1, FS_EmptySet
<1>5. \A r \in RembIds : issues[r] = ""
  BY DEF Init
<1>6. Len(credits) + Cardinality(Demandeurs) <= MaxCredits
  BY <1>1, <1>4, MicroCreditsAssumption
<1>. QED
  BY <1>1, <1>2, <1>3, <1>5, <1>6 DEF TypeInv

(* Every step keeps the types and what the steps hold.                     *)
LEMMA TypeNext == TypeInv /\ [Next]_vars => TypeInv'
<1>. SUFFICES ASSUME TypeInv, [Next]_vars PROVE TypeInv'
  OBVIOUS
<1>1. Len(credits') + Cardinality(Demandeurs') <= MaxCredits
  BY BorneNext
<1>2. Len(credits') <= MaxCredits
  <2>1. credits' \in Seq(MicroCredit)
    BY CreditsNext
  <2>2. Len(credits') \in Nat
    BY <2>1
  <2>3. Cardinality(Demandeurs') \in Nat
    <3>1. IsFiniteSet(Requetes) /\ Demandeurs' \subseteq Requetes
      BY MicroCreditsAssumption DEF Demandeurs
    <3>. QED
      BY <3>1, FS_Subset, FS_CardinalityType
  <2>. QED
    BY <1>1, <2>2, <2>3, MicroCreditsAssumption
<1>3. TypeOK'
  BY <1>2, CreditsNext, RembsNext, ProcsNext, ColonnesNext DEF TypeOK
<1>. QED
  BY <1>1, <1>3, RembsNext, ProcsNext DEF TypeInv

(* The types and what the steps hold are kept for ever.                     *)
THEOREM TypesTenus == Spec => []TypeInv
<1>. QED
  BY TypeInit, TypeNext, PTL DEF Spec

(* Every column and local variable has its type, whatever is interleaved.  *)
THEOREM CreditsTypes == Spec => []TypeOK
<1>1. TypeInv => TypeOK
  BY DEF TypeInv
<1>. QED
  BY <1>1, TypesTenus, PTL

-----------------------------------------------------------------------------
(* Nothing is debited before it is decided, and what is decided stays.     *)

(* A crossing is never forgotten.                                          *)
LEMMA CoursesRestent ==
  ASSUME TypeInv, [Next]_vars
  PROVE  /\ courseDecision => courseDecision'
         /\ courseRemb => courseRemb'
         /\ pannes > 0 => pannes' > 0
<1> USE DEF courseVars, kkiapayVars
<1>0. TypeOK /\ pannes \in Nat
  BY DEF TypeInv, TypeOK
<1>1. ASSUME NEW q \in Requetes, Recevables(q)
      PROVE  UNCHANGED <<courseDecision, courseRemb, pannes>>
  BY <1>1 DEF Recevables, Demander, ConsentementSms, ConfirmerPin, Valider, Refuser,
     LancerExpiration, LancerPrelevements, Livrer, Doubler, Commencer
<1>2. ASSUME NEW q \in Requetes, Poursuivre(q)
      PROVE  /\ courseDecision => courseDecision'
             /\ courseRemb => courseRemb'
  <2>0. ASSUME NEW S, MarquerCourse(S) PROVE courseDecision => courseDecision'
    BY Zenon, <2>0 DEF MarquerCourse
  <2>1. CASE ChercherSms(q) \/ LirePin(q) \/ LireValider(q) \/ LireRefus(q)
             \/ ListerExpires(q)
    <3>1. courseRemb' = courseRemb
      BY <2>1 DEF ChercherSms, LirePin, LireValider, LireRefus, ListerExpires
    <3>2. courseDecision' = courseDecision \/ \E S : MarquerCourse(S)
      BY Zenon, <2>1 DEF ChercherSms, LirePin, LireValider, LireRefus, ListerExpires
    <3>. QED
      BY <2>0, <3>1, <3>2
  <2>2. CASE Recevoir(q)
    <3>1. courseDecision' = courseDecision
      BY <2>2 DEF Recevoir
    <3>2. courseRemb => courseRemb'
      BY Zenon, <2>2 DEF Recevoir
    <3>. QED
      BY <3>1, <3>2
  <2>3. CASE EcritStatut(q)
    BY <2>3 DEF EcritStatut, Activer, EcrireRefus, EcrireExpiration, ExpirerLot,
       EcrireDefautJob, EcrireDefaut
  <2>4. CASE \/ ChercherActif(q) \/ Creer(q) \/ Consentir(q) \/ ListerActifs(q)
             \/ Prelever(q) \/ PreleverEnErreur(q) \/ CompterJob(q) \/ Regler(q)
             \/ MarquerEchec(q) \/ CompterEchecs(q) \/ Accuser(q)
    <3>1. courseDecision' = courseDecision /\ courseRemb' = courseRemb
      BY <2>4 DEF ChercherActif, Creer, Consentir, ListerActifs, Prelever,
         PreleverEnErreur, CompterJob, Regler, MarquerEchec, CompterEchecs, Accuser
    <3>. QED
      BY <3>1
  <2>. QED
    BY <1>2, <2>1, <2>2, <2>3, <2>4 DEF Poursuivre, EcritStatut
<1>6. ASSUME NEW q \in Requetes, Poursuivre(q) PROVE pannes' = pannes
  <2>1. CASE EcritStatut(q)
    BY <2>1 DEF EcritStatut, Activer, EcrireRefus, EcrireExpiration, ExpirerLot,
       EcrireDefautJob, EcrireDefaut
  <2>2. CASE ~EcritStatut(q)
    BY <1>6, <2>2 DEF EcritStatut, Poursuivre, ChercherActif, ChercherSms, LirePin,
       LireValider, LireRefus, ListerExpires, ListerActifs, CompterJob, Recevoir,
       CompterEchecs, Accuser, Creer, Consentir, Prelever, PreleverEnErreur, Regler,
       MarquerEchec
  <2>. QED
    BY <2>1, <2>2
<1>3. ASSUME NEW r, NEW issue, Payer(r, issue)
      PROVE  UNCHANGED <<courseDecision, courseRemb, pannes>>
  BY <1>3 DEF Payer
<1>4. CASE Vieillir \/ UNCHANGED vars
  BY <1>4 DEF Vieillir, vars
<1>5. CASE Panne
  BY <1>0, <1>5 DEF Panne
<1>. QED
  BY <1>1, <1>2, <1>3, <1>4, <1>5, <1>6 DEF Next

(* A decision that crosses no other one.                                   *)
LEMMA SansCourse ==
  ASSUME NEW S, MarquerCourse(S), ~courseDecision'
  PROVE  \A p \in Requetes, c \in S : ~Decide(p, c)
  BY Zenon DEF MarquerCourse

(* A handler that begins to decide has read the demand as pending.         *)
LEMMA DecideEntre ==
  ASSUME TypeInv, NEW q \in Requetes, Recevables(q) \/ Poursuivre(q), NEW c,
         Decide(q, c)', ~courseDecision'
  PROVE  /\ credits' = credits /\ c \in DOMAIN credits
         /\ credits[c].statut = "EN_ATTENTE"
         /\ pc'[q] \in {"expirer", "expirerLot"} => ~credits[c].consenti
         /\ \A p \in Requetes : ~Decide(p, c)
<1> USE DEF tableVars
<1>0. /\ TypeOK /\ pc \in [Requetes -> Etapes] /\ loc \in [Requetes -> Locales]
      /\ EtapeBonne(pc[q], loc[q])
  BY DEF TypeInv, TypeOK, EtapeOK
<1>1. /\ \/ ChercherSms(q) \/ LirePin(q) \/ LireValider(q) \/ LireRefus(q)
         \/ ListerExpires(q)
      /\ pc'[q] = "expirerLot" => ListerExpires(q)
      /\ ListerExpires(q) => pc'[q] \in {"libre", "expirerLot"}
  BY <1>0, Transitions DEF Decide, ListerExpires, Repondre, Vers
<1>2. CASE ChercherSms(q)
  <2>1. pc'[q] # "libre"
    BY DEF Decide
  <2>2. PICK d \in SansReponse :
          loc' = [loc EXCEPT ![q] = Requete(d, 0, "")] /\ MarquerCourse({d})
    BY <1>0, <1>2, <2>1 DEF ChercherSms, Repondre, Vers
  <2>3. pc'[q] # "expirerLot"
    BY <1>1, <1>2 DEF ChercherSms, ListerExpires
  <2>4. loc'[q].credit = d
    BY <1>0, <2>2 DEF Requete
  <2>5. c = d
    BY <2>3, <2>4 DEF Decide
  <2>6. \A p \in Requetes : ~Decide(p, c)
    BY <2>2, <2>5, SansCourse
  <2>. QED
    BY <1>2, <2>5, <2>6 DEF ChercherSms, SansReponse, EnStatut
<1>3. CASE LirePin(q) \/ LireValider(q) \/ LireRefus(q)
  <2>1. pc'[q] # "libre"
    BY DEF Decide
  <2>2. /\ credits' = credits /\ loc' = loc /\ MarquerCourse({loc[q].credit})
        /\ credits[loc[q].credit].statut = "EN_ATTENTE"
        /\ pc'[q] \in {"consentir", "activer", "refuser"}
        /\ pc[q] \in SurCredit
    <3>1. CASE LirePin(q)
      BY <1>0, <2>1, <3>1 DEF LirePin, Repondre, Vers, SurCredit
    <3>2. CASE LireValider(q)
      BY <1>0, <2>1, <3>2 DEF LireValider, PeutValider, Repondre, Vers, SurCredit
    <3>3. CASE LireRefus(q)
      BY <1>0, <2>1, <3>3 DEF LireRefus, Repondre, Vers, SurCredit
    <3>. QED
      BY <1>3, <3>1, <3>2, <3>3
  <2>3. c = loc[q].credit
    BY <2>2 DEF Decide
  <2>4. \A p \in Requetes : ~Decide(p, c)
    BY <2>2, <2>3, SansCourse
  <2>. QED
    BY <1>0, <2>2, <2>3, <2>4 DEF EtapeBonne
<1>4. CASE ListerExpires(q)
  <2>1. pc'[q] = "expirerLot"
    BY <1>1, <1>4 DEF Decide
  <2>2. /\ credits' = credits /\ loc' = [loc EXCEPT ![q].lot = AExpirer]
        /\ MarquerCourse(AExpirer)
    BY <1>0, <1>4, <2>1 DEF ListerExpires, Repondre, Vers
  <2>3. c \in AExpirer
    <3>1. PICK d \in Locales : d = loc[q]
      BY <1>0
    <3>2. PICK l : l = [d EXCEPT !.lot = AExpirer]
      OBVIOUS
    <3>3. l.lot = AExpirer
      BY <3>2 DEF Locales
    <3>4. loc'[q] = l
      BY <1>0, <2>2, <3>1, <3>2
    <3>. QED
      BY <2>1, <3>3, <3>4 DEF Decide
  <2>4. \A p \in Requetes : ~Decide(p, c)
    BY <2>2, <2>3, SansCourse
  <2>. QED
    BY <2>2, <2>3, <2>4 DEF AExpirer, SansReponse, EnStatut
<1>. QED
  BY <1>1, <1>2, <1>3, <1>4

(* Whoever decides after a step decided before it, or has just begun and   *)
(* alone.                                                                  *)
LEMMA DecideNext ==
  ASSUME TypeInv, [Next]_vars, ~courseDecision', NEW p \in Requetes, NEW c, Decide(p, c)'
  PROVE  \/ Decide(p, c) /\ pc'[p] = pc[p]
         \/ /\ credits' = credits /\ c \in DOMAIN credits
            /\ credits[c].statut = "EN_ATTENTE"
            /\ pc'[p] \in {"expirer", "expirerLot"} => ~credits[c].consenti
            /\ \A r \in Requetes \ {p} : ~Decide(r, c)'
<1>0. TypeOK
  BY DEF TypeInv
<1>1. ASSUME pc'[p] = pc[p], loc'[p] = loc[p] PROVE Decide(p, c)
  BY <1>1 DEF Decide
<1>2. CASE Exterieur \/ UNCHANGED vars
  BY <1>0, <1>1, <1>2, ExterieurProcs DEF Decide
<1>3. ASSUME NEW q \in Requetes, Recevables(q) \/ Poursuivre(q), q # p
      PROVE  Decide(p, c) /\ pc'[p] = pc[p]
  BY <1>0, <1>1, <1>3, UnSeul
<1>4. CASE Recevables(p) \/ Poursuivre(p)
  <2>1. \A r \in Requetes \ {p} : ~Decide(r, c)'
    <3>1. SUFFICES ASSUME NEW r \in Requetes \ {p}, Decide(r, c)' PROVE FALSE
      OBVIOUS
    <3>2. pc'[r] = pc[r] /\ loc'[r] = loc[r]
      BY <1>0, <1>4, UnSeul
    <3>3. Decide(r, c)
      BY <3>1, <3>2 DEF Decide
    <3>. QED
      BY <1>4, <3>3, DecideEntre
  <2>. QED
    BY <1>4, <2>1, DecideEntre
<1>. QED
  BY <1>2, <1>3, <1>4 DEF Next, Exterieur

(* What a step does to the statut and the consent of a credit: nothing, or *)
(* what the handler deciding on it writes, or the life of a credit that    *)
(* was validated.                                                          *)
Inchange(c) == /\ credits'[c].statut = credits[c].statut
               /\ credits'[c].consenti <=> credits[c].consenti

Consenti(q, c) == /\ pc[q] = "consentir" /\ credits'[c].statut = credits[c].statut
                  /\ credits'[c].consenti

Decision(q, c) ==
    /\ credits'[c].consenti <=> credits[c].consenti
    /\ \/ pc[q] = "activer" /\ credits'[c].statut = "ACTIF"
       \/ pc[q] = "refuser" /\ credits'[c].statut = "REFUSE"
       \/ pc[q] \in {"expirer", "expirerLot"} /\ credits'[c].statut = "EXPIRE"

EnVie(c) == /\ Vivant(c) /\ Vivant(c)'
            /\ credits'[c].consenti <=> credits[c].consenti
            /\ credits'[c].statut = "ACTIF" => credits'[c].restant # 0

(* The credit of an instalment was validated.                              *)
LEMMA RembVivant ==
  ASSUME TypeInv, Decisions, NEW r \in DOMAIN rembs
  PROVE  rembs[r].credit \in DOMAIN credits /\ Vivant(rembs[r].credit)
<1>1. rembs[r].credit \in DOMAIN credits
  BY DEF TypeInv, RembOK
<1>. QED
  BY <1>1 DEF Decisions, Preleve

(* Every step does one of these to a credit.                               *)
LEMMA EcritCredit ==
  ASSUME TypeInv, Decisions, [Next]_vars, NEW c \in DOMAIN credits
  PROVE  \/ Inchange(c)
         \/ \E q \in Requetes : /\ Decide(q, c) /\ pc'[q] = "libre"
                                /\ Consenti(q, c) \/ Decision(q, c)
         \/ EnVie(c)
<1>0. /\ TypeOK /\ pc \in [Requetes -> Etapes]
      /\ \A q \in Requetes : EtapeBonne(pc[q], loc[q])
  BY DEF TypeInv, TypeOK, EtapeOK
<1>1. CASE credits' = credits
  BY <1>1 DEF Inchange
<1>2. ASSUME NEW q \in Requetes, Creer(q) PROVE Inchange(c)
  BY <1>2, CreditCree DEF Inchange
<1>3. ASSUME NEW q \in Requetes, Consentir(q)
      PROVE  Inchange(c) \/ (Decide(q, c) /\ pc'[q] = "libre" /\ Consenti(q, c))
  <2>1. pc'[q] = "libre" /\ pc[q] = "consentir"
    BY <1>0, <1>3 DEF Consentir, Repondre, Vers
  <2>. QED
    BY <1>3, <2>1, ConsentementEcrit DEF Inchange, Decide, Consenti
<1>4. ASSUME NEW q \in Requetes, Regler(q) PROVE Inchange(c) \/ EnVie(c)
  <2>0. PICK o : o = rembs[loc[q].remb].credit
    OBVIOUS
  <2>1. loc[q].remb \in DOMAIN rembs
    BY <1>0, <1>4 DEF Regler, EtapeBonne, SurRemb
  <2>2. Vivant(o)
    BY <2>0, <2>1, RembVivant
  <2>3. CASE c = o
    BY <1>4, <2>0, <2>2, <2>3, CreditRegle DEF EnVie, Vivant
  <2>4. CASE c # o
    BY <1>4, <2>0, <2>4, CreditRegle DEF Inchange
  <2>. QED
    BY <2>3, <2>4
<1>5. ASSUME NEW q \in Requetes, NEW S, NEW s \in Statuts, Statut(S, s)
      PROVE  /\ c \notin S => Inchange(c)
             /\ c \in S => /\ credits'[c].consenti <=> credits[c].consenti
                           /\ credits'[c].statut = s
  BY <1>0, <1>5, StatutEcrit DEF Inchange
<1>6. "ACTIF" \in Statuts /\ "REFUSE" \in Statuts /\ "EXPIRE" \in Statuts
      /\ "EN_DEFAUT" \in Statuts
  BY DEF Statuts
<1>7. ASSUME NEW q \in Requetes, Activer(q) \/ EcrireRefus(q) \/ EcrireExpiration(q)
      PROVE  Inchange(c) \/ (Decide(q, c) /\ pc'[q] = "libre" /\ Decision(q, c))
  <2>1. pc'[q] = "libre" /\ pc[q] \in {"activer", "refuser", "expirer"}
    BY <1>0, <1>7 DEF Activer, EcrireRefus, EcrireExpiration, Repondre, Vers
  <2>2. CASE c # loc[q].credit
    BY <1>5, <1>6, <1>7, <2>2 DEF Activer, EcrireRefus, EcrireExpiration
  <2>3. CASE c = loc[q].credit
    <3>1. Decide(q, c)
      BY <2>1, <2>3 DEF Decide
    <3>2. CASE Activer(q)
      BY <1>5, <1>6, <2>1, <2>3, <3>1, <3>2 DEF Activer, Decision
    <3>3. CASE EcrireRefus(q)
      BY <1>5, <1>6, <2>1, <2>3, <3>1, <3>3 DEF EcrireRefus, Decision
    <3>4. CASE EcrireExpiration(q)
      BY <1>5, <1>6, <2>1, <2>3, <3>1, <3>4 DEF EcrireExpiration, Decision
    <3>. QED
      BY <1>7, <3>2, <3>3, <3>4
  <2>. QED
    BY <2>2, <2>3
<1>8. ASSUME NEW q \in Requetes, ExpirerLot(q)
      PROVE  Inchange(c) \/ (Decide(q, c) /\ pc'[q] = "libre" /\ Decision(q, c))
  <2>1. pc'[q] = "libre" /\ pc[q] = "expirerLot"
    BY <1>0, <1>8 DEF ExpirerLot, Repondre, Vers
  <2>2. CASE c \notin loc[q].lot
    BY <1>5, <1>6, <1>8, <2>2 DEF ExpirerLot
  <2>3. CASE c \in loc[q].lot
    BY <1>5, <1>6, <1>8, <2>1, <2>3 DEF ExpirerLot, Decide, Decision
  <2>. QED
    BY <2>2, <2>3
<1>9. ASSUME NEW q \in Requetes, EcrireDefautJob(q) \/ EcrireDefaut(q)
      PROVE  Inchange(c) \/ EnVie(c)
  <2>1. ASSUME NEW r \in DOMAIN rembs, Statut({rembs[r].credit}, "EN_DEFAUT")
        PROVE  Inchange(c) \/ EnVie(c)
    <3>1. Vivant(rembs[r].credit)
      BY RembVivant
    <3>. QED
      BY <1>5, <1>6, <2>1, <3>1 DEF EnVie, Vivant
  <2>2. CASE EcrireDefautJob(q)
    <3>1. \E r \in DOMAIN rembs : rembs[r].credit = loc[q].credit
      BY <1>0, <2>2 DEF EcrireDefautJob, EtapeBonne
    <3>. QED
      BY <2>1, <2>2, <3>1 DEF EcrireDefautJob
  <2>3. CASE EcrireDefaut(q)
    <3>1. loc[q].remb \in DOMAIN rembs
      BY <1>0, <2>3 DEF EcrireDefaut, EtapeBonne, SurRemb
    <3>. QED
      BY <2>1, <2>3, <3>1 DEF EcrireDefaut
  <2>. QED
    BY <1>9, <2>2, <2>3
<1>. QED
  BY <1>1, <1>2, <1>3, <1>4, <1>7, <1>8, <1>9, QuiEcritCredits DEF EcritStatut

(* Only an active credit is newly debited.                                 *)
LEMMA PreleveNext ==
  ASSUME TypeInv, [Next]_vars, NEW c, Preleve(c)'
  PROVE  \/ c \in DOMAIN credits /\ Preleve(c)
         \/ credits' = credits /\ c \in DOMAIN credits /\ credits[c].statut = "ACTIF"
<1> USE DEF tableVars
<1>0. /\ TypeOK /\ loc \in [Requetes -> Locales] /\ pc \in [Requetes -> Etapes]
      /\ \A q \in Requetes : loc[q].lot \subseteq DOMAIN credits
      /\ \A r \in DOMAIN rembs : rembs[r].credit \in DOMAIN credits
  BY DEF TypeInv, TypeOK, EtapeOK, EtapeBonne, RembOK
<1>1. Preleve(c) => c \in DOMAIN credits
  BY <1>0 DEF Preleve
<1>2. ASSUME NEW r \in DOMAIN rembs', rembs'[r].credit = c PROVE Preleve(c)
  <2>1. CASE r \in DOMAIN rembs
    BY <1>2, <2>1, RembsNext DEF Preleve
  <2>2. CASE r \notin DOMAIN rembs
    <3>1. PICK q \in Requetes : Prelever(q) \/ PreleverEnErreur(q)
      BY <1>2, <2>2, QuiEcritRembs, RembEcrit
    <3>2. PICK d \in loc[q].lot, s \in {"EN_ATTENTE", "ECHEC"} :
            rembs' = Append(rembs, [credit |-> d, statut |-> s]) /\ pc[q] = "prelever"
      BY <3>1 DEF Prelever, PreleverEnErreur
    <3>3. c = d
      BY <1>2, <2>2, <3>2, RembCree
    <3>. QED
      BY <3>2, <3>3 DEF Preleve, AvecLot
  <2>. QED
    BY <2>1, <2>2
<1>3. ASSUME NEW p \in Requetes, pc'[p] \in AvecLot, c \in loc'[p].lot
      PROVE  \/ Preleve(c)
             \/ credits' = credits /\ c \in DOMAIN credits /\ credits[c].statut = "ACTIF"
  <2>1. ASSUME pc'[p] = pc[p], loc'[p] = loc[p] PROVE Preleve(c)
    BY <1>3, <2>1 DEF Preleve
  <2>2. CASE Exterieur \/ UNCHANGED vars
    BY <1>0, <1>3, <2>1, <2>2, ExterieurProcs DEF AvecLot
  <2>3. ASSUME NEW q \in Requetes, Recevables(q) \/ Poursuivre(q), q # p
        PROVE  Preleve(c)
    BY <1>0, <2>1, <2>3, UnSeul
  <2>4. ASSUME NEW l, pc[p] \in AvecLot, loc' = [loc EXCEPT ![p] = l],
               l.lot \subseteq loc[p].lot
        PROVE  Preleve(c)
    BY <1>0, <1>3, <2>4 DEF Preleve
  <2>5. CASE Recevables(p) \/ Poursuivre(p)
    <3>1. \/ ListerActifs(p) \/ Prelever(p) \/ PreleverEnErreur(p)
          \/ CompterJob(p) \/ EcrireDefautJob(p)
      BY <1>3, <2>5, Transitions
    <3>2. ASSUME NEW lot, Suivant(p, lot), lot \subseteq loc[p].lot, pc[p] \in AvecLot
          PROVE  Preleve(c)
      <4>1. lot # {}
        BY <1>0, <1>3, <3>2 DEF Suivant, Repondre, Vers, AvecLot
      <4>2. PICK d \in Locales : d = Repos
        BY ReposType
      <4>3. PICK l : l = [d EXCEPT !.lot = lot]
        OBVIOUS
      <4>4. l.lot = lot
        BY <4>3 DEF Locales
      <4>5. loc' = [loc EXCEPT ![p] = l]
        BY <3>2, <4>1, <4>2, <4>3 DEF Suivant
      <4>. QED
        BY <2>4, <3>2, <4>4, <4>5
    <3>3. CASE ListerActifs(p)
      <4>1. /\ credits' = credits
            /\ loc' = [loc EXCEPT ![p].lot = EnStatut("ACTIF")]
        BY <1>0, <1>3, <3>3 DEF ListerActifs, Repondre, Vers, AvecLot
      <4>2. PICK d \in Locales : d = loc[p]
        BY <1>0
      <4>3. PICK l : l = [d EXCEPT !.lot = EnStatut("ACTIF")]
        OBVIOUS
      <4>4. l.lot = EnStatut("ACTIF")
        BY <4>3 DEF Locales
      <4>5. loc'[p] = l
        BY <1>0, <4>1, <4>2, <4>3
      <4>. QED
        BY <1>3, <4>1, <4>4, <4>5 DEF EnStatut
    <3>4. CASE Prelever(p)
      <4>1. PICK d : Suivant(p, loc[p].lot \ {d})
        BY <3>4 DEF Prelever
      <4>2. pc[p] \in AvecLot
        BY <3>4 DEF Prelever, AvecLot
      <4>. QED
        BY <3>2, <4>1, <4>2
    <3>5. CASE PreleverEnErreur(p)
      <4>1. PICK e : loc' = [loc EXCEPT ![p] =
                        [Repos EXCEPT !.lot = loc[p].lot \ {e}, !.credit = e]]
        BY <3>5 DEF PreleverEnErreur
      <4>2. PICK d \in Locales : d = Repos
        BY ReposType
      <4>3. PICK l : l = [d EXCEPT !.lot = loc[p].lot \ {e}, !.credit = e]
        OBVIOUS
      <4>4. l.lot = loc[p].lot \ {e}
        BY <4>3 DEF Locales
      <4>5. loc' = [loc EXCEPT ![p] = l] /\ pc[p] \in AvecLot
        BY <3>5, <4>1, <4>2, <4>3 DEF PreleverEnErreur, AvecLot
      <4>. QED
        BY <2>4, <4>4, <4>5
    <3>6. CASE CompterJob(p)
      <4>1. pc[p] \in AvecLot
        BY <3>6 DEF CompterJob, AvecLot
      <4>2. CASE UNCHANGED loc
        BY <1>3, <4>1, <4>2 DEF Preleve
      <4>3. CASE Suivant(p, loc[p].lot)
        BY <3>2, <4>1, <4>3
      <4>. QED
        BY Zenon, <3>6, <4>2, <4>3 DEF CompterJob
    <3>7. CASE EcrireDefautJob(p)
      BY <3>2, <3>7 DEF EcrireDefautJob, AvecLot
    <3>. QED
      BY <3>1, <3>3, <3>4, <3>5, <3>6, <3>7
  <2>. QED
    BY <2>2, <2>3, <2>5 DEF Next, Exterieur
<1>. QED
  BY <1>1, <1>2, <1>3 DEF Preleve

(* A validated credit is never decided on again.                           *)
LEMMA VivantNext ==
  ASSUME TypeInv, Decisions, [Next]_vars, NEW c \in DOMAIN credits, Vivant(c)
  PROVE  Vivant(c)'
  BY EcritCredit DEF Inchange, EnVie, Vivant, Decisions

(* A new demand is pending and no handler knows it.                        *)
LEMMA CreditNouveau ==
  ASSUME TypeInv, [Next]_vars, NEW c \in DOMAIN credits', c \notin DOMAIN credits
  PROVE  /\ credits'[c].statut = "EN_ATTENTE" /\ ~credits'[c].consenti
         /\ credits'[c].restant = Total /\ credits'[c].jours = 0
         /\ ~Preleve(c)' /\ \A q \in Requetes : ~Decide(q, c)
<1>0. TypeOK
  BY DEF TypeInv
<1>1. PICK q \in Requetes : Creer(q)
  <2>1. ASSUME NEW q \in Requetes, EcritStatut(q) PROVE DOMAIN credits' = DOMAIN credits
    <3>0. PICK S : \E s \in Statuts : Statut(S, s)
      BY <2>1, EcritUnStatut
    <3>1. PICK s \in Statuts : Statut(S, s)
      BY <3>0
    <3>. QED
      BY <1>0, <3>1, StatutEcrit
  <2>. QED
    BY <2>1, QuiEcritCredits, ConsentementEcrit, CreditRegle
<1>2. ~Preleve(c)'
  BY PreleveNext
<1>3. \A p \in Requetes : ~Decide(p, c)
  BY DEF Decide, TypeInv, EtapeOK, EtapeBonne, SurCredit
<1>. QED
  BY <1>1, <1>2, <1>3, CreditCree

(* At first there is nothing to decide.                                    *)
LEMMA DecisionInit == Init => DecisionInv
<1>. SUFFICES ASSUME Init PROVE Decisions
  BY DEF DecisionInv
<1>1. DOMAIN credits = {}
  <2>1. DOMAIN <<>> = {}
    OBVIOUS
  <2>. QED
    BY <2>1 DEF Init
<1>. QED
  BY <1>1 DEF Decisions

(* Only a pending demand is decided, by one handler, unless two crossed.   *)
LEMMA DecisionNext ==
  ASSUME TypeInv, DecisionInv, [Next]_vars
  PROVE  DecisionInv'
<1>1. CASE courseDecision \/ courseDecision'
  BY <1>1, CoursesRestent DEF DecisionInv
<1>2. CASE ~courseDecision /\ ~courseDecision'
  <2>0. Decisions
    BY <1>2 DEF DecisionInv
  <2>1. ASSUME NEW c \in DOMAIN credits', Preleve(c)' PROVE Vivant(c)'
    <3>1. CASE c \in DOMAIN credits /\ Preleve(c)
      BY <2>0, <3>1, VivantNext DEF Decisions
    <3>2. CASE credits' = credits /\ credits[c].statut = "ACTIF"
      BY <3>2 DEF Vivant
    <3>. QED
      BY <2>1, <3>1, <3>2, PreleveNext
  <2>2. ASSUME NEW c \in DOMAIN credits', credits'[c].statut = "EXPIRE"
        PROVE  ~credits'[c].consenti
    <3>1. c \in DOMAIN credits
      BY <2>2, CreditNouveau
    <3>2. CASE Inchange(c)
      BY <2>0, <2>2, <3>1, <3>2 DEF Inchange, Decisions
    <3>3. ASSUME NEW q \in Requetes, Decide(q, c), Consenti(q, c) \/ Decision(q, c)
          PROVE  ~credits'[c].consenti
      BY <2>0, <2>2, <3>1, <3>3 DEF Decisions, Consenti, Decision
    <3>4. CASE EnVie(c)
      BY <2>2, <3>4 DEF EnVie, Vivant
    <3>. QED
      BY <2>0, <3>1, <3>2, <3>3, <3>4, EcritCredit
  <2>3. ASSUME NEW p \in Requetes, NEW c \in DOMAIN credits', Decide(p, c)'
        PROVE  /\ credits'[c].statut = "EN_ATTENTE"
               /\ pc'[p] \in {"expirer", "expirerLot"} => ~credits'[c].consenti
    <3>1. CASE Decide(p, c) /\ pc'[p] = pc[p]
      <4>1. c \in DOMAIN credits
        BY <3>1, CreditNouveau
      <4>2. /\ credits[c].statut = "EN_ATTENTE"
            /\ pc[p] \in {"expirer", "expirerLot"} => ~credits[c].consenti
        BY <2>0, <3>1, <4>1 DEF Decisions
      <4>3. ASSUME NEW q \in Requetes, Decide(q, c), pc'[q] = "libre" PROVE FALSE
        <5>1. p = q
          BY <2>0, <3>1, <4>1, <4>3 DEF Decisions
        <5>. QED
          BY <2>3, <4>3, <5>1 DEF Decide
      <4>4. ~EnVie(c)
        BY <4>2 DEF EnVie, Vivant
      <4>5. Inchange(c)
        BY <2>0, <4>1, <4>3, <4>4, EcritCredit
      <4>. QED
        BY <3>1, <4>2, <4>5 DEF Inchange
    <3>2. CASE /\ credits' = credits
               /\ credits[c].statut = "EN_ATTENTE"
               /\ pc'[p] \in {"expirer", "expirerLot"} => ~credits[c].consenti
      BY <3>2
    <3>. QED
      BY <1>2, <2>3, <3>1, <3>2, DecideNext
  <2>4. ASSUME NEW p \in Requetes, NEW q \in Requetes, NEW c \in DOMAIN credits',
               Decide(p, c)', Decide(q, c)', p # q
        PROVE  FALSE
    <3>1. Decide(p, c)
      BY <1>2, <2>4, DecideNext
    <3>2. Decide(q, c)
      BY <1>2, <2>4, DecideNext
    <3>3. c \in DOMAIN credits
      BY <3>1, CreditNouveau
    <3>. QED
      BY <2>0, <2>4, <3>1, <3>2, <3>3 DEF Decisions
  <2>5. Decisions'
    BY <2>1, <2>2, <2>3, <2>4 DEF Decisions
  <2>. QED
    BY <2>5 DEF DecisionInv
<1>. QED
  BY <1>1, <1>2

(* Two deciders of one demand crossed, or every decision was taken once.    *)
THEOREM DecisionsTenues == Spec => []DecisionInv
<1>. QED
  BY TypesTenus, DecisionInit, DecisionNext, PTL DEF Spec

-----------------------------------------------------------------------------
(* The principal is sent once, with the consent of the client.             *)

(* The principal is sent only by an administrator who validates.           *)
LEMMA DecaissementsNext ==
  ASSUME TypeInv, [Next]_vars
  PROVE  \/ decaissements' = decaissements
         \/ \E q \in Requetes :
              /\ pc[q] = "lireValider" /\ pc'[q] = "activer" /\ loc' = loc
              /\ credits' = credits /\ loc[q].credit \in DOMAIN credits
              /\ PeutValider(loc[q].credit) /\ MarquerCourse({loc[q].credit})
              /\ \A c \in CreditIds :
                    decaissements'[c] = IF c = loc[q].credit THEN decaissements[c] + 1
                                        ELSE decaissements[c]
<1> USE DEF tableVars, kkiapayVars
<1>0. /\ pc \in [Requetes -> Etapes] /\ decaissements \in [CreditIds -> Nat]
      /\ \A q \in Requetes : EtapeBonne(pc[q], loc[q])
  BY DEF TypeInv, TypeOK, EtapeOK
<1>1. ASSUME NEW q \in Requetes, Recevables(q) PROVE decaissements' = decaissements
  BY <1>1 DEF Recevables, Demander, ConsentementSms, ConfirmerPin, Valider, Refuser,
     LancerExpiration, LancerPrelevements, Livrer, Doubler, Commencer
<1>2. ASSUME NEW q \in Requetes, Poursuivre(q), ~LireValider(q)
      PROVE  decaissements' = decaissements
  <2>1. CASE EcritStatut(q)
    BY <2>1 DEF EcritStatut, Activer, EcrireRefus, EcrireExpiration, ExpirerLot,
       EcrireDefautJob, EcrireDefaut
  <2>2. CASE ~EcritStatut(q)
    BY <1>2, <2>2 DEF EcritStatut, Poursuivre, ChercherActif, ChercherSms, LirePin,
       LireRefus, ListerExpires, ListerActifs, CompterJob, Recevoir,
       CompterEchecs, Accuser, Creer, Consentir, Prelever, PreleverEnErreur, Regler,
       MarquerEchec
  <2>. QED
    BY <2>1, <2>2
<1>3. ASSUME NEW r, NEW issue, Payer(r, issue) PROVE decaissements' = decaissements
  BY <1>3 DEF Payer
<1>4. CASE Vieillir \/ Panne \/ UNCHANGED vars
  BY <1>4 DEF Vieillir, Panne, vars
<1>5. ASSUME NEW q \in Requetes, LireValider(q), ~(decaissements' = decaissements)
      PROVE  /\ pc[q] = "lireValider" /\ pc'[q] = "activer" /\ loc' = loc
             /\ credits' = credits /\ loc[q].credit \in DOMAIN credits
             /\ PeutValider(loc[q].credit) /\ MarquerCourse({loc[q].credit})
             /\ \A c \in CreditIds :
                   decaissements'[c] = IF c = loc[q].credit THEN decaissements[c] + 1
                                       ELSE decaissements[c]
  <2>1. /\ decaissements' = [decaissements EXCEPT ![loc[q].credit]
                                = decaissements[loc[q].credit] + 1]
        /\ pc' = [pc EXCEPT ![q] = "activer"] /\ loc' = loc /\ credits' = credits
        /\ pc[q] = "lireValider"
    BY <1>5 DEF LireValider, Vers
  <2>2. PeutValider(loc[q].credit) /\ MarquerCourse({loc[q].credit})
    BY Zenon, <1>5 DEF LireValider
  <2>. QED
    BY <1>0, <2>1, <2>2 DEF EtapeBonne, SurCredit
<1>. QED
  BY <1>1, <1>2, <1>3, <1>4, <1>5 DEF Next

(* At first nothing is sent.                                               *)
LEMMA ConsentiInit == Init => ConsentiInv
<1>. SUFFICES ASSUME Init PROVE ConsentiInv
  OBVIOUS
<1>1. DOMAIN credits = {}
  <2>1. DOMAIN <<>> = {}
    OBVIOUS
  <2>. QED
    BY <2>1 DEF Init
<1>. QED
  BY <1>1 DEF ConsentiInv, Init

(* A new credit also has an identifier of the model.                       *)
LEMMA IdentifiantsNext ==
  ASSUME TypeInv, [Next]_vars
  PROVE  DOMAIN credits' \subseteq CreditIds
<1>1. credits' \in Seq(MicroCredit) /\ Len(credits') <= MaxCredits
  BY TypeNext DEF TypeInv, TypeOK
<1>2. Len(credits') \in Nat /\ DOMAIN credits' = 1 .. Len(credits')
  BY <1>1
<1>. QED
  BY <1>1, <1>2, MicroCreditsAssumption DEF CreditIds

(* The consent is there before the principal is sent, and is not taken     *)
(* back.                                                                   *)
LEMMA ConsentiNext ==
  ASSUME TypeInv, ConsentiInv, [Next]_vars
  PROVE  ConsentiInv'
<1>0. /\ TypeOK /\ pc \in [Requetes -> Etapes] /\ loc \in [Requetes -> Locales]
      /\ decaissements \in [CreditIds -> Nat]
      /\ DOMAIN credits \subseteq CreditIds
      /\ DOMAIN credits \subseteq DOMAIN credits' /\ DOMAIN credits' \subseteq CreditIds
      /\ \A c \in DOMAIN credits : credits[c].consenti => credits'[c].consenti
      /\ \A q \in Requetes : pc[q] = "activer" => loc[q].credit \in DOMAIN credits
  <2>1. TypeOK /\ TypeOK'
    BY TypeNext DEF TypeInv
  <2>2. DOMAIN credits \subseteq CreditIds
    BY <2>1, Identifiants
  <2>3. DOMAIN credits' \subseteq CreditIds
    BY IdentifiantsNext
  <2>. QED
    BY <2>1, <2>2, <2>3, CreditsNext DEF TypeInv, TypeOK, EtapeOK, EtapeBonne, SurCredit
<1>1. ASSUME NEW c \in DOMAIN credits', decaissements'[c] > 0
      PROVE  credits'[c].consenti
  <2>1. CASE decaissements' = decaissements
    BY <1>0, <1>1, <2>1 DEF ConsentiInv
  <2>2. ASSUME NEW q \in Requetes, credits' = credits, PeutValider(loc[q].credit),
               \A d \in CreditIds :
                  decaissements'[d] = IF d = loc[q].credit THEN decaissements[d] + 1
                                      ELSE decaissements[d]
        PROVE  credits'[c].consenti
    BY <1>0, <1>1, <2>2 DEF ConsentiInv, PeutValider
  <2>. QED
    BY <2>1, <2>2, DecaissementsNext
<1>2. ASSUME NEW p \in Requetes, pc'[p] = "activer"
      PROVE  credits'[loc'[p].credit].consenti
  <2>1. CASE pc'[p] = pc[p] /\ loc'[p] = loc[p]
    BY <1>0, <1>2, <2>1 DEF ConsentiInv
  <2>2. CASE Exterieur \/ UNCHANGED vars
    BY <1>0, <1>2, <2>1, <2>2, ExterieurProcs
  <2>3. ASSUME NEW q \in Requetes, Recevables(q) \/ Poursuivre(q), q # p
        PROVE  credits'[loc'[p].credit].consenti
    BY <1>0, <2>1, <2>3, UnSeul
  <2>4. CASE Recevables(p) \/ Poursuivre(p)
    <3>1. LireValider(p)
      BY <1>2, <2>4, Transitions
    <3>2. ~Repondre(p)
      BY <1>0, <1>2 DEF Repondre, Vers
    <3>3. PeutValider(loc[p].credit) /\ UNCHANGED loc /\ UNCHANGED tableVars
      BY Zenon, <3>1, <3>2 DEF LireValider
    <3>. QED
      BY <3>3 DEF PeutValider, tableVars
  <2>. QED
    BY <2>2, <2>3, <2>4 DEF Next, Exterieur
<1>3. ASSUME NEW c \in CreditIds \ DOMAIN credits' PROVE decaissements'[c] = 0
  BY <1>0, DecaissementsNext DEF ConsentiInv
<1>. QED
  BY <1>1, <1>2, <1>3 DEF ConsentiInv

(* At first nothing is sent twice.                                         *)
LEMMA DecaissementInit == Init => DecaissementInv
<1>. SUFFICES ASSUME Init PROVE UneFois
  BY DEF DecaissementInv
<1>1. DOMAIN credits = {}
  <2>1. DOMAIN <<>> = {}
    OBVIOUS
  <2>. QED
    BY <2>1 DEF Init
<1>. QED
  BY <1>1 DEF UneFois

(* A second transfer needs two decisions that cross, or a crash between    *)
(* the first one and its update.                                           *)
LEMMA DecaissementNext ==
  ASSUME TypeInv, DecisionInv, ConsentiInv, DecaissementInv, [Next]_vars
  PROVE  DecaissementInv'
<1>1. CASE courseDecision \/ courseDecision' \/ pannes > 0 \/ pannes' > 0
  BY <1>1, CoursesRestent DEF DecaissementInv
<1>2. CASE ~courseDecision /\ ~courseDecision' /\ ~(pannes > 0) /\ ~(pannes' > 0)
  <2>0. /\ Decisions /\ UneFois /\ TypeOK /\ pc \in [Requetes -> Etapes]
        /\ decaissements \in [CreditIds -> Nat] /\ pannes \in Nat
        /\ ConsentiInv'
    BY <1>2, ConsentiNext DEF DecisionInv, DecaissementInv, TypeInv, TypeOK
  <2>1. ASSUME NEW c \in DOMAIN credits', decaissements'[c] # 0
        PROVE  decaissements'[c] = 1 /\ (Vivant(c)' \/ EnActivation(c)')
    <3>1. ASSUME NEW q \in Requetes, pc'[q] = "activer", loc' = loc, credits' = credits,
                 loc[q].credit = c, PeutValider(c), MarquerCourse({c}),
                 c \in CreditIds, decaissements'[c] = decaissements[c] + 1
          PROVE  decaissements'[c] = 1 /\ (Vivant(c)' \/ EnActivation(c)')
      <4>1. \A p \in Requetes : ~Decide(p, c)
        BY <1>2, <3>1, SansCourse
      <4>2. ~Vivant(c) /\ ~EnActivation(c)
        BY <3>1, <4>1 DEF PeutValider, Vivant, EnActivation, Decide
      <4>3. decaissements[c] = 0
        BY <2>0, <2>1, <3>1, <4>2 DEF UneFois
      <4>. QED
        BY <3>1, <4>3 DEF EnActivation
    <3>2. CASE decaissements'[c] = decaissements[c]
      <4>1. c \in DOMAIN credits
        <5>1. c \in CreditIds
          BY <2>1, IdentifiantsNext
        <5>. QED
          BY <2>1, <3>2, <5>1 DEF ConsentiInv
      <4>2. decaissements[c] = 1 /\ (Vivant(c) \/ EnActivation(c))
        BY <2>0, <2>1, <3>2, <4>1 DEF UneFois
      <4>3. CASE Vivant(c)
        BY <2>0, <3>2, <4>1, <4>2, <4>3, VivantNext
      <4>4. ASSUME NEW p \in Requetes, pc[p] = "activer", loc[p].credit = c
            PROVE  Vivant(c)' \/ EnActivation(c)'
        <5>1. CASE pc'[p] = pc[p] /\ loc'[p] = loc[p]
          BY <4>4, <5>1 DEF EnActivation
        <5>2. CASE Panne
          BY <1>2, <2>0, <5>2 DEF Panne
        <5>3. CASE Recevables(p) \/ Poursuivre(p)
          <6>1. Statut({c}, "ACTIF")
            BY <4>4, <5>3, Transitions DEF Activer
          <6>2. "ACTIF" \in Statuts
            BY DEF Statuts
          <6>. QED
            BY <2>0, <4>1, <6>1, <6>2, StatutEcrit DEF Vivant
        <5>4. ASSUME NEW q \in Requetes, Recevables(q) \/ Poursuivre(q), q # p
              PROVE  pc'[p] = pc[p] /\ loc'[p] = loc[p]
          BY <2>0, <5>4, UnSeul
        <5>5. CASE Exterieur \/ UNCHANGED vars
          BY <2>0, <5>1, <5>2, <5>5, ExterieurProcs
        <5>. QED
          BY <5>1, <5>3, <5>4, <5>5 DEF Next, Exterieur
      <4>. QED
        BY <3>2, <4>2, <4>3, <4>4 DEF EnActivation
    <3>3. c \in CreditIds
      BY <2>1, IdentifiantsNext
    <3>. QED
      BY <3>1, <3>2, <3>3, DecaissementsNext
  <2>2. UneFois'
    BY <2>1 DEF UneFois
  <2>. QED
    BY <2>2 DEF DecaissementInv
<1>. QED
  BY <1>1, <1>2

(* Whatever is repeated or interleaved, the principal is sent only with    *)
(* the client's consent, once and for a demand that stays validated, and a *)
(* demand the client agreed to does not expire: what goes wrong needs two  *)
(* decisions that cross, or a crash before the update.                     *)
THEOREM DecaissementsLegitimes == Spec => []DecaissementLegitime
<1>1. TypeInv /\ DecisionInv /\ ConsentiInv /\ DecaissementInv => DecaissementLegitime
  <2>1. SUFFICES ASSUME TypeInv, DecisionInv, ConsentiInv, DecaissementInv,
                        NEW c \in DOMAIN credits
                 PROVE  /\ decaissements[c] > 0 =>
                             /\ credits[c].consenti
                             /\ \/ /\ decaissements[c] = 1
                                   /\ credits[c].statut \notin {"REFUSE", "EXPIRE"}
                                \/ courseDecision \/ pannes > 0
                        /\ credits[c].statut = "EXPIRE" /\ credits[c].consenti
                             => courseDecision
    BY DEF DecaissementLegitime
  <2>2. credits[c].statut = "EXPIRE" /\ credits[c].consenti => courseDecision
    BY <2>1 DEF DecisionInv, Decisions
  <2>3. ASSUME decaissements[c] > 0, ~courseDecision, ~(pannes > 0)
        PROVE  decaissements[c] = 1 /\ credits[c].statut \notin {"REFUSE", "EXPIRE"}
    <3>1. decaissements[c] = 1 /\ (Vivant(c) \/ EnActivation(c))
      BY <2>1, <2>3 DEF DecaissementInv, UneFois, ConsentiInv
    <3>2. EnActivation(c) => credits[c].statut = "EN_ATTENTE"
      BY <2>1, <2>3 DEF EnActivation, DecisionInv, Decisions, Decide
    <3>. QED
      BY <3>1, <3>2 DEF Vivant
  <2>. QED
    BY <2>1, <2>2, <2>3 DEF ConsentiInv
<1>. QED
  BY <1>1, TypesTenus, DecisionsTenues, ConsentiInit, ConsentiNext, DecaissementInit,
     DecaissementNext, PTL DEF Spec

-----------------------------------------------------------------------------
(* What is left to pay.                                                    *)

(* The instalments of a credit are finitely many.                          *)
LEMMA PayesFinis ==
  ASSUME TypeInv, NEW c
  PROVE  IsFiniteSet(De(c, "SUCCES")) /\ Payes(c) \in Nat
<1>1. rembs \in Seq(Remboursement)
  BY DEF TypeInv, TypeOK
<1>2. Len(rembs) \in Nat /\ DOMAIN rembs = 1 .. Len(rembs)
  BY <1>1
<1>3. IsFiniteSet(1 .. Len(rembs))
  BY <1>2, FS_Interval
<1>4. De(c, "SUCCES") \subseteq 1 .. Len(rembs)
  BY <1>2 DEF De
<1>. QED
  BY <1>3, <1>4, FS_Subset, FS_CardinalityType DEF Payes

(* A debit of J more.                                                      *)
LEMMA PosMaxSuite ==
  ASSUME NEW t \in Nat, NEW n \in Nat, NEW j \in Nat
  PROVE  PosMax(PosMax(t - n * j) - j) = PosMax(t - (n + 1) * j)
<1>1. PICK k \in Nat : k = n * j
  OBVIOUS
<1>2. (n + 1) * j = k + j
  BY <1>1
<1>. QED
  BY <1>1, <1>2 DEF PosMax

(* An instalment becomes SUCCES only when it is settled.                   *)
LEMMA SuccesNext ==
  ASSUME TypeInv, [Next]_vars, NEW c
  PROVE  \/ De(c, "SUCCES")' = De(c, "SUCCES")
         \/ \E q \in Requetes : /\ Regler(q) /\ c = rembs[loc[q].remb].credit
                                /\ De(c, "SUCCES")' = De(c, "SUCCES") \cup {loc[q].remb}
<1>1. CASE rembs' = rembs
  BY <1>1 DEF De
<1>2. ASSUME NEW q \in Requetes, Prelever(q) \/ PreleverEnErreur(q)
      PROVE  De(c, "SUCCES")' = De(c, "SUCCES")
  <2>1. PICK d \in loc[q].lot, s \in {"EN_ATTENTE", "ECHEC"} :
          rembs' = Append(rembs, [credit |-> d, statut |-> s]) /\ pc[q] = "prelever"
    BY <1>2 DEF Prelever, PreleverEnErreur
  <2>2. /\ DOMAIN rembs' = DOMAIN rembs \cup {Len(rembs) + 1}
        /\ Len(rembs) + 1 \notin DOMAIN rembs
        /\ \A r \in DOMAIN rembs : rembs'[r] = rembs[r]
        /\ rembs'[Len(rembs) + 1].statut # "SUCCES"
    BY <2>1, RembCree
  <2>. QED
    BY <2>2 DEF De
<1>3. ASSUME NEW q \in Requetes, Regler(q)
      PROVE  \/ De(c, "SUCCES")' = De(c, "SUCCES")
             \/ /\ c = rembs[loc[q].remb].credit
                /\ De(c, "SUCCES")' = De(c, "SUCCES") \cup {loc[q].remb}
  <2>1. PICK o : o = loc[q].remb
    OBVIOUS
  <2>0. pc[q] = "regler"
    BY <1>3 DEF Regler
  <2>2. /\ DOMAIN rembs' = DOMAIN rembs /\ o \in DOMAIN rembs
        /\ \A r \in DOMAIN rembs \ {o} : rembs'[r] = rembs[r]
        /\ rembs'[o].credit = rembs[o].credit /\ rembs'[o].statut = "SUCCES"
    BY <1>3, <2>0, <2>1, RembEcrit
  <2>3. CASE c = rembs[o].credit
    BY <2>1, <2>2, <2>3 DEF De
  <2>4. CASE c # rembs[o].credit
    BY <2>2, <2>4 DEF De
  <2>. QED
    BY <2>1, <2>3, <2>4
<1>4. ASSUME NEW q \in Requetes, MarquerEchec(q)
      PROVE  De(c, "SUCCES")' = De(c, "SUCCES")
  <2>0. pc[q] = "echec"
    BY <1>4 DEF MarquerEchec
  <2>1. PICK o : o = loc[q].remb
    OBVIOUS
  <2>2. /\ DOMAIN rembs' = DOMAIN rembs /\ o \in DOMAIN rembs
        /\ \A r \in DOMAIN rembs \ {o} : rembs'[r] = rembs[r]
        /\ rembs'[o].statut = "ECHEC"
    BY <1>4, <2>0, <2>1, RembEcrit
  <2>3. issues[o] = "FAILED"
    BY <2>0, <2>1 DEF TypeInv, EtapeOK, EtapeBonne
  <2>4. rembs[o].statut # "SUCCES"
    BY <2>2, <2>3 DEF TypeInv, RembOK
  <2>. QED
    BY <2>2, <2>4 DEF De
<1>. QED
  BY <1>1, <1>2, <1>3, <1>4, QuiEcritRembs

(* What is left to pay is written only when an instalment is settled.      *)
LEMMA RestantNext ==
  ASSUME TypeInv, [Next]_vars, NEW c \in DOMAIN credits
  PROVE  \/ credits'[c].restant = credits[c].restant /\ credits'[c].jours = credits[c].jours
         \/ \E q \in Requetes :
              /\ Regler(q) /\ c = rembs[loc[q].remb].credit
              /\ credits'[c].restant = loc[q].restant /\ credits'[c].jours = loc[q].jours
              /\ credits'[c].statut = IF loc[q].restant = 0 THEN "TERMINE" ELSE "ACTIF"
<1>0. TypeOK
  BY DEF TypeInv
<1>1. ASSUME NEW q \in Requetes, EcritStatut(q)
      PROVE  credits'[c].restant = credits[c].restant /\ credits'[c].jours = credits[c].jours
  <2>0. PICK S : \E s \in Statuts : Statut(S, s)
    BY <1>1, EcritUnStatut
  <2>1. PICK s \in Statuts : Statut(S, s)
    BY <2>0
  <2>. QED
    BY <1>0, <2>1, StatutEcrit
<1>2. ASSUME NEW q \in Requetes, Creer(q) \/ Consentir(q)
      PROVE  credits'[c].restant = credits[c].restant /\ credits'[c].jours = credits[c].jours
  BY <1>2, CreditCree, ConsentementEcrit
<1>3. ASSUME NEW q \in Requetes, Regler(q)
      PROVE  \/ credits'[c].restant = credits[c].restant
                /\ credits'[c].jours = credits[c].jours
             \/ /\ c = rembs[loc[q].remb].credit
                /\ credits'[c].restant = loc[q].restant
                /\ credits'[c].jours = loc[q].jours
                /\ credits'[c].statut = IF loc[q].restant = 0 THEN "TERMINE" ELSE "ACTIF"
  <2>0. PICK o : o = rembs[loc[q].remb].credit
    OBVIOUS
  <2>1. CASE c = o
    BY <1>3, <2>0, <2>1, CreditRegle
  <2>2. CASE c # o
    BY <1>3, <2>0, <2>2, CreditRegle
  <2>. QED
    BY <2>1, <2>2
<1>. QED
  BY <1>1, <1>2, <1>3, QuiEcritCredits

(* A handler that settles an instalment was settling it before, or has     *)
(* just read it with its credit, and alone.                                *)
LEMMA RegleNext ==
  ASSUME TypeInv, [Next]_vars, ~courseRemb', NEW p \in Requetes, pc'[p] = "regler"
  PROVE  \/ pc[p] = "regler" /\ loc'[p] = loc[p]
         \/ LET r == loc[p].remb  c == rembs[r].credit IN
            /\ credits' = credits /\ rembs' = rembs /\ loc'[p].remb = r
            /\ r \in DOMAIN rembs /\ rembs[r].statut = "EN_ATTENTE"
            /\ loc'[p].restant = PosMax(credits[c].restant - Journalier)
            /\ loc'[p].jours = credits[c].jours + 1
            /\ \A q \in Requetes : ~Regle(q, c)
            /\ \A q \in Requetes \ {p} : pc'[q] = pc[q] /\ loc'[q] = loc[q]
<1> USE DEF tableVars
<1>0. /\ TypeOK /\ loc \in [Requetes -> Locales] /\ pc \in [Requetes -> Etapes]
      /\ EtapeBonne(pc[p], loc[p])
  BY DEF TypeInv, TypeOK, EtapeOK
<1>1. CASE Exterieur \/ UNCHANGED vars
  BY <1>0, <1>1, ExterieurProcs
<1>2. ASSUME NEW q \in Requetes, Recevables(q) \/ Poursuivre(q), q # p
      PROVE  pc[p] = "regler" /\ loc'[p] = loc[p]
  BY <1>0, <1>2, UnSeul
<1>3. ASSUME Recevables(p) \/ Poursuivre(p)
      PROVE  LET r == loc[p].remb  c == rembs[r].credit IN
            /\ credits' = credits /\ rembs' = rembs /\ loc'[p].remb = r
            /\ r \in DOMAIN rembs /\ rembs[r].statut = "EN_ATTENTE"
            /\ loc'[p].restant = PosMax(credits[c].restant - Journalier)
            /\ loc'[p].jours = credits[c].jours + 1
            /\ \A q \in Requetes : ~Regle(q, c)
            /\ \A q \in Requetes \ {p} : pc'[q] = pc[q] /\ loc'[q] = loc[q]
  <2>1. Recevoir(p)
    BY <1>3, Transitions
  <2>2. \A q \in Requetes \ {p} : pc'[q] = pc[q] /\ loc'[q] = loc[q]
    BY <1>0, <1>3, UnSeul
  <2>3. PICK r : r = loc[p].remb
    OBVIOUS
  <2>4. PICK c : c = rembs[r].credit
    OBVIOUS
  <2>5. PICK n, j : n = PosMax(credits[c].restant - Journalier) /\ j = credits[c].jours + 1
    OBVIOUS
  <2>6. ~Vers(p, "accuser") /\ ~Vers(p, "echec")
    BY <1>0 DEF Vers
  <2>7. /\ EstATraiter(r) /\ credits' = credits /\ rembs' = rembs /\ pc[p] = "recevoir"
        /\ loc' = [loc EXCEPT ![p].restant = n, ![p].jours = j]
    BY <2>1, <2>3, <2>4, <2>5, <2>6 DEF Recevoir
  <2>8. \A q \in Requetes : ~Regle(q, c)
    <3>1. courseRemb' = (courseRemb \/ \E q \in Requetes : Regle(q, rembs[loc[p].remb].credit))
      BY Zenon, <2>1, <2>6 DEF Recevoir
    <3>2. ~\E q \in Requetes : Regle(q, rembs[loc[p].remb].credit)
      BY Zenon, <3>1
    <3>. QED
      BY <2>3, <2>4, <3>2
  <2>9. /\ loc'[p].remb = r /\ loc'[p].restant = n /\ loc'[p].jours = j
    <3>1. PICK k \in Locales : k = loc[p]
      BY <1>0
    <3>2. PICK l : l = [k EXCEPT !.restant = n, !.jours = j]
      OBVIOUS
    <3>3. l.remb = k.remb /\ l.restant = n /\ l.jours = j
      BY <3>2 DEF Locales
    <3>4. loc'[p] = l
      BY <1>0, <2>7, <3>1, <3>2
    <3>. QED
      BY <2>3, <3>1, <3>3, <3>4
  <2>10. r \in DOMAIN rembs
    BY <1>0, <2>3, <2>7 DEF EtapeBonne, SurRemb
  <2>. QED
    BY <2>2, <2>3, <2>4, <2>5, <2>7, <2>8, <2>9, <2>10 DEF EstATraiter
<1>. QED
  BY <1>1, <1>2, <1>3 DEF Next, Exterieur

(* At first nothing is due.                                                *)
LEMMA SoldesInit == Init => SoldesInv /\ SoldeFerme
<1>. SUFFICES ASSUME Init PROVE Soldes /\ SoldeFerme
  BY DEF SoldesInv
<1>1. DOMAIN credits = {} /\ \A q \in Requetes : pc[q] = "libre"
  <2>1. DOMAIN <<>> = {}
    OBVIOUS
  <2>. QED
    BY <2>1 DEF Init
<1>. QED
  BY <1>1 DEF Soldes, SoldeFerme

(* The instalments recorded and the columns of the credit move together.   *)
LEMMA SoldeNext ==
  ASSUME TypeInv, Soldes, [Next]_vars, NEW c \in DOMAIN credits'
  PROVE  Solde(c)'
<1>1. CASE c \in DOMAIN credits
  <2>0. Solde(c) /\ Payes(c) \in Nat /\ IsFiniteSet(De(c, "SUCCES"))
    BY <1>1, PayesFinis DEF Soldes
  <2>1. ASSUME NEW q \in Requetes, Regler(q), c = rembs[loc[q].remb].credit,
               De(c, "SUCCES")' = De(c, "SUCCES") \cup {loc[q].remb},
               credits'[c].restant = loc[q].restant, credits'[c].jours = loc[q].jours
        PROVE  Solde(c)'
    <3>1. pc[q] = "regler"
      BY <2>1 DEF Regler
    <3>2. ReglementOK(q)
      BY <3>1 DEF Soldes
    <3>3. loc[q].remb \notin De(c, "SUCCES")
      BY <3>2 DEF ReglementOK, De
    <3>4. Payes(c)' = Payes(c) + 1
      BY <2>0, <2>1, <3>3, FS_AddElement DEF Payes
    <3>5. /\ loc[q].restant = PosMax(PosMax(Total - Payes(c) * Journalier) - Journalier)
          /\ loc[q].jours = Payes(c) + 1
      BY <2>0, <2>1, <3>2 DEF ReglementOK, Solde
    <3>6. loc[q].restant = PosMax(Total - (Payes(c) + 1) * Journalier)
      <4>1. PICK n \in Nat : n = Payes(c)
        BY <2>0
      <4>2. Total \in Nat /\ Journalier \in Nat
        BY MicroCreditsAssumption
      <4>3. PosMax(PosMax(Total - n * Journalier) - Journalier)
              = PosMax(Total - (n + 1) * Journalier)
        BY Zenon, <4>1, <4>2, PosMaxSuite
      <4>. QED
        BY <3>5, <4>1, <4>3
    <3>. QED
      BY <2>1, <3>4, <3>5, <3>6 DEF Solde
  <2>2. ASSUME De(c, "SUCCES")' = De(c, "SUCCES"),
               credits'[c].restant = credits[c].restant,
               credits'[c].jours = credits[c].jours
        PROVE  Solde(c)'
    BY <2>0, <2>2 DEF Solde, Payes
  <2>4. ASSUME NEW q \in Requetes, Regler(q), c = rembs[loc[q].remb].credit
        PROVE  /\ De(c, "SUCCES")' = De(c, "SUCCES") \cup {loc[q].remb}
               /\ credits'[c].restant = loc[q].restant /\ credits'[c].jours = loc[q].jours
    <3>1. PICK o : o = loc[q].remb
      OBVIOUS
    <3>2. pc[q] = "regler"
      BY <2>4 DEF Regler
    <3>3. /\ DOMAIN rembs' = DOMAIN rembs /\ o \in DOMAIN rembs
          /\ \A r \in DOMAIN rembs \ {o} : rembs'[r] = rembs[r]
          /\ rembs'[o].credit = rembs[o].credit /\ rembs'[o].statut = "SUCCES"
      BY <2>4, <3>1, <3>2, RembEcrit
    <3>4. De(c, "SUCCES")' = De(c, "SUCCES") \cup {o}
      BY <2>4, <3>1, <3>3 DEF De
    <3>. QED
      BY <2>4, <3>1, <3>4, CreditRegle
  <2>. QED
    BY <1>1, <2>1, <2>2, <2>4, SuccesNext, RestantNext
<1>2. CASE c \notin DOMAIN credits
  <2>1. credits'[c].restant = Total /\ credits'[c].jours = 0 /\ ~Preleve(c)'
    BY <1>2, CreditNouveau
  <2>2. De(c, "SUCCES")' = {}
    BY <2>1 DEF De, Preleve
  <2>3. Payes(c)' = 0
    BY <2>2, FS_EmptySet DEF Payes
  <2>4. Total = PosMax(Total - 0 * Journalier)
    BY MicroCreditsAssumption DEF PosMax
  <2>. QED
    BY <2>1, <2>3, <2>4 DEF Solde
<1>. QED
  BY <1>1, <1>2

(* Instalments of one credit settled one at a time lose nothing.           *)
LEMMA SoldesNext ==
  ASSUME TypeInv, SoldesInv, [Next]_vars
  PROVE  SoldesInv'
<1>1. CASE courseRemb \/ courseRemb'
  BY <1>1, CoursesRestent DEF SoldesInv
<1>2. CASE ~courseRemb /\ ~courseRemb'
  <2>0. /\ Soldes /\ TypeOK
        /\ \A q \in Requetes : EtapeBonne(pc[q], loc[q])
    BY <1>2 DEF SoldesInv, TypeInv, EtapeOK
  <2>1. \A c \in DOMAIN credits' : Solde(c)'
    BY <2>0, SoldeNext
  <2>2. ASSUME NEW p \in Requetes, pc'[p] = "regler", pc[p] = "regler", loc'[p] = loc[p]
        PROVE  /\ loc[p].remb \in DOMAIN rembs
               /\ rembs'[loc[p].remb].credit = rembs[loc[p].remb].credit
               /\ ReglementOK(p)'
    <3>1. PICK r : r = loc[p].remb
      OBVIOUS
    <3>2. PICK c : c = rembs[r].credit
      OBVIOUS
    <3>3. /\ r \in DOMAIN rembs \cap RembIds /\ issues[r] = "SUCCESS"
      BY <2>0, <2>2, <3>1 DEF EtapeBonne, SurRemb
    <3>4. rembs'[r].credit = c /\ c \in DOMAIN credits
      BY <3>2, <3>3, RembsNext DEF TypeInv, RembOK
    <3>5. ReglementOK(p)
      BY <2>0, <2>2 DEF Soldes
    <3>6. ASSUME NEW q \in Requetes, Regler(q) PROVE rembs[loc[q].remb].credit # c
      <4>1. pc[q] = "regler" /\ pc'[q] = "accuser"
        BY <2>0, <3>6 DEF Regler, Vers, TypeOK
      <4>2. q # p
        BY <2>2, <4>1
      <4>. QED
        BY <2>0, <2>2, <3>1, <3>2, <4>1, <4>2 DEF Soldes, Regle
    <3>7. credits'[c].restant = credits[c].restant /\ credits'[c].jours = credits[c].jours
      BY <3>4, <3>6, RestantNext
    <3>8. rembs'[r].statut = "EN_ATTENTE"
      <4>0. rembs[r].statut = "EN_ATTENTE"
        BY <3>1, <3>5 DEF ReglementOK
      <4>1. ASSUME NEW q \in Requetes, Prelever(q) \/ PreleverEnErreur(q)
            PROVE  rembs'[r] = rembs[r]
        <5>1. PICK d \in loc[q].lot, s \in {"EN_ATTENTE", "ECHEC"} :
                rembs' = Append(rembs, [credit |-> d, statut |-> s]) /\ pc[q] = "prelever"
          BY <4>1 DEF Prelever, PreleverEnErreur
        <5>. QED
          BY <3>3, <5>1, RembCree
      <4>2. ASSUME NEW q \in Requetes, Regler(q) \/ MarquerEchec(q)
            PROVE  rembs'[r] = rembs[r]
        <5>1. PICK o : o = loc[q].remb
          OBVIOUS
        <5>2. o # r
          <6>1. CASE Regler(q)
            BY <3>2, <3>6, <5>1, <6>1
          <6>2. CASE MarquerEchec(q)
            <7>1. issues[o] = "FAILED"
              BY <2>0, <5>1, <6>2 DEF MarquerEchec, EtapeBonne
            <7>. QED
              BY <3>3, <7>1
          <6>. QED
            BY <4>2, <6>1, <6>2
        <5>. QED
          BY <3>3, <4>2, <5>1, <5>2, RembEcrit
      <4>. QED
        BY <4>0, <4>1, <4>2, QuiEcritRembs
    <3>. QED
      BY <2>2, <3>1, <3>2, <3>3, <3>4, <3>5, <3>7, <3>8 DEF ReglementOK
  <2>3. ASSUME NEW p \in Requetes, pc'[p] = "regler" PROVE ReglementOK(p)'
    BY <1>2, <2>2, <2>3, RegleNext DEF ReglementOK
  <2>4. ASSUME NEW p \in Requetes, NEW q \in Requetes, p # q,
               pc'[p] = "regler", pc'[q] = "regler",
               rembs'[loc'[q].remb].credit = rembs'[loc'[p].remb].credit
        PROVE  FALSE
    <3>1. ASSUME NEW x \in Requetes, NEW y \in Requetes, x # y, pc'[y] = "regler",
                 rembs'[loc'[x].remb].credit = rembs'[loc'[y].remb].credit,
                 credits' = credits, rembs' = rembs, loc'[x].remb = loc[x].remb,
                 \A z \in Requetes : ~Regle(z, rembs[loc[x].remb].credit),
                 \A z \in Requetes \ {x} : pc'[z] = pc[z] /\ loc'[z] = loc[z]
          PROVE  FALSE
      BY <3>1 DEF Regle
    <3>2. CASE ~(pc[p] = "regler" /\ loc'[p] = loc[p])
      BY <1>2, <2>4, <3>1, <3>2, RegleNext
    <3>3. CASE ~(pc[q] = "regler" /\ loc'[q] = loc[q])
      BY <1>2, <2>4, <3>1, <3>3, RegleNext
    <3>4. CASE pc[p] = "regler" /\ loc'[p] = loc[p] /\ pc[q] = "regler" /\ loc'[q] = loc[q]
      BY <2>0, <2>2, <2>4, <3>4 DEF Soldes, Regle
    <3>. QED
      BY <3>2, <3>3, <3>4
  <2>5. Soldes'
    BY <2>1, <2>3, <2>4 DEF Soldes, Regle
  <2>. QED
    BY <2>5 DEF SoldesInv
<1>. QED
  BY <1>1, <1>2

(* Two settlements of one credit crossed, or what is due is right.          *)
THEOREM SoldesTenus == Spec => []SoldesInv
<1>. QED
  BY TypesTenus, SoldesInit, SoldesNext, PTL DEF Spec

(* A credit that is paid is never active again.                            *)
LEMMA SoldeFermeNext ==
  ASSUME TypeInv, DecisionInv, SoldesInv, SoldeFerme, [Next]_vars
  PROVE  SoldeFerme'
<1>1. CASE courseRemb \/ courseRemb' \/ courseDecision \/ courseDecision'
  BY <1>1, CoursesRestent DEF SoldeFerme
<1>2. CASE ~courseRemb /\ ~courseRemb' /\ ~courseDecision /\ ~courseDecision'
  <2>0. /\ Decisions /\ Soldes
        /\ \A c \in DOMAIN credits : credits[c].restant = 0 => credits[c].statut # "ACTIF"
    BY <1>2 DEF DecisionInv, SoldesInv, SoldeFerme
  <2>1. ASSUME NEW c \in DOMAIN credits', credits'[c].restant = 0,
               credits'[c].statut = "ACTIF"
        PROVE  FALSE
    <3>1. c \in DOMAIN credits
      BY <2>1, CreditNouveau
    <3>2. credits'[c].restant = credits[c].restant
      BY <2>1, <3>1, RestantNext
    <3>3. CASE Inchange(c)
      BY <2>0, <2>1, <3>1, <3>2, <3>3 DEF Inchange
    <3>4. CASE EnVie(c)
      BY <2>1, <3>4 DEF EnVie
    <3>5. ASSUME NEW q \in Requetes, Decide(q, c), Consenti(q, c) \/ Decision(q, c)
          PROVE  FALSE
      <4>1. credits[c].statut = "EN_ATTENTE"
        BY <2>0, <3>1, <3>5 DEF Decisions
      <4>2. ~Preleve(c)
        BY <2>0, <3>1, <4>1 DEF Decisions, Vivant
      <4>3. De(c, "SUCCES") = {}
        BY <4>2 DEF De, Preleve
      <4>4. Payes(c) = 0
        BY <4>3, FS_EmptySet DEF Payes
      <4>5. credits[c].restant = PosMax(Total - 0 * Journalier)
        BY <2>0, <3>1, <4>4 DEF Soldes, Solde
      <4>. QED
        BY <2>1, <3>2, <4>5, MicroCreditsAssumption DEF PosMax
    <3>. QED
      BY <2>0, <3>1, <3>3, <3>4, <3>5, EcritCredit
  <2>. QED
    BY <2>1 DEF SoldeFerme
<1>. QED
  BY <1>1, <1>2

(* What is left to pay and the days paid follow from the instalments       *)
(* recorded, and a paid credit is not active again, for every amount and   *)
(* every debit: an instalment is lost only when two of one credit are      *)
(* settled together.                                                       *)
THEOREM RestantsJustes == Spec => []RestantJuste
<1>1. SoldesInv /\ SoldeFerme => RestantJuste
  BY Zenon DEF SoldesInv, SoldeFerme, Soldes, Solde, Payes, RestantJuste
<1>. QED
  BY <1>1, TypesTenus, DecisionsTenues, SoldesTenus, SoldesInit, SoldeFermeNext, PTL
  DEF Spec
=============================================================================
