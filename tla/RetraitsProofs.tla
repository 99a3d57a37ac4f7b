--------------------------- MODULE RetraitsProofs ---------------------------
(***************************************************************************)
(* Theorems about Retraits: types, the balance of the tontine, and who may *)
(* take money out of it: the administrator's threshold, the withdrawal     *)
(* code and the policy of the tontine; how often a withdrawal is paid, by  *)
(* row and by key of the client; and that the handlers implement the       *)
(* ledger of module Livre: each of their steps is a step of the ledger or  *)
(* leaves it as it is, until two administrators decided on one withdrawal  *)
(* together.  For every set of requests, rows, codes and amounts, and      *)
(* across crashes.                                                         *)
(***************************************************************************)
EXTENDS RetraitsLivre, TLAPS

(* What a handler holds at each step: the operation it serves, an amount a *)
(* client asked for, and a row of the table where it works on one.         *)
EtapeOK(q) ==
    /\ pc[q] = "libre" => loc[q] = Repos
    /\ pc[q] \in {"idempotence", "otp", "consommer", "creer"}
         => loc[q].op = "confirmer"
    /\ pc[q] \in {"invalider", "creerOtp"} => loc[q].op = "demanderOtp"
    /\ pc[q] \in {"lire", "alerte"} => loc[q].op \in {"demanderOtp", "confirmer"}
    /\ pc[q] \in {"lireRetrait", "lireSolde", "marquer", "rejeter"}
         => loc[q].op \in {"valider", "rejeter"} /\ loc[q].retrait \in Existants
    /\ pc[q] \in {"lireSolde", "marquer"} => loc[q].op = "valider"
    /\ pc[q] \notin {"libre", "lireRetrait"} => loc[q].montant \in Montants
    /\ pc[q] \in {"transfert", "enregistrer"}
         => loc[q].op \in {"confirmer", "valider"} /\ loc[q].retrait \in Existants

LignesOK == \A r \in Existants : retraits[r].montant \in Montants

TypeInv == TypeOK /\ LignesOK /\ \A q \in Requetes : EtapeOK(q)


LEMMA ReposType == Repos \in Locales
  BY DEF Repos, Requete, Locales

LEMMA TypeInit == Init => TypeInv
<1> SUFFICES ASSUME Init PROVE TypeInv
  OBVIOUS
<1>1. Absent \in Retrait
  BY DEF Absent, Retrait, Statuts
<1>2. otps \in Seq(CodeOTP)
  BY DEF Init
<1>3. /\ pc \in [Requetes -> Etapes] /\ loc \in [Requetes -> Locales]
      /\ retraits \in [RetraitIds -> Retrait]
  BY <1>1, ReposType DEF Init, Etapes
<1>4. DrapeauxOK
  BY Zenon DEF Init, DrapeauxOK
<1>5. TypeOK
  BY <1>2, <1>3, <1>4, RetraitsAssumption DEF Init, TypeOK
<1>6. ASSUME NEW q \in Requetes PROVE EtapeOK(q)
  BY DEF Init, EtapeOK
<1>7. LignesOK
  BY DEF Init, LignesOK, Existants, Absent
<1>. QED
  BY <1>5, <1>6, <1>7 DEF TypeInv

(* A step of request q leaves the other requests where they were, as long  *)
(* as it deletes no row.                                                   *)
LEMMA Autres ==
  ASSUME TypeInv, NEW q \in Requetes,
         Existants \subseteq Existants',
         \A p \in Requetes \ {q} : pc'[p] = pc[p] /\ loc'[p] = loc[p],
         EtapeOK(q)'
  PROVE  \A p \in Requetes : EtapeOK(p)'
<1> SUFFICES ASSUME NEW p \in Requetes \ {q} PROVE EtapeOK(p)'
  OBVIOUS
<1>1. EtapeOK(p) /\ pc'[p] = pc[p] /\ loc'[p] = loc[p]
  BY DEF TypeInv
<1>. QED
  BY <1>1 DEF EtapeOK

(* Assigning one field keeps a record in its type.                         *)
LEMMA ChampsLocales ==
  \A l \in Locales :
     /\ \A s \in Int : [l EXCEPT !.solde = s] \in Locales
     /\ \A m \in Montants : [l EXCEPT !.montant = m] \in Locales
     /\ \A r \in RetraitIds : [l EXCEPT !.retrait = r] \in Locales
  BY DEF Locales

LEMMA ChampsCodeOTP ==
  ASSUME NEW o \in CodeOTP
  PROVE  /\ [o EXCEPT !.utilise = TRUE] \in CodeOTP
         /\ [o EXCEPT !.expire = TRUE] \in CodeOTP
  BY DEF CodeOTP

LEMMA ChampsRetrait ==
  ASSUME NEW l \in Retrait, NEW s \in Statuts
  PROVE  /\ [l EXCEPT !.statut = s] \in Retrait
         /\ [statut |-> s, montant |-> l.montant, cle |-> l.cle,
             validePar |-> TRUE, otp |-> l.otp] \in Retrait
  BY DEF Retrait

LEMMA TypeDemanderOtp ==
  ASSUME TypeInv, NEW q \in Requetes, DemanderOtp(q) PROVE TypeInv'
<1> USE DEF DemanderOtp, Commencer, Requete, Vers, tontineVars, livreVars, courseVars
<1>1. DrapeauxOK'
  BY Zenon DEF TypeInv, TypeOK, DrapeauxOK
<1>2. pc' \in [Requetes -> Etapes] /\ loc' \in [Requetes -> Locales]
  <2>1. pc' \in [Requetes -> Etapes]
    BY DEF TypeInv, TypeOK, Etapes
  <2>2. loc' \in [Requetes -> Locales]
    BY RetraitsAssumption DEF TypeInv, TypeOK, Locales
  <2>. QED
    BY <2>1, <2>2
<1>3. EtapeOK(q)'
  BY DEF TypeInv, TypeOK, EtapeOK, Locales, Existants, Retrait, Repos, Requete
<1>. QED
  BY <1>1, <1>2, <1>3, Autres DEF TypeInv, TypeOK, LignesOK, Existants

LEMMA TypeConfirmer ==
  ASSUME TypeInv, NEW q \in Requetes, Confirmer(q) PROVE TypeInv'
<1> USE DEF Confirmer, Commencer, Requete, Vers, tontineVars, livreVars, courseVars
<1>1. DrapeauxOK'
  BY Zenon DEF TypeInv, TypeOK, DrapeauxOK
<1>2. pc' \in [Requetes -> Etapes] /\ loc' \in [Requetes -> Locales]
  <2>1. pc' \in [Requetes -> Etapes]
    BY DEF TypeInv, TypeOK, Etapes
  <2>2. loc' \in [Requetes -> Locales]
    BY RetraitsAssumption DEF TypeInv, TypeOK, Locales
  <2>. QED
    BY <2>1, <2>2
<1>3. EtapeOK(q)'
  BY DEF TypeInv, TypeOK, EtapeOK, Locales, Existants, Retrait, Repos, Requete
<1>. QED
  BY <1>1, <1>2, <1>3, Autres DEF TypeInv, TypeOK, LignesOK, Existants

LEMMA TypeValider ==
  ASSUME TypeInv, NEW q \in Requetes, Valider(q) PROVE TypeInv'
<1> USE DEF Valider, Commencer, Requete, Vers, tontineVars, livreVars, courseVars
<1>1. DrapeauxOK'
  BY Zenon DEF TypeInv, TypeOK, DrapeauxOK
<1>2. pc' \in [Requetes -> Etapes] /\ loc' \in [Requetes -> Locales]
  <2>1. pc' \in [Requetes -> Etapes]
    BY DEF TypeInv, TypeOK, Etapes
  <2>2. loc' \in [Requetes -> Locales]
    BY RetraitsAssumption DEF TypeInv, TypeOK, Locales, Existants
  <2>. QED
    BY <2>1, <2>2
<1>3. EtapeOK(q)'
  BY DEF TypeInv, TypeOK, EtapeOK, Locales, Existants, Retrait, Repos, Requete
<1>. QED
  BY <1>1, <1>2, <1>3, Autres DEF TypeInv, TypeOK, LignesOK, Existants

LEMMA TypeRejeter ==
  ASSUME TypeInv, NEW q \in Requetes, Rejeter(q) PROVE TypeInv'
<1> USE DEF Rejeter, Commencer, Requete, Vers, tontineVars, livreVars, courseVars
<1>1. DrapeauxOK'
  BY Zenon DEF TypeInv, TypeOK, DrapeauxOK
<1>2. pc' \in [Requetes -> Etapes] /\ loc' \in [Requetes -> Locales]
  <2>1. pc' \in [Requetes -> Etapes]
    BY DEF TypeInv, TypeOK, Etapes
  <2>2. loc' \in [Requetes -> Locales]
    BY RetraitsAssumption DEF TypeInv, TypeOK, Locales, Existants
  <2>. QED
    BY <2>1, <2>2
<1>3. EtapeOK(q)'
  BY DEF TypeInv, TypeOK, EtapeOK, Locales, Existants, Retrait, Repos, Requete
<1>. QED
  BY <1>1, <1>2, <1>3, Autres DEF TypeInv, TypeOK, LignesOK, Existants

LEMMA TypeChercherCle ==
  ASSUME TypeInv, NEW q \in Requetes, ChercherCle(q) PROVE TypeInv'
<1> USE DEF ChercherCle, Repondre, Vers, tontineVars, livreVars, courseVars
<1>1. DrapeauxOK'
  BY Zenon DEF TypeInv, TypeOK, DrapeauxOK
<1>2. pc' \in [Requetes -> Etapes] /\ loc' \in [Requetes -> Locales]
  <2>1. pc' \in [Requetes -> Etapes]
    BY DEF TypeInv, TypeOK, Etapes
  <2>2. loc' \in [Requetes -> Locales]
    BY ReposType DEF TypeInv, TypeOK
  <2>. QED
    BY <2>1, <2>2
<1>3. EtapeOK(q)'
  BY DEF TypeInv, TypeOK, EtapeOK, Locales, Existants, Retrait, Repos, Requete
<1>. QED
  BY <1>1, <1>2, <1>3, Autres DEF TypeInv, TypeOK, LignesOK, Existants

LEMMA TypeChercherOtp ==
  ASSUME TypeInv, NEW q \in Requetes, ChercherOtp(q) PROVE TypeInv'
<1> USE DEF ChercherOtp, Repondre, Vers, tontineVars, livreVars, courseVars
<1>1. DrapeauxOK'
  BY Zenon DEF TypeInv, TypeOK, DrapeauxOK
<1>2. pc' \in [Requetes -> Etapes] /\ loc' \in [Requetes -> Locales]
  <2>1. pc' \in [Requetes -> Etapes]
    BY DEF TypeInv, TypeOK, Etapes
  <2>2. loc' \in [Requetes -> Locales]
    BY ReposType DEF TypeInv, TypeOK
  <2>. QED
    BY <2>1, <2>2
<1>3. EtapeOK(q)'
  BY DEF TypeInv, TypeOK, EtapeOK, Locales, Existants, Retrait, Repos, Requete
<1>. QED
  BY <1>1, <1>2, <1>3, Autres DEF TypeInv, TypeOK, LignesOK, Existants

LEMMA TypeLireTontine ==
  ASSUME TypeInv, NEW q \in Requetes, LireTontine(q) PROVE TypeInv'
<1> USE DEF LireTontine, Vers, tontineVars, livreVars, courseVars
<1>1. DrapeauxOK'
  BY Zenon DEF TypeInv, TypeOK, DrapeauxOK
<1>2. pc' \in [Requetes -> Etapes] /\ loc' \in [Requetes -> Locales]
  <2>1. pc' \in [Requetes -> Etapes]
    BY DEF TypeInv, TypeOK, Etapes
  <2>2. loc' \in [Requetes -> Locales]
    <3>1. loc' = [loc EXCEPT ![q] = [loc[q] EXCEPT !.solde = solde]]
          /\ loc[q] \in Locales /\ solde \in Int
      BY DEF TypeInv, TypeOK
    <3>2. [loc[q] EXCEPT !.solde = solde] \in Locales
      BY <3>1, ChampsLocales
    <3>. QED
      BY <3>1, <3>2 DEF TypeInv, TypeOK
  <2>. QED
    BY <2>1, <2>2
<1>3. EtapeOK(q)'
  BY DEF TypeInv, TypeOK, EtapeOK, Locales, Existants, Retrait, Repos, Requete
<1>. QED
  BY <1>1, <1>2, <1>3, Autres DEF TypeInv, TypeOK, LignesOK, Existants

LEMMA TypeLireSolde ==
  ASSUME TypeInv, NEW q \in Requetes, LireSolde(q) PROVE TypeInv'
<1> USE DEF LireSolde, Repondre, Vers, tontineVars, livreVars, courseVars
<1>1. DrapeauxOK'
  BY Zenon DEF TypeInv, TypeOK, DrapeauxOK
<1>2. pc' \in [Requetes -> Etapes] /\ loc' \in [Requetes -> Locales]
  <2>1. pc' \in [Requetes -> Etapes]
    BY DEF TypeInv, TypeOK, Etapes
  <2>2. loc' \in [Requetes -> Locales]
    BY ReposType DEF TypeInv, TypeOK
  <2>. QED
    BY <2>1, <2>2
<1>3. EtapeOK(q)'
  BY DEF TypeInv, TypeOK, EtapeOK, Locales, Existants, Retrait, Repos, Requete
<1>. QED
  BY <1>1, <1>2, <1>3, Autres DEF TypeInv, TypeOK, LignesOK, Existants

LEMMA TypeConsommerOtp ==
  ASSUME TypeInv, NEW q \in Requetes, ConsommerOtp(q) PROVE TypeInv'
<1> USE DEF ConsommerOtp, Vers, tontineVars, livreVars, courseVars
<1>1. DrapeauxOK'
  BY Zenon DEF TypeInv, TypeOK, DrapeauxOK
<1>2. pc' \in [Requetes -> Etapes] /\ loc' \in [Requetes -> Locales]
  BY DEF TypeInv, TypeOK, Etapes
<1>3. otps' \in Seq(CodeOTP)
  <2>1. otps' = [otps EXCEPT ![loc[q].code].utilise = TRUE]
    BY DEF ConsommerOtp
  <2>2. /\ otps \in Seq(CodeOTP) /\ Len(otps) \in Nat
        /\ otps = [o \in 1..Len(otps) |-> otps[o]]
    BY DEF TypeInv, TypeOK
  <2>3. \A o \in 1..Len(otps) : otps[o] \in CodeOTP
    BY <2>2
  <2>4. \A o \in 1..Len(otps) : [otps[o] EXCEPT !.utilise = TRUE] \in CodeOTP
    BY <2>3, ChampsCodeOTP
  <2>5. otps' \in [1..Len(otps) -> CodeOTP]
    BY <2>1, <2>2, <2>3, <2>4
  <2>. QED
    BY <2>5, <2>2
<1>4. EtapeOK(q)'
  BY DEF TypeInv, TypeOK, EtapeOK, Existants, Repos, Requete
<1>. QED
  BY <1>1, <1>2, <1>3, <1>4, Autres DEF TypeInv, TypeOK, LignesOK, Existants

LEMMA TypeInvaliderOtps ==
  ASSUME TypeInv, NEW q \in Requetes, InvaliderOtps(q) PROVE TypeInv'
<1> USE DEF InvaliderOtps, Vers, tontineVars, livreVars, courseVars
<1>1. DrapeauxOK'
  BY Zenon DEF TypeInv, TypeOK, DrapeauxOK
<1>2. pc' \in [Requetes -> Etapes] /\ loc' \in [Requetes -> Locales]
  BY DEF TypeInv, TypeOK, Etapes
<1>3. otps' \in Seq(CodeOTP)
  <2>1. otps' = [o \in 1..Len(otps) |-> [otps[o] EXCEPT !.utilise = TRUE]]
    BY DEF InvaliderOtps, TypeInv, TypeOK
  <2>2. otps \in Seq(CodeOTP) /\ Len(otps) \in Nat
    BY DEF TypeInv, TypeOK
  <2>3. \A o \in 1..Len(otps) : otps[o] \in CodeOTP
    BY <2>2
  <2>4. \A o \in 1..Len(otps) : [otps[o] EXCEPT !.utilise = TRUE] \in CodeOTP
    BY <2>3, ChampsCodeOTP
  <2>5. otps' \in [1..Len(otps) -> CodeOTP]
    BY <2>1, <2>4
  <2>. QED
    BY <2>5, <2>2
<1>4. EtapeOK(q)'
  BY DEF TypeInv, TypeOK, EtapeOK, Existants, Repos, Requete
<1>. QED
  BY <1>1, <1>2, <1>3, <1>4, Autres DEF TypeInv, TypeOK, LignesOK, Existants

LEMMA TypeCreerOtp ==
  ASSUME TypeInv, NEW q \in Requetes, CreerOtp(q) PROVE TypeInv'
<1> USE DEF CreerOtp, Repondre, Vers, tontineVars, livreVars, courseVars
<1>1. DrapeauxOK'
  BY Zenon DEF TypeInv, TypeOK, DrapeauxOK
<1>2. pc' \in [Requetes -> Etapes] /\ loc' \in [Requetes -> Locales]
  BY ReposType DEF TypeInv, TypeOK, Etapes
<1>3. otps' \in Seq(CodeOTP)
  <2>1. loc[q].montant \in Montants /\ otps \in Seq(CodeOTP)
    BY DEF TypeInv, TypeOK, EtapeOK
  <2>2. [montant |-> loc[q].montant, utilise |-> FALSE, expire |-> FALSE] \in CodeOTP
    BY <2>1 DEF CodeOTP
  <2>. QED
    BY <2>1, <2>2
<1>4. EtapeOK(q)'
  BY DEF TypeInv, TypeOK, EtapeOK, Existants, Repos, Requete
<1>. QED
  BY <1>1, <1>2, <1>3, <1>4, Autres DEF TypeInv, TypeOK, LignesOK, Existants

LEMMA TypeVerifier ==
  ASSUME TypeInv, NEW q \in Requetes, Verifier(q) PROVE TypeInv'
<1> USE DEF Verifier, Repondre, Vers, tontineVars, livreVars, courseVars
<1>1. DrapeauxOK'
  BY Zenon DEF TypeInv, TypeOK, DrapeauxOK
<1>2. pc' \in [Requetes -> Etapes]
  BY DEF TypeInv, TypeOK, Etapes
<1>3. CASE ~RetraitPossible(q)
  <2>1. loc' \in [Requetes -> Locales]
    BY <1>3, ReposType DEF TypeInv, TypeOK
  <2>2. EtapeOK(q)'
    BY <1>3 DEF TypeInv, TypeOK, EtapeOK
  <2>. QED
    BY <1>1, <1>2, <2>1, <2>2, Autres DEF TypeInv, TypeOK, LignesOK, Existants
<1>4. CASE RetraitPossible(q)
  <2>1. loc' = [loc EXCEPT ![q] = [loc[q] EXCEPT !.solde = 0]] /\ loc[q] \in Locales
    BY <1>4 DEF TypeInv, TypeOK
  <2>2. [loc[q] EXCEPT !.solde = 0] \in Locales
    BY <2>1, ChampsLocales
  <2>3. loc' \in [Requetes -> Locales]
    BY <2>1, <2>2 DEF TypeInv, TypeOK
  <2>4. EtapeOK(q)'
    <3>1. pc' = [pc EXCEPT ![q] = IF loc[q].op = "demanderOtp" THEN "invalider" ELSE "creer"]
          /\ pc[q] = "alerte" /\ q \in DOMAIN pc
      BY <1>4 DEF TypeInv, TypeOK
    <3>2. /\ loc'[q].op = loc[q].op /\ loc[q].op \in {"demanderOtp", "confirmer"}
          /\ loc'[q].montant \in Montants
      BY <2>1, <3>1 DEF TypeInv, TypeOK, EtapeOK, Locales
    <3>3. \/ pc'[q] = "invalider" /\ loc'[q].op = "demanderOtp"
          \/ pc'[q] = "creer" /\ loc'[q].op = "confirmer"
      BY <3>1, <3>2
    <3>. QED
      BY <3>2, <3>3 DEF EtapeOK
  <2>. QED
    BY <1>1, <1>2, <2>1, <2>3, <2>4, Autres DEF TypeInv, TypeOK, LignesOK, Existants
<1>. QED
  BY <1>3, <1>4

LEMMA TypeTransferer ==
  ASSUME TypeInv, NEW q \in Requetes, Transferer(q) PROVE TypeInv'
<1> USE DEF Transferer, Vers, tontineVars, livreVars, courseVars
<1>1. DrapeauxOK'
  BY Zenon DEF TypeInv, TypeOK, DrapeauxOK
<1>2. pc' \in [Requetes -> Etapes]
  BY DEF TypeInv, TypeOK, Etapes
<1>3. envois' \in [RetraitIds -> Nat]
  BY DEF TypeInv, TypeOK, EtapeOK, Existants
<1>4. TypeOK'
  BY <1>1, <1>2, <1>3 DEF TypeInv, TypeOK
<1>5. EtapeOK(q)'
  BY DEF TypeInv, TypeOK, EtapeOK, Existants
<1>. QED
  BY <1>4, <1>5, Autres DEF TypeInv, TypeOK, LignesOK, Existants

LEMMA TypeLireRetrait ==
  ASSUME TypeInv, NEW q \in Requetes, LireRetrait(q) PROVE TypeInv'
<1> USE DEF LireRetrait, Repondre, Vers, tontineVars, livreVars, courseVars
<1>1. DrapeauxOK'
  BY Zenon DEF TypeInv, TypeOK, DrapeauxOK
<1>2. pc' \in [Requetes -> Etapes]
  BY DEF TypeInv, TypeOK, Etapes
<1>. DEFINE r == loc[q].retrait
<1>3. CASE retraits[r].statut # "EN_ATTENTE"
  <2>1. loc' \in [Requetes -> Locales]
    BY <1>3, ReposType DEF TypeInv, TypeOK
  <2>2. EtapeOK(q)'
    BY <1>3 DEF TypeInv, TypeOK, EtapeOK
  <2>. QED
    BY <1>1, <1>2, <2>1, <2>2, Autres DEF TypeInv, TypeOK, LignesOK, Existants
<1>4. CASE retraits[r].statut = "EN_ATTENTE"
  <2>1. loc' = [loc EXCEPT ![q] = [loc[q] EXCEPT !.montant = retraits[r].montant]]
        /\ loc[q] \in Locales /\ r \in Existants
    BY <1>4 DEF TypeInv, TypeOK, EtapeOK
  <2>2. retraits[r].montant \in Montants
    BY <2>1 DEF TypeInv, LignesOK
  <2>3. loc' \in [Requetes -> Locales]
    BY <2>1, <2>2, ChampsLocales DEF TypeInv, TypeOK
  <2>4. EtapeOK(q)'
    BY <1>4, <2>1, <2>2 DEF TypeInv, TypeOK, EtapeOK, Locales, Existants
  <2>. QED
    BY <1>1, <1>2, <2>3, <2>4, <2>1, Autres DEF TypeInv, TypeOK, LignesOK, Existants
<1>. QED
  BY <1>3, <1>4

LEMMA TypeCreerRetrait ==
  ASSUME TypeInv, NEW q \in Requetes, CreerRetrait(q) PROVE TypeInv'
<1> USE DEF CreerRetrait, Vers, tontineVars, livreVars, courseVars
<1>1. DrapeauxOK'
  BY Zenon DEF TypeInv, TypeOK, DrapeauxOK
<1>2. CASE ~CleLibre(loc[q].cle)
  <2>1. pc' \in [Requetes -> Etapes] /\ loc' \in [Requetes -> Locales] /\ retraits' = retraits
    BY <1>2, ReposType DEF Repondre, TypeInv, TypeOK, Etapes
  <2>2. EtapeOK(q)'
    BY <1>2 DEF Repondre, TypeInv, TypeOK, EtapeOK
  <2>. QED
    BY <1>1, <1>2, <2>1, <2>2, Autres DEF Repondre, TypeInv, TypeOK, LignesOK, Existants
<1>3. CASE CleLibre(loc[q].cle)
  <2>. DEFINE m == loc[q].montant
              ligne == [statut |-> StatutInitial(m), montant |-> m, cle |-> loc[q].cle,
                        validePar |-> FALSE, otp |-> loc[q].code]
  <2>1. PICK r \in RetraitIds \ Existants :
          /\ retraits' = [retraits EXCEPT ![r] = ligne]
          /\ IF NecessiteAdmin(m) THEN Repondre(q)
             ELSE /\ Vers(q, "transfert")
                  /\ loc' = [loc EXCEPT ![q].retrait = r]
    BY <1>3
  <2>2. loc[q] \in Locales /\ m \in Montants /\ loc[q].op = "confirmer"
    BY DEF TypeInv, TypeOK, EtapeOK
  <2>3. ligne \in Retrait /\ ligne.statut # "ABSENT" /\ ligne.montant = m
    BY <2>2 DEF Retrait, Locales, StatutInitial, Statuts
  <2>4. retraits' \in [RetraitIds -> Retrait]
    BY <2>1, <2>3 DEF TypeInv, TypeOK
  <2>5. Existants' = Existants \cup {r}
    BY <2>1, <2>3 DEF TypeInv, TypeOK, Existants
  <2>6. LignesOK'
    BY <2>1, <2>2, <2>3, <2>5 DEF TypeInv, TypeOK, LignesOK, Existants
  <2>8. CASE NecessiteAdmin(m)
    <3>1. pc' \in [Requetes -> Etapes] /\ loc' \in [Requetes -> Locales]
      BY <2>1, <2>8, ReposType DEF TypeInv, TypeOK, Etapes, Repondre
    <3>2. EtapeOK(q)'
      BY <2>1, <2>8 DEF TypeInv, TypeOK, EtapeOK, Repondre
    <3>. QED
      BY <1>1, <2>1, <2>4, <2>5, <2>6, <2>8, <3>1, <3>2, Autres
      DEF TypeInv, TypeOK, Repondre
  <2>9. CASE ~NecessiteAdmin(m)
    <3>1. loc' = [loc EXCEPT ![q] = [loc[q] EXCEPT !.retrait = r]]
      BY <2>1, <2>9
    <3>2. pc' \in [Requetes -> Etapes] /\ loc' \in [Requetes -> Locales]
      BY <2>1, <2>2, <2>9, <3>1, ChampsLocales DEF TypeInv, TypeOK, Etapes
    <3>3. EtapeOK(q)'
      BY <2>1, <2>2, <2>5, <2>9, <3>1 DEF TypeInv, TypeOK, EtapeOK, Locales
    <3>. QED
      BY <1>1, <2>1, <2>4, <2>5, <2>6, <2>9, <3>1, <3>2, <3>3, Autres
      DEF TypeInv, TypeOK
  <2>. QED
    BY <2>8, <2>9
<1>. QED
  BY <1>2, <1>3

LEMMA TypeEnregistrer ==
  ASSUME TypeInv, NEW q \in Requetes, Enregistrer(q) PROVE TypeInv'
<1> USE DEF Enregistrer, Repondre, Vers, tontineVars, livreVars, courseVars
<1>. DEFINE r == loc[q].retrait  m == loc[q].montant
<1>1. DrapeauxOK'
  BY Zenon DEF TypeInv, TypeOK, DrapeauxOK
<1>2. pc' \in [Requetes -> Etapes] /\ loc' \in [Requetes -> Locales]
  BY ReposType DEF TypeInv, TypeOK, Etapes
<1>3. r \in Existants /\ m \in Montants /\ retraits[r] \in Retrait
  BY DEF TypeInv, TypeOK, EtapeOK, Existants
<1>4. retraits' = [retraits EXCEPT ![r] = [retraits[r] EXCEPT !.statut = "EXECUTE"]]
  OBVIOUS
<1>5. [retraits[r] EXCEPT !.statut = "EXECUTE"] \in Retrait
  BY <1>3, ChampsRetrait DEF Statuts
<1>6. retraits' \in [RetraitIds -> Retrait] /\ Existants' = Existants /\ LignesOK'
  BY <1>3, <1>4, <1>5 DEF TypeInv, TypeOK, LignesOK, Existants, Retrait
<1>7. /\ solde' \in Int /\ commission' \in Nat
      /\ enregistres' \in [RetraitIds -> Nat]
  <2>1. m \in Int /\ FraisAgent[m] \in Nat /\ r \in RetraitIds
    BY <1>3, RetraitsAssumption DEF Existants
  <2>2. solde \in Int /\ commission \in Nat /\ enregistres \in [RetraitIds -> Nat]
    BY DEF TypeInv, TypeOK
  <2>3. solde' = solde - m /\ commission' = commission + FraisAgent[m]
    OBVIOUS
  <2>4. enregistres' = [enregistres EXCEPT ![r] = enregistres[r] + 1]
    OBVIOUS
  <2>. QED
    BY <2>1, <2>2, <2>3, <2>4
<1>8. TypeOK'
  BY <1>1, <1>2, <1>6, <1>7 DEF TypeInv, TypeOK
<1>9. EtapeOK(q)'
  BY DEF TypeInv, TypeOK, EtapeOK
<1>. QED
  BY <1>6, <1>8, <1>9, Autres DEF TypeInv, TypeOK

LEMMA TypeDecision ==
  ASSUME TypeInv, NEW r \in Existants, NEW s \in Statuts \ {"ABSENT"},
         retraits' = Decision(r, s)
  PROVE  retraits' \in [RetraitIds -> Retrait] /\ Existants' = Existants /\ LignesOK'
<1>. DEFINE ligne == [statut |-> s, montant |-> retraits[r].montant, cle |-> retraits[r].cle,
                      validePar |-> TRUE, otp |-> retraits[r].otp]
<1>1. retraits' = [retraits EXCEPT ![r] = ligne]
  BY DEF Decision
<1>2. ligne \in Retrait /\ ligne.statut # "ABSENT" /\ ligne.montant = retraits[r].montant
  BY ChampsRetrait DEF TypeInv, TypeOK, Existants
<1>. QED
  BY <1>1, <1>2 DEF TypeInv, TypeOK, LignesOK, Existants

LEMMA TypeMarquerValide ==
  ASSUME TypeInv, NEW q \in Requetes, MarquerValide(q) PROVE TypeInv'
<1> USE DEF MarquerValide, Vers, tontineVars, livreVars, courseVars
<1>1. DrapeauxOK'
  BY Zenon DEF TypeInv, TypeOK, DrapeauxOK
<1>2. pc' \in [Requetes -> Etapes]
  BY DEF TypeInv, TypeOK, Etapes
<1>3. loc[q].retrait \in Existants /\ loc[q].op \in {"valider", "rejeter"}
  BY DEF TypeInv, TypeOK, EtapeOK
<1>4. retraits' \in [RetraitIds -> Retrait] /\ Existants' = Existants /\ LignesOK'
  BY <1>3, TypeDecision DEF Statuts
<1>5. EtapeOK(q)'
  BY <1>3, <1>4 DEF TypeInv, TypeOK, EtapeOK
<1>. QED
  BY <1>1, <1>2, <1>4, <1>5, Autres DEF TypeInv, TypeOK

LEMMA TypeMarquerRejete ==
  ASSUME TypeInv, NEW q \in Requetes, MarquerRejete(q) PROVE TypeInv'
<1> USE DEF MarquerRejete, Repondre, Vers, tontineVars, livreVars, courseVars
<1>1. DrapeauxOK'
  BY Zenon DEF TypeInv, TypeOK, DrapeauxOK
<1>2. pc' \in [Requetes -> Etapes] /\ loc' \in [Requetes -> Locales]
  BY ReposType DEF TypeInv, TypeOK, Etapes
<1>3. loc[q].retrait \in Existants
  BY DEF TypeInv, TypeOK, EtapeOK
<1>4. retraits' \in [RetraitIds -> Retrait] /\ Existants' = Existants /\ LignesOK'
  BY <1>3, TypeDecision DEF Statuts
<1>5. EtapeOK(q)'
  BY DEF TypeInv, TypeOK, EtapeOK
<1>. QED
  BY <1>1, <1>2, <1>4, <1>5, Autres DEF TypeInv, TypeOK
LEMMA TypeEnvironnement ==
  ASSUME TypeInv, Crediter \/ ChangerAlerte \/ PasserDate \/ ExpirerOtp \/ Panne
  PROVE  TypeInv'
<1> USE DEF tontineVars, livreVars, procVars, courseVars
<1>1. CASE Crediter
  <2>1. DrapeauxOK'
    BY <1>1, Zenon DEF Crediter, TypeInv, TypeOK, DrapeauxOK
  <2>2. PICK m \in Montants : solde' = solde + m /\ credits' = credits + m
    BY <1>1 DEF Crediter
  <2>3. solde' \in Int /\ credits' \in Nat
    BY <2>2, RetraitsAssumption DEF TypeInv, TypeOK
  <2>. QED
    BY <1>1, <2>1, <2>3 DEF Crediter, TypeInv, TypeOK, LignesOK, EtapeOK, Existants
<1>2. CASE ChangerAlerte \/ PasserDate
  <2>1. DrapeauxOK'
    BY <1>2, Zenon DEF ChangerAlerte, PasserDate, TypeInv, TypeOK, DrapeauxOK
  <2>. QED
    BY <1>2, <2>1 DEF ChangerAlerte, PasserDate, TypeInv, TypeOK, LignesOK, EtapeOK, Existants
<1>3. CASE ExpirerOtp
  <2>1. DrapeauxOK'
    BY <1>3, Zenon DEF ExpirerOtp, TypeInv, TypeOK, DrapeauxOK
  <2>2. PICK o \in DOMAIN otps : otps' = [otps EXCEPT ![o].expire = TRUE]
    BY <1>3 DEF ExpirerOtp
  <2>3. /\ otps \in Seq(CodeOTP) /\ Len(otps) \in Nat
        /\ otps = [p \in 1..Len(otps) |-> otps[p]]
        /\ \A p \in 1..Len(otps) : otps[p] \in CodeOTP
    BY DEF TypeInv, TypeOK
  <2>4. \A p \in 1..Len(otps) : [otps[p] EXCEPT !.expire = TRUE] \in CodeOTP
    BY <2>3, ChampsCodeOTP
  <2>5. otps' \in [1..Len(otps) -> CodeOTP]
    BY <2>2, <2>3, <2>4
  <2>6. otps' \in Seq(CodeOTP)
    BY <2>3, <2>5
  <2>. QED
    BY <1>3, <2>1, <2>6 DEF ExpirerOtp, TypeInv, TypeOK, LignesOK, EtapeOK, Existants
<1>4. CASE Panne
  <2>1. DrapeauxOK'
    BY <1>4, Zenon DEF Panne, TypeInv, TypeOK, DrapeauxOK
  <2>2. pc' \in [Requetes -> Etapes] /\ loc' \in [Requetes -> Locales]
    BY <1>4, ReposType DEF Panne, Etapes
  <2>3. \A q \in Requetes : EtapeOK(q)'
    BY <1>4 DEF Panne, EtapeOK
  <2>. QED
    BY <1>4, <2>1, <2>2, <2>3 DEF Panne, TypeInv, TypeOK, LignesOK, Existants
<1>. QED
  BY <1>1, <1>2, <1>3, <1>4

LEMMA TypeNext == TypeInv /\ [Next]_vars => TypeInv'
<1> SUFFICES ASSUME TypeInv, [Next]_vars PROVE TypeInv'
  OBVIOUS
<1>1. ASSUME NEW q \in Requetes, Recevoir(q) PROVE TypeInv'
  BY <1>1, TypeDemanderOtp, TypeConfirmer, TypeValider, TypeRejeter DEF Recevoir
<1>2. ASSUME NEW q \in Requetes, Poursuivre(q) PROVE TypeInv'
  BY <1>2, TypeChercherCle, TypeChercherOtp, TypeConsommerOtp, TypeLireTontine,
     TypeVerifier, TypeInvaliderOtps, TypeCreerOtp, TypeCreerRetrait,
     TypeTransferer, TypeEnregistrer, TypeLireRetrait, TypeLireSolde,
     TypeMarquerValide, TypeMarquerRejete
  DEF Poursuivre
<1>3. CASE UNCHANGED vars
  <2>1. DrapeauxOK'
    BY <1>3, Zenon DEF vars, tontineVars, courseVars, TypeInv, TypeOK, DrapeauxOK
  <2>. QED
    BY <1>3, <2>1 DEF vars, tontineVars, livreVars, procVars, courseVars, TypeInv,
       TypeOK, LignesOK, EtapeOK, Existants
<1>. QED
  BY <1>1, <1>2, <1>3, TypeEnvironnement DEF Next

LEMMA TypeInvariant == Spec => []TypeInv
  BY TypeInit, TypeNext, PTL DEF Spec

(* Every row, code and local variable keeps its type, whatever handlers run *)
(* together and wherever the server crashes.                                *)
THEOREM TypeCorrect == Spec => []TypeOK
<1>1. TypeInv => TypeOK
  BY DEF TypeInv
<1>. QED
  BY <1>1, TypeInvariant, PTL
-----------------------------------------------------------------------------
(* The overdraft.  As long as no two handlers overlapped, at most one is   *)
(* between its check and its debit, and the balance still covers it: the   *)
(* others only pay in.                                                     *)

Borne(q) == IF pc[q] = "alerte" THEN loc[q].solde <= solde
                                ELSE loc[q].montant <= solde

DecouvertInv ==
    \/ courseSolde
    \/ /\ solde >= 0
       /\ \A p, q \in Requetes : Depense(p) /\ Depense(q) => p = q
       /\ \A q \in Requetes : Depense(q) => Borne(q)

LEMMA Entiers ==
  ASSUME TypeInv, NEW q \in Requetes
  PROVE  loc[q].montant \in Int /\ loc[q].solde \in Int /\ solde \in Int
<1>1. \A m \in Montants \cup {0} : m \in Int
  BY RetraitsAssumption
<1>2. loc[q] \in Locales /\ solde \in Int
  BY DEF TypeInv, TypeOK
<1>3. loc[q].montant \in Montants \cup {0} /\ loc[q].solde \in Int
  BY <1>2 DEF Locales
<1>. QED
  BY <1>1, <1>2, <1>3

LEMMA DecouvertInit == Init => DecouvertInv
  BY RetraitsAssumption DEF Init, DecouvertInv, Depense

(* A step of q that debits nothing, and after which q is between check and *)
(* debit only if it was before.                                            *)
LEMMA DecouvertPas ==
  ASSUME TypeInv, DecouvertInv, ~courseSolde, NEW q \in Requetes,
         solde' = solde,
         \A p \in Requetes \ {q} : pc'[p] = pc[p] /\ loc'[p] = loc[p],
         Depense(q)' => Depense(q) /\ Borne(q)'
  PROVE  DecouvertInv'
<1>1. \A p \in Requetes \ {q} : (Depense(p)' <=> Depense(p)) /\ (Borne(p)' <=> Borne(p))
  BY DEF Depense, Borne
<1>2. solde >= 0 /\ \A p \in Requetes : Depense(p) => Borne(p)
  BY DEF DecouvertInv
<1>3. \A p, r \in Requetes : Depense(p)' /\ Depense(r)' => p = r
  BY <1>1 DEF DecouvertInv
<1>. QED
  BY <1>1, <1>2, <1>3 DEF DecouvertInv

LEMMA DecouvertRecevoir ==
  ASSUME TypeInv, DecouvertInv, ~courseSolde, NEW q \in Requetes, Recevoir(q)
  PROVE  DecouvertInv'
<1>1. /\ solde' = solde /\ pc'[q] \notin {"alerte", "creer", "marquer", "transfert", "enregistrer"}
      /\ \A p \in Requetes \ {q} : pc'[p] = pc[p] /\ loc'[p] = loc[p]
  BY DEF Recevoir, DemanderOtp, Confirmer, Valider, Rejeter, Commencer, Vers,
     tontineVars, TypeInv, TypeOK
<1>. QED
  BY <1>1, DecouvertPas DEF Depense

(* The steps before and after the window, and those inside it that only go *)
(* on with what was checked.                                               *)
LEMMA DecouvertPoursuivre ==
  ASSUME TypeInv, TypeInv', DecouvertInv, ~courseSolde, ~courseSolde',
         NEW q \in Requetes, Poursuivre(q)
  PROVE  DecouvertInv'
<1> USE DEF Vers, Repondre, tontineVars, TypeInv, TypeOK
<1>1. CASE \/ ChercherCle(q) \/ ChercherOtp(q) \/ ConsommerOtp(q)
           \/ InvaliderOtps(q) \/ CreerOtp(q) \/ LireRetrait(q) \/ MarquerRejete(q)
  <2>1. /\ solde' = solde
        /\ pc'[q] \notin {"alerte", "creer", "marquer", "transfert", "enregistrer"}
        /\ \A p \in Requetes \ {q} : pc'[p] = pc[p] /\ loc'[p] = loc[p]
    BY <1>1 DEF ChercherCle, ChercherOtp, ConsommerOtp, InvaliderOtps, CreerOtp,
       LireRetrait, MarquerRejete
  <2>. QED
    BY <2>1, DecouvertPas DEF Depense
<1>2. CASE LireTontine(q)
  <2>1. /\ solde' = solde /\ pc'[q] = "alerte" /\ loc'[q].solde = solde
        /\ loc'[q].op = loc[q].op
        /\ \A p \in Requetes \ {q} : pc'[p] = pc[p] /\ loc'[p] = loc[p]
    BY <1>2 DEF LireTontine, Locales
  <2>2. loc[q].op \in {"demanderOtp", "confirmer"}
    BY <1>2 DEF LireTontine, EtapeOK
  <2>3. CASE loc[q].op = "demanderOtp"
    BY <2>1, <2>3, DecouvertPas DEF Depense
  <2>4. CASE loc[q].op = "confirmer"
    <3>1. \A p \in Requetes : ~Depense(p)
      BY <1>2, <2>4 DEF LireTontine
    <3>2. \A p \in Requetes \ {q} : ~Depense(p)'
      BY <2>1, <3>1 DEF Depense
    <3>3. Borne(q)' /\ solde' >= 0
      BY <2>1 DEF Borne, DecouvertInv
    <3>. QED
      BY <3>2, <3>3 DEF DecouvertInv
  <2>. QED
    BY <2>2, <2>3, <2>4
<1>3. CASE Verifier(q)
  <2>1. /\ solde' = solde
        /\ \A p \in Requetes \ {q} : pc'[p] = pc[p] /\ loc'[p] = loc[p]
    BY <1>3 DEF Verifier
  <2>2. ASSUME Depense(q)' PROVE Depense(q) /\ Borne(q)'
    <3>1. /\ RetraitPossible(q) /\ pc[q] = "alerte" /\ loc[q].op # "demanderOtp"
          /\ pc'[q] = "creer" /\ loc' = [loc EXCEPT ![q].solde = 0]
      BY <1>3, <2>2 DEF Verifier, Depense, Repos, Requete, Locales
    <3>2. Depense(q) /\ loc[q].montant <= loc[q].solde /\ loc[q].solde <= solde
      BY <3>1 DEF Depense, DecouvertInv, Borne, RetraitPossible, Locales
    <3>3. loc'[q].montant = loc[q].montant
      BY <3>1 DEF Locales
    <3>4. loc[q].montant \in Int /\ loc[q].solde \in Int /\ solde \in Int
      BY Entiers
    <3>. QED
      BY <2>1, <3>1, <3>2, <3>3, <3>4 DEF Borne
  <2>. QED
    BY <2>1, <2>2, DecouvertPas
<1>4. CASE CreerRetrait(q) \/ MarquerValide(q) \/ Transferer(q)
  <2>1. /\ solde' = solde /\ pc[q] \in {"creer", "marquer", "transfert"}
        /\ \A p \in Requetes \ {q} : pc'[p] = pc[p] /\ loc'[p] = loc[p]
        /\ pc'[q] \in {"libre", "transfert", "enregistrer"}
    BY <1>4 DEF CreerRetrait, MarquerValide, Transferer
  <2>2. Depense(q)
    BY <2>1 DEF Depense, EtapeOK
  <2>3. ASSUME pc'[q] # "libre" PROVE loc'[q].montant = loc[q].montant
    BY <1>4, <2>3 DEF CreerRetrait, MarquerValide, Transferer, Locales
  <2>4. loc[q].montant <= solde
    BY <2>1, <2>2 DEF DecouvertInv, Borne
  <2>. QED
    BY <2>1, <2>2, <2>3, <2>4, DecouvertPas DEF Depense, Borne
<1>5. CASE Enregistrer(q)
  <2>1. /\ solde' = solde - loc[q].montant /\ pc[q] = "enregistrer" /\ pc'[q] = "libre"
        /\ \A p \in Requetes \ {q} : pc'[p] = pc[p] /\ loc'[p] = loc[p]
    BY <1>5 DEF Enregistrer
  <2>2. Depense(q) /\ loc[q].montant \in Int
    BY <2>1, Entiers DEF Depense, EtapeOK
  <2>3. loc[q].montant <= solde /\ \A p \in Requetes \ {q} : ~Depense(p)
    BY <2>1, <2>2 DEF DecouvertInv, Borne
  <2>4. \A p \in Requetes : ~Depense(p)'
    BY <2>1, <2>3 DEF Depense
  <2>5. solde' >= 0
    BY <2>1, <2>2, <2>3
  <2>. QED
    BY <2>4, <2>5 DEF DecouvertInv
<1>6. CASE LireSolde(q)
  <2>1. /\ solde' = solde /\ loc[q].montant \in Int
        /\ \A p \in Requetes \ {q} : pc'[p] = pc[p] /\ loc'[p] = loc[p]
    BY <1>6, Entiers DEF LireSolde
  <2>2. CASE solde < loc[q].montant
    BY <1>6, <2>1, <2>2, DecouvertPas DEF LireSolde, Depense
  <2>3. CASE solde >= loc[q].montant
    <3>1. \A p \in Requetes : ~Depense(p)
      BY <1>6, <2>3 DEF LireSolde
    <3>2. \A p \in Requetes \ {q} : ~Depense(p)'
      BY <2>1, <3>1 DEF Depense
    <3>3. pc'[q] = "marquer" /\ loc' = loc
      BY <1>6, <2>3 DEF LireSolde
    <3>4. Borne(q)' /\ solde' >= 0
      BY <2>1, <2>3, <3>3 DEF Borne, DecouvertInv
    <3>. QED
      BY <3>2, <3>4 DEF DecouvertInv
  <2>. QED
    BY <2>1, <2>2, <2>3
<1>. QED
  BY <1>1, <1>2, <1>3, <1>4, <1>5, <1>6 DEF Poursuivre

LEMMA DecouvertEnvironnement ==
  ASSUME TypeInv, DecouvertInv, ~courseSolde,
         Crediter \/ ChangerAlerte \/ PasserDate \/ ExpirerOtp \/ Panne
  PROVE  DecouvertInv'
<1> USE DEF procVars, tontineVars, TypeInv, TypeOK
<1>1. CASE Panne
  BY <1>1 DEF Panne, DecouvertInv, Depense
<1>2. CASE Crediter \/ ChangerAlerte \/ PasserDate \/ ExpirerOtp
  <2>1. solde' >= solde /\ solde' \in Int /\ pc' = pc /\ loc' = loc
    BY <1>2, RetraitsAssumption DEF Crediter, ChangerAlerte, PasserDate, ExpirerOtp
  <2>2. \A q \in Requetes : loc[q].solde \in Int /\ loc[q].montant \in Int
    BY Entiers
  <2>. QED
    BY <2>1, <2>2 DEF DecouvertInv, Depense, Borne
<1>. QED
  BY <1>1, <1>2

LEMMA DecouvertNext == TypeInv /\ TypeInv' /\ DecouvertInv /\ [Next]_vars => DecouvertInv'
<1> SUFFICES ASSUME TypeInv, TypeInv', DecouvertInv, [Next]_vars, ~courseSolde'
             PROVE  DecouvertInv'
  BY DEF DecouvertInv
<1>1. CASE UNCHANGED vars
  BY <1>1 DEF vars, tontineVars, livreVars, procVars, courseVars, DecouvertInv, Depense, Borne
<1>2. CASE Next
  <2>1. ~courseSolde
    BY <1>2 DEF Next, Recevoir, DemanderOtp, Confirmer, Valider, Rejeter, Commencer,
       Poursuivre, ChercherCle, ChercherOtp, ConsommerOtp, LireTontine, Verifier,
       InvaliderOtps, CreerOtp, CreerRetrait, Transferer, Enregistrer, LireRetrait,
       LireSolde, MarquerValide, MarquerRejete, Crediter, ChangerAlerte, PasserDate,
       ExpirerOtp, Panne, courseVars
  <2>. QED
    BY <1>2, <2>1, DecouvertRecevoir, DecouvertPoursuivre, DecouvertEnvironnement DEF Next
<1>. QED
  BY <1>1, <1>2

(* The balance checks suffice against an overdraft unless two handlers were *)
(* between check and debit at once, for any number of requests and crashes. *)
THEOREM SansDecouvert == Spec => []DecouvertSeulementSiCourse
<1>1. TypeInv /\ DecouvertInv => DecouvertSeulementSiCourse
  BY DEF DecouvertInv, DecouvertSeulementSiCourse, TypeInv, TypeOK
<1>. QED
  BY <1>1, DecouvertInit, DecouvertNext, TypeInvariant, PTL DEF Spec

-----------------------------------------------------------------------------
(* Who may take money out: the threshold of the administrator, the code,  *)
(* the policy of the tontine.                                              *)

(* A row that needs no administrator, or that one has decided on.          *)
Autorise(r) == retraits[r].montant >= SeuilAdmin => retraits[r].validePar

AdminInv ==
    /\ \A r \in RetraitIds : envois[r] > 0 => r \in Existants /\ Autorise(r)
    /\ \A q \in Requetes :
         pc[q] \in {"transfert", "enregistrer"} => Autorise(loc[q].retrait)

(* A code for amount m that was used, or invalidated by a newer one.       *)
Consomme(o, m) == o \in DOMAIN otps /\ otps[o].montant = m /\ otps[o].utilise

(* A handler checked such a code before it creates its row.                *)
CodeTenu(q) ==
    /\ pc[q] = "consommer" => /\ loc[q].code \in DOMAIN otps
                              /\ otps[loc[q].code].montant = loc[q].montant
    /\ pc[q] \in {"lire", "alerte", "creer"} /\ loc[q].op = "confirmer"
         => Consomme(loc[q].code, loc[q].montant)

CodesInv ==
    /\ \A r \in Existants : Consomme(retraits[r].otp, retraits[r].montant)
    /\ \A q \in Requetes : CodeTenu(q)

(* The policy allows a withdrawal now; it never stops to.                  *)
Permis ==
    /\ politique \in {"PROGRAMME", "BLOQUE"} => dateAtteinte
    /\ politique = "BLOQUE" => SoldeInitial + credits >= Objectif

PolitiqueTenue(q) ==
    /\ pc[q] = "alerte" => loc[q].solde <= SoldeInitial + credits
    /\ pc[q] = "creer" => Permis

PolitiqueInv ==
    /\ solde <= SoldeInitial + credits
    /\ \A r \in RetraitIds : envois[r] > 0 => r \in Existants
    /\ \A r \in Existants : Permis
    /\ \A q \in Requetes : PolitiqueTenue(q)

-----------------------------------------------------------------------------
(* What every step keeps.                                                  *)

(* A step of one request leaves the others alone.                          *)
LEMMA UnSeul ==
  ASSUME TypeInv, NEW q \in Requetes, Recevoir(q) \/ Poursuivre(q)
  PROVE  \A p \in Requetes \ {q} : pc'[p] = pc[p] /\ loc'[p] = loc[p]
<1> USE DEF TypeInv, TypeOK, Vers, Repondre
<1>1. CASE Recevoir(q)
  BY <1>1 DEF Recevoir, DemanderOtp, Confirmer, Valider, Rejeter, Commencer
<1>2. CASE ChercherCle(q) \/ ChercherOtp(q) \/ ConsommerOtp(q) \/ LireTontine(q)
  BY <1>2 DEF ChercherCle, ChercherOtp, ConsommerOtp, LireTontine
<1>3. CASE Verifier(q) \/ InvaliderOtps(q) \/ CreerOtp(q) \/ CreerRetrait(q)
  BY <1>3 DEF Verifier, InvaliderOtps, CreerOtp, CreerRetrait
<1>4. CASE Transferer(q) \/ Enregistrer(q) \/ LireRetrait(q) \/ LireSolde(q)
  BY <1>4 DEF Transferer, Enregistrer, LireRetrait, LireSolde
<1>5. CASE MarquerValide(q) \/ MarquerRejete(q)
  BY <1>5 DEF MarquerValide, MarquerRejete
<1>. QED
  BY <1>1, <1>2, <1>3, <1>4, <1>5 DEF Poursuivre

(* The environment moves no handler, except a crash that stops all.        *)
Environnement == Crediter \/ ChangerAlerte \/ PasserDate \/ ExpirerOtp \/ Panne

LEMMA EnvironnementProcs ==
  ASSUME TypeInv, Environnement \/ UNCHANGED vars, NEW p \in Requetes
  PROVE  pc'[p] = "libre" \/ (pc'[p] = pc[p] /\ loc'[p] = loc[p])
  BY DEF Environnement, Crediter, ChangerAlerte, PasserDate, ExpirerOtp, Panne, vars, procVars

(* The rows a step may write.                                              *)
LEMMA QuiEcrit ==
  ASSUME [Next]_vars
  PROVE  \/ retraits' = retraits
         \/ \E q \in Requetes :
              CreerRetrait(q) \/ Enregistrer(q) \/ MarquerValide(q) \/ MarquerRejete(q)
<1> USE DEF livreVars
<1>1. CASE UNCHANGED vars \/ Crediter \/ ChangerAlerte \/ PasserDate \/ ExpirerOtp \/ Panne
  BY <1>1 DEF vars, Crediter, ChangerAlerte, PasserDate, ExpirerOtp, Panne
<1>2. ASSUME NEW q \in Requetes, Recevoir(q) PROVE retraits' = retraits
  BY <1>2 DEF Recevoir, DemanderOtp, Confirmer, Valider, Rejeter, Commencer
<1>3. ASSUME NEW q \in Requetes, Poursuivre(q)
      PROVE  \/ retraits' = retraits \/ CreerRetrait(q) \/ Enregistrer(q)
             \/ MarquerValide(q) \/ MarquerRejete(q)
  BY <1>3 DEF Poursuivre, ChercherCle, ChercherOtp, ConsommerOtp, LireTontine, Verifier,
     InvaliderOtps, CreerOtp, Transferer, LireRetrait, LireSolde
<1>. QED
  BY <1>1, <1>2, <1>3 DEF Next

(* A row keeps its amount, key and code, and its administrator once it has   *)
(* one; no row disappears.                                                 *)
Garde(r) ==
    /\ r \in Existants'
    /\ retraits'[r].montant = retraits[r].montant
    /\ retraits'[r].otp = retraits[r].otp /\ retraits'[r].cle = retraits[r].cle
    /\ retraits[r].validePar => retraits'[r].validePar

LEMMA LignesGardees ==
  ASSUME TypeInv, [Next]_vars, NEW r \in Existants
  PROVE  Garde(r)
<1> USE DEF TypeInv, TypeOK
<1>1. CASE retraits' = retraits
  BY <1>1 DEF Garde, Existants
<1>2. ASSUME NEW q \in Requetes, CreerRetrait(q) PROVE Garde(r)
  <2>1. retraits'[r] = retraits[r]
    BY <1>2 DEF CreerRetrait, Existants
  <2>. QED
    BY <2>1 DEF Garde, Existants
<1>3. ASSUME NEW q \in Requetes, Enregistrer(q) PROVE Garde(r)
  <2>1. /\ retraits'[r].montant = retraits[r].montant
        /\ retraits'[r].otp = retraits[r].otp /\ retraits'[r].cle = retraits[r].cle
        /\ retraits'[r].validePar = retraits[r].validePar
        /\ retraits'[r].statut \in {retraits[r].statut, "EXECUTE"}
    <3>1. \/ retraits'[r] = retraits[r]
          \/ retraits'[r] = [retraits[r] EXCEPT !.statut = "EXECUTE"]
      BY <1>3 DEF Enregistrer, Existants
    <3>2. retraits[r] \in Retrait
      BY DEF Existants
    <3>. QED
      BY <3>1, <3>2 DEF Retrait
  <2>. QED
    BY <2>1 DEF Garde, Existants
<1>4. ASSUME NEW q \in Requetes, NEW s \in {"VALIDE", "REJETE"},
             retraits' = Decision(loc[q].retrait, s)
      PROVE  Garde(r)
  <2>1. retraits'[r] = retraits[r] \/ r = loc[q].retrait
    BY <1>4 DEF Decision, Existants
  <2>2. CASE retraits'[r] = retraits[r]
    BY <2>2 DEF Garde, Existants
  <2>3. CASE r = loc[q].retrait
    <3>1. retraits'[r] = [statut |-> s, montant |-> retraits[r].montant,
                          cle |-> retraits[r].cle, validePar |-> TRUE,
                          otp |-> retraits[r].otp]
      BY <1>4, <2>3 DEF Decision, Existants
    <3>. QED
      BY <3>1 DEF Garde, Existants
  <2>. QED
    BY <2>1, <2>2, <2>3
<1>. QED
  BY <1>1, <1>2, <1>3, <1>4, QuiEcrit DEF MarquerValide, MarquerRejete

(* How handler q adds row r.                                               *)
Cree(q, r) ==
    /\ CleLibre(loc[q].cle)
    /\ retraits' = [retraits EXCEPT ![r] =
         [statut |-> StatutInitial(loc[q].montant), montant |-> loc[q].montant,
          cle |-> loc[q].cle, validePar |-> FALSE, otp |-> loc[q].code]]
    /\ IF NecessiteAdmin(loc[q].montant) THEN Repondre(q)
       ELSE Vers(q, "transfert") /\ loc' = [loc EXCEPT ![q].retrait = r]

LEMMA NouvelleLigne ==
  ASSUME TypeInv, [Next]_vars, NEW r \in Existants', r \notin Existants
  PROVE  \E q \in Requetes : CreerRetrait(q) /\ Cree(q, r)
<1> USE DEF TypeInv, TypeOK
<1>1. r \in RetraitIds /\ retraits'[r] # retraits[r]
  BY DEF Existants
<1>2. PICK q \in Requetes :
        CreerRetrait(q) \/ Enregistrer(q) \/ MarquerValide(q) \/ MarquerRejete(q)
  BY <1>1, QuiEcrit
<1>3. ASSUME Enregistrer(q) \/ MarquerValide(q) \/ MarquerRejete(q) PROVE FALSE
  <2>1. pc[q] \in {"enregistrer", "marquer", "rejeter"}
    BY <1>3 DEF Enregistrer, MarquerValide, MarquerRejete
  <2>2. loc[q].retrait \in Existants
    BY <2>1 DEF EtapeOK
  <2>3. \A s \in RetraitIds : s # loc[q].retrait => retraits'[s] = retraits[s]
    BY <1>3 DEF Enregistrer, MarquerValide, MarquerRejete, Decision
  <2>. QED
    BY <1>1, <2>2, <2>3
<1>4. CreerRetrait(q)
  BY <1>2, <1>3
<1>5. PICK s \in RetraitIds \ Existants : Cree(q, s)
  BY <1>1, <1>4 DEF CreerRetrait, Cree
<1>6. s = r
  BY <1>1, <1>5 DEF Cree
<1>. QED
  BY <1>4, <1>5, <1>6

(* An administrator's row stays one.                                       *)
LEMMA AutorisePas ==
  ASSUME TypeInv, [Next]_vars, NEW r \in Existants, Autorise(r)
  PROVE  r \in Existants' /\ Autorise(r)'
  BY LignesGardees DEF Autorise, Garde

(* The provider is asked to pay only by Transferer.                        *)
LEMMA QuiEnvoie ==
  ASSUME TypeInv, [Next]_vars, NEW r \in RetraitIds
  PROVE  \/ envois'[r] = envois[r]
         \/ \E q \in Requetes : Transferer(q) /\ r = loc[q].retrait
<1> USE DEF livreVars, TypeInv, TypeOK
<1>1. CASE UNCHANGED vars \/ Crediter \/ ChangerAlerte \/ PasserDate \/ ExpirerOtp \/ Panne
  BY <1>1 DEF vars, Crediter, ChangerAlerte, PasserDate, ExpirerOtp, Panne
<1>2. ASSUME NEW q \in Requetes, Recevoir(q) PROVE envois' = envois
  BY <1>2 DEF Recevoir, DemanderOtp, Confirmer, Valider, Rejeter, Commencer
<1>3. ASSUME NEW q \in Requetes, Poursuivre(q)
      PROVE  envois' = envois \/ Transferer(q)
  BY <1>3 DEF Poursuivre, ChercherCle, ChercherOtp, ConsommerOtp, LireTontine, Verifier,
     InvaliderOtps, CreerOtp, CreerRetrait, Enregistrer, LireRetrait, LireSolde,
     MarquerValide, MarquerRejete
<1>4. ASSUME NEW q \in Requetes, Transferer(q), r # loc[q].retrait PROVE envois'[r] = envois[r]
  BY <1>4 DEF Transferer
<1>. QED
  BY <1>1, <1>2, <1>3, <1>4 DEF Next

-----------------------------------------------------------------------------
(* The administrator's threshold.                                          *)

LEMMA AdminInit == Init => AdminInv
  BY DEF Init, AdminInv

(* A handler about to pay was about to pay the same row before, or has just *)
(* created a row below the threshold, or comes from an administrator.      *)
LEMMA AdminHandlers ==
  ASSUME TypeInv, AdminInv, [Next]_vars,
         NEW p \in Requetes, pc'[p] \in {"transfert", "enregistrer"}
  PROVE  Autorise(loc[p].retrait)'
<1> USE DEF TypeInv, TypeOK
<1>1. ASSUME pc[p] \in {"transfert", "enregistrer"}, loc'[p].retrait = loc[p].retrait
      PROVE  Autorise(loc[p].retrait)'
  <2>1. loc[p].retrait \in Existants /\ Autorise(loc[p].retrait)
    BY <1>1 DEF EtapeOK, AdminInv
  <2>2. Autorise(loc[p].retrait)
    BY <2>1
  <2>. QED
    BY <1>1, <2>1, LignesGardees DEF Autorise, Garde
<1>2. CASE Environnement \/ UNCHANGED vars
  BY <1>1, <1>2, EnvironnementProcs
<1>3. ASSUME NEW q \in Requetes \ {p}, Recevoir(q) \/ Poursuivre(q)
      PROVE  Autorise(loc[p].retrait)'
  BY <1>1, <1>3, UnSeul
<1>4. CASE Recevoir(p)
  BY <1>4 DEF Recevoir, DemanderOtp, Confirmer, Valider, Rejeter, Commencer, Vers
<1>5. CASE Poursuivre(p)
  <2>1. CreerRetrait(p) \/ MarquerValide(p) \/ Transferer(p)
    BY <1>5 DEF Poursuivre, ChercherCle, ChercherOtp, ConsommerOtp, LireTontine, Verifier,
       InvaliderOtps, CreerOtp, Enregistrer, LireRetrait, LireSolde, MarquerRejete,
       Vers, Repondre
  <2>2. CASE CreerRetrait(p)
    <3>1. PICK r \in RetraitIds \ Existants :
            Cree(p, r) /\ ~NecessiteAdmin(loc[p].montant)
      BY <2>2 DEF CreerRetrait, Cree, Repondre, Vers
    <3>2. loc'[p].retrait = r /\ retraits'[r].montant = loc[p].montant
      BY <3>1 DEF Cree, Locales
    <3>3. ~(loc[p].montant >= SeuilAdmin)
      BY <3>1 DEF NecessiteAdmin
    <3>. QED
      BY <3>2, <3>3 DEF Autorise
  <2>3. CASE MarquerValide(p)
    <3>1. loc' = loc /\ loc[p].retrait \in RetraitIds
      BY <2>3 DEF MarquerValide, EtapeOK, Existants
    <3>2. retraits'[loc[p].retrait].validePar
      BY <2>3, <3>1 DEF MarquerValide, Decision
    <3>. QED
      BY <3>1, <3>2 DEF Autorise
  <2>4. CASE Transferer(p)
    BY <1>1, <2>4 DEF Transferer
  <2>. QED
    BY <2>1, <2>2, <2>3, <2>4
<1>. QED
  BY <1>2, <1>3, <1>4, <1>5 DEF Next, Environnement

LEMMA AdminNext == TypeInv /\ AdminInv /\ [Next]_vars => AdminInv'
<1> SUFFICES ASSUME TypeInv, AdminInv, [Next]_vars PROVE AdminInv'
  OBVIOUS
<1>1. ASSUME NEW r \in RetraitIds, envois'[r] > 0
      PROVE  r \in Existants' /\ Autorise(r)'
  <2>1. CASE envois'[r] = envois[r]
    BY <1>1, <2>1, AutorisePas DEF AdminInv
  <2>2. ASSUME NEW q \in Requetes, Transferer(q), r = loc[q].retrait
        PROVE  r \in Existants /\ Autorise(r)
    BY <2>2 DEF Transferer, TypeInv, EtapeOK, AdminInv
  <2>. QED
    BY <2>1, <2>2, QuiEnvoie, AutorisePas
<1>. QED
  BY <1>1, AdminHandlers DEF AdminInv

(* From SEUIL_RETRAIT_ADMIN on, money leaves only for a row an administrator *)
(* decided on, whatever handlers run together and wherever the server dies.  *)
THEOREM GrosMontantsValides == Spec => []AdminPourGrosMontant
<1>1. AdminInv => AdminPourGrosMontant
  BY DEF AdminInv, AdminPourGrosMontant, Autorise, Existants
<1>. QED
  BY <1>1, AdminInit, AdminNext, TypeInvariant, PTL DEF Spec

-----------------------------------------------------------------------------
(* The withdrawal codes.                                                   *)

(* A code keeps its amount, and once used or invalidated it stays so.      *)
LEMMA CodesGardes ==
  ASSUME TypeInv, [Next]_vars, NEW o \in DOMAIN otps
  PROVE  /\ o \in DOMAIN otps' /\ otps'[o].montant = otps[o].montant
         /\ otps[o].utilise => otps'[o].utilise
<1> USE DEF tontineVars, livreVars, procVars
<1>. DEFINE Garde1 == /\ o \in DOMAIN otps' /\ otps'[o].montant = otps[o].montant
                      /\ otps[o].utilise => otps'[o].utilise
<1>1. /\ Len(otps) \in Nat /\ DOMAIN otps = 1..Len(otps)
      /\ otps \in Seq(CodeOTP) /\ otps[o] \in CodeOTP
  BY DEF TypeInv, TypeOK
<1>2. CASE otps' = otps
  BY <1>2
<1>3. CASE ExpirerOtp
  <2>1. PICK p \in DOMAIN otps : otps' = [otps EXCEPT ![p].expire = TRUE]
    BY <1>3 DEF ExpirerOtp
  <2>2. /\ DOMAIN otps' = DOMAIN otps
        /\ otps'[o] = otps[o] \/ otps'[o] = [otps[o] EXCEPT !.expire = TRUE]
    BY <2>1
  <2>. QED
    BY <1>1, <2>2 DEF CodeOTP
<1>4. ASSUME NEW q \in Requetes, ConsommerOtp(q) PROVE Garde1
  <2>1. otps' = [otps EXCEPT ![loc[q].code].utilise = TRUE]
    BY <1>4 DEF ConsommerOtp
  <2>2. /\ DOMAIN otps' = DOMAIN otps
        /\ otps'[o] = otps[o] \/ otps'[o] = [otps[o] EXCEPT !.utilise = TRUE]
    BY <2>1
  <2>. QED
    BY <1>1, <2>2 DEF CodeOTP
<1>5. ASSUME NEW q \in Requetes, InvaliderOtps(q) PROVE Garde1
  <2>1. otps' = [p \in DOMAIN otps |-> [otps[p] EXCEPT !.utilise = TRUE]]
    BY <1>5 DEF InvaliderOtps
  <2>2. DOMAIN otps' = DOMAIN otps /\ otps'[o] = [otps[o] EXCEPT !.utilise = TRUE]
    BY <2>1
  <2>. QED
    BY <1>1, <2>2 DEF CodeOTP
<1>6. ASSUME NEW q \in Requetes, CreerOtp(q) PROVE Garde1
  <2>1. otps' = Append(otps, [montant |-> loc[q].montant, utilise |-> FALSE,
                              expire |-> FALSE])
    BY <1>6 DEF CreerOtp
  <2>2. o \in DOMAIN otps' /\ otps'[o] = otps[o]
    BY <1>1, <2>1
  <2>. QED
    BY <2>2
<1>7. CASE UNCHANGED vars \/ Crediter \/ ChangerAlerte \/ PasserDate \/ Panne
  BY <1>2, <1>7 DEF vars, Crediter, ChangerAlerte, PasserDate, Panne
<1>8. ASSUME NEW q \in Requetes, Recevoir(q) PROVE otps' = otps
  BY <1>8 DEF Recevoir, DemanderOtp, Confirmer, Valider, Rejeter, Commencer
<1>9. ASSUME NEW q \in Requetes, Poursuivre(q)
      PROVE  otps' = otps \/ ConsommerOtp(q) \/ InvaliderOtps(q) \/ CreerOtp(q)
  BY <1>9 DEF Poursuivre, ChercherCle, ChercherOtp, LireTontine, Verifier, CreerRetrait,
     Transferer, Enregistrer, LireRetrait, LireSolde, MarquerValide, MarquerRejete
<1>. QED
  BY <1>2, <1>3, <1>4, <1>5, <1>6, <1>7, <1>8, <1>9 DEF Next

LEMMA ConsommePas ==
  ASSUME TypeInv, [Next]_vars, NEW o, NEW m, Consomme(o, m)
  PROVE  Consomme(o, m)'
  BY CodesGardes DEF Consomme

LEMMA CodesInit == Init => CodesInv
  BY DEF Init, CodesInv, CodeTenu, Existants, Absent

LEMMA CodesImmobile ==
  ASSUME TypeInv, CodesInv, [Next]_vars, NEW p \in Requetes,
         pc'[p] = "libre" \/ (pc'[p] = pc[p] /\ loc'[p] = loc[p])
  PROVE  CodeTenu(p)'
<1>1. CodeTenu(p)
  BY DEF CodesInv
<1>. QED
  BY <1>1, CodesGardes, ConsommePas DEF CodeTenu

LEMMA CodesHandlers ==
  ASSUME TypeInv, CodesInv, [Next]_vars, NEW p \in Requetes
  PROVE  CodeTenu(p)'
<1> USE DEF TypeInv, TypeOK
<1>1. CodeTenu(p)
  BY DEF CodesInv
<1>2. CASE Environnement \/ UNCHANGED vars
  BY <1>2, EnvironnementProcs, CodesImmobile
<1>3. ASSUME NEW q \in Requetes \ {p}, Recevoir(q) \/ Poursuivre(q)
      PROVE  CodeTenu(p)'
  BY <1>3, UnSeul, CodesImmobile
<1>4. CASE Recevoir(p)
  <2>1. \/ pc'[p] \in {"idempotence", "otp", "lireRetrait"}
        \/ pc'[p] = "lire" /\ loc'[p].op = "demanderOtp"
    BY <1>4 DEF Recevoir, DemanderOtp, Confirmer, Valider, Rejeter, Commencer, Vers, Requete
  <2>. QED
    BY <2>1 DEF CodeTenu
<1>5. CASE ChercherCle(p) \/ InvaliderOtps(p) \/ CreerOtp(p) \/ CreerRetrait(p)
           \/ Transferer(p) \/ Enregistrer(p) \/ LireRetrait(p) \/ LireSolde(p)
           \/ MarquerValide(p) \/ MarquerRejete(p)
  <2>1. pc'[p] \notin {"consommer", "lire", "alerte", "creer"}
    BY <1>5 DEF ChercherCle, InvaliderOtps, CreerOtp, CreerRetrait, Transferer,
       Enregistrer, LireRetrait, LireSolde, MarquerValide, MarquerRejete, Vers, Repondre
  <2>. QED
    BY <2>1 DEF CodeTenu
<1>6. CASE ChercherOtp(p)
  <2>1. otps' = otps /\ pc'[p] \in {"libre", "consommer"}
    BY <1>6 DEF ChercherOtp, Vers, Repondre
  <2>2. ASSUME pc'[p] = "consommer"
        PROVE  loc' = loc /\ loc[p].code \in Correspondants(loc[p].montant)
    BY <1>6, <2>2 DEF ChercherOtp, EstDernierCode, Repondre, Vers
  <2>. QED
    BY <2>1, <2>2 DEF CodeTenu, Correspondants
<1>7. CASE ConsommerOtp(p)
  <2>1. /\ loc' = loc /\ pc'[p] = "lire" /\ pc[p] = "consommer"
        /\ otps' = [otps EXCEPT ![loc[p].code].utilise = TRUE]
    BY <1>7 DEF ConsommerOtp, Vers
  <2>2. loc[p].code \in DOMAIN otps /\ otps[loc[p].code].montant = loc[p].montant
    BY <1>1, <2>1 DEF CodeTenu
  <2>3. otps[loc[p].code] \in CodeOTP
    BY <2>2
  <2>4. /\ loc[p].code \in DOMAIN otps'
        /\ otps'[loc[p].code] = [otps[loc[p].code] EXCEPT !.utilise = TRUE]
    BY <2>1, <2>2
  <2>5. Consomme(loc[p].code, loc[p].montant)'
    BY <2>1, <2>2, <2>3, <2>4 DEF Consomme, CodeOTP
  <2>. QED
    BY <2>1, <2>5 DEF CodeTenu
<1>8. CASE LireTontine(p) \/ Verifier(p)
  <2>1. pc[p] \in {"lire", "alerte"} /\ pc'[p] # "consommer"
    BY <1>8 DEF LireTontine, Verifier, Vers, Repondre
  <2>2. ASSUME pc'[p] \in {"lire", "alerte", "creer"}
        PROVE  /\ loc'[p].op = loc[p].op /\ loc'[p].code = loc[p].code
               /\ loc'[p].montant = loc[p].montant
    BY <1>8, <2>2 DEF LireTontine, Verifier, Vers, Repondre, Locales
  <2>. QED
    BY <1>1, <2>1, <2>2, ConsommePas DEF CodeTenu
<1>. QED
  BY <1>2, <1>3, <1>4, <1>5, <1>6, <1>7, <1>8 DEF Next, Poursuivre, Environnement

(* A new row carries the code and the amount of the handler that adds it.  *)
LEMMA CodesLignes ==
  ASSUME TypeInv, CodesInv, [Next]_vars, NEW r \in Existants'
  PROVE  Consomme(retraits[r].otp, retraits[r].montant)'
<1>1. CASE r \in Existants
  BY <1>1, LignesGardees, ConsommePas DEF CodesInv, Garde
<1>2. CASE r \notin Existants
  <2>1. PICK q \in Requetes : CreerRetrait(q) /\ Cree(q, r)
    BY <1>2, NouvelleLigne
  <2>2. r \in RetraitIds
    BY DEF Existants
  <2>3. retraits'[r].otp = loc[q].code /\ retraits'[r].montant = loc[q].montant
    BY <2>1, <2>2 DEF Cree, TypeInv, TypeOK
  <2>4. pc[q] = "creer" /\ loc[q].op = "confirmer"
    BY <2>1 DEF CreerRetrait, TypeInv, EtapeOK
  <2>5. /\ loc[q].code \in DOMAIN otps' /\ otps'[loc[q].code].utilise
        /\ otps'[loc[q].code].montant = loc[q].montant
    BY <2>4, CodesGardes DEF CodesInv, CodeTenu, Consomme
  <2>. QED
    BY <2>3, <2>5 DEF Consomme
<1>. QED
  BY <1>1, <1>2

LEMMA CodesNext == TypeInv /\ CodesInv /\ [Next]_vars => CodesInv'
  BY CodesHandlers, CodesLignes DEF CodesInv

(* Every withdrawal was asked for with a code sent for that very amount,    *)
(* and the code cannot be used again.                                       *)
THEOREM RetraitsAutorises == Spec => []RetraitAutorise
<1>1. CodesInv => RetraitAutorise
  BY DEF CodesInv, RetraitAutorise, Consomme
<1>. QED
  BY <1>1, CodesInit, CodesNext, TypeInvariant, PTL DEF Spec

-----------------------------------------------------------------------------
(* One withdrawal per code.                                                *)

(* A handler found its code and has not created its row yet.               *)
Porte(q) == loc[q].op = "confirmer" /\ pc[q] \in {"consommer", "lire", "alerte", "creer"}

OtpInv ==
    \/ courseOtp
    \/ /\ \A p, q \in Requetes : Porte(p) /\ Porte(q) /\ loc[p].code = loc[q].code => p = q
       /\ \A q \in Requetes, r \in Existants : Porte(q) => retraits[r].otp # loc[q].code
       /\ \A r, s \in Existants : retraits[r].otp = retraits[s].otp => r = s

LEMMA OtpInit == Init => OtpInv
  BY DEF Init, OtpInv, Porte, Existants, Absent

(* A step after which q carries a code only if it carried the same before,  *)
(* and that adds no row.                                                   *)
LEMMA OtpPas ==
  ASSUME TypeInv, OtpInv, ~courseOtp, [Next]_vars, Existants' = Existants,
         \A q \in Requetes : Porte(q)' => Porte(q) /\ loc'[q].code = loc[q].code
  PROVE  OtpInv'
<1>1. \A r \in Existants : retraits'[r].otp = retraits[r].otp
  BY LignesGardees DEF Garde
<1>. QED
  BY <1>1 DEF OtpInv

(* The code is found live; codes of rows and of handlers past consommer are *)
(* used, and a handler at consommer with the same code is the race.        *)
LEMMA OtpTrouve ==
  ASSUME TypeInv, CodesInv, OtpInv, ~courseOtp', NEW q \in Requetes, ChercherOtp(q),
         pc'[q] = "consommer"
  PROVE  OtpInv'
<1> USE DEF TypeInv, TypeOK
<1>1. /\ loc' = loc /\ otps' = otps /\ retraits' = retraits /\ pc[q] = "otp"
      /\ pc' = [pc EXCEPT ![q] = "consommer"]
      /\ loc[q].code \in Correspondants(loc[q].montant)
      /\ ~courseOtp /\ \A p \in Requetes : ~UtiliseOtp(p, loc[q].code)
  BY DEF ChercherOtp, EstDernierCode, Repondre, Vers, livreVars
<1>2. ~otps[loc[q].code].utilise
  BY <1>1 DEF Correspondants, Vivant
<1>3. \A r \in Existants : retraits[r].otp # loc[q].code
  BY <1>2 DEF CodesInv, Consomme
<1>4. ASSUME NEW p \in Requetes, Porte(p) PROVE loc[p].code # loc[q].code
  <2>1. CASE pc[p] = "consommer"
    BY <1>1, <2>1 DEF UtiliseOtp
  <2>2. CASE pc[p] # "consommer"
    BY <1>2, <1>4, <2>2 DEF Porte, CodesInv, CodeTenu, Consomme
  <2>. QED
    BY <2>1, <2>2
<1>5. \A p \in Requetes \ {q} : Porte(p)' <=> Porte(p)
  BY <1>1 DEF Porte
<1>6. Existants' = Existants
  BY <1>1 DEF Existants
<1>. QED
  BY <1>1, <1>3, <1>4, <1>5, <1>6 DEF OtpInv

(* The row takes over the code of the handler that creates it.             *)
LEMMA OtpLigne ==
  ASSUME TypeInv, OtpInv, ~courseOtp, [Next]_vars,
         NEW q \in Requetes, NEW r \in Existants', r \notin Existants,
         CreerRetrait(q), Cree(q, r)
  PROVE  OtpInv'
<1> USE DEF TypeInv, TypeOK
<1>1. /\ r \in RetraitIds /\ retraits'[r].otp = loc[q].code
      /\ Existants' \subseteq Existants \cup {r}
      /\ \A s \in Existants : retraits'[s].otp = retraits[s].otp
  BY DEF Cree, Existants
<1>2. Porte(q)
  BY DEF CreerRetrait, EtapeOK, Porte
<1>3. \A p \in Requetes \ {q} : pc'[p] = pc[p] /\ loc'[p] = loc[p]
  BY UnSeul DEF Poursuivre
<1>4. ~Porte(q)'
  BY DEF Cree, Repondre, Vers, Porte
<1>5. \A p \in Requetes : Porte(p)' => /\ p # q /\ Porte(p)
                                       /\ loc'[p].code = loc[p].code
  BY <1>3, <1>4 DEF Porte
<1>6. \A s \in Existants : retraits[s].otp # loc[q].code
  BY <1>2 DEF OtpInv
<1>7. \A p \in Requetes : Porte(p)' => loc'[p].code # loc[q].code
  BY <1>2, <1>5 DEF OtpInv
<1>8. \A p \in Requetes, s \in Existants' : Porte(p)' => retraits'[s].otp # loc'[p].code
  BY <1>1, <1>5, <1>7 DEF OtpInv
<1>9. \A s, u \in Existants' : retraits'[s].otp = retraits'[u].otp => s = u
  BY <1>1, <1>6 DEF OtpInv
<1>10. \A p, s \in Requetes : Porte(p)' /\ Porte(s)' /\ loc'[p].code = loc'[s].code => p = s
  BY <1>5 DEF OtpInv
<1>. QED
  BY <1>8, <1>9, <1>10 DEF OtpInv

(* No step but ChercherOtp makes a handler carry a code.                   *)
LEMMA QuiPorte ==
  ASSUME TypeInv, [Next]_vars, NEW p \in Requetes, Porte(p)'
  PROVE  \/ Porte(p) /\ loc'[p].code = loc[p].code
         \/ ChercherOtp(p) /\ pc'[p] = "consommer"
<1> USE DEF TypeInv, TypeOK
<1>1. CASE pc'[p] = "libre" \/ (pc'[p] = pc[p] /\ loc'[p] = loc[p])
  BY <1>1 DEF Porte
<1>2. CASE Environnement \/ UNCHANGED vars
  BY <1>1, <1>2, EnvironnementProcs
<1>3. ASSUME NEW q \in Requetes \ {p}, Recevoir(q) \/ Poursuivre(q)
      PROVE  Porte(p) /\ loc'[p].code = loc[p].code
  BY <1>3, UnSeul DEF Porte
<1>4. CASE Recevoir(p)
  BY <1>4 DEF Recevoir, DemanderOtp, Confirmer, Valider, Rejeter, Commencer, Vers,
     Requete, Porte
<1>5. CASE ChercherOtp(p)
  BY <1>5 DEF ChercherOtp, Vers, Repondre, Porte
<1>6. CASE ConsommerOtp(p)
  BY <1>6 DEF ConsommerOtp, Vers, Porte, EtapeOK
<1>7. CASE LireTontine(p) \/ Verifier(p)
  <2>1. pc'[p] # "libre" /\ pc[p] \in {"lire", "alerte"}
    BY <1>7 DEF LireTontine, Verifier, Vers, Repondre, Porte
  <2>2. loc'[p].op = loc[p].op /\ loc'[p].code = loc[p].code
    BY <1>7, <2>1 DEF LireTontine, Verifier, Vers, Repondre, Locales
  <2>. QED
    BY <2>1, <2>2 DEF Porte
<1>8. CASE /\ Poursuivre(p)
           /\ ~(ChercherOtp(p) \/ ConsommerOtp(p) \/ LireTontine(p) \/ Verifier(p))
  <2>1. pc'[p] \notin {"consommer", "lire", "alerte", "creer"}
    BY <1>8 DEF Poursuivre, ChercherCle, InvaliderOtps, CreerOtp, CreerRetrait, Transferer,
       Enregistrer, LireRetrait, LireSolde, MarquerValide, MarquerRejete, Vers, Repondre
  <2>. QED
    BY <2>1 DEF Porte
<1>. QED
  BY <1>2, <1>3, <1>4, <1>5, <1>6, <1>7, <1>8 DEF Next, Environnement

LEMMA OtpNext == TypeInv /\ CodesInv /\ OtpInv /\ [Next]_vars => OtpInv'
<1> SUFFICES ASSUME TypeInv, CodesInv, OtpInv, [Next]_vars, ~courseOtp'
             PROVE  OtpInv'
  BY DEF OtpInv
<1>1. ~courseOtp
  BY DEF Next, Recevoir, DemanderOtp, Confirmer, Valider, Rejeter, Commencer, Poursuivre,
     ChercherCle, ChercherOtp, ConsommerOtp, LireTontine, Verifier, InvaliderOtps,
     CreerOtp, CreerRetrait, Transferer, Enregistrer, LireRetrait, LireSolde,
     MarquerValide, MarquerRejete, Crediter, ChangerAlerte, PasserDate, ExpirerOtp,
     Panne, courseVars, vars
<1>2. CASE \E q \in Requetes : ChercherOtp(q) /\ pc'[q] = "consommer"
  BY <1>2, OtpTrouve
<1>3. CASE Existants' \subseteq Existants
           /\ ~(\E q \in Requetes : ChercherOtp(q) /\ pc'[q] = "consommer")
  <2>1. Existants' = Existants
    BY <1>3, LignesGardees DEF Garde
  <2>. QED
    BY <1>1, <1>3, <2>1, QuiPorte, OtpPas
<1>4. CASE \E r \in Existants' : r \notin Existants
  BY <1>1, <1>4, NouvelleLigne, OtpLigne
<1>. QED
  BY <1>2, <1>3, <1>4

(* A code gives one withdrawal, unless two requests found it before either  *)
(* had marked it used; crashes, expiry and newer codes change nothing.      *)
THEOREM UnSeulRetraitParOtp == Spec => []UnRetraitParOtp
<1>1. OtpInv => UnRetraitParOtp
  BY DEF OtpInv, UnRetraitParOtp
<1>. QED
  BY <1>1, OtpInit, OtpNext, CodesInit, CodesNext, TypeInvariant, PTL DEF Spec

-----------------------------------------------------------------------------
(* The policy of the tontine.                                              *)

LEMMA PolitiqueInit == Init => PolitiqueInv
  BY RetraitsAssumption DEF Init, PolitiqueInv, PolitiqueTenue, Existants, Absent

(* The policy never changes, its date stays reached, and payments only add *)
(* to what was paid in.                                                    *)
LEMMA PermisPas ==
  ASSUME TypeInv, [Next]_vars
  PROVE  /\ credits' \in Nat /\ credits' >= credits
         /\ Permis => Permis'
         /\ politique' = politique
<1> USE RetraitsAssumption DEF TypeInv, TypeOK, tontineVars
<1>1. ASSUME NEW q \in Requetes, Recevoir(q) \/ Poursuivre(q)
      PROVE  UNCHANGED <<politique, dateAtteinte, credits>>
  BY <1>1 DEF Recevoir, DemanderOtp, Confirmer, Valider, Rejeter, Commencer, Poursuivre,
     ChercherCle, ChercherOtp, ConsommerOtp, LireTontine, Verifier, InvaliderOtps,
     CreerOtp, CreerRetrait, Transferer, Enregistrer, LireRetrait, LireSolde,
     MarquerValide, MarquerRejete
<1>2. CASE ChangerAlerte \/ ExpirerOtp \/ Panne \/ UNCHANGED vars
  BY <1>2 DEF ChangerAlerte, ExpirerOtp, Panne, vars, Permis
<1>3. CASE PasserDate
  BY <1>3 DEF PasserDate, Permis
<1>4. CASE Crediter
  <2>1. PICK m \in Montants : credits' = credits + m
    BY <1>4 DEF Crediter
  <2>2. m \in Nat /\ credits \in Nat
    BY <2>1
  <2>3. UNCHANGED <<politique, dateAtteinte>>
    BY <1>4 DEF Crediter
  <2>. QED
    BY <2>1, <2>2, <2>3 DEF Permis
<1>5. ASSUME UNCHANGED <<politique, dateAtteinte, credits>>
      PROVE  credits' \in Nat /\ credits' >= credits /\ (Permis => Permis')
  BY <1>5 DEF Permis
<1>. QED
  BY <1>1, <1>2, <1>3, <1>4, <1>5 DEF Next

(* No more than was paid in is ever in the tontine.                        *)
LEMMA SoldeBorne ==
  ASSUME TypeInv, PolitiqueInv, [Next]_vars
  PROVE  solde' <= SoldeInitial + credits'
<1> USE RetraitsAssumption DEF TypeInv, TypeOK, tontineVars
<1>1. solde \in Int /\ credits \in Nat /\ solde <= SoldeInitial + credits
  BY DEF PolitiqueInv
<1>2. CASE solde' = solde
  BY <1>1, <1>2, PermisPas
<1>3. ASSUME NEW q \in Requetes, Enregistrer(q) PROVE solde' <= SoldeInitial + credits'
  <2>1. solde' = solde - loc[q].montant /\ credits' = credits
    BY <1>3 DEF Enregistrer
  <2>2. loc[q] \in Locales /\ loc[q].montant \in Montants \cup {0}
    BY DEF Locales
  <2>3. \A m \in Montants \cup {0} : m \in Nat
    BY RetraitsAssumption
  <2>4. loc[q].montant \in Nat
    BY <2>2, <2>3
  <2>. QED
    BY <1>1, <2>1, <2>4
<1>4. CASE Crediter
  <2>1. PICK m \in Montants : solde' = solde + m /\ credits' = credits + m
    BY <1>4 DEF Crediter
  <2>2. m \in Nat
    BY <2>1
  <2>. QED
    BY <1>1, <2>1, <2>2
<1>5. ASSUME NEW q \in Requetes, Recevoir(q) PROVE solde' = solde
  BY <1>5 DEF Recevoir, DemanderOtp, Confirmer, Valider, Rejeter, Commencer
<1>6. ASSUME NEW q \in Requetes, Poursuivre(q) PROVE solde' = solde \/ Enregistrer(q)
  BY <1>6 DEF Poursuivre, ChercherCle, ChercherOtp, ConsommerOtp, LireTontine, Verifier,
     InvaliderOtps, CreerOtp, CreerRetrait, Transferer, LireRetrait, LireSolde,
     MarquerValide, MarquerRejete
<1>7. CASE ChangerAlerte \/ PasserDate \/ ExpirerOtp \/ Panne \/ UNCHANGED vars
  BY <1>2, <1>7 DEF ChangerAlerte, PasserDate, ExpirerOtp, Panne, vars
<1>. QED
  BY <1>2, <1>3, <1>4, <1>5, <1>6, <1>7 DEF Next

LEMMA PolitiqueHandlers ==
  ASSUME TypeInv, PolitiqueInv, [Next]_vars, NEW p \in Requetes
  PROVE  PolitiqueTenue(p)'
<1> USE RetraitsAssumption DEF TypeInv, TypeOK
<1>1. PolitiqueTenue(p) /\ loc[p] \in Locales
  BY DEF PolitiqueInv, PolitiqueTenue
<1>2. loc[p].solde \in Int /\ solde \in Int /\ credits \in Nat /\ SoldeInitial \in Nat
  BY <1>1 DEF Locales
<1>3. ASSUME pc'[p] = "libre" \/ (pc'[p] = pc[p] /\ loc'[p] = loc[p])
      PROVE  PolitiqueTenue(p)'
  BY <1>1, <1>2, <1>3, PermisPas DEF PolitiqueTenue
<1>4. CASE Environnement \/ UNCHANGED vars
  BY <1>3, <1>4, EnvironnementProcs
<1>5. ASSUME NEW q \in Requetes \ {p}, Recevoir(q) \/ Poursuivre(q)
      PROVE  PolitiqueTenue(p)'
  BY <1>3, <1>5, UnSeul
<1>6. CASE Recevoir(p)
  <2>1. pc'[p] \notin {"alerte", "creer"}
    BY <1>6 DEF Recevoir, DemanderOtp, Confirmer, Valider, Rejeter, Commencer, Vers
  <2>. QED
    BY <2>1 DEF PolitiqueTenue
<1>7. CASE LireTontine(p)
  <2>1. pc'[p] = "alerte" /\ loc'[p].solde = solde /\ credits' = credits
    BY <1>7 DEF LireTontine, Vers, Locales
  <2>. QED
    BY <2>1 DEF PolitiqueTenue, PolitiqueInv
<1>8. CASE Verifier(p)
  <2>1. pc[p] = "alerte" /\ pc'[p] # "alerte"
    BY <1>8 DEF Verifier, Vers, Repondre
  <2>2. ASSUME pc'[p] = "creer" PROVE PolitiquePermet(loc[p].solde)
    BY <1>8, <2>2 DEF Verifier, Vers, Repondre, RetraitPossible
  <2>3. ASSUME PolitiquePermet(loc[p].solde) PROVE Permis
    BY <1>1, <1>2, <2>1, <2>3 DEF PolitiqueTenue, PolitiquePermet, Permis
  <2>. QED
    BY <2>1, <2>2, <2>3, PermisPas DEF PolitiqueTenue
<1>9. CASE Poursuivre(p) /\ ~LireTontine(p) /\ ~Verifier(p)
  <2>1. pc'[p] \notin {"alerte", "creer"}
    BY <1>9 DEF Poursuivre, ChercherCle, ChercherOtp, ConsommerOtp, InvaliderOtps,
       CreerOtp, CreerRetrait, Transferer, Enregistrer, LireRetrait, LireSolde,
       MarquerValide, MarquerRejete, Vers, Repondre
  <2>. QED
    BY <2>1 DEF PolitiqueTenue
<1>. QED
  BY <1>4, <1>5, <1>6, <1>7, <1>8, <1>9 DEF Next, Environnement

LEMMA PolitiqueNext == TypeInv /\ PolitiqueInv /\ [Next]_vars => PolitiqueInv'
<1> SUFFICES ASSUME TypeInv, PolitiqueInv, [Next]_vars PROVE PolitiqueInv'
  OBVIOUS
<1>1. ASSUME NEW r \in RetraitIds, envois'[r] > 0 PROVE r \in Existants'
  <2>1. r \in Existants
    BY <1>1, QuiEnvoie DEF PolitiqueInv, Transferer, TypeInv, EtapeOK
  <2>. QED
    BY <2>1, LignesGardees DEF Garde
<1>2. ASSUME NEW r \in Existants' PROVE Permis'
  <2>1. CASE Existants # {}
    BY <2>1, PermisPas DEF PolitiqueInv
  <2>2. CASE \E q \in Requetes : pc[q] = "creer"
    BY <2>2, PermisPas DEF PolitiqueInv, PolitiqueTenue
  <2>3. CASE Existants = {} /\ \A q \in Requetes : pc[q] # "creer"
    <3>1. retraits' = retraits
      BY <2>3, QuiEcrit DEF CreerRetrait, Enregistrer, MarquerValide, MarquerRejete,
         TypeInv, EtapeOK
    <3>. QED
      BY <1>2, <2>3, <3>1 DEF Existants
  <2>. QED
    BY <2>1, <2>2, <2>3
<1>. QED
  BY <1>1, <1>2, SoldeBorne, PolitiqueHandlers DEF PolitiqueInv, PolitiqueTenue

(* Nothing leaves a PROGRAMME or BLOQUE tontine before its date, nor a      *)
(* BLOQUE one whose payments never reached its target: the check is made    *)
(* once, on a balance read before, and stays true until the money leaves.   *)
THEOREM PolitiqueTenueToujours == Spec => []PolitiqueRespectee
<1>1. PolitiqueInv => PolitiqueRespectee
  BY DEF PolitiqueInv, PolitiqueRespectee, Permis
<1>. QED
  BY <1>1, PolitiqueInit, PolitiqueNext, TypeInvariant, PTL DEF Spec

(* Whatever path leads to the transfer, money leaves only as the policy of  *)
(* the tontine and the threshold of the administrator allow.               *)
THEOREM SortiesLegitimes == Spec => []SortieLegitime
  BY GrosMontantsValides, PolitiqueTenueToujours, PTL DEF SortieLegitime

-----------------------------------------------------------------------------
(* A row is paid once.                                                     *)

(* A handler works on row r and may still decide on it or pay it.          *)
Tient(q, r) ==
    /\ loc[q].retrait = r
    /\ pc[q] \in {"lireSolde", "marquer", "rejeter", "transfert", "enregistrer"}

(* The rows the payments of which are orderly, and what that means: one     *)
(* handler at a time, at a step that fits the row.                         *)
Calme(r) == ~courseDecision \/ retraits[r].montant < SeuilAdmin

Ligne(r) ==
    /\ retraits[r].montant < SeuilAdmin => retraits[r].statut # "EN_ATTENTE"
    /\ envois[r] <= 1
    /\ retraits[r].statut \in {"EN_ATTENTE", "REJETE"} => envois[r] = 0

Etape(q, r) ==
    /\ pc[q] \in {"lireSolde", "marquer", "rejeter"} => retraits[r].statut = "EN_ATTENTE"
    /\ pc[q] \in {"transfert", "enregistrer"} => retraits[r].statut = "VALIDE"
    /\ pc[q] = "transfert" => envois[r] = 0

Suivi(r) ==
    /\ Ligne(r)
    /\ \A p, q \in Requetes : Tient(p, r) /\ Tient(q, r) => p = q
    /\ \A q \in Requetes : Tient(q, r) => Etape(q, r)

PaiementInv ==
    /\ \A r \in RetraitIds \ Existants : envois[r] = 0
    /\ \A r \in Existants : Calme(r) => Suivi(r)
    /\ \A r, s \in Existants :
         retraits[r].cle # Nul /\ retraits[r].cle = retraits[s].cle => r = s

LEMMA PaiementInit == Init => PaiementInv
  BY DEF Init, PaiementInv, Existants, Absent

(* A handler that holds no row r leaves r and its transfers alone.         *)
LEMMA SansTenir ==
  ASSUME TypeInv, NEW q \in Requetes, Recevoir(q) \/ Poursuivre(q),
         NEW r \in Existants, ~Tient(q, r)
  PROVE  retraits'[r] = retraits[r] /\ envois'[r] = envois[r]
<1> USE DEF TypeInv, TypeOK, livreVars, Existants
<1>1. CASE Recevoir(q)
  BY <1>1 DEF Recevoir, DemanderOtp, Confirmer, Valider, Rejeter, Commencer
<1>2. CASE CreerRetrait(q)
  BY <1>2 DEF CreerRetrait
<1>3. CASE Transferer(q) \/ Enregistrer(q) \/ MarquerValide(q) \/ MarquerRejete(q)
  <2>1. loc[q].retrait # r
    BY <1>3 DEF Transferer, Enregistrer, MarquerValide, MarquerRejete, Tient
  <2>. QED
    BY <1>3, <2>1 DEF Transferer, Enregistrer, MarquerValide, MarquerRejete, Decision
<1>4. CASE /\ Poursuivre(q)
           /\ ~(CreerRetrait(q) \/ Transferer(q) \/ Enregistrer(q) \/ MarquerValide(q)
                \/ MarquerRejete(q))
  BY <1>4 DEF Poursuivre, ChercherCle, ChercherOtp, ConsommerOtp, LireTontine, Verifier,
     InvaliderOtps, CreerOtp, LireRetrait, LireSolde
<1>. QED
  BY <1>1, <1>2, <1>3, <1>4

(* courseDecision stays set.                                               *)
LEMMA CourseReste == [Next]_vars /\ ~courseDecision' => ~courseDecision
  BY DEF Next, Recevoir, DemanderOtp, Confirmer, Valider, Rejeter, Commencer, Poursuivre,
     ChercherCle, ChercherOtp, ConsommerOtp, LireTontine, Verifier, InvaliderOtps,
     CreerOtp, CreerRetrait, Transferer, Enregistrer, LireRetrait, LireSolde,
     MarquerValide, MarquerRejete, Crediter, ChangerAlerte, PasserDate, ExpirerOtp,
     Panne, courseVars, vars

LEMMA CalmeAvant ==
  ASSUME TypeInv, [Next]_vars, NEW r \in Existants, Calme(r)'
  PROVE  Calme(r)
  BY CourseReste, LignesGardees DEF Calme, Garde

(* A step of q after which q holds r only if it did, at a step that fits.  *)
LEMMA SuiviPas ==
  ASSUME NEW q \in Requetes, NEW r, Suivi(r), Ligne(r)',
         \A p \in Requetes \ {q} : pc'[p] = pc[p] /\ loc'[p] = loc[p],
         Tient(q, r)' => Tient(q, r) /\ Etape(q, r)',
         \/ retraits'[r] = retraits[r] /\ envois'[r] = envois[r]
         \/ Tient(q, r)
  PROVE  Suivi(r)'
<1>1. \A p \in Requetes \ {q} : Tient(p, r)' <=> Tient(p, r)
  BY DEF Tient
<1>2. \A p, s \in Requetes : Tient(p, r)' /\ Tient(s, r)' => p = s
  BY <1>1 DEF Suivi
<1>3. ASSUME NEW p \in Requetes \ {q}, Tient(p, r)' PROVE Etape(p, r)'
  <2>1. Tient(p, r) /\ Etape(p, r) /\ ~Tient(q, r)
    BY <1>1, <1>3 DEF Suivi
  <2>. QED
    BY <2>1 DEF Etape
<1>. QED
  BY <1>2, <1>3 DEF Suivi

(* q holds r: the five steps of a decision and a payment.                  *)
LEMMA SuiviTenu ==
  ASSUME TypeInv, NEW q \in Requetes, Poursuivre(q), NEW r \in Existants,
         Suivi(r), Tient(q, r)
  PROVE  Suivi(r)'
<1> USE DEF TypeInv, TypeOK, Vers, Repondre
<1>1. /\ r \in RetraitIds /\ retraits[r] \in Retrait /\ envois[r] \in Nat
      /\ loc[q].retrait = r /\ Etape(q, r) /\ Ligne(r)
      /\ \A p \in Requetes \ {q} : pc'[p] = pc[p] /\ loc'[p] = loc[p]
  BY UnSeul DEF Existants, Suivi, Tient
<1>2. CASE pc[q] = "lireSolde"
  <2>1. retraits' = retraits /\ envois' = envois /\ pc'[q] \in {"libre", "marquer"}
    BY <1>2 DEF Poursuivre, ChercherCle, ChercherOtp, ConsommerOtp, LireTontine, Verifier,
       InvaliderOtps, CreerOtp, CreerRetrait, Transferer, Enregistrer, LireRetrait,
       LireSolde, MarquerValide, MarquerRejete, livreVars
  <2>2. Ligne(r)' /\ (Tient(q, r)' => Etape(q, r)')
    BY <1>1, <1>2, <2>1 DEF Ligne, Etape, Tient
  <2>. QED
    BY <1>1, <2>2, SuiviPas
<1>3. ASSUME MarquerValide(q) \/ MarquerRejete(q) PROVE Suivi(r)'
  <2>1. /\ envois' = envois
        /\ retraits'[r].montant = retraits[r].montant
        /\ \/ retraits'[r].statut = "VALIDE" /\ pc'[q] = "transfert"
           \/ retraits'[r].statut = "REJETE" /\ pc'[q] = "libre"
    BY <1>1, <1>3 DEF MarquerValide, MarquerRejete, Decision
  <2>2. retraits[r].statut = "EN_ATTENTE" /\ envois[r] = 0
    BY <1>1, <1>3 DEF MarquerValide, MarquerRejete, Etape, Ligne
  <2>3. Ligne(r)' /\ (Tient(q, r)' => Etape(q, r)')
    BY <1>1, <2>1, <2>2 DEF Ligne, Etape, Tient
  <2>. QED
    BY <1>1, <2>3, SuiviPas
<1>4. ASSUME Transferer(q) PROVE Suivi(r)'
  <2>1. /\ pc[q] = "transfert" /\ pc'[q] = "enregistrer" /\ loc' = loc
        /\ retraits' = retraits /\ envois'[r] = envois[r] + 1
    BY <1>1, <1>4 DEF Transferer
  <2>2. retraits[r].statut = "VALIDE" /\ envois[r] = 0
    BY <1>1, <2>1 DEF Etape
  <2>3. Ligne(r)' /\ Etape(q, r)'
    BY <1>1, <2>1, <2>2 DEF Ligne, Etape
  <2>. QED
    BY <1>1, <2>3, SuiviPas
<1>5. ASSUME Enregistrer(q) PROVE Suivi(r)'
  <2>1. pc'[q] = "libre" /\ envois' = envois
    BY <1>5 DEF Enregistrer
  <2>2. retraits'[r] = [retraits[r] EXCEPT !.statut = "EXECUTE"]
    BY <1>1, <1>5 DEF Enregistrer
  <2>3. retraits'[r].statut = "EXECUTE" /\ retraits'[r].montant = retraits[r].montant
    BY <1>1, <2>2 DEF Retrait
  <2>4. Ligne(r)' /\ ~Tient(q, r)'
    BY <1>1, <2>1, <2>3 DEF Ligne, Tient
  <2>. QED
    BY <1>1, <2>4, SuiviPas
<1>6. CASE pc[q] # "lireSolde"
  <2>1. pc[q] \in {"marquer", "rejeter", "transfert", "enregistrer"}
    BY <1>6 DEF Tient
  <2>2. \/ MarquerValide(q) \/ MarquerRejete(q) \/ Transferer(q) \/ Enregistrer(q)
    BY <2>1 DEF Poursuivre, ChercherCle, ChercherOtp, ConsommerOtp, LireTontine, Verifier,
       InvaliderOtps, CreerOtp, CreerRetrait, LireRetrait, LireSolde
  <2>. QED
    BY <2>2, <1>3, <1>4, <1>5
<1>. QED
  BY <1>2, <1>6

(* q does not hold r: it may begin to, when no one else does.              *)
LEMMA SuiviLibre ==
  ASSUME TypeInv, [Next]_vars, NEW q \in Requetes, Recevoir(q) \/ Poursuivre(q),
         NEW r \in Existants, Suivi(r), Calme(r)', ~Tient(q, r)
  PROVE  Suivi(r)'
<1> USE DEF TypeInv, TypeOK, Vers, Repondre
<1>1. /\ retraits'[r] = retraits[r] /\ envois'[r] = envois[r]
      /\ \A p \in Requetes \ {q} : pc'[p] = pc[p] /\ loc'[p] = loc[p]
  BY SansTenir, UnSeul
<1>2. Ligne(r)'
  BY <1>1 DEF Suivi, Ligne
<1>3. CASE ~Tient(q, r)'
  BY <1>1, <1>2, <1>3, SuiviPas
<1>4. CASE Tient(q, r)'
  <2>1. ~Recevoir(q)
    BY <1>4 DEF Recevoir, DemanderOtp, Confirmer, Valider, Rejeter, Commencer, Tient
  <2>2. ~CreerRetrait(q)
    <3>1. ASSUME CreerRetrait(q), pc'[q] # "libre"
          PROVE  \E s \in RetraitIds \ Existants : loc' = [loc EXCEPT ![q].retrait = s]
      BY <3>1 DEF CreerRetrait
    <3>. QED
      BY <1>4, <3>1 DEF Tient, Locales
  <2>3. LireRetrait(q)
    BY <1>4, <2>1, <2>2 DEF Poursuivre, ChercherCle, ChercherOtp, ConsommerOtp, LireTontine,
       Verifier, InvaliderOtps, CreerOtp, Transferer, Enregistrer, LireSolde,
       MarquerValide, MarquerRejete, Tient
  <2>4. /\ pc'[q] \in {"lireSolde", "rejeter"} /\ loc'[q].retrait = loc[q].retrait
        /\ retraits[loc[q].retrait].statut = "EN_ATTENTE"
        /\ courseDecision' = (courseDecision \/
                              \E p \in Requetes : Decide(p, loc[q].retrait))
    BY <1>4, <2>3 DEF LireRetrait, Tient, Locales
  <2>5. loc[q].retrait = r /\ retraits[r].statut = "EN_ATTENTE"
    BY <1>4, <2>4 DEF Tient
  <2>6. ~courseDecision' /\ \A p \in Requetes : ~Decide(p, r)
    BY <1>1, <2>4, <2>5 DEF Calme, Suivi, Ligne
  <2>7. \A p \in Requetes : ~Tient(p, r)
    BY <2>5, <2>6 DEF Suivi, Etape, Tient, Decide
  <2>8. \A p \in Requetes \ {q} : ~Tient(p, r)'
    BY <1>1, <2>7 DEF Tient
  <2>9. Etape(q, r)'
    BY <1>1, <2>4, <2>5 DEF Etape
  <2>. QED
    BY <1>2, <2>8, <2>9 DEF Suivi
<1>. QED
  BY <1>3, <1>4

(* A new row: nobody else holds it, and it is paid only if it needs no      *)
(* administrator.                                                          *)
LEMMA SuiviNouveau ==
  ASSUME TypeInv, PaiementInv, [Next]_vars, NEW r \in Existants', r \notin Existants
  PROVE  Suivi(r)'
<1> USE DEF TypeInv, TypeOK
<1>1. PICK q \in Requetes : CreerRetrait(q) /\ Cree(q, r)
  BY NouvelleLigne
<1>2. r \in RetraitIds /\ envois'[r] = 0
  BY <1>1 DEF Existants, CreerRetrait, PaiementInv
<1>3. /\ retraits'[r].montant = loc[q].montant
      /\ retraits'[r].statut = StatutInitial(loc[q].montant)
  BY <1>1, <1>2 DEF Cree
<1>4. Ligne(r)'
  <2>1. loc[q].montant \in Int /\ SeuilAdmin \in Int
    BY Entiers, RetraitsAssumption
  <2>2. NecessiteAdmin(loc[q].montant) \/ loc[q].montant < SeuilAdmin
    BY <2>1 DEF NecessiteAdmin
  <2>. QED
    BY <1>2, <1>3, <2>1, <2>2 DEF Ligne, StatutInitial, NecessiteAdmin
<1>5. \A p \in Requetes : ~Tient(p, r)
  BY DEF Tient, EtapeOK
<1>6. \A p \in Requetes \ {q} : pc'[p] = pc[p] /\ loc'[p] = loc[p]
  BY <1>1, UnSeul DEF Poursuivre
<1>7. \A p \in Requetes \ {q} : ~Tient(p, r)'
  BY <1>5, <1>6 DEF Tient
<1>8. ASSUME Tient(q, r)' PROVE Etape(q, r)'
  <2>1. pc'[q] = "transfert" /\ ~NecessiteAdmin(loc[q].montant)
    BY <1>1, <1>8 DEF Cree, Repondre, Vers, Tient
  <2>. QED
    BY <1>2, <1>3, <2>1 DEF Etape, StatutInitial
<1>. QED
  BY <1>4, <1>7, <1>8 DEF Suivi

LEMMA SuiviNext ==
  ASSUME TypeInv, PaiementInv, [Next]_vars, NEW r \in Existants', Calme(r)'
  PROVE  Suivi(r)'
<1>1. CASE r \notin Existants
  BY <1>1, SuiviNouveau
<1>2. CASE r \in Existants
  <2>1. Suivi(r)
    BY <1>2, CalmeAvant DEF PaiementInv
  <2>2. CASE Environnement \/ UNCHANGED vars
    <3>1. retraits' = retraits /\ envois' = envois
      BY <2>2 DEF Environnement, Crediter, ChangerAlerte, PasserDate, ExpirerOtp, Panne,
         vars, livreVars
    <3>2. \A p \in Requetes : Tient(p, r)' => Tient(p, r) /\ pc'[p] = pc[p]
      BY <2>2, EnvironnementProcs DEF Tient
    <3>. QED
      BY <2>1, <3>1, <3>2 DEF Suivi, Ligne, Etape
  <2>3. ASSUME NEW q \in Requetes, Recevoir(q) \/ Poursuivre(q) PROVE Suivi(r)'
    <3>1. CASE ~Tient(q, r)
      BY <1>2, <2>1, <2>3, <3>1, SuiviLibre
    <3>2. CASE Tient(q, r)
      <4>1. ~Recevoir(q)
        BY <3>2 DEF Recevoir, DemanderOtp, Confirmer, Valider, Rejeter, Commencer, Tient
      <4>. QED
        BY <1>2, <2>1, <2>3, <3>2, <4>1, SuiviTenu
    <3>. QED
      BY <3>1, <3>2
  <2>. QED
    BY <2>2, <2>3 DEF Next, Environnement
<1>. QED
  BY <1>1, <1>2

(* A row that does not exist is not paid.                                  *)
LEMMA AbsentsNext ==
  ASSUME TypeInv, PaiementInv, [Next]_vars, NEW r \in RetraitIds \ Existants'
  PROVE  envois'[r] = 0
<1>1. r \notin Existants
  BY LignesGardees DEF Garde
<1>2. \A q \in Requetes : Transferer(q) => loc[q].retrait \in Existants
  BY DEF Transferer, TypeInv, EtapeOK
<1>. QED
  BY <1>1, <1>2, QuiEnvoie DEF PaiementInv

(* The unique index on idempotencyKey.                                     *)
LEMMA ClesNext ==
  ASSUME TypeInv, PaiementInv, [Next]_vars, NEW r \in Existants', NEW s \in Existants',
         retraits'[r].cle # Nul, retraits'[r].cle = retraits'[s].cle
  PROVE  r = s
<1> USE DEF TypeInv, TypeOK
<1>1. CASE r \in Existants /\ s \in Existants
  BY <1>1, LignesGardees DEF Garde, PaiementInv
<1>2. ASSUME NEW t \in Existants', t \notin Existants, retraits'[t].cle # Nul
      PROVE  \A u \in Existants' : retraits'[u].cle = retraits'[t].cle => u = t
  <2>1. PICK q \in Requetes : CreerRetrait(q) /\ Cree(q, t)
    BY <1>2, NouvelleLigne
  <2>2. t \in RetraitIds /\ retraits'[t].cle = loc[q].cle
    BY <2>1 DEF Existants, Cree
  <2>3. \A u \in Existants' \ {t} : u \in Existants /\ retraits'[u] = retraits[u]
    BY <2>1 DEF Existants, Cree
  <2>. QED
    BY <1>2, <2>1, <2>2, <2>3 DEF Cree, CleLibre
<1>. QED
  BY <1>1, <1>2

LEMMA PaiementNext == TypeInv /\ PaiementInv /\ [Next]_vars => PaiementInv'
  BY SuiviNext, AbsentsNext, ClesNext DEF PaiementInv

(* A row is paid twice, or paid and shown as rejected, only when two        *)
(* administrators decided on it together: crashes and late or repeated      *)
(* decisions are not enough.                                               *)
THEOREM PayeUneSeuleFois == Spec => []PayeUneFois
<1>1. TypeInv /\ PaiementInv => PayeUneFois
  BY DEF PaiementInv, PayeUneFois, Calme, Suivi, Ligne, TypeInv, TypeOK, Existants
<1>. QED
  BY <1>1, PaiementInit, PaiementNext, TypeInvariant, PTL DEF Spec

(* A key the client sends again and again, at any time and after any crash, *)
(* is paid at most once below the administrator's threshold.               *)
THEOREM ClePayeeUneFois == Spec => []CleUneFois
<1>1. TypeInv /\ PaiementInv => CleUneFois
  BY DEF PaiementInv, CleUneFois, Calme, Suivi, Ligne, TypeInv, TypeOK, Existants
<1>. QED
  BY <1>1, PaiementInit, PaiementNext, TypeInvariant, PTL DEF Spec

(* A demand is paid once: for its key and for the decisions on its row.    *)
THEOREM UnPaiementParDemande == Spec => []UnSeulPaiement
  BY PayeUneSeuleFois, ClePayeeUneFois, PTL DEF UnSeulPaiement

-----------------------------------------------------------------------------
(* The ledger.                                                             *)

(* A handler that decides on a row, pays it or books it uses its amount.   *)
MontantTenu(q) ==
    pc[q] \in {"lireSolde", "marquer", "rejeter", "transfert", "enregistrer"}
      => loc[q].montant = retraits[loc[q].retrait].montant

(* A row is booked when it is executed and never before; a handler books    *)
(* what was paid.                                                          *)
ComptesInv ==
    /\ \A q \in Requetes : MontantTenu(q)
    /\ \/ courseDecision
       \/ /\ \A r \in RetraitIds : retraits[r].statut # "EXECUTE" => enregistres[r] = 0
          /\ \A q \in Requetes : pc[q] = "enregistrer" => envois[loc[q].retrait] = 1

LEMMA ComptesInit == Init => ComptesInv
  BY DEF Init, ComptesInv, MontantTenu

(* A handler that keeps its row and its amount keeps them equal.           *)
LEMMA MontantReste ==
  ASSUME TypeInv, [Next]_vars, NEW p \in Requetes, MontantTenu(p),
         \/ pc'[p] \notin {"lireSolde", "marquer", "rejeter", "transfert", "enregistrer"}
         \/ /\ pc[p] \in {"lireSolde", "marquer", "rejeter", "transfert", "enregistrer"}
            /\ loc'[p] = loc[p]
  PROVE  MontantTenu(p)'
<1>1. pc[p] \in {"lireSolde", "marquer", "rejeter", "transfert", "enregistrer"}
        => loc[p].retrait \in Existants
  BY DEF TypeInv, EtapeOK
<1>. QED
  BY <1>1, LignesGardees DEF MontantTenu, Garde

LEMMA MontantNext ==
  ASSUME TypeInv, [Next]_vars, NEW p \in Requetes, MontantTenu(p)
  PROVE  MontantTenu(p)'
<1> USE DEF TypeInv, TypeOK, Vers, Repondre
<1>1. CASE Environnement \/ UNCHANGED vars
  BY <1>1, EnvironnementProcs, MontantReste
<1>2. ASSUME NEW q \in Requetes \ {p}, Recevoir(q) \/ Poursuivre(q)
      PROVE  MontantTenu(p)'
  BY <1>2, UnSeul, MontantReste
<1>3. CASE Recevoir(p)
  <2>1. pc'[p] \in {"lire", "otp", "idempotence", "lireRetrait"}
    BY <1>3 DEF Recevoir, DemanderOtp, Confirmer, Valider, Rejeter, Commencer
  <2>. QED
    BY <2>1, MontantReste
<1>4. CASE CreerRetrait(p)
  <2>1. ASSUME pc'[p] # "libre" PROVE MontantTenu(p)'
    <3>1. PICK r \in RetraitIds \ Existants : Cree(p, r)
      BY <1>4, <2>1 DEF CreerRetrait, Cree
    <3>2. loc' = [loc EXCEPT ![p] = [loc[p] EXCEPT !.retrait = r]] /\ loc[p] \in Locales
      BY <2>1, <3>1 DEF Cree
    <3>3. loc'[p].montant = loc[p].montant /\ loc'[p].retrait = r
      BY <3>2 DEF Locales
    <3>4. retraits'[r].montant = loc[p].montant
      BY <3>1 DEF Cree
    <3>. QED
      BY <3>3, <3>4 DEF MontantTenu
  <2>. QED
    BY <2>1, MontantReste
<1>5. CASE LireRetrait(p)
  <2>1. ASSUME pc'[p] # "libre" PROVE MontantTenu(p)'
    <3>1. /\ loc' = [loc EXCEPT ![p] = [loc[p] EXCEPT !.montant =
                                          retraits[loc[p].retrait].montant]]
          /\ loc[p] \in Locales /\ retraits' = retraits
      BY <1>5, <2>1 DEF LireRetrait, livreVars
    <3>2. /\ loc'[p].montant = retraits[loc[p].retrait].montant
          /\ loc'[p].retrait = loc[p].retrait
      BY <3>1 DEF Locales
    <3>. QED
      BY <3>1, <3>2 DEF MontantTenu
  <2>. QED
    BY <2>1, MontantReste
<1>6. CASE \/ LireSolde(p) \/ MarquerValide(p) \/ MarquerRejete(p)
           \/ Transferer(p) \/ Enregistrer(p)
  <2>1. /\ pc[p] \in {"lireSolde", "marquer", "rejeter", "transfert", "enregistrer"}
        /\ pc'[p] = "libre" \/ loc'[p] = loc[p]
    BY <1>6 DEF LireSolde, MarquerValide, MarquerRejete, Transferer, Enregistrer
  <2>. QED
    BY <2>1, MontantReste
<1>7. CASE \/ ChercherCle(p) \/ ChercherOtp(p) \/ ConsommerOtp(p) \/ LireTontine(p)
           \/ Verifier(p) \/ InvaliderOtps(p) \/ CreerOtp(p)
  <2>1. pc'[p] \in {"libre", "otp", "consommer", "lire", "alerte", "invalider", "creer",
                    "creerOtp"}
    BY <1>7 DEF ChercherCle, ChercherOtp, ConsommerOtp, LireTontine, Verifier,
       InvaliderOtps, CreerOtp
  <2>. QED
    BY <2>1, MontantReste
<1>. QED
  BY <1>1, <1>2, <1>3, <1>4, <1>5, <1>6, <1>7 DEF Next, Poursuivre, Environnement

(* The balances and the bookings change only when a handler books, and the  *)
(* balance of the tontine when a payment arrives.                          *)
LEMMA QuiCompte ==
  ASSUME [Next]_vars
  PROVE  \/ UNCHANGED <<solde, commission, enregistres>>
         \/ Crediter /\ UNCHANGED <<commission, livreVars, procVars, courseDecision>>
         \/ \E q \in Requetes : Enregistrer(q)
<1> USE DEF livreVars, tontineVars
<1>1. CASE UNCHANGED vars \/ ChangerAlerte \/ PasserDate \/ ExpirerOtp \/ Panne
  BY <1>1 DEF vars, ChangerAlerte, PasserDate, ExpirerOtp, Panne
<1>2. CASE Crediter
  BY <1>2 DEF Crediter, courseVars
<1>3. ASSUME NEW q \in Requetes, Recevoir(q)
      PROVE  UNCHANGED <<solde, commission, enregistres>>
  BY <1>3 DEF Recevoir, DemanderOtp, Confirmer, Valider, Rejeter, Commencer
<1>4. ASSUME NEW q \in Requetes, Poursuivre(q)
      PROVE  UNCHANGED <<solde, commission, enregistres>> \/ Enregistrer(q)
  BY <1>4 DEF Poursuivre, ChercherCle, ChercherOtp, ConsommerOtp, LireTontine, Verifier,
     InvaliderOtps, CreerOtp, CreerRetrait, Transferer, LireRetrait, LireSolde,
     MarquerValide, MarquerRejete
<1>. QED
  BY <1>1, <1>2, <1>3, <1>4 DEF Next

(* A row with its race-free history, held by a handler.                    *)
LEMMA TenuEtape ==
  ASSUME TypeInv, PaiementInv, ~courseDecision, NEW q \in Requetes,
         pc[q] \in {"lireSolde", "marquer", "rejeter", "transfert", "enregistrer"}
  PROVE  /\ loc[q].retrait \in Existants /\ loc[q].retrait \in RetraitIds
         /\ Etape(q, loc[q].retrait)
         /\ Ligne(loc[q].retrait)
         /\ \A p \in Requetes : Tient(p, loc[q].retrait) => p = q
<1>1. loc[q].retrait \in Existants
  BY DEF TypeInv, EtapeOK
<1>2. Suivi(loc[q].retrait) /\ Tient(q, loc[q].retrait)
  BY <1>1 DEF PaiementInv, Calme, Tient
<1>. QED
  BY <1>1, <1>2 DEF Suivi, Existants

(* What is executed stays so.                                              *)
LEMMA ExecuteReste ==
  ASSUME TypeInv, PaiementInv, [Next]_vars, ~courseDecision, NEW r \in RetraitIds,
         retraits[r].statut = "EXECUTE"
  PROVE  retraits'[r].statut = "EXECUTE"
<1> USE DEF TypeInv, TypeOK
<1>1. r \in Existants
  BY DEF Existants
<1>2. ASSUME NEW q \in Requetes, CreerRetrait(q) PROVE retraits'[r] = retraits[r]
  BY <1>1, <1>2 DEF CreerRetrait
<1>3. ASSUME NEW q \in Requetes, MarquerValide(q) \/ MarquerRejete(q)
      PROVE  retraits'[r] = retraits[r]
  <2>1. retraits[loc[q].retrait].statut = "EN_ATTENTE"
    BY <1>3, TenuEtape DEF Etape, MarquerValide, MarquerRejete
  <2>2. r # loc[q].retrait
    BY <2>1
  <2>. QED
    BY <1>3, <2>2 DEF MarquerValide, MarquerRejete, Decision
<1>4. ASSUME NEW q \in Requetes, Enregistrer(q)
      PROVE  retraits'[r].statut = "EXECUTE"
  <2>1. \/ retraits'[r] = retraits[r]
        \/ retraits'[r] = [retraits[r] EXCEPT !.statut = "EXECUTE"]
    BY <1>4 DEF Enregistrer
  <2>. QED
    BY <2>1 DEF Retrait
<1>. QED
  BY <1>2, <1>3, <1>4, QuiEcrit

LEMMA ComptesNext ==
  ASSUME TypeInv, PaiementInv, ComptesInv, [Next]_vars
  PROVE  ComptesInv'
<1> USE DEF TypeInv, TypeOK, Vers, Repondre
<1>1. \A q \in Requetes : MontantTenu(q)'
  BY MontantNext DEF ComptesInv
<1>2. SUFFICES ASSUME ~courseDecision'
               PROVE  /\ \A r \in RetraitIds :
                           retraits'[r].statut # "EXECUTE" => enregistres'[r] = 0
                      /\ \A q \in Requetes :
                           pc'[q] = "enregistrer" => envois'[loc'[q].retrait] = 1
  BY <1>1 DEF ComptesInv
<1>3. ~courseDecision
  BY <1>2, CourseReste
<1>4. ASSUME NEW r \in RetraitIds, retraits'[r].statut # "EXECUTE"
      PROVE  enregistres'[r] = 0
  <2>1. enregistres[r] = 0
    BY <1>3, <1>4, ExecuteReste DEF ComptesInv
  <2>2. ASSUME NEW q \in Requetes, Enregistrer(q) PROVE enregistres'[r] = enregistres[r]
    <3>1. loc[q].retrait \in RetraitIds
      BY <1>3, <2>2, TenuEtape DEF Enregistrer
    <3>2. retraits'[loc[q].retrait] = [retraits[loc[q].retrait] EXCEPT !.statut = "EXECUTE"]
      BY <2>2, <3>1 DEF Enregistrer
    <3>3. retraits'[loc[q].retrait].statut = "EXECUTE"
      BY <3>1, <3>2 DEF Retrait
    <3>. QED
      BY <1>4, <2>2, <3>3 DEF Enregistrer
  <2>. QED
    BY <2>1, <2>2, QuiCompte DEF livreVars
<1>5. ASSUME NEW p \in Requetes, pc'[p] = "enregistrer"
      PROVE  envois'[loc'[p].retrait] = 1
  <2>1. CASE Transferer(p)
    <3>1. /\ loc[p].retrait \in RetraitIds /\ envois[loc[p].retrait] = 0 /\ loc' = loc
          /\ envois' = [envois EXCEPT ![loc[p].retrait] = @ + 1]
      BY <1>3, <2>1, TenuEtape DEF Transferer, Etape
    <3>. QED
      BY <3>1
  <2>2. CASE ~Transferer(p)
    <3>1. pc[p] = "enregistrer" /\ loc'[p] = loc[p]
      <4>1. CASE Environnement \/ UNCHANGED vars
        BY <1>5, <4>1, EnvironnementProcs
      <4>2. ASSUME NEW q \in Requetes \ {p}, Recevoir(q) \/ Poursuivre(q)
            PROVE  pc[p] = "enregistrer" /\ loc'[p] = loc[p]
        BY <1>5, <4>2, UnSeul
      <4>3. ~Recevoir(p) /\ ~Poursuivre(p)
        BY <1>5, <2>2 DEF Recevoir, DemanderOtp, Confirmer, Valider, Rejeter, Commencer,
           Poursuivre, ChercherCle, ChercherOtp, ConsommerOtp, LireTontine, Verifier,
           InvaliderOtps, CreerOtp, CreerRetrait, Enregistrer, LireRetrait, LireSolde,
           MarquerValide, MarquerRejete
      <4>. QED
        BY <4>1, <4>2, <4>3 DEF Next, Environnement
    <3>2. loc[p].retrait \in RetraitIds /\ envois[loc[p].retrait] = 1
      BY <1>3, <3>1, TenuEtape DEF ComptesInv
    <3>3. \A q \in Requetes : Transferer(q) => loc[q].retrait # loc[p].retrait
      BY <1>3, <2>2, <3>1, TenuEtape DEF Transferer, Tient
    <3>. QED
      BY <3>1, <3>2, <3>3, QuiEnvoie
  <2>. QED
    BY <2>1, <2>2
<1>. QED
  BY <1>4, <1>5

-----------------------------------------------------------------------------
(* The ledger.                                                             *)

StatutDe  == [r \in RetraitIds |-> retraits[r].statut]
MontantDe == [r \in RetraitIds |-> retraits[r].montant]

(* The ledger sees a step that writes one row as the change of its entries. *)
LEMMA UneLigne ==
  ASSUME TypeInv, NEW r \in RetraitIds,
         \A s \in RetraitIds \ {r} : retraits'[s] = retraits[s]
  PROVE  /\ StatutDe' = [StatutDe EXCEPT ![r] = retraits'[r].statut]
         /\ MontantDe' = [MontantDe EXCEPT ![r] = retraits'[r].montant]
         /\ retraits'[r].montant = retraits[r].montant => MontantDe' = MontantDe
  BY DEF TypeInv, TypeOK, StatutDe, MontantDe

LEMMA LivreInit == Init => Registre!Init
  BY DEF Init, Absent, Registre!Init

(* The creation of a row accepts the withdrawal.                           *)
LEMMA LivreCreer ==
  ASSUME TypeInv, NEW q \in Requetes, CreerRetrait(q)
  PROVE  [Registre!Next]_(Registre!vars)
<1> USE DEF CreerRetrait, tontineVars, courseVars
<1>1. CASE ~CleLibre(loc[q].cle)
  BY <1>1 DEF Registre!vars, Registre!soldes
<1>2. CASE CleLibre(loc[q].cle)
  <2>1. PICK r \in RetraitIds \ Existants : Cree(q, r)
    BY <1>2 DEF Cree
  <2>2. PICK m \in Montants : m = loc[q].montant
    BY DEF TypeInv, EtapeOK
  <2>3. StatutDe[r] = "ABSENT"
    BY <2>1 DEF StatutDe, Existants
  <2>4. /\ StatutDe' = [StatutDe EXCEPT ![r] = StatutInitial(m)]
        /\ MontantDe' = [MontantDe EXCEPT ![r] = m]
    <3>1. \A s \in RetraitIds \ {r} : retraits'[s] = retraits[s]
      BY <2>1 DEF Cree, TypeInv, TypeOK
    <3>2. retraits'[r].statut = StatutInitial(m) /\ retraits'[r].montant = m
      BY <2>1, <2>2 DEF Cree, TypeInv, TypeOK
    <3>. QED
      BY <2>1, <3>1, <3>2, UneLigne
  <2>5. Registre!Accepter(r, m)
    BY <2>3, <2>4 DEF Registre!Accepter, Registre!soldes, StatutDe, MontantDe,
       StatutInitial, NecessiteAdmin
  <2>. QED
    BY <2>1, <2>2, <2>5 DEF Registre!Next
<1>. QED
  BY <1>1, <1>2

(* The decision of an administrator on a row that waits for it.            *)
LEMMA LivreDecider ==
  ASSUME TypeInv, PaiementInv, ~courseDecision, NEW q \in Requetes,
         MarquerValide(q) \/ MarquerRejete(q)
  PROVE  [Registre!Next]_(Registre!vars)
<1>1. PICK r \in RetraitIds : r = loc[q].retrait /\ retraits[r].statut = "EN_ATTENTE"
  BY TenuEtape DEF Etape, MarquerValide, MarquerRejete
<1>2. PICK s \in {"VALIDE", "REJETE"} : retraits' = Decision(r, s)
  BY <1>1 DEF MarquerValide, MarquerRejete
<1>3. /\ StatutDe' = [StatutDe EXCEPT ![r] = s]
      /\ MontantDe' = MontantDe
  <2>1. \A t \in RetraitIds \ {r} : retraits'[t] = retraits[t]
    BY <1>2 DEF Decision, TypeInv, TypeOK
  <2>2. retraits'[r].statut = s /\ retraits'[r].montant = retraits[r].montant
    BY <1>1, <1>2 DEF Decision, TypeInv, TypeOK
  <2>. QED
    BY <1>1, <2>1, <2>2, UneLigne
<1>4. UNCHANGED <<solde, commission, envois, enregistres, courseDecision>>
  BY DEF MarquerValide, MarquerRejete, tontineVars, courseVars
<1>5. Registre!Decider(r)
  BY <1>1, <1>3, <1>4 DEF Registre!Decider, Registre!soldes, StatutDe, MontantDe
<1>. QED
  BY <1>1, <1>5 DEF Registre!Next

(* The provider is called once, for a valid row.                           *)
LEMMA LivrePayer ==
  ASSUME TypeInv, PaiementInv, ~courseDecision, NEW q \in Requetes, Transferer(q)
  PROVE  [Registre!Next]_(Registre!vars)
<1>1. PICK r \in RetraitIds : /\ r = loc[q].retrait
                              /\ retraits[r].statut = "VALIDE" /\ envois[r] = 0
  BY TenuEtape DEF Etape, Transferer
<1>2. envois' = [envois EXCEPT ![r] = 1]
  BY <1>1 DEF Transferer
<1>3. UNCHANGED <<solde, commission, retraits, enregistres, courseDecision>>
  BY DEF Transferer, tontineVars, courseVars
<1>4. Registre!Payer(r)
  BY <1>1, <1>2, <1>3 DEF Registre!Payer, Registre!soldes
<1>. QED
  BY <1>1, <1>4 DEF Registre!Next

(* What was paid is booked once, with both balances.                       *)
LEMMA LivreComptabiliser ==
  ASSUME TypeInv, PaiementInv, ComptesInv, ~courseDecision, NEW q \in Requetes,
         Enregistrer(q)
  PROVE  [Registre!Next]_(Registre!vars)
<1>1. PICK r \in RetraitIds : r = loc[q].retrait /\ retraits[r].statut = "VALIDE"
  BY TenuEtape DEF Etape, Enregistrer
<1>2. envois[r] = 1 /\ enregistres[r] = 0 /\ loc[q].montant = MontantDe[r]
  BY <1>1 DEF ComptesInv, MontantTenu, MontantDe, Enregistrer
<1>3. \A s \in RetraitIds \ {r} : retraits'[s] = retraits[s]
  BY <1>1 DEF Enregistrer, TypeInv, TypeOK
<1>4. retraits'[r] = [retraits[r] EXCEPT !.statut = "EXECUTE"] /\ retraits[r] \in Retrait
  BY <1>1 DEF Enregistrer, TypeInv, TypeOK
<1>5. retraits'[r].statut = "EXECUTE" /\ retraits'[r].montant = retraits[r].montant
  BY <1>4 DEF Retrait
<1>6. StatutDe' = [StatutDe EXCEPT ![r] = "EXECUTE"] /\ MontantDe' = MontantDe
  BY <1>1, <1>3, <1>5, UneLigne
<1>7. enregistres' = [enregistres EXCEPT ![r] = 1]
  BY <1>1, <1>2 DEF Enregistrer, TypeInv, TypeOK
<1>8. /\ solde' = solde - MontantDe[r]
      /\ commission' = commission + FraisAgent[MontantDe[r]]
      /\ UNCHANGED <<envois, courseDecision>>
  BY <1>1, <1>2 DEF Enregistrer, courseVars
<1>9. Registre!Comptabiliser(r)
  BY <1>1, <1>2, <1>6, <1>7, <1>8 DEF Registre!Comptabiliser, StatutDe, MontantDe
<1>. QED
  BY <1>1, <1>9 DEF Registre!Next

(* Every other step leaves the ledger as it is.                            *)
LEMMA LivreAutres ==
  ASSUME [Next]_vars,
         \A q \in Requetes : ~(CreerRetrait(q) \/ Transferer(q) \/ Enregistrer(q)
                               \/ MarquerValide(q) \/ MarquerRejete(q))
  PROVE  \/ UNCHANGED <<solde, commission, retraits, envois, enregistres>>
         \/ Crediter
<1> USE DEF livreVars, tontineVars
<1>1. CASE UNCHANGED vars \/ ChangerAlerte \/ PasserDate \/ ExpirerOtp \/ Panne
  BY <1>1 DEF vars, ChangerAlerte, PasserDate, ExpirerOtp, Panne
<1>2. ASSUME NEW q \in Requetes, Recevoir(q)
      PROVE  UNCHANGED <<solde, commission, retraits, envois, enregistres>>
  BY <1>2 DEF Recevoir, DemanderOtp, Confirmer, Valider, Rejeter, Commencer
<1>3. ASSUME NEW q \in Requetes, Poursuivre(q)
      PROVE  UNCHANGED <<solde, commission, retraits, envois, enregistres>>
  BY <1>3 DEF Poursuivre, ChercherCle, ChercherOtp, ConsommerOtp, LireTontine, Verifier,
     InvaliderOtps, CreerOtp, LireRetrait, LireSolde
<1>. QED
  BY <1>1, <1>2, <1>3 DEF Next

(* Each step of the handlers is a step of the ledger or none.              *)
LEMMA LivreNext ==
  ASSUME TypeInv, TypeInv', PaiementInv, ComptesInv, [Next]_vars
  PROVE  [Registre!Next]_(Registre!vars)
<1>1. CASE courseDecision'
  BY <1>1 DEF Registre!Next, Registre!Contester
<1>2. CASE ~courseDecision'
  <2>1. ~courseDecision /\ courseDecision' = courseDecision
    BY <1>2, CourseReste, Zenon DEF TypeInv, TypeOK, DrapeauxOK
  <2>2. CASE Crediter
    <3>1. PICK m \in Montants : solde' = solde + m
      BY <2>2 DEF Crediter
    <3>2. Registre!Crediter
      BY <2>1, <2>2, <3>1 DEF Crediter, livreVars, Registre!Crediter
    <3>. QED
      BY <3>2 DEF Registre!Next
  <2>3. CASE UNCHANGED <<solde, commission, retraits, envois, enregistres>>
    BY <2>1, <2>3 DEF Registre!vars, Registre!soldes
  <2>. QED
    BY <2>1, <2>2, <2>3, LivreCreer, LivreDecider, LivrePayer, LivreComptabiliser, LivreAutres
<1>. QED
  BY <1>1, <1>2

(* The handlers of retraits.service.ts, whatever runs at the same time and  *)
(* wherever they crash, implement the ledger: nothing is paid that was not  *)
(* accepted and, when it is large, decided; nothing twice; each booking is  *)
(* of one paid row, once, and moves both balances by its amount.           *)
THEOREM RetraitsTiennentLeLivre == Spec => LivreTenu
<1>1. Init => TypeInv /\ PaiementInv /\ ComptesInv
  BY TypeInit, PaiementInit, ComptesInit
<1>2. Spec => [](TypeInv /\ PaiementInv /\ ComptesInv)
  BY TypeInvariant, PaiementInit, PaiementNext, ComptesInit, ComptesNext, PTL DEF Spec
<1>. QED
  BY <1>2, LivreInit, LivreNext, PTL DEF Spec, LivreTenu, Registre!Spec
=============================================================================
