----------------------- MODULE AuthentificationProofs -----------------------
(***************************************************************************)
(* Theorems about one account: the tries of its codes and of its PIN, the   *)
(* sessions a reset closes and the fingerprint, for every number of         *)
(* requests at a time, of devices, of codes and of sessions.               *)
(***************************************************************************)
EXTENDS Authentification, TLAPS

(* What a handler holds at the steps that use it.                          *)
EtapeOK(q) ==
    /\ pc[q] \in {"invaliderOtp", "creerOtp", "ecrireOtp"} => loc[q].type \in Types
    /\ pc[q] = "ecrireOtp" => /\ loc[q].code \in DOMAIN otps
                              /\ loc[q].n < MaxTentativesOtp
    /\ pc[q] = "poserPin" => loc[q].op = "creerPin"
    /\ pc[q] = "ecrireConnexion" => loc[q].op = "connexion"
    /\ pc[q] = "lireAppareil" => loc[q].op = "bio"
    /\ pc[q] = "ouvrirSession" => loc[q].op \in {"connexion", "creerPin", "bio"}
    /\ pc[q] \in {"inscrireAppareil", "revoquerAppareil", "lireAppareil"}
         => loc[q].appareil \in Appareils

(* A live code has tries left.                                             *)
CodeOK(o) == otps[o].vivant => otps[o].tentatives < MaxTentativesOtp

TypeInv ==
    /\ TypeOK
    /\ \A o \in DOMAIN otps : CodeOK(o)
    /\ \A q \in Requetes : EtapeOK(q)

-----------------------------------------------------------------------------
(* The strengthenings of the safety invariants.                            *)

(* No handler writes code o: the wrong tries are all counted; one does: its *)
(* own is not yet, and no token was given for the code.                    *)
CodeCompte(o) ==
    /\ otps[o].delivres <= 1
    /\ otps[o].vivant => otps[o].delivres = 0
    /\ otps[o].tentatives <= MaxTentativesOtp
    /\ (\A q \in Requetes : ~EcritCode(q, o)) => otps[o].essais <= otps[o].tentatives

CodeEnMain(q) ==
    LET o == loc[q].code IN
    /\ loc[q].n = otps[o].tentatives /\ otps[o].delivres = 0
    /\ otps[o].essais <= otps[o].tentatives + (IF loc[q].juste THEN 0 ELSE 1)

Codes ==
    /\ \A o \in DOMAIN otps : CodeCompte(o)
    /\ \A q \in Requetes : pc[q] = "ecrireOtp" => CodeEnMain(q)
    /\ \A p, q \in Requetes : pc[p] = "ecrireOtp" /\ EcritCode(q, loc[p].code) => p = q

CodesInv == courseCode \/ Codes

(* Between two logins the failures written say how many wrong PINs were     *)
(* tried; during one they say it of the moment it began.                   *)
PinLibre ==
    /\ bloque = "NON" => essais <= echecs /\ echecs < MaxTentativesPin
    /\ bloque = "OUI" => essais <= MaxTentativesPin /\ echecs >= MaxTentativesPin
    /\ bloque = "PASSE" => essais = 0 /\ echecs >= MaxTentativesPin

PinEnMain(q) ==
    /\ bloque # "OUI"
    /\ bloque = "PASSE" => loc[q].n >= MaxTentativesPin
    /\ essais <= loc[q].n + 1
    /\ loc[q].n >= MaxTentativesPin => essais <= 1

Essais ==
    /\ (\A q \in Requetes : pc[q] # "ecrireConnexion") => PinLibre
    /\ \A q \in Requetes : pc[q] = "ecrireConnexion" => PinEnMain(q)
    /\ \A p, q \in Requetes :
         pc[p] = "ecrireConnexion" /\ pc[q] = "ecrireConnexion" => p = q

PinInv == courseEchecs \/ Essais

(* A handler that will open a session saw the account after the last reset. *)
EpoqueTenue(q) ==
    /\ pc[q] = "ecrireConnexion" /\ loc[q].juste => loc[q].code = resets
    /\ pc[q] = "poserPin" => loc[q].n = resets
    /\ pc[q] = "ouvrirSession" /\ loc[q].op # "bio" => loc[q].n = resets

Epoques ==
    /\ \A s \in DOMAIN sessions :
         sessions[s].active /\ ~sessions[s].bio => sessions[s].epoque = resets
    /\ \A q \in Requetes : EpoqueTenue(q)

SessionsInv == courseReset \/ Epoques

(* One handler at a time changes the fingerprint, which is on whenever a    *)
(* device can be used, except while a device was just registered.          *)
Empreinte ==
    /\ \A p, q \in Requetes : ModifieEmpreinte(p) /\ ModifieEmpreinte(q) => p = q
    /\ \A q \in Requetes : pc[q] # "configurer"
    /\ \A q \in Requetes : pc[q] = "desactiverEmpreinte" => DernierAppareil
    /\ (\A q \in Requetes : pc[q] # "activerEmpreinte") => empreinte \/ DernierAppareil

EmpreinteInv == configure \/ courseEmpreinte \/ Empreinte

-----------------------------------------------------------------------------
(* Types.                                                                  *)

(* The state of an idle request is one.                                    *)
LEMMA ReposType == Repos \in Locales
  BY DEF Repos, Locales

(* A step of one request leaves the others where they were.                *)
LEMMA UnSeul ==
  ASSUME TypeOK, NEW q \in Requetes, Recevoir(q) \/ Poursuivre(q)
  PROVE  \A p \in Requetes \ {q} : pc'[p] = pc[p] /\ loc'[p] = loc[p]
<1> USE DEF TypeOK, Vers, Repondre, Commencer
<1>1. CASE Recevoir(q)
  BY ZenonT(40), <1>1 DEF Recevoir, Inscription, RepriseInscription, DemanderResetPin, VerifierOtp,
     CreerPin, Connexion, DemanderNouveauPin, ChangerPin, Rafraichir, EnregistrerAppareil,
     RevoquerAppareil, ConfigurerEmpreinte, ConnexionBiometrique
<1>2. CASE \/ InvaliderOtps(q) \/ CreerOtp(q) \/ EcrireOtp(q) \/ PoserPin(q)
           \/ EcrireConnexion(q)
  BY <1>2 DEF InvaliderOtps, CreerOtp, EcrireOtp, PoserPin, EcrireConnexion
<1>3. CASE OuvrirSession(q) \/ GenererTokens(q) \/ Reinitialiser(q) \/ EcrirePin(q)
  BY <1>3 DEF OuvrirSession, GenererTokens, Reinitialiser, EcrirePin
<1>4. CASE \/ InscrireAppareil(q) \/ EcrireEmpreinte(q) \/ DesactiverAppareil(q)
           \/ CompterAppareils(q) \/ LireAppareil(q)
  BY <1>4 DEF InscrireAppareil, EcrireEmpreinte, DesactiverAppareil, CompterAppareils,
     LireAppareil
<1>. QED
  BY <1>1, <1>2, <1>3, <1>4 DEF Poursuivre

(* Disconnections, an administrator, time and crashes.                     *)
Exterieur == Deconnecter \/ ChangerStatut \/ Expirer \/ Debloquer \/ DebloquerPin \/ Panne

(* What is not a handler moves none, except a crash that stops all.        *)
LEMMA ExterieurProcs ==
  ASSUME TypeOK, Exterieur \/ UNCHANGED vars
  PROVE  \/ UNCHANGED <<pc, loc>>
         \/ Panne /\ \A q \in Requetes : pc'[q] = "libre" /\ loc'[q] = Repos
  BY DEF Exterieur, Deconnecter, ChangerStatut, Expirer, Debloquer, DebloquerPin, Panne,
     vars, procVars

(* Sessions are numbered.                                                  *)
LEMMA DomaineSessions == TypeOK => DOMAIN sessions \subseteq Nat
  BY DEF TypeOK

(* How a verification of the newest code o of type t begins.               *)
Verifie(q, t, j, o) ==
    /\ \A p \in Vivants(t) : p <= o
    /\ pc[q] = "libre" /\ pc' = [pc EXCEPT ![q] = "ecrireOtp"]
    /\ loc' = [loc EXCEPT ![q] = [LectureCode("verifier", t) EXCEPT
                                     !.code = o, !.n = otps[o].tentatives, !.juste = j]]
    /\ otps' = [otps EXCEPT ![o].essais = IF j THEN @ ELSE Compte(@, MaxTentativesOtp)]
    /\ courseCode' = (courseCode \/ \E p \in Requetes : EcritCode(p, o))

(* verifierOtp begins for some type, answer and code.                      *)
LEMMA VerifierDit ==
  ASSUME NEW q \in Requetes, VerifierOtp(q)
  PROVE  \E t \in Types, j \in BOOLEAN : \E o \in Vivants(t) : Verifie(q, t, j, o)
  BY ZenonT(40) DEF VerifierOtp, Commencer, Vers, Verifie

(* A request begins at a step, with what that step needs.                  *)
LEMMA RecevoirProcs ==
  ASSUME TypeInv, NEW q \in Requetes, Recevoir(q)
  PROVE  /\ pc' \in [Requetes -> Etapes] /\ loc' \in [Requetes -> Locales]
         /\ EtapeOK(q)'
<1> USE ReposType DEF TypeInv, TypeOK, Commencer, Vers, EtapeOK
<1>1. CASE Inscription(q) \/ RepriseInscription(q) \/ DemanderResetPin(q)
  <2>1. PICK e \in {"invaliderOtp"}, t \in Types :
          /\ loc' = [loc EXCEPT ![q] = LectureCode("demander", t)]
          /\ pc' = [pc EXCEPT ![q] = e]
    BY <1>1 DEF Inscription, RepriseInscription, DemanderResetPin, Types
  <2>2. LectureCode("demander", t) \in Locales
    BY <2>1 DEF Locales, Types, Lecture, LectureCode, LectureAppareil
  <2>3. loc' \in [Requetes -> Locales]
    BY <2>1, <2>2
  <2>4. EtapeOK(q)'
    BY <2>1, <2>2 DEF Locales, Types, Lecture, LectureCode, LectureAppareil
  <2>. QED
    BY <2>1, <2>3, <2>4 DEF Etapes
<1>2. CASE DemanderNouveauPin(q) \/ ChangerPin(q)
  <2>1. PICK e \in {"reinitialiser", "changerPin"}, o \in {"reinitialiser", "changerPin"} :
          /\ loc' = [loc EXCEPT ![q] = Lecture(o)]
          /\ pc' = [pc EXCEPT ![q] = e]
    BY <1>2 DEF DemanderNouveauPin, ChangerPin, Types
  <2>2. Lecture(o) \in Locales
    BY <2>1 DEF Locales, Types, Lecture, LectureCode, LectureAppareil
  <2>3. loc' \in [Requetes -> Locales]
    BY <2>1, <2>2
  <2>4. EtapeOK(q)'
    BY <2>1, <2>2 DEF Locales, Types, Lecture, LectureCode, LectureAppareil
  <2>. QED
    BY <2>1, <2>3, <2>4 DEF Etapes
<1>3. CASE CreerPin(q)
  <2>1. PICK e \in {"poserPin"} :
          /\ loc' = [loc EXCEPT ![q] = [Lecture("creerPin") EXCEPT !.n = resets]]
          /\ pc' = [pc EXCEPT ![q] = e]
    BY <1>3 DEF CreerPin, Types
  <2>2. [Lecture("creerPin") EXCEPT !.n = resets] \in Locales
    BY <2>1 DEF Locales, Types, Lecture, LectureCode, LectureAppareil
  <2>3. loc' \in [Requetes -> Locales]
    BY <2>1, <2>2
  <2>4. EtapeOK(q)'
    BY <2>1, <2>2 DEF Locales, Types, Lecture, LectureCode, LectureAppareil
  <2>. QED
    BY <2>1, <2>3, <2>4 DEF Etapes
<1>4. CASE Connexion(q)
  <2>1. PICK j \in BOOLEAN :
          /\ loc' = [loc EXCEPT ![q] = [Lecture("connexion") EXCEPT
                                           !.n = echecs, !.juste = j, !.code = resets]]
          /\ pc' = [pc EXCEPT ![q] = "ecrireConnexion"]
    BY <1>4 DEF Connexion
  <2>2. [Lecture("connexion") EXCEPT !.n = echecs, !.juste = j, !.code = resets] \in Locales
    BY <2>1 DEF Locales, Types, Lecture, LectureCode, LectureAppareil
  <2>3. loc' \in [Requetes -> Locales]
    BY <2>1, <2>2
  <2>4. EtapeOK(q)'
    BY <2>1, <2>2 DEF Locales, Types, Lecture, LectureCode, LectureAppareil
  <2>. QED
    BY <2>1, <2>3, <2>4 DEF Etapes
<1>5. CASE Rafraichir(q)
  <2>1. PICK s \in DOMAIN sessions :
          /\ loc' = [loc EXCEPT ![q] = [Lecture("generer") EXCEPT !.n = s]]
          /\ pc' = [pc EXCEPT ![q] = "genererTokens"]
    BY <1>5 DEF Rafraichir
  <2>2. [Lecture("generer") EXCEPT !.n = s] \in Locales
    BY <2>1, DomaineSessions DEF Locales, Types, Lecture, LectureCode, LectureAppareil
  <2>3. loc' \in [Requetes -> Locales]
    BY <2>1, <2>2
  <2>4. EtapeOK(q)'
    BY <2>1, <2>2 DEF Locales, Types, Lecture, LectureCode, LectureAppareil
  <2>. QED
    BY <2>1, <2>3, <2>4 DEF Etapes
<1>6. CASE EnregistrerAppareil(q)
  <2>1. PICK d \in Appareils :
          /\ loc' = [loc EXCEPT ![q] = LectureAppareil("enregistrer", d)]
          /\ pc' = [pc EXCEPT ![q] = "inscrireAppareil"]
    BY <1>6 DEF EnregistrerAppareil
  <2>2. LectureAppareil("enregistrer", d) \in Locales
    BY <2>1 DEF Locales, Types, Lecture, LectureCode, LectureAppareil
  <2>3. loc' \in [Requetes -> Locales]
    BY <2>1, <2>2
  <2>4. EtapeOK(q)'
    BY <2>1, <2>2 DEF Locales, Types, Lecture, LectureCode, LectureAppareil
  <2>. QED
    BY <2>1, <2>3, <2>4 DEF Etapes
<1>7. CASE RevoquerAppareil(q)
  <2>1. PICK d \in Appareils :
          /\ loc' = [loc EXCEPT ![q] = LectureAppareil("revoquer", d)]
          /\ pc' = [pc EXCEPT ![q] = "revoquerAppareil"]
    BY <1>7 DEF RevoquerAppareil
  <2>2. LectureAppareil("revoquer", d) \in Locales
    BY <2>1 DEF Locales, Types, Lecture, LectureCode, LectureAppareil
  <2>3. loc' \in [Requetes -> Locales]
    BY <2>1, <2>2
  <2>4. EtapeOK(q)'
    BY <2>1, <2>2 DEF Locales, Types, Lecture, LectureCode, LectureAppareil
  <2>. QED
    BY <2>1, <2>3, <2>4 DEF Etapes
<1>8. CASE ConfigurerEmpreinte(q)
  <2>1. PICK j \in BOOLEAN :
          /\ loc' = [loc EXCEPT ![q] = [Lecture("configurer") EXCEPT !.juste = j]]
          /\ pc' = [pc EXCEPT ![q] = "configurer"]
    BY <1>8 DEF ConfigurerEmpreinte
  <2>2. [Lecture("configurer") EXCEPT !.juste = j] \in Locales
    BY <2>1 DEF Locales, Types, Lecture, LectureCode, LectureAppareil
  <2>3. loc' \in [Requetes -> Locales]
    BY <2>1, <2>2
  <2>4. EtapeOK(q)'
    BY <2>1, <2>2 DEF Locales, Types, Lecture, LectureCode, LectureAppareil
  <2>. QED
    BY <2>1, <2>3, <2>4 DEF Etapes
<1>9. CASE ConnexionBiometrique(q)
  <2>1. PICK d \in Appareils :
          /\ loc' = [loc EXCEPT ![q] = [LectureAppareil("bio", d) EXCEPT !.n = resets]]
          /\ pc' = [pc EXCEPT ![q] = "lireAppareil"]
    BY <1>9 DEF ConnexionBiometrique
  <2>2. [LectureAppareil("bio", d) EXCEPT !.n = resets] \in Locales
    BY <2>1 DEF Locales, Types, Lecture, LectureCode, LectureAppareil
  <2>3. loc' \in [Requetes -> Locales]
    BY <2>1, <2>2
  <2>4. EtapeOK(q)'
    BY <2>1, <2>2 DEF Locales, Types, Lecture, LectureCode, LectureAppareil
  <2>. QED
    BY <2>1, <2>3, <2>4 DEF Etapes
<1>10. CASE VerifierOtp(q)
  <2>1. PICK t \in Types, j \in BOOLEAN : \E o \in Vivants(t) : Verifie(q, t, j, o)
    BY <1>10, VerifierDit
  <2>0. PICK o \in Vivants(t) : Verifie(q, t, j, o)
    BY <2>1
  <2>2. /\ o \in DOMAIN otps /\ o \in Nat /\ otps[o] \in CodeOTP /\ otps[o].vivant
        /\ DOMAIN otps' = DOMAIN otps
    BY <2>0 DEF Vivants, Verifie
  <2>3. otps[o].tentatives \in Nat /\ otps[o].tentatives < MaxTentativesOtp
    BY <2>1, <2>2 DEF CodeOTP, CodeOK
  <2>. DEFINE l == LectureCode("verifier", t)
  <2>4. l \in Locales /\ l.type = t
    BY DEF Locales, LectureCode
  <2>. HIDE DEF l
  <2>5. loc' = [loc EXCEPT ![q] = [l EXCEPT !.code = o, !.n = otps[o].tentatives,
                                            !.juste = j]]
    BY <2>0 DEF l, Verifie
  <2>6. [l EXCEPT !.code = o, !.n = otps[o].tentatives, !.juste = j] \in Locales
    BY <2>2, <2>3, <2>4 DEF Locales
  <2>8. pc' = [pc EXCEPT ![q] = "ecrireOtp"]
    BY <2>0 DEF Verifie
  <2>7. loc'[q].type = t /\ loc'[q].code = o /\ loc'[q].n = otps[o].tentatives
    BY <2>4, <2>5 DEF Locales
  <2>. QED
    BY <2>2, <2>3, <2>5, <2>6, <2>7, <2>8 DEF Etapes
<1>. QED
  BY <1>1, <1>2, <1>3, <1>4, <1>5, <1>6, <1>7, <1>8, <1>9, <1>10 DEF Recevoir

(* A request goes on to a step, with what that step needs, or answers.     *)
LEMMA PoursuivreProcs ==
  ASSUME TypeInv, NEW q \in Requetes, Poursuivre(q)
  PROVE  /\ pc' \in [Requetes -> Etapes] /\ loc' \in [Requetes -> Locales]
         /\ EtapeOK(q)'
<1> USE ReposType DEF TypeInv, TypeOK, Repondre, Vers
<1>1. ASSUME Repondre(q)
      PROVE  /\ pc' \in [Requetes -> Etapes] /\ loc' \in [Requetes -> Locales]
             /\ EtapeOK(q)'
  BY <1>1 DEF Etapes, EtapeOK
<1>2. CASE \/ CreerOtp(q) \/ EcrireOtp(q) \/ GenererTokens(q) \/ Reinitialiser(q)
           \/ EcrirePin(q) \/ EcrireEmpreinte(q)
  BY <1>1, <1>2 DEF CreerOtp, EcrireOtp, GenererTokens, Reinitialiser, EcrirePin,
     EcrireEmpreinte
<1>3. ASSUME loc' = loc, NEW e \in Etapes \ {"ecrireOtp"}, pc' = [pc EXCEPT ![q] = e],
             e \in {"invaliderOtp", "creerOtp"} => loc[q].type \in Types,
             e \notin {"inscrireAppareil", "revoquerAppareil", "lireAppareil",
                       "ecrireConnexion", "poserPin"},
             e = "ouvrirSession" => loc[q].op \in {"connexion", "creerPin", "bio"}
      PROVE  /\ pc' \in [Requetes -> Etapes] /\ loc' \in [Requetes -> Locales]
             /\ EtapeOK(q)'
  BY <1>3 DEF EtapeOK
<1>4. CASE InvaliderOtps(q) \/ PoserPin(q)
  BY <1>3, <1>4 DEF InvaliderOtps, PoserPin, EtapeOK, Etapes
<1>5. CASE InscrireAppareil(q) \/ DesactiverAppareil(q)
  BY <1>3, <1>5 DEF InscrireAppareil, DesactiverAppareil, Etapes
<1>6. CASE CompterAppareils(q) \/ LireAppareil(q)
  BY <1>1, <1>3, <1>6 DEF CompterAppareils, LireAppareil, EtapeOK, Etapes
<1>7. CASE EcrireConnexion(q)
  <2>1. CASE loc[q].juste
    <3>1. /\ loc' = [loc EXCEPT ![q] = [loc[q] EXCEPT !.n = loc[q].code]]
          /\ loc[q] \in Locales /\ loc[q].op = "connexion"
          /\ pc' = [pc EXCEPT ![q] = "ouvrirSession"]
      BY <1>7, <2>1 DEF EcrireConnexion, EtapeOK
    <3>2. [loc[q] EXCEPT !.n = loc[q].code] \in Locales /\ loc'[q].op = "connexion"
      BY <3>1 DEF Locales
    <3>. QED
      BY <3>1, <3>2 DEF EtapeOK, Etapes
  <2>2. CASE ~loc[q].juste
    BY <1>1, <1>7, <2>2 DEF EcrireConnexion
  <2>. QED
    BY <2>1, <2>2
<1>8. CASE OuvrirSession(q)
  <2>1. CASE loc[q].op = "bio"
    BY <1>1, <1>8, <2>1 DEF OuvrirSession
  <2>2. CASE loc[q].op # "bio"
    <3>1. /\ loc' = [loc EXCEPT ![q] = [Lecture("generer") EXCEPT !.n = Len(sessions')]]
          /\ pc' = [pc EXCEPT ![q] = "genererTokens"]
      BY <1>8, <2>2 DEF OuvrirSession
    <3>2. Len(sessions') \in Nat
      BY <1>8 DEF OuvrirSession
    <3>3. [Lecture("generer") EXCEPT !.n = Len(sessions')] \in Locales
      BY <3>2 DEF Lecture, Locales
    <3>. QED
      BY <3>1, <3>3 DEF EtapeOK, Etapes
  <2>. QED
    BY <2>1, <2>2
<1>. QED
  BY <1>2, <1>4, <1>5, <1>6, <1>7, <1>8 DEF Poursuivre

-----------------------------------------------------------------------------
(* What a step does to the codes.                                          *)

(* A code that loses its validity at most.                                 *)
Affaibli(o) ==
    /\ otps'[o].type = otps[o].type /\ otps'[o].tentatives = otps[o].tentatives
    /\ otps'[o].essais = otps[o].essais /\ otps'[o].delivres = otps[o].delivres
    /\ otps'[o].vivant => otps[o].vivant

(* The assignments to a row of codeOTP.                                    *)
LEMMA ChampsCode ==
  ASSUME NEW c \in CodeOTP
  PROVE  /\ c.type \in Types /\ c.tentatives \in Nat /\ c.vivant \in BOOLEAN
         /\ c.essais \in Nat /\ c.delivres \in Nat
  BY DEF CodeOTP

(* A code is marked used.                                                  *)
LEMMA ChampVivant ==
  ASSUME NEW c \in CodeOTP, NEW d, d = [c EXCEPT !.vivant = FALSE]
  PROVE  /\ d \in CodeOTP /\ d.type = c.type /\ d.tentatives = c.tentatives
         /\ ~d.vivant /\ d.essais = c.essais /\ d.delivres = c.delivres
  BY DEF CodeOTP

(* A wrong try of a code is counted.                                       *)
LEMMA ChampEssais ==
  ASSUME NEW c \in CodeOTP, NEW n \in Nat, NEW d, d = [c EXCEPT !.essais = n]
  PROVE  /\ d \in CodeOTP /\ d.type = c.type /\ d.tentatives = c.tentatives
         /\ d.vivant <=> c.vivant
         /\ d.essais = n /\ d.delivres = c.delivres
  BY DEF CodeOTP

(* A list of the same length with elements of S.                           *)
LEMMA MemeLongueur ==
  ASSUME NEW S, NEW s \in Seq(S), NEW t, t = [i \in DOMAIN s |-> t[i]],
         \A i \in DOMAIN s : t[i] \in S
  PROVE  t \in Seq(S) /\ DOMAIN t = DOMAIN s
<1>1. DOMAIN s = 1 .. Len(s) /\ Len(s) \in Nat
  OBVIOUS
<1>. QED
  BY <1>1

(* Expiry and a new demand only take the validity of codes.                *)
LEMMA CodesAffaiblis ==
  ASSUME TypeOK, otps' = otps \/ Expirer \/ \E q \in Requetes : InvaliderOtps(q)
  PROVE  /\ otps' \in Seq(CodeOTP) /\ DOMAIN otps' = DOMAIN otps
         /\ \A o \in DOMAIN otps : Affaibli(o)
<1>1. otps \in Seq(CodeOTP) /\ \A o \in DOMAIN otps : otps[o] \in CodeOTP
  BY DEF TypeOK
<1>2. SUFFICES /\ otps' = [o \in DOMAIN otps |-> otps'[o]]
               /\ \A o \in DOMAIN otps :
                    \/ otps'[o] = otps[o]
                    \/ otps'[o] = [otps[o] EXCEPT !.vivant = FALSE]
  <2>1. ASSUME NEW o \in DOMAIN otps PROVE otps'[o] \in CodeOTP /\ Affaibli(o)
    <3>1. CASE otps'[o] = otps[o]
      BY <1>1, <3>1 DEF Affaibli
    <3>2. CASE otps'[o] = [otps[o] EXCEPT !.vivant = FALSE]
      BY <1>1, <3>2, ChampVivant DEF Affaibli
    <3>. QED
      BY <1>2, <3>1, <3>2
  <2>. QED
    BY <1>1, <1>2, <2>1, MemeLongueur
<1>3. CASE otps' = otps
  BY <1>1, <1>3
<1>4. CASE Expirer
  <2>1. CASE \E o \in DOMAIN otps : otps' = [otps EXCEPT ![o].vivant = FALSE]
    BY <1>1, <2>1
  <2>. QED
    BY <1>3, <1>4, <2>1 DEF Expirer, Vivants
<1>5. CASE \E q \in Requetes : InvaliderOtps(q)
  BY <1>1, <1>5 DEF InvaliderOtps
<1>. QED
  BY <1>3, <1>4, <1>5

(* A new code.                                                             *)
LEMMA CodeCree ==
  ASSUME TypeInv, NEW q \in Requetes, CreerOtp(q)
  PROVE  /\ otps' \in Seq(CodeOTP)
         /\ DOMAIN otps' = DOMAIN otps \cup {Len(otps) + 1}
         /\ \A o \in DOMAIN otps : otps'[o] = otps[o]
         /\ LET c == otps'[Len(otps) + 1] IN
            c.tentatives = 0 /\ c.essais = 0 /\ c.delivres = 0
<1>1. otps \in Seq(CodeOTP) /\ loc[q].type \in Types
  BY DEF TypeInv, TypeOK, EtapeOK, CreerOtp
<1>2. [type |-> loc[q].type, tentatives |-> 0, vivant |-> TRUE, essais |-> 0,
       delivres |-> 0] \in CodeOTP
  BY <1>1 DEF CodeOTP
<1>. QED
  BY <1>1, <1>2 DEF CreerOtp

(* A verification begins.                                                  *)
LEMMA CodeLu ==
  ASSUME TypeInv, NEW q \in Requetes, NEW t, NEW j \in BOOLEAN, NEW o \in Vivants(t),
         Verifie(q, t, j, o)
  PROVE  /\ otps' \in Seq(CodeOTP) /\ DOMAIN otps' = DOMAIN otps
         /\ \A p \in DOMAIN otps \ {o} : otps'[p] = otps[p]
         /\ o \in DOMAIN otps /\ otps[o].vivant
         /\ otps'[o].tentatives = otps[o].tentatives
         /\ otps'[o].delivres = otps[o].delivres
         /\ otps'[o].essais \in otps[o].essais .. otps[o].essais + (IF j THEN 0 ELSE 1)
<1>1. /\ otps \in Seq(CodeOTP) /\ \A p \in DOMAIN otps : otps[p] \in CodeOTP
      /\ o \in DOMAIN otps /\ otps[o].vivant
  BY DEF TypeInv, TypeOK, Vivants
<1>2. PICK n : n = (IF j THEN otps[o].essais ELSE Compte(otps[o].essais, MaxTentativesOtp))
  OBVIOUS
<1>3. n \in otps[o].essais .. otps[o].essais + (IF j THEN 0 ELSE 1) /\ n \in Nat
  BY <1>1, <1>2, ChampsCode DEF Compte
<1>4. otps' = [otps EXCEPT ![o] = [otps[o] EXCEPT !.essais = n]]
  BY <1>1, <1>2 DEF Verifie
<1>5. /\ otps' = [p \in DOMAIN otps |-> otps'[p]]
      /\ otps'[o] = [otps[o] EXCEPT !.essais = n]
      /\ \A p \in DOMAIN otps \ {o} : otps'[p] = otps[p]
  BY <1>1, <1>4
<1>6. /\ otps'[o] \in CodeOTP /\ otps'[o].tentatives = otps[o].tentatives
      /\ otps'[o].essais = n /\ otps'[o].delivres = otps[o].delivres
  BY <1>1, <1>3, <1>5, ChampEssais
<1>. QED
  BY SMTT(30), <1>1, <1>3, <1>5, <1>6, MemeLongueur

(* A verification writes what it found.                                    *)
LEMMA CodeEcrit ==
  ASSUME TypeInv, NEW q \in Requetes, EcrireOtp(q), NEW o, o = loc[q].code
  PROVE  /\ otps' \in Seq(CodeOTP) /\ DOMAIN otps' = DOMAIN otps
         /\ \A p \in DOMAIN otps \ {o} : otps'[p] = otps[p]
         /\ o \in DOMAIN otps
         /\ otps'[o].essais = otps[o].essais
         /\ \/ /\ loc[q].juste /\ ~otps'[o].vivant
               /\ otps'[o].tentatives = otps[o].tentatives
               /\ otps'[o].delivres = otps[o].delivres + 1
            \/ /\ ~loc[q].juste
               /\ otps'[o].tentatives = loc[q].n + 1
               /\ otps'[o].delivres = otps[o].delivres
               /\ otps'[o].vivant => otps[o].vivant /\ loc[q].n + 1 < MaxTentativesOtp
<1> USE AuthentificationAssumption DEF TypeInv, TypeOK
<1>1. /\ otps \in Seq(CodeOTP) /\ \A p \in DOMAIN otps : otps[p] \in CodeOTP
      /\ o \in DOMAIN otps /\ loc[q].n < MaxTentativesOtp /\ loc[q] \in Locales
  BY DEF EtapeOK, EcrireOtp
<1>2. loc[q].n \in Nat /\ loc[q].juste \in BOOLEAN /\ MaxTentativesOtp \in Nat
  BY <1>1 DEF Locales
<1>3. ~Epuise(loc[q].n)
  BY <1>1, <1>2 DEF Epuise
<1>4. ASSUME NEW d, otps' = [otps EXCEPT ![o] = d], d \in CodeOTP
      PROVE  /\ otps' \in Seq(CodeOTP) /\ DOMAIN otps' = DOMAIN otps
             /\ \A p \in DOMAIN otps \ {o} : otps'[p] = otps[p]
             /\ otps'[o] = d
  <2>1. otps' = [p \in DOMAIN otps |-> otps'[p]] /\ \A p \in DOMAIN otps : otps'[p] \in CodeOTP
    BY <1>1, <1>4
  <2>. QED
    BY <1>1, <1>4, <2>1, MemeLongueur
<1>5. PICK c \in CodeOTP : c = otps[o]
  BY <1>1
<1>6. CASE loc[q].juste
  <2>1. PICK n \in Nat : n = c.delivres + 1
    BY ChampsCode
  <2>2. PICK d : d = [c EXCEPT !.vivant = FALSE, !.delivres = n]
    OBVIOUS
  <2>3. /\ d \in CodeOTP /\ d.tentatives = c.tentatives /\ ~d.vivant
        /\ d.essais = c.essais /\ d.delivres = n
    BY <2>2 DEF CodeOTP
  <2>4. otps' = [otps EXCEPT ![o] = d]
    BY <1>1, <1>3, <1>5, <1>6, <2>1, <2>2 DEF EcrireOtp
  <2>. QED
    BY <1>1, <1>4, <1>5, <1>6, <2>1, <2>3, <2>4
<1>7. CASE ~loc[q].juste
  <2>1. PICK n \in Nat : n = loc[q].n + 1
    BY <1>2
  <2>2. PICK b \in BOOLEAN : b <=> (c.vivant /\ ~Epuise(n))
    OBVIOUS
  <2>3. PICK d : d = [c EXCEPT !.tentatives = n, !.vivant = b]
    OBVIOUS
  <2>4. /\ d \in CodeOTP /\ d.tentatives = n /\ (d.vivant <=> b)
        /\ d.essais = c.essais /\ d.delivres = c.delivres
    BY <2>3 DEF CodeOTP
  <2>5. otps' = [otps EXCEPT ![o] = d]
    BY <1>1, <1>3, <1>5, <1>7, <2>1, <2>2, <2>3 DEF EcrireOtp
  <2>6. b => otps[o].vivant /\ loc[q].n + 1 < MaxTentativesOtp
    BY <1>2, <1>5, <2>1, <2>2 DEF Epuise
  <2>. QED
    BY <1>1, <1>4, <1>5, <1>7, <2>1, <2>4, <2>5, <2>6
<1>. QED
  BY <1>6, <1>7

(* The codes change by no other step.                                      *)
LEMMA QuiEcritCodes ==
  ASSUME [Next]_vars
  PROVE  \/ otps' = otps \/ Expirer
         \/ \E q \in Requetes :
              InvaliderOtps(q) \/ CreerOtp(q) \/ VerifierOtp(q) \/ EcrireOtp(q)
<1> USE DEF codeVars
<1>1. CASE UNCHANGED vars \/ Deconnecter \/ ChangerStatut \/ Debloquer \/ DebloquerPin \/ Panne
  BY <1>1 DEF vars, Deconnecter, ChangerStatut, Debloquer, DebloquerPin, Panne
<1>2. ASSUME NEW q \in Requetes, Recevoir(q) PROVE otps' = otps \/ VerifierOtp(q)
  BY <1>2 DEF Recevoir, Inscription, RepriseInscription, DemanderResetPin, CreerPin,
     Connexion, DemanderNouveauPin, ChangerPin, Rafraichir, EnregistrerAppareil,
     RevoquerAppareil, ConfigurerEmpreinte, ConnexionBiometrique
<1>3. ASSUME NEW q \in Requetes, Poursuivre(q)
      PROVE  otps' = otps \/ InvaliderOtps(q) \/ CreerOtp(q) \/ EcrireOtp(q)
  BY <1>3 DEF Poursuivre, PoserPin, EcrireConnexion, OuvrirSession, GenererTokens,
     Reinitialiser, EcrirePin, InscrireAppareil, EcrireEmpreinte, DesactiverAppareil,
     CompterAppareils, LireAppareil
<1>. QED
  BY <1>1, <1>2, <1>3 DEF Next

(* Codes keep their type and their limit, and none disappears.             *)
LEMMA CodesType ==
  ASSUME TypeInv, [Next]_vars
  PROVE  /\ otps' \in Seq(CodeOTP) /\ DOMAIN otps \subseteq DOMAIN otps'
         /\ \A o \in DOMAIN otps' : CodeOK(o)'
<1> USE AuthentificationAssumption
<1>1. \A o \in DOMAIN otps : CodeOK(o) /\ otps \in Seq(CodeOTP)
  BY DEF TypeInv, TypeOK
<1>2. CASE otps' = otps \/ Expirer \/ \E q \in Requetes : InvaliderOtps(q)
  BY <1>1, <1>2, CodesAffaiblis DEF Affaibli, CodeOK, TypeInv
<1>3. ASSUME NEW q \in Requetes, CreerOtp(q)
      PROVE  /\ otps' \in Seq(CodeOTP) /\ DOMAIN otps \subseteq DOMAIN otps'
             /\ \A o \in DOMAIN otps' : CodeOK(o)'
  BY <1>1, <1>3, CodeCree DEF CodeOK
<1>4. ASSUME NEW q \in Requetes, VerifierOtp(q)
      PROVE  /\ otps' \in Seq(CodeOTP) /\ DOMAIN otps \subseteq DOMAIN otps'
             /\ \A o \in DOMAIN otps' : CodeOK(o)'
  <2>1. PICK t \in Types, j \in BOOLEAN : \E o \in Vivants(t) : Verifie(q, t, j, o)
    BY <1>4, VerifierDit
  <2>2. PICK o \in Vivants(t) : Verifie(q, t, j, o)
    BY <2>1
  <2>. QED
    BY <1>1, <2>2, CodeLu DEF CodeOK
<1>5. ASSUME NEW q \in Requetes, EcrireOtp(q)
      PROVE  /\ otps' \in Seq(CodeOTP) /\ DOMAIN otps \subseteq DOMAIN otps'
             /\ \A o \in DOMAIN otps' : CodeOK(o)'
  BY <1>1, <1>5, CodeEcrit DEF CodeOK
<1>. QED
  BY <1>2, <1>3, <1>4, <1>5, QuiEcritCodes

-----------------------------------------------------------------------------
(* What a step does to the sessions.                                       *)

(* A session that is closed at most.                                       *)
Gardee(s) ==
    /\ sessions'[s].active => sessions[s].active
    /\ sessions'[s].bio <=> sessions[s].bio
    /\ sessions'[s].epoque = sessions[s].epoque

(* The sessions change by no other step.                                   *)
LEMMA QuiEcritSessions ==
  ASSUME [Next]_vars
  PROVE  \/ sessions' = sessions \/ Deconnecter \/ Expirer
         \/ \E q \in Requetes : OuvrirSession(q) \/ GenererTokens(q) \/ Reinitialiser(q)
<1>1. CASE UNCHANGED vars \/ ChangerStatut \/ Debloquer \/ DebloquerPin \/ Panne
  BY <1>1 DEF vars, ChangerStatut, Debloquer, DebloquerPin, Panne
<1>2. ASSUME NEW q \in Requetes, Recevoir(q) PROVE sessions' = sessions
  BY <1>2 DEF Recevoir, Inscription, RepriseInscription, DemanderResetPin, CreerPin,
     Connexion, DemanderNouveauPin, ChangerPin, Rafraichir, EnregistrerAppareil,
     RevoquerAppareil, ConfigurerEmpreinte, ConnexionBiometrique, VerifierOtp
<1>3. ASSUME NEW q \in Requetes, Poursuivre(q)
      PROVE  \/ sessions' = sessions \/ OuvrirSession(q) \/ GenererTokens(q)
             \/ Reinitialiser(q)
  BY <1>3 DEF Poursuivre, PoserPin, EcrireConnexion, EcrirePin, InscrireAppareil,
     EcrireEmpreinte, DesactiverAppareil, CompterAppareils, LireAppareil, InvaliderOtps,
     CreerOtp, EcrireOtp
<1>. QED
  BY <1>1, <1>2, <1>3 DEF Next

(* Every other step keeps the rows and opens none of them again.           *)
LEMMA SessionsGardees ==
  ASSUME TypeInv, [Next]_vars, \A q \in Requetes : ~OuvrirSession(q)
  PROVE  /\ sessions' \in Seq(Session) /\ DOMAIN sessions' = DOMAIN sessions
         /\ \A s \in DOMAIN sessions : Gardee(s)
<1>1. sessions \in Seq(Session) /\ \A s \in DOMAIN sessions : sessions[s] \in Session
  BY DEF TypeInv, TypeOK
<1>2. SUFFICES /\ sessions' = [s \in DOMAIN sessions |-> sessions'[s]]
               /\ \A s \in DOMAIN sessions :
                    \/ sessions'[s] = sessions[s]
                    \/ sessions'[s] = [sessions[s] EXCEPT !.active = FALSE]
                    \/ sessions'[s] = [sessions[s] EXCEPT !.jeton = TRUE]
                    \/ sessions'[s] = [sessions[s] EXCEPT !.active = FALSE, !.jeton = FALSE]
  <2>1. ASSUME NEW s \in DOMAIN sessions PROVE sessions'[s] \in Session /\ Gardee(s)
    <3>1. PICK c \in Session : c = sessions[s]
      BY <1>1
    <3>2. \/ sessions'[s] = c
          \/ sessions'[s] = [c EXCEPT !.active = FALSE]
          \/ sessions'[s] = [c EXCEPT !.jeton = TRUE]
          \/ sessions'[s] = [c EXCEPT !.active = FALSE, !.jeton = FALSE]
      BY <1>2, <3>1
    <3>. QED
      BY <3>1, <3>2 DEF Gardee, Session
  <2>. QED
    BY <1>1, <1>2, <2>1, MemeLongueur
<1>3. CASE sessions' = sessions
  BY <1>1, <1>3
<1>4. CASE sessions' = Fermees
  BY <1>1, <1>4 DEF Fermees
<1>5. ASSUME NEW s \in DOMAIN sessions, NEW c,
             sessions' = [sessions EXCEPT ![s] = c],
             \/ c = [sessions[s] EXCEPT !.active = FALSE]
             \/ c = [sessions[s] EXCEPT !.jeton = TRUE]
             \/ c = [sessions[s] EXCEPT !.active = FALSE, !.jeton = FALSE]
      PROVE  /\ sessions' = [t \in DOMAIN sessions |-> sessions'[t]]
             /\ \A t \in DOMAIN sessions :
                  \/ sessions'[t] = sessions[t]
                  \/ sessions'[t] = [sessions[t] EXCEPT !.active = FALSE]
                  \/ sessions'[t] = [sessions[t] EXCEPT !.jeton = TRUE]
                  \/ sessions'[t] = [sessions[t] EXCEPT !.active = FALSE, !.jeton = FALSE]
  BY <1>1, <1>5
<1>6. CASE Deconnecter
  BY <1>1, <1>4, <1>5, <1>6 DEF Deconnecter
<1>7. CASE Expirer
  BY <1>1, <1>3, <1>5, <1>7 DEF Expirer
<1>8. ASSUME NEW q \in Requetes, GenererTokens(q)
      PROVE  /\ sessions' = [s \in DOMAIN sessions |-> sessions'[s]]
             /\ \A s \in DOMAIN sessions :
                  \/ sessions'[s] = sessions[s]
                  \/ sessions'[s] = [sessions[s] EXCEPT !.jeton = TRUE]
  <2>1. PICK n : n = loc[q].n
    OBVIOUS
  <2>2. PICK c : c = [sessions[n] EXCEPT !.jeton = TRUE]
    OBVIOUS
  <2>3. sessions' = [sessions EXCEPT ![n] = c]
    BY <1>8, <2>1, <2>2 DEF GenererTokens
  <2>. QED
    BY <1>1, <2>2, <2>3
<1>9. ASSUME NEW q \in Requetes, Reinitialiser(q) PROVE sessions' = Fermees
  BY <1>9 DEF Reinitialiser
<1>. QED
  BY <1>3, <1>4, <1>6, <1>7, <1>8, <1>9, QuiEcritSessions

(* A new session remembers the resets its handler saw.                     *)
LEMMA SessionOuverte ==
  ASSUME TypeInv, NEW q \in Requetes, OuvrirSession(q)
  PROVE  /\ sessions' \in Seq(Session)
         /\ DOMAIN sessions' = DOMAIN sessions \cup {Len(sessions) + 1}
         /\ \A s \in DOMAIN sessions : sessions'[s] = sessions[s]
         /\ sessions'[Len(sessions) + 1].epoque = loc[q].n
         /\ sessions'[Len(sessions) + 1].bio <=> loc[q].op = "bio"
<1>1. sessions \in Seq(Session) /\ loc[q] \in Locales
  BY DEF TypeInv, TypeOK
<1>2. PICK b \in BOOLEAN : b <=> loc[q].op = "bio"
  OBVIOUS
<1>3. PICK c : c = [active |-> TRUE, jeton |-> FALSE, bio |-> b, epoque |-> loc[q].n]
  OBVIOUS
<1>4. c \in Session /\ c.epoque = loc[q].n /\ (c.bio <=> b)
  BY <1>1, <1>3 DEF Session, Locales
<1>5. sessions' = Append(sessions, c)
  BY <1>2, <1>3 DEF OuvrirSession
<1>. QED
  BY <1>1, <1>2, <1>4, <1>5

-----------------------------------------------------------------------------
(* The types are kept.                                                     *)

(* The columns of the account and of its devices.                          *)
Colonnes ==
    /\ statut \in Comptes /\ bloque \in {"NON", "OUI", "PASSE"} /\ empreinte \in BOOLEAN
    /\ pin \in 0 .. dernierPin /\ dernierPin \in Nat
    /\ echecs \in Nat /\ essais \in Nat /\ resets \in Nat
    /\ jetons \subseteq Types
    /\ appareils \in [Appareils -> {"ABSENT", "ACTIF", "REVOQUE"}]

(* A step leaves every column its type.                                    *)
LEMMA ColonnesNext ==
  ASSUME TypeInv, [Next]_vars
  PROVE  Colonnes'
<1>0. Colonnes
  BY DEF TypeInv, TypeOK, Colonnes
<1> USE <1>0, AuthentificationAssumption
    DEF Colonnes, pinVars, codeVars, bioVars, statutVars
<1>1. CASE UNCHANGED vars \/ Deconnecter \/ Panne
  BY <1>1 DEF vars, Deconnecter, Panne
<1>5. CASE Debloquer \/ DebloquerPin
  BY <1>5 DEF Debloquer, DebloquerPin
<1>2. CASE ChangerStatut \/ Expirer
  BY <1>2 DEF ChangerStatut, Expirer, Comptes
<1>3. ASSUME NEW q \in Requetes, Recevoir(q) PROVE Colonnes'
  <2>1. CASE \/ Inscription(q) \/ RepriseInscription(q) \/ DemanderResetPin(q)
             \/ CreerPin(q) \/ DemanderNouveauPin(q) \/ ChangerPin(q) \/ Rafraichir(q)
    BY <2>1 DEF Inscription, RepriseInscription, DemanderResetPin, CreerPin,
       DemanderNouveauPin, ChangerPin, Rafraichir, Comptes
  <2>2. CASE \/ VerifierOtp(q) \/ EnregistrerAppareil(q) \/ RevoquerAppareil(q)
             \/ ConfigurerEmpreinte(q) \/ ConnexionBiometrique(q)
    BY ZenonT(40), <2>2 DEF VerifierOtp, EnregistrerAppareil, RevoquerAppareil, ConfigurerEmpreinte,
       ConnexionBiometrique
  <2>3. CASE Connexion(q)
    BY <2>3 DEF Connexion, Compte
  <2>. QED
    BY <1>3, <2>1, <2>2, <2>3 DEF Recevoir
<1>4. ASSUME NEW q \in Requetes, Poursuivre(q) PROVE Colonnes'
  <2>0. /\ loc[q] \in Locales /\ EtapeOK(q)
        /\ loc[q].n \in Nat /\ loc[q].juste \in BOOLEAN
    BY DEF TypeInv, TypeOK, Locales
  <2>1. CASE InvaliderOtps(q) \/ CreerOtp(q) \/ OuvrirSession(q) \/ GenererTokens(q)
    BY <2>1 DEF InvaliderOtps, CreerOtp, OuvrirSession, GenererTokens
  <2>2. CASE EcrireOtp(q)
    BY <2>0, <2>2 DEF EcrireOtp, EtapeOK
  <2>3. CASE PoserPin(q) \/ EcrirePin(q) \/ Reinitialiser(q)
    BY <2>3 DEF PoserPin, EcrirePin, Reinitialiser, Comptes
  <2>4. CASE EcrireConnexion(q)
    BY <2>0, <2>4 DEF EcrireConnexion
  <2>5. CASE InscrireAppareil(q) \/ DesactiverAppareil(q)
    BY <2>0, <2>5 DEF InscrireAppareil, DesactiverAppareil
  <2>6. CASE CompterAppareils(q) \/ LireAppareil(q)
    BY <2>6 DEF CompterAppareils, LireAppareil
  <2>7. CASE EcrireEmpreinte(q)
    BY <2>0, <2>7 DEF EcrireEmpreinte
  <2>. QED
    BY <1>4, <2>1, <2>2, <2>3, <2>4, <2>5, <2>6, <2>7 DEF Poursuivre
<1>. QED
  BY <1>1, <1>2, <1>3, <1>4, <1>5 DEF Next

(* A step leaves every handler at a step with what it needs.               *)
LEMMA ProcsNext ==
  ASSUME TypeInv, [Next]_vars
  PROVE  /\ pc' \in [Requetes -> Etapes] /\ loc' \in [Requetes -> Locales]
         /\ \A q \in Requetes : EtapeOK(q)'
<1>1. /\ pc \in [Requetes -> Etapes] /\ loc \in [Requetes -> Locales]
      /\ TypeOK /\ \A q \in Requetes : EtapeOK(q)
      /\ DOMAIN otps \subseteq DOMAIN otps'
  BY CodesType DEF TypeInv, TypeOK
<1>2. ASSUME NEW p \in Requetes, pc'[p] = pc[p], loc'[p] = loc[p] PROVE EtapeOK(p)'
  BY <1>1, <1>2 DEF EtapeOK
<1>3. ASSUME NEW q \in Requetes, Recevoir(q) \/ Poursuivre(q)
      PROVE  /\ pc' \in [Requetes -> Etapes] /\ loc' \in [Requetes -> Locales]
             /\ \A p \in Requetes : EtapeOK(p)'
  <2>1. /\ pc' \in [Requetes -> Etapes] /\ loc' \in [Requetes -> Locales]
        /\ EtapeOK(q)'
    BY <1>3, RecevoirProcs, PoursuivreProcs
  <2>. QED
    BY <1>1, <1>2, <1>3, <2>1, UnSeul
<1>4. CASE Exterieur \/ UNCHANGED vars
  <2>1. CASE UNCHANGED <<pc, loc>>
    BY <1>1, <1>2, <2>1
  <2>2. CASE Panne /\ \A q \in Requetes : pc'[q] = "libre" /\ loc'[q] = Repos
    BY <2>2, ReposType DEF Panne, Etapes, EtapeOK
  <2>. QED
    BY <1>1, <1>4, <2>1, <2>2, ExterieurProcs
<1>. QED
  BY <1>3, <1>4 DEF Next, Exterieur

(* The initial states have the types.                                      *)
LEMMA TypeInit == Init => TypeInv
<1> SUFFICES ASSUME Init PROVE TypeInv
  OBVIOUS
<1>0. usage.existe => statut = "ACTIF" /\ pin = 1 /\ dernierPin = 1
  BY DEF Init
<1>5. ~usage.existe => statut = "ABSENT" /\ pin = 0 /\ dernierPin = 0
  BY DEF Init
<1>6. appareils \in [Appareils -> {"ABSENT", "ACTIF", "REVOQUE"}]
  BY DEF Init
<1>7. /\ statut \in Comptes /\ bloque \in {"NON", "OUI", "PASSE"}
      /\ pin \in 0 .. dernierPin /\ dernierPin \in Nat
  <2>1. CASE usage.existe
    BY <1>0, <2>1 DEF Init, Comptes
  <2>2. CASE ~usage.existe
    BY <1>5, <2>2 DEF Init, Comptes
  <2>. QED
    BY <2>1, <2>2
<1>8. /\ echecs \in Nat /\ essais \in Nat /\ resets \in Nat
      /\ jetons \subseteq Types /\ empreinte \in BOOLEAN
  BY DEF Init
<1>1. Colonnes
  BY <1>6, <1>7, <1>8 DEF Colonnes
<1>2. otps = <<>> /\ sessions = <<>>
  BY DEF Init
<1>3. pc \in [Requetes -> Etapes] /\ loc \in [Requetes -> Locales]
  BY ReposType DEF Init, Etapes
<1>4. \A q \in Requetes : EtapeOK(q)
  BY DEF Init, EtapeOK
<1>. QED
  BY <1>1, <1>2, <1>3, <1>4 DEF TypeInv, TypeOK, Colonnes

(* Every step keeps them.                                                  *)
LEMMA TypeNext ==
  ASSUME TypeInv, [Next]_vars
  PROVE  TypeInv'
<1>1. sessions' \in Seq(Session)
  BY SessionsGardees, SessionOuverte
<1>. QED
  BY <1>1, ColonnesNext, ProcsNext, CodesType DEF TypeInv, TypeOK, Colonnes

(* Every column and every handler keeps its type, a code that can still be *)
(* verified has tries left, and a handler holds what its next step uses.   *)
THEOREM TypesTenus == Spec => []TypeInv
<1>1. TypeInv /\ [Next]_vars => TypeInv'
  BY TypeNext
<1>. QED
  BY <1>1, TypeInit, PTL DEF Spec

(* Whatever the requests, their number and their order, every column and   *)
(* local variable of an account has its type.                              *)
THEOREM ComptesTypes == Spec => []TypeOK
<1>1. TypeInv => TypeOK
  BY DEF TypeInv
<1>. QED
  BY <1>1, TypesTenus, PTL

-----------------------------------------------------------------------------
(* Which action takes a handler to a step, and which from it.              *)
LEMMA Transitions ==
  ASSUME TypeOK, NEW q \in Requetes, Recevoir(q) \/ Poursuivre(q)
  PROVE  /\ pc'[q] = "ecrireOtp" => VerifierOtp(q)
         /\ pc[q] = "ecrireOtp" => EcrireOtp(q)
         /\ pc'[q] = "ecrireConnexion" => Connexion(q)
         /\ pc[q] = "ecrireConnexion" => EcrireConnexion(q)
         /\ pc'[q] = "poserPin" => CreerPin(q)
         /\ pc'[q] = "ouvrirSession" =>
              PoserPin(q) \/ EcrireConnexion(q) \/ LireAppareil(q)
         /\ pc'[q] = "inscrireAppareil" => EnregistrerAppareil(q)
         /\ pc'[q] = "activerEmpreinte" => InscrireAppareil(q)
         /\ pc'[q] = "revoquerAppareil" => RevoquerAppareil(q)
         /\ pc'[q] = "compterAppareils" => DesactiverAppareil(q)
         /\ pc'[q] = "desactiverEmpreinte" => CompterAppareils(q)
         /\ pc'[q] = "configurer" => ConfigurerEmpreinte(q)
         /\ pc[q] = "inscrireAppareil" => InscrireAppareil(q)
         /\ pc[q] = "revoquerAppareil" => DesactiverAppareil(q)
         /\ pc[q] = "compterAppareils" => CompterAppareils(q)
         /\ pc[q] \in {"activerEmpreinte", "desactiverEmpreinte", "configurer"} =>
              EcrireEmpreinte(q)
<1> USE DEF TypeOK, Vers, Repondre, Commencer
<1>1. CASE \/ Inscription(q) \/ RepriseInscription(q) \/ DemanderResetPin(q)
           \/ VerifierOtp(q) \/ CreerPin(q) \/ Connexion(q)
  BY <1>1 DEF Inscription, RepriseInscription, DemanderResetPin, VerifierOtp, CreerPin,
     Connexion
<1>2. CASE DemanderNouveauPin(q) \/ ChangerPin(q) \/ Rafraichir(q)
  BY <1>2 DEF DemanderNouveauPin, ChangerPin, Rafraichir
<1>3. CASE \/ EnregistrerAppareil(q) \/ RevoquerAppareil(q) \/ ConfigurerEmpreinte(q)
           \/ ConnexionBiometrique(q)
  BY <1>3 DEF EnregistrerAppareil, RevoquerAppareil, ConfigurerEmpreinte,
     ConnexionBiometrique
<1>4. CASE \/ InvaliderOtps(q) \/ CreerOtp(q) \/ EcrireOtp(q) \/ PoserPin(q)
  BY <1>4 DEF InvaliderOtps, CreerOtp, EcrireOtp, PoserPin
<1>5. CASE EcrireConnexion(q) \/ OuvrirSession(q) \/ GenererTokens(q)
  BY <1>5 DEF EcrireConnexion, OuvrirSession, GenererTokens
<1>6. CASE Reinitialiser(q) \/ EcrirePin(q) \/ InscrireAppareil(q)
  BY <1>6 DEF Reinitialiser, EcrirePin, InscrireAppareil
<1>7. CASE \/ EcrireEmpreinte(q) \/ DesactiverAppareil(q) \/ CompterAppareils(q)
           \/ LireAppareil(q)
  BY <1>7 DEF EcrireEmpreinte, DesactiverAppareil, CompterAppareils, LireAppareil
<1>. QED
  BY <1>1, <1>2, <1>3, <1>4, <1>5, <1>6, <1>7 DEF Recevoir, Poursuivre

(* The flags of the races are never taken back.                            *)
Courses ==
    /\ courseCode => courseCode'
    /\ courseEchecs => courseEchecs'
    /\ courseReset => courseReset'
    /\ courseEmpreinte => courseEmpreinte'
    /\ configure => configure'

(* Every step keeps the flags that are set.                                *)
LEMMA CoursesRestent == [Next]_vars => Courses
<1> SUFFICES ASSUME [Next]_vars PROVE Courses
  OBVIOUS
<1>0. ASSUME UNCHANGED <<courseVars, configure>> PROVE Courses
  BY <1>0 DEF courseVars, Courses
<1> USE DEF bioVars
<1>1. CASE \/ UNCHANGED vars \/ Deconnecter \/ ChangerStatut \/ Expirer \/ Debloquer
           \/ DebloquerPin
  BY <1>0, <1>1 DEF vars, Deconnecter, ChangerStatut, Expirer, Debloquer, DebloquerPin
<1>2. CASE Panne
  BY Zenon, <1>2 DEF Panne, Courses, CourseEmpreinte
<1>3. ASSUME NEW q \in Requetes, Recevoir(q) PROVE Courses
  <2>1. CASE VerifierOtp(q)
    <3>1. UNCHANGED <<courseEchecs, courseReset, courseEmpreinte, configure>>
      BY <2>1 DEF VerifierOtp
    <3>2. courseCode => courseCode'
      BY Zenon, <2>1 DEF VerifierOtp
    <3>. QED
      BY <3>1, <3>2 DEF Courses
  <2>2. CASE Connexion(q)
    <3>1. UNCHANGED <<courseCode, courseReset, courseEmpreinte, configure>>
      BY <2>2 DEF Connexion
    <3>2. courseEchecs => courseEchecs'
      BY Zenon, <2>2 DEF Connexion
    <3>. QED
      BY <3>1, <3>2 DEF Courses
  <2>3. CASE EnregistrerAppareil(q) \/ RevoquerAppareil(q) \/ ConfigurerEmpreinte(q)
    <3>1. UNCHANGED <<courseCode, courseReset, courseEchecs>>
      BY <2>3 DEF EnregistrerAppareil, RevoquerAppareil, ConfigurerEmpreinte
    <3>3. configure => configure'
      BY Zenon, <2>3 DEF EnregistrerAppareil, RevoquerAppareil, ConfigurerEmpreinte
    <3>2. courseEmpreinte => courseEmpreinte'
      BY Zenon, <2>3 DEF EnregistrerAppareil, RevoquerAppareil, ConfigurerEmpreinte,
         CourseEmpreinte
    <3>. QED
      BY <3>1, <3>2, <3>3 DEF Courses
  <2>. QED
    BY <1>0, <1>3, <2>1, <2>2, <2>3 DEF Recevoir, Inscription,
       RepriseInscription, DemanderResetPin, CreerPin, DemanderNouveauPin, ChangerPin,
       Rafraichir, ConnexionBiometrique
<1>4. ASSUME NEW q \in Requetes, Poursuivre(q) PROVE Courses
  <2>1. CASE Reinitialiser(q)
    BY Zenon, <2>1 DEF Reinitialiser, Courses
  <2>. QED
    BY <1>0, <1>4, <2>1 DEF Poursuivre, PoserPin, EcrireConnexion, EcrirePin,
       InscrireAppareil, EcrireEmpreinte, DesactiverAppareil, CompterAppareils,
       LireAppareil, InvaliderOtps, CreerOtp, EcrireOtp, OuvrirSession, GenererTokens
<1>. QED
  BY <1>1, <1>2, <1>3, <1>4 DEF Next

-----------------------------------------------------------------------------
(* The tries of a code.                                                    *)

(* A verification goes on unless it is one that begins, ends or dies.      *)
LEMMA Verificateurs ==
  ASSUME TypeInv, [Next]_vars, ~courseCode',
         \A q \in Requetes : ~VerifierOtp(q) /\ ~EcrireOtp(q)
  PROVE  \A p \in Requetes :
           /\ pc'[p] = "ecrireOtp" <=> pc[p] = "ecrireOtp"
           /\ pc[p] = "ecrireOtp" => loc'[p] = loc[p]
<1>1. ASSUME NEW q \in Requetes, Recevoir(q) \/ Poursuivre(q), NEW p \in Requetes
      PROVE  /\ pc'[p] = "ecrireOtp" <=> pc[p] = "ecrireOtp"
             /\ pc[p] = "ecrireOtp" => loc'[p] = loc[p]
  <2>1. CASE p = q
    BY <1>1, <2>1, Transitions DEF TypeInv
  <2>2. CASE p # q
    BY <1>1, <2>2, UnSeul DEF TypeInv
  <2>. QED
    BY <2>1, <2>2
<1>2. CASE Exterieur \/ UNCHANGED vars
  <2>1. CASE UNCHANGED <<pc, loc>>
    BY <2>1
  <2>2. CASE Panne /\ \A q \in Requetes : pc'[q] = "libre" /\ loc'[q] = Repos
    <3>1. \A q \in Requetes : pc[q] # "ecrireOtp"
      BY Zenon, <2>2 DEF Panne
    <3>. QED
      BY <2>2, <3>1
  <2>. QED
    BY <1>2, <2>1, <2>2, ExterieurProcs DEF TypeInv
<1>. QED
  BY <1>1, <1>2 DEF Next, Exterieur

(* Steps that are no verification.                                         *)
LEMMA CodesAilleurs ==
  ASSUME TypeInv, Codes, [Next]_vars, ~courseCode',
         \A q \in Requetes : ~VerifierOtp(q) /\ ~EcrireOtp(q)
  PROVE  Codes'
<1>1. \A p \in Requetes :
        /\ pc'[p] = "ecrireOtp" <=> pc[p] = "ecrireOtp"
        /\ pc[p] = "ecrireOtp" => loc'[p] = loc[p]
  BY Verificateurs
<1>2. \A p \in Requetes : \A o : EcritCode(p, o)' <=> EcritCode(p, o)
  BY <1>1 DEF EcritCode
<1>3. /\ otps \in Seq(CodeOTP)
      /\ \A o \in DOMAIN otps : CodeCompte(o)
      /\ \A q \in Requetes : pc[q] = "ecrireOtp" => CodeEnMain(q) /\ loc[q].code \in DOMAIN otps
  BY DEF TypeInv, TypeOK, EtapeOK, Codes
<1>4. \A p, q \in Requetes : pc'[p] = "ecrireOtp" /\ EcritCode(q, loc[p].code)' => p = q
  BY <1>1, <1>2 DEF Codes
<1>5. CASE /\ \A o \in DOMAIN otps : Affaibli(o)
           /\ DOMAIN otps' = DOMAIN otps
  <2>1. ASSUME NEW o \in DOMAIN otps PROVE CodeCompte(o)'
    BY <1>2, <1>3, <1>5 DEF CodeCompte, Affaibli
  <2>2. ASSUME NEW q \in Requetes, pc'[q] = "ecrireOtp" PROVE CodeEnMain(q)'
    BY <1>1, <1>3, <1>5, <2>2 DEF CodeEnMain, Affaibli
  <2>3. \A o \in DOMAIN otps' : CodeCompte(o)'
    BY <1>5, <2>1
  <2>. QED
    BY <1>4, <2>2, <2>3 DEF Codes
<1>6. ASSUME NEW q \in Requetes, CreerOtp(q) PROVE Codes'
  <2>0. Len(otps) + 1 \notin DOMAIN otps /\ Len(otps) \in Nat
    BY <1>3
  <2>1. ASSUME NEW o \in DOMAIN otps' PROVE CodeCompte(o)'
    BY <1>2, <1>3, <1>6, <2>0, CodeCree, AuthentificationAssumption DEF CodeCompte
  <2>2. ASSUME NEW p \in Requetes, pc'[p] = "ecrireOtp" PROVE CodeEnMain(p)'
    BY <1>1, <1>3, <1>6, <2>2, CodeCree DEF CodeEnMain
  <2>. QED
    BY <1>1, <1>4, <2>1, <2>2 DEF Codes
<1>. QED
  BY <1>5, <1>6, QuiEcritCodes, CodesAffaiblis DEF TypeInv

(* A verification begins while no other of the code is under way.          *)
LEMMA CodesVerifier ==
  ASSUME TypeInv, Codes, ~courseCode', NEW q \in Requetes, VerifierOtp(q)
  PROVE  Codes'
<1>1. PICK t \in Types, j \in BOOLEAN : \E o \in Vivants(t) : Verifie(q, t, j, o)
  BY VerifierDit
<1>2. PICK o \in Vivants(t) : Verifie(q, t, j, o)
  BY <1>1
<1>3. /\ DOMAIN otps' = DOMAIN otps /\ o \in DOMAIN otps /\ otps[o].vivant
      /\ \A p \in DOMAIN otps \ {o} : otps'[p] = otps[p]
      /\ otps'[o].tentatives = otps[o].tentatives
      /\ otps'[o].delivres = otps[o].delivres
      /\ otps'[o].essais \in otps[o].essais .. otps[o].essais + (IF j THEN 0 ELSE 1)
  BY <1>2, CodeLu
<1>4. \A p \in Requetes : ~EcritCode(p, o)
  BY Zenon, <1>2 DEF Verifie
<1>5. /\ otps[o] \in CodeOTP /\ CodeCompte(o)
  BY <1>3 DEF TypeInv, TypeOK, Codes
<1>6. /\ otps[o].delivres = 0 /\ otps[o].tentatives <= MaxTentativesOtp
      /\ otps[o].essais <= otps[o].tentatives
  BY <1>3, <1>4, <1>5 DEF CodeCompte
<1>7. /\ pc[q] = "libre" /\ pc'[q] = "ecrireOtp"
      /\ loc'[q].code = o /\ loc'[q].n = otps[o].tentatives /\ (loc'[q].juste <=> j)
  <2>. DEFINE l == LectureCode("verifier", t)
  <2>1. l \in Locales
    BY DEF Locales, LectureCode, Repos, Types
  <2>. HIDE DEF l
  <2>2. PICK n \in Nat : n = otps[o].tentatives
    BY <1>5, ChampsCode
  <2>3. PICK c \in Nat : c = o
    BY <1>3 DEF TypeInv, TypeOK
  <2>4. PICK d : d = [l EXCEPT !.code = c, !.n = n, !.juste = j]
    OBVIOUS
  <2>5. d.code = c /\ d.n = n /\ (d.juste <=> j)
    BY <2>1, <2>4 DEF Locales
  <2>6. loc' = [loc EXCEPT ![q] = d] /\ pc' = [pc EXCEPT ![q] = "ecrireOtp"]
    BY <1>2, <2>2, <2>3, <2>4 DEF Verifie, l
  <2>. QED
    BY <1>2, <2>2, <2>3, <2>5, <2>6 DEF TypeInv, TypeOK, Verifie
<1>8. \A p \in Requetes \ {q} : pc'[p] = pc[p] /\ loc'[p] = loc[p]
  BY UnSeul DEF TypeInv, Recevoir
<1>9. \A p \in Requetes : EcritCode(p, o)' => p = q
  BY <1>4, <1>8 DEF EcritCode
<1>10. \A p \in Requetes : \A c \in DOMAIN otps \ {o} : EcritCode(p, c)' <=> EcritCode(p, c)
  BY <1>7, <1>8 DEF EcritCode
<1>11. ASSUME NEW c \in DOMAIN otps' PROVE CodeCompte(c)'
  <2>1. CASE c = o
    <3>1. EcritCode(q, o)'
      BY <1>7 DEF EcritCode
    <3>. QED
      BY <1>3, <1>6, <2>1, <3>1 DEF CodeCompte
  <2>2. CASE c # o
    BY <1>3, <1>10, <2>2 DEF CodeCompte, Codes
  <2>. QED
    BY <2>1, <2>2
<1>12. ASSUME NEW p \in Requetes, pc'[p] = "ecrireOtp" PROVE CodeEnMain(p)'
  <2>1. CASE p = q
    <3>1. otps[o].essais \in Nat /\ otps[o].tentatives \in Nat
      BY <1>5, ChampsCode
    <3>2. otps'[o].essais <= otps'[o].tentatives + (IF j THEN 0 ELSE 1)
      BY <1>3, <1>6, <3>1
    <3>3. (IF j THEN 0 ELSE 1) = (IF loc'[q].juste THEN 0 ELSE 1)
      BY <1>7
    <3>. QED
      BY <1>3, <1>6, <1>7, <2>1, <3>2, <3>3 DEF CodeEnMain
  <2>2. CASE p # q
    <3>1. pc[p] = "ecrireOtp" /\ loc'[p] = loc[p] /\ loc[p].code # o
      BY <1>4, <1>8, <1>12, <2>2 DEF EcritCode
    <3>2. loc[p].code \in DOMAIN otps
      BY <3>1 DEF TypeInv, EtapeOK
    <3>. QED
      BY <1>3, <3>1, <3>2 DEF CodeEnMain, Codes
  <2>. QED
    BY <2>1, <2>2
<1>13. ASSUME NEW p \in Requetes, NEW r \in Requetes, pc'[p] = "ecrireOtp",
              EcritCode(r, loc[p].code)'
       PROVE  p = r
  <2>1. CASE p = q
    BY <1>7, <1>9, <1>13, <2>1
  <2>2. CASE p # q
    <3>1. pc[p] = "ecrireOtp" /\ loc'[p] = loc[p] /\ loc[p].code # o
      BY <1>4, <1>8, <1>13, <2>2 DEF EcritCode
    <3>2. loc[p].code \in DOMAIN otps
      BY <3>1 DEF TypeInv, EtapeOK
    <3>. QED
      BY <1>10, <1>13, <3>1, <3>2 DEF Codes
  <2>. QED
    BY <2>1, <2>2
<1>. QED
  BY <1>11, <1>12, <1>13 DEF Codes

(* The one verification of a code ends.                                    *)
LEMMA CodesEcrire ==
  ASSUME TypeInv, Codes, NEW q \in Requetes, EcrireOtp(q)
  PROVE  Codes'
<1> USE AuthentificationAssumption
<1>0. PICK o : o = loc[q].code
  OBVIOUS
<1>1. /\ DOMAIN otps' = DOMAIN otps /\ o \in DOMAIN otps
      /\ \A p \in DOMAIN otps \ {o} : otps'[p] = otps[p]
      /\ otps'[o].essais = otps[o].essais
      /\ \/ /\ loc[q].juste /\ ~otps'[o].vivant
            /\ otps'[o].tentatives = otps[o].tentatives
            /\ otps'[o].delivres = otps[o].delivres + 1
         \/ /\ ~loc[q].juste
            /\ otps'[o].tentatives = loc[q].n + 1
            /\ otps'[o].delivres = otps[o].delivres
            /\ otps'[o].vivant => otps[o].vivant /\ loc[q].n + 1 < MaxTentativesOtp
  BY <1>0, CodeEcrit
<1>2. /\ pc[q] = "ecrireOtp" /\ CodeEnMain(q) /\ CodeCompte(o)
      /\ loc[q].n < MaxTentativesOtp /\ loc[q] \in Locales /\ otps[o] \in CodeOTP
  BY <1>1 DEF EcrireOtp, Codes, TypeInv, TypeOK, EtapeOK
<1>3. \A p \in Requetes \ {q} : pc'[p] = pc[p] /\ loc'[p] = loc[p]
  BY UnSeul DEF TypeInv, Poursuivre
<1>4. pc'[q] = "libre"
  BY DEF EcrireOtp, Repondre, Vers, TypeInv, TypeOK
<1>5. \A p \in Requetes : ~EcritCode(p, o)'
  BY <1>0, <1>2, <1>3, <1>4 DEF EcritCode, Codes
<1>6. \A p \in Requetes : \A c \in DOMAIN otps \ {o} : EcritCode(p, c)' <=> EcritCode(p, c)
  BY <1>0, <1>3, <1>4 DEF EcritCode
<1>7. CodeCompte(o)'
  <2>1. /\ otps[o].essais \in Nat /\ otps[o].tentatives \in Nat /\ loc[q].n \in Nat
        /\ otps[o].delivres \in Nat
    BY <1>2, ChampsCode DEF Locales
  <2>2. /\ loc[q].n = otps[o].tentatives /\ otps[o].delivres = 0
        /\ otps[o].essais <= otps[o].tentatives + (IF loc[q].juste THEN 0 ELSE 1)
    BY <1>0, <1>2 DEF CodeEnMain
  <2>. QED
    BY <1>1, <1>2, <2>1, <2>2 DEF CodeCompte
<1>8. ASSUME NEW c \in DOMAIN otps' PROVE CodeCompte(c)'
  BY <1>1, <1>6, <1>7 DEF CodeCompte, Codes
<1>9. ASSUME NEW p \in Requetes, pc'[p] = "ecrireOtp"
      PROVE  /\ pc[p] = "ecrireOtp" /\ loc'[p] = loc[p]
             /\ loc[p].code \in DOMAIN otps \ {o}
  BY <1>0, <1>2, <1>3, <1>4, <1>5, <1>9 DEF EcritCode, TypeInv, EtapeOK
<1>10. ASSUME NEW p \in Requetes, pc'[p] = "ecrireOtp" PROVE CodeEnMain(p)'
  BY <1>1, <1>9, <1>10 DEF CodeEnMain, Codes
<1>11. ASSUME NEW p \in Requetes, NEW r \in Requetes, pc'[p] = "ecrireOtp",
              EcritCode(r, loc[p].code)'
       PROVE  p = r
  BY <1>6, <1>9, <1>11 DEF Codes
<1>. QED
  BY <1>8, <1>10, <1>11 DEF Codes

(* Every step keeps the account of the tries of the codes.                 *)
LEMMA CodesNext ==
  ASSUME TypeInv, CodesInv, [Next]_vars
  PROVE  CodesInv'
<1>1. courseCode => courseCode'
  BY CoursesRestent DEF Courses
<1>2. ASSUME Codes, ~courseCode' PROVE Codes'
  BY <1>2, CodesVerifier, CodesEcrire, CodesAilleurs
<1>. QED
  BY Zenon, <1>1, <1>2 DEF CodesInv

(* The count of a code that nobody verifies is that of its wrong tries.     *)
LEMMA CodesLimites ==
  ASSUME TypeInv, CodesInv, NEW o \in DOMAIN otps
  PROVE  courseCode \/ (otps[o].essais <= MaxTentativesOtp /\ otps[o].delivres <= 1)
<1> USE AuthentificationAssumption
<1> SUFFICES ASSUME Codes
             PROVE  otps[o].essais <= MaxTentativesOtp /\ otps[o].delivres <= 1
  BY DEF CodesInv
<1>1. otps[o] \in CodeOTP /\ CodeCompte(o)
  BY DEF TypeInv, TypeOK, Codes
<1>2. otps[o].essais \in Nat /\ otps[o].tentatives \in Nat
  BY <1>1, ChampsCode
<1>3. CASE \A q \in Requetes : ~EcritCode(q, o)
  BY <1>1, <1>2, <1>3 DEF CodeCompte
<1>4. ASSUME NEW q \in Requetes, EcritCode(q, o)
      PROVE  otps[o].essais <= MaxTentativesOtp
  <2>1. CodeEnMain(q) /\ loc[q].code = o /\ loc[q].n < MaxTentativesOtp /\ loc[q].n \in Nat
    BY <1>4 DEF EcritCode, Codes, TypeInv, TypeOK, EtapeOK, Locales
  <2>2. /\ loc[q].n = otps[o].tentatives
        /\ otps[o].essais <= otps[o].tentatives + (IF loc[q].juste THEN 0 ELSE 1)
    BY <2>1 DEF CodeEnMain
  <2>. QED
    BY <1>2, <2>1, <2>2
<1>. QED
  BY <1>1, <1>3, <1>4 DEF CodeCompte

-----------------------------------------------------------------------------
(* The tries of the PIN.                                                   *)

(* A login goes on unless it is one that begins, ends or dies.             *)
LEMMA Connexions ==
  ASSUME TypeInv, [Next]_vars, ~courseEchecs',
         \A q \in Requetes : ~Connexion(q) /\ ~EcrireConnexion(q)
  PROVE  \A p \in Requetes :
           /\ pc'[p] = "ecrireConnexion" <=> pc[p] = "ecrireConnexion"
           /\ pc[p] = "ecrireConnexion" => loc'[p] = loc[p]
<1>1. ASSUME NEW q \in Requetes, Recevoir(q) \/ Poursuivre(q), NEW p \in Requetes
      PROVE  /\ pc'[p] = "ecrireConnexion" <=> pc[p] = "ecrireConnexion"
             /\ pc[p] = "ecrireConnexion" => loc'[p] = loc[p]
  <2>1. CASE p = q
    BY <1>1, <2>1, Transitions DEF TypeInv
  <2>2. CASE p # q
    BY <1>1, <2>2, UnSeul DEF TypeInv
  <2>. QED
    BY <2>1, <2>2
<1>2. CASE Exterieur \/ UNCHANGED vars
  <2>1. CASE UNCHANGED <<pc, loc>>
    BY <2>1
  <2>2. CASE Panne /\ \A q \in Requetes : pc'[q] = "libre" /\ loc'[q] = Repos
    <3>1. \A q \in Requetes : pc[q] # "ecrireConnexion"
      BY Zenon, <2>2 DEF Panne
    <3>. QED
      BY <2>2, <3>1
  <2>. QED
    BY <1>2, <2>1, <2>2, ExterieurProcs DEF TypeInv
<1>. QED
  BY <1>1, <1>2 DEF Next, Exterieur

(* The count and the lock change by no other step.                         *)
LEMMA QuiEcritPin ==
  ASSUME [Next]_vars
  PROVE  \/ UNCHANGED <<essais, echecs, bloque>>
         \/ Debloquer \/ DebloquerPin
         \/ \E q \in Requetes : Connexion(q) \/ EcrireConnexion(q) \/ Reinitialiser(q)
<1> USE DEF pinVars
<1>1. CASE UNCHANGED vars \/ Deconnecter \/ ChangerStatut \/ Expirer \/ Panne
  BY <1>1 DEF vars, Deconnecter, ChangerStatut, Expirer, Panne
<1>2. ASSUME NEW q \in Requetes, Recevoir(q)
      PROVE  UNCHANGED <<essais, echecs, bloque>> \/ Connexion(q)
  BY <1>2 DEF Recevoir, Inscription, RepriseInscription, DemanderResetPin, CreerPin,
     DemanderNouveauPin, ChangerPin, Rafraichir, EnregistrerAppareil, RevoquerAppareil,
     ConfigurerEmpreinte, ConnexionBiometrique, VerifierOtp
<1>3. ASSUME NEW q \in Requetes, Poursuivre(q)
      PROVE  \/ UNCHANGED <<essais, echecs, bloque>> \/ EcrireConnexion(q)
             \/ Reinitialiser(q)
  BY <1>3 DEF Poursuivre, PoserPin, EcrirePin, InscrireAppareil, EcrireEmpreinte,
     DesactiverAppareil, CompterAppareils, LireAppareil, InvaliderOtps, CreerOtp,
     EcrireOtp, OuvrirSession, GenererTokens
<1>. QED
  BY <1>1, <1>2, <1>3 DEF Next

(* The lock runs out, the hourly job lifts it, a reset lifts it, or nothing *)
(* touches the count.                                                      *)
LEMMA EssaisAilleurs ==
  ASSUME TypeInv, Essais, [Next]_vars, ~courseEchecs',
         \A q \in Requetes : ~Connexion(q) /\ ~EcrireConnexion(q)
  PROVE  Essais'
<1> USE AuthentificationAssumption
<1>1. \A p \in Requetes :
        /\ pc'[p] = "ecrireConnexion" <=> pc[p] = "ecrireConnexion"
        /\ pc[p] = "ecrireConnexion" => loc'[p] = loc[p]
  BY Connexions
<1>2. /\ echecs \in Nat /\ essais \in Nat /\ bloque \in {"NON", "OUI", "PASSE"}
      /\ \A p \in Requetes : loc[p].n \in Nat
  BY DEF TypeInv, TypeOK, Locales
<1>3. SUFFICES /\ PinLibre => PinLibre'
               /\ \A q \in Requetes : pc[q] = "ecrireConnexion" /\ PinEnMain(q) => PinEnMain(q)'
  BY <1>1 DEF Essais
<1>4. CASE UNCHANGED <<essais, echecs, bloque>>
  BY <1>1, <1>4 DEF PinLibre, PinEnMain
<1>5. CASE Debloquer
  BY <1>1, <1>2, <1>5 DEF PinLibre, PinEnMain, Debloquer
<1>6. CASE DebloquerPin
  BY <1>1, <1>2, <1>6 DEF PinLibre, PinEnMain, DebloquerPin
<1>7. ASSUME NEW r \in Requetes, Reinitialiser(r)
      PROVE  /\ PinLibre => PinLibre'
             /\ \A q \in Requetes : pc[q] = "ecrireConnexion" /\ PinEnMain(q) => PinEnMain(q)'
  BY <1>1, <1>2, <1>7 DEF PinLibre, PinEnMain, Reinitialiser
<1>. QED
  BY <1>4, <1>5, <1>6, <1>7, QuiEcritPin

(* A login begins while no other is between its reading and its writing.   *)
LEMMA EssaisConnexion ==
  ASSUME TypeInv, Essais, ~courseEchecs', NEW q \in Requetes, Connexion(q)
  PROVE  Essais'
<1> USE AuthentificationAssumption
<1>1. \A p \in Requetes : pc[p] # "ecrireConnexion"
  BY Zenon DEF Connexion
<1>2. \A p \in Requetes \ {q} : pc'[p] = pc[p] /\ loc'[p] = loc[p]
  BY UnSeul DEF TypeInv, Recevoir
<1>3. /\ echecs \in Nat /\ essais \in Nat /\ bloque \in {"NON", "PASSE"} /\ PinLibre
      /\ bloque' = bloque /\ essais' \in {essais, essais + 1}
  BY <1>1 DEF TypeInv, TypeOK, Connexion, Essais, Compte
<1>4. pc'[q] = "ecrireConnexion" /\ loc'[q].n = echecs
  <2>1. PICK j \in BOOLEAN :
          /\ loc' = [loc EXCEPT ![q] = [Lecture("connexion") EXCEPT !.n = echecs,
                                           !.juste = j, !.code = resets]]
          /\ pc' = [pc EXCEPT ![q] = "ecrireConnexion"]
    BY DEF Connexion, Commencer, Vers
  <2>2. [Lecture("connexion") EXCEPT !.n = echecs, !.juste = j, !.code = resets].n = echecs
    BY DEF Lecture, Repos
  <2>. QED
    BY <2>1, <2>2 DEF TypeInv, TypeOK
<1>5. PinEnMain(q)'
  BY <1>3, <1>4 DEF PinLibre, PinEnMain
<1>. QED
  BY <1>1, <1>2, <1>4, <1>5 DEF Essais

(* The one login under way writes its count.                               *)
LEMMA EssaisEcrire ==
  ASSUME TypeInv, Essais, NEW q \in Requetes, EcrireConnexion(q)
  PROVE  Essais'
<1> USE AuthentificationAssumption
<1>1. /\ echecs \in Nat /\ essais \in Nat /\ bloque \in {"NON", "OUI", "PASSE"}
      /\ loc[q].n \in Nat /\ PinEnMain(q) /\ pc[q] = "ecrireConnexion"
  BY DEF TypeInv, TypeOK, EcrireConnexion, Essais, Locales
<1>2. \A p \in Requetes \ {q} : pc'[p] = pc[p] /\ pc[p] # "ecrireConnexion"
  BY <1>1, UnSeul DEF TypeInv, Poursuivre, Essais
<1>3. pc'[q] # "ecrireConnexion"
  BY Transitions DEF TypeInv, TypeOK, Poursuivre, EcrireConnexion, Vers, Repondre
<1>4. PinLibre'
  <2>1. CASE loc[q].juste
    BY <2>1 DEF EcrireConnexion, PinLibre
  <2>2. CASE ~loc[q].juste
    <3>1. /\ echecs' = loc[q].n + 1 /\ essais' = essais
          /\ bloque' = IF loc[q].n + 1 >= MaxTentativesPin THEN "OUI" ELSE bloque
      BY <2>2 DEF EcrireConnexion, SeuilPin
    <3>. QED
      BY <1>1, <3>1 DEF PinLibre, PinEnMain
  <2>. QED
    BY <2>1, <2>2
<1>. QED
  BY <1>2, <1>3, <1>4 DEF Essais

(* Every step keeps the account of the tries of the PIN.                   *)
LEMMA EssaisNext ==
  ASSUME TypeInv, PinInv, [Next]_vars
  PROVE  PinInv'
<1>1. courseEchecs => courseEchecs'
  BY CoursesRestent DEF Courses
<1>2. ASSUME Essais, ~courseEchecs' PROVE Essais'
  BY <1>2, EssaisConnexion, EssaisEcrire, EssaisAilleurs
<1>. QED
  BY Zenon, <1>1, <1>2 DEF PinInv

(* A login compares a wrong PIN only while fewer were compared.            *)
LEMMA PinLimite ==
  ASSUME TypeInv, PinInv
  PROVE  courseEchecs \/ essais <= MaxTentativesPin
<1> USE AuthentificationAssumption
<1> SUFFICES ASSUME Essais PROVE essais <= MaxTentativesPin
  BY DEF PinInv
<1>1. /\ echecs \in Nat /\ essais \in Nat /\ bloque \in {"NON", "OUI", "PASSE"}
      /\ \A q \in Requetes : loc[q].n \in Nat
  BY DEF TypeInv, TypeOK, Locales
<1>2. CASE PinLibre
  BY <1>1, <1>2 DEF PinLibre
<1>3. ASSUME NEW q \in Requetes, PinEnMain(q) PROVE essais <= MaxTentativesPin
  BY <1>1, <1>3 DEF PinEnMain
<1>. QED
  BY <1>2, <1>3 DEF Essais

(* At first nothing was tried.                                             *)
LEMMA LimitesInit == Init => CodesInv /\ PinInv
<1> SUFFICES ASSUME Init PROVE CodesInv /\ PinInv
  OBVIOUS
<1>1. /\ \A q \in Requetes : pc[q] = "libre"
      /\ DOMAIN otps = {} /\ essais = 0 /\ echecs = 0 /\ bloque = "NON"
  BY DEF Init
<1>2. Codes
  BY <1>1 DEF Codes
<1>3. Essais
  BY <1>1, AuthentificationAssumption DEF Essais, PinLibre
<1>. QED
  BY <1>2, <1>3 DEF CodesInv, PinInv

(* However many requests verify codes and log in, whatever locks, expires,  *)
(* is reset or crashes between them: a code takes MAX_TENTATIVES_OTP wrong  *)
(* tries at most and gives one token, and MAX_TENTATIVES_PIN wrong PINs at  *)
(* most are compared while the account is open, unless two verifications of *)
(* the code, or two logins, ran together or one of them died.              *)
THEOREM EssaisSontLimites == Spec => []EssaisLimites
<1>1. Init => TypeInv /\ CodesInv /\ PinInv
  BY TypeInit, LimitesInit
<1>2. TypeInv /\ CodesInv /\ PinInv /\ [Next]_vars => (TypeInv /\ CodesInv /\ PinInv)'
  BY TypeNext, CodesNext, EssaisNext
<1>3. TypeInv /\ CodesInv /\ PinInv => EssaisLimites
  BY CodesLimites, PinLimite DEF EssaisLimites
<1>. QED
  BY <1>1, <1>2, <1>3, PTL DEF Spec

-----------------------------------------------------------------------------
(* What a reset closes.                                                    *)

(* Only a reset counts one more.                                           *)
LEMMA QuiReinitialise ==
  ASSUME [Next]_vars, \A q \in Requetes : ~Reinitialiser(q)
  PROVE  resets' = resets
<1> USE DEF pinVars
<1>1. CASE UNCHANGED vars \/ Deconnecter \/ ChangerStatut \/ Expirer \/ Panne
  BY <1>1 DEF vars, Deconnecter, ChangerStatut, Expirer, Panne
<1>2. CASE Debloquer \/ DebloquerPin
  BY <1>2 DEF Debloquer, DebloquerPin
<1>3. ASSUME NEW q \in Requetes, Recevoir(q) PROVE resets' = resets
  BY <1>3 DEF Recevoir, Inscription, RepriseInscription, DemanderResetPin, CreerPin,
     DemanderNouveauPin, ChangerPin, Rafraichir, EnregistrerAppareil, RevoquerAppareil,
     ConfigurerEmpreinte, ConnexionBiometrique, VerifierOtp, Connexion
<1>4. ASSUME NEW q \in Requetes, Poursuivre(q) PROVE resets' = resets
  BY <1>4 DEF Poursuivre, PoserPin, EcrirePin, InscrireAppareil, EcrireEmpreinte,
     DesactiverAppareil, CompterAppareils, LireAppareil, InvaliderOtps, CreerOtp,
     EcrireOtp, OuvrirSession, GenererTokens, EcrireConnexion
<1>. QED
  BY <1>1, <1>2, <1>3, <1>4 DEF Next

(* A handler that comes to a step before a session saw the last reset.     *)
LEMMA EpoqueNext ==
  ASSUME TypeInv, NEW q \in Requetes, EpoqueTenue(q), resets' = resets,
         Recevoir(q) \/ Poursuivre(q)
  PROVE  EpoqueTenue(q)'
<1> USE DEF TypeInv, TypeOK
<1>0. resets \in Nat /\ loc[q] \in Locales
  OBVIOUS
<1>1. CASE pc'[q] = "ecrireConnexion"
  <2>1. PICK j \in BOOLEAN :
          loc' = [loc EXCEPT ![q] = [Lecture("connexion") EXCEPT !.n = echecs,
                                        !.juste = j, !.code = resets]]
    BY <1>1, Transitions DEF Connexion, Commencer
  <2>2. [Lecture("connexion") EXCEPT !.n = echecs, !.juste = j, !.code = resets].code = resets
    BY DEF Lecture, Repos
  <2>. QED
    BY <1>1, <2>1, <2>2 DEF EpoqueTenue
<1>2. CASE pc'[q] = "poserPin"
  <2>1. loc' = [loc EXCEPT ![q] = [Lecture("creerPin") EXCEPT !.n = resets]]
    BY <1>2, Transitions DEF CreerPin, Commencer
  <2>2. [Lecture("creerPin") EXCEPT !.n = resets].n = resets
    BY DEF Lecture, Repos
  <2>. QED
    BY <1>2, <2>1, <2>2 DEF EpoqueTenue
<1>3. CASE pc'[q] = "ouvrirSession"
  <2>1. CASE PoserPin(q)
    BY <1>3, <2>1 DEF PoserPin, EpoqueTenue
  <2>2. CASE EcrireConnexion(q)
    <3>1. loc[q].juste /\ loc' = [loc EXCEPT ![q] = [loc[q] EXCEPT !.n = loc[q].code]]
      BY <1>3, <2>2 DEF EcrireConnexion, Repondre, Vers
    <3>2. loc[q].code = resets
      BY <2>2, <3>1 DEF EcrireConnexion, EpoqueTenue
    <3>3. [loc[q] EXCEPT !.n = loc[q].code].n = loc[q].code
      BY <1>0 DEF Locales
    <3>. QED
      BY <1>3, <3>1, <3>2, <3>3 DEF EpoqueTenue
  <2>3. CASE LireAppareil(q)
    <3>1. loc[q].op = "bio" /\ loc'[q] = loc[q]
      BY <1>3, <2>3 DEF LireAppareil, EtapeOK, Repondre, Vers
    <3>. QED
      BY <1>3, <3>1 DEF EpoqueTenue
  <2>. QED
    BY <1>3, <2>1, <2>2, <2>3, Transitions
<1>. QED
  BY <1>1, <1>2, <1>3 DEF EpoqueTenue

(* Steps that reset nothing.                                               *)
LEMMA EpoquesAilleurs ==
  ASSUME TypeInv, Epoques, [Next]_vars, \A q \in Requetes : ~Reinitialiser(q)
  PROVE  Epoques'
<1>1. resets' = resets
  BY QuiReinitialise
<1>2. ASSUME NEW q \in Requetes PROVE EpoqueTenue(q)'
  <2>1. EpoqueTenue(q)
    BY DEF Epoques
  <2>2. CASE pc'[q] = pc[q] /\ loc'[q] = loc[q]
    BY <1>1, <2>1, <2>2 DEF EpoqueTenue
  <2>3. CASE Recevoir(q) \/ Poursuivre(q)
    BY <1>1, <2>1, <2>3, EpoqueNext
  <2>4. ASSUME NEW r \in Requetes, Recevoir(r) \/ Poursuivre(r), q # r
        PROVE  pc'[q] = pc[q] /\ loc'[q] = loc[q]
    BY <2>4, UnSeul DEF TypeInv
  <2>5. CASE Exterieur \/ UNCHANGED vars
    <3>1. CASE pc'[q] = "libre"
      BY <3>1 DEF EpoqueTenue
    <3>. QED
      BY <2>2, <2>5, <3>1, ExterieurProcs DEF TypeInv
  <2>. QED
    BY <2>2, <2>3, <2>4, <2>5 DEF Next, Exterieur
<1>3. ASSUME NEW s \in DOMAIN sessions', sessions'[s].active, ~sessions'[s].bio
      PROVE  sessions'[s].epoque = resets'
  <2>1. CASE \A q \in Requetes : ~OuvrirSession(q)
    BY <1>1, <1>3, <2>1, SessionsGardees DEF Gardee, Epoques
  <2>2. ASSUME NEW q \in Requetes, OuvrirSession(q) PROVE sessions'[s].epoque = resets'
    <3>1. CASE s \in DOMAIN sessions
      BY <1>1, <1>3, <2>2, <3>1, SessionOuverte DEF Epoques
    <3>2. CASE s = Len(sessions) + 1
      <4>1. loc[q].op # "bio" /\ sessions'[s].epoque = loc[q].n
        BY <1>3, <2>2, <3>2, SessionOuverte
      <4>. QED
        BY <1>1, <2>2, <4>1 DEF Epoques, EpoqueTenue, OuvrirSession
    <3>. QED
      BY <1>3, <2>2, <3>1, <3>2, SessionOuverte
  <2>. QED
    BY <2>1, <2>2
<1>. QED
  BY <1>2, <1>3 DEF Epoques

(* A reset closes every session while no handler is about to open one.     *)
LEMMA EpoquesReset ==
  ASSUME TypeInv, Epoques, ~courseReset', NEW q \in Requetes, Reinitialiser(q)
  PROVE  Epoques'
<1>1. \A p \in Requetes : ~OuvriraSession(p)
  BY Zenon DEF Reinitialiser
<1>2. \A p \in Requetes \ {q} : pc'[p] = pc[p] /\ loc'[p] = loc[p]
  BY UnSeul DEF TypeInv, Poursuivre
<1>3. pc'[q] = "libre"
  BY DEF Reinitialiser, Repondre, Vers, TypeInv, TypeOK
<1>4. ASSUME NEW p \in Requetes PROVE EpoqueTenue(p)'
  <2>1. CASE p = q
    BY <1>3, <2>1 DEF EpoqueTenue
  <2>2. CASE p # q
    BY <1>1, <1>2, <2>2 DEF EpoqueTenue, OuvriraSession, TypeInv, EtapeOK
  <2>. QED
    BY <2>1, <2>2
<1>5. ASSUME NEW s \in DOMAIN sessions' PROVE ~sessions'[s].active
  <2>1. /\ sessions' = [t \in DOMAIN sessions |-> [sessions[t] EXCEPT !.active = FALSE]]
        /\ s \in DOMAIN sessions
    BY DEF Reinitialiser, Fermees
  <2>2. PICK c \in Session : c = sessions[s]
    BY <2>1 DEF TypeInv, TypeOK
  <2>3. sessions'[s] = [c EXCEPT !.active = FALSE]
    BY <2>1, <2>2
  <2>. QED
    BY <2>3 DEF Session
<1>. QED
  BY <1>4, <1>5 DEF Epoques

(* Every step keeps the account of the resets seen.                        *)
LEMMA EpoquesNext ==
  ASSUME TypeInv, SessionsInv, [Next]_vars
  PROVE  SessionsInv'
<1>1. courseReset => courseReset'
  BY CoursesRestent DEF Courses
<1>2. ASSUME Epoques, ~courseReset' PROVE Epoques'
  BY <1>2, EpoquesReset, EpoquesAilleurs
<1>. QED
  BY Zenon, <1>1, <1>2 DEF SessionsInv

(* However logins, inscriptions, resets, disconnections and crashes follow  *)
(* each other, a running session that no fingerprint opened comes from a    *)
(* check of the PIN made after the last reset, unless a login or an         *)
(* inscription was under way when a reset closed the sessions.              *)
THEOREM ResetsFermentLesSessions == Spec => []ResetFermeSessions
<1>1. Init => SessionsInv
  BY DEF Init, SessionsInv, Epoques, EpoqueTenue
<1>2. TypeInv /\ SessionsInv /\ [Next]_vars => (TypeInv /\ SessionsInv)'
  BY TypeNext, EpoquesNext
<1>3. SessionsInv => ResetFermeSessions
  BY DEF SessionsInv, Epoques, ResetFermeSessions
<1>. QED
  BY <1>1, <1>2, <1>3, TypeInit, PTL DEF Spec

-----------------------------------------------------------------------------
(* The fingerprint.                                                        *)

(* The actions that begin, carry on or end a change of the fingerprint.    *)
Change(q) ==
    \/ EnregistrerAppareil(q) \/ RevoquerAppareil(q) \/ ConfigurerEmpreinte(q)
    \/ InscrireAppareil(q) \/ EcrireEmpreinte(q) \/ DesactiverAppareil(q)
    \/ CompterAppareils(q)

(* The flag and the devices change by no other step.                       *)
LEMMA QuiEcritEmpreinte ==
  ASSUME [Next]_vars, \A q \in Requetes : ~Change(q)
  PROVE  UNCHANGED <<empreinte, appareils>>
<1> USE DEF bioVars, Change
<1>1. CASE UNCHANGED vars \/ Deconnecter \/ ChangerStatut \/ Expirer \/ Panne
  BY <1>1 DEF vars, Deconnecter, ChangerStatut, Expirer, Panne
<1>2. CASE Debloquer \/ DebloquerPin
  BY <1>2 DEF Debloquer, DebloquerPin
<1>3. ASSUME NEW q \in Requetes, Recevoir(q) PROVE UNCHANGED <<empreinte, appareils>>
  BY <1>3 DEF Recevoir, Inscription, RepriseInscription, DemanderResetPin, CreerPin,
     DemanderNouveauPin, ChangerPin, Rafraichir, ConnexionBiometrique, VerifierOtp,
     Connexion
<1>4. ASSUME NEW q \in Requetes, Poursuivre(q) PROVE UNCHANGED <<empreinte, appareils>>
  BY <1>4 DEF Poursuivre, PoserPin, EcrirePin, LireAppareil, InvaliderOtps, CreerOtp,
     EcrireOtp, OuvrirSession, GenererTokens, EcrireConnexion, Reinitialiser
<1>. QED
  BY <1>1, <1>2, <1>3, <1>4 DEF Next

(* Steps that change nothing of the fingerprint.                           *)
LEMMA EmpreinteAilleurs ==
  ASSUME TypeInv, Empreinte, [Next]_vars, ~courseEmpreinte',
         \A q \in Requetes : ~Change(q)
  PROVE  Empreinte'
<1>1. empreinte' = empreinte /\ appareils' = appareils
  BY QuiEcritEmpreinte
<1>2. ASSUME \A p \in Requetes :
                pc'[p] = pc[p] \/ (~ModifieEmpreinte(p) /\ ~ModifieEmpreinte(p)')
      PROVE  Empreinte'
  <2>1. \A p \in Requetes : /\ ModifieEmpreinte(p)' => ModifieEmpreinte(p)
                            /\ ModifieEmpreinte(p)' => pc'[p] = pc[p]
                            /\ ModifieEmpreinte(p) => pc'[p] = pc[p]
    BY <1>2 DEF ModifieEmpreinte
  <2>2. DernierAppareil' <=> DernierAppareil
    BY <1>1 DEF DernierAppareil
  <2>3. \A p \in Requetes :
          /\ pc'[p] = "configurer" => pc[p] = "configurer"
          /\ pc'[p] = "desactiverEmpreinte" => pc[p] = "desactiverEmpreinte"
          /\ pc[p] = "activerEmpreinte" => pc'[p] = "activerEmpreinte"
    BY <2>1 DEF ModifieEmpreinte
  <2>4. /\ \A p, q \in Requetes : ModifieEmpreinte(p)' /\ ModifieEmpreinte(q)' => p = q
        /\ \A q \in Requetes : pc'[q] # "configurer"
    BY <2>1, <2>3 DEF Empreinte
  <2>5. \A q \in Requetes : pc'[q] = "desactiverEmpreinte" => DernierAppareil'
    BY <2>2, <2>3 DEF Empreinte
  <2>6. (\A q \in Requetes : pc'[q] # "activerEmpreinte") => empreinte' \/ DernierAppareil'
    BY Zenon, <1>1, <2>2, <2>3 DEF Empreinte
  <2>. QED
    BY Zenon, <2>4, <2>5, <2>6 DEF Empreinte
<1>3. ASSUME NEW q \in Requetes, Recevoir(q) \/ Poursuivre(q) PROVE Empreinte'
  <2>1. ~ModifieEmpreinte(q) /\ ~ModifieEmpreinte(q)'
    BY <1>3, Transitions DEF ModifieEmpreinte, Change, TypeInv
  <2>. QED
    BY <1>2, <1>3, <2>1, UnSeul DEF TypeInv
<1>4. CASE Exterieur \/ UNCHANGED vars
  <2>1. CASE UNCHANGED <<pc, loc>>
    BY <1>2, <2>1
  <2>2. CASE Panne /\ \A q \in Requetes : pc'[q] = "libre" /\ loc'[q] = Repos
    <3>1. \A q \in Requetes : ~ModifieEmpreinte(q)
      BY Zenon, <2>2 DEF Panne, CourseEmpreinte
    <3>. QED
      BY <1>2, <2>2, <3>1 DEF ModifieEmpreinte
  <2>. QED
    BY <1>4, <2>1, <2>2, ExterieurProcs DEF TypeInv
<1>. QED
  BY <1>3, <1>4 DEF Next, Exterieur

(* The one handler that changes the fingerprint takes a step.              *)
LEMMA EmpreinteChange ==
  ASSUME TypeInv, Empreinte, ~courseEmpreinte', ~configure', NEW q \in Requetes, Change(q)
  PROVE  Empreinte'
<1> USE DEF TypeInv, TypeOK, Vers, Repondre
<1>1. \A p \in Requetes \ {q} : pc'[p] = pc[p]
  BY UnSeul DEF Change, Recevoir, Poursuivre
<1>2. \A p \in Requetes \ {q} : ~ModifieEmpreinte(p)
  <2>1. CASE EnregistrerAppareil(q) \/ RevoquerAppareil(q) \/ ConfigurerEmpreinte(q)
    BY Zenon, <2>1 DEF EnregistrerAppareil, RevoquerAppareil, ConfigurerEmpreinte,
       CourseEmpreinte
  <2>2. CASE \/ InscrireAppareil(q) \/ EcrireEmpreinte(q) \/ DesactiverAppareil(q)
             \/ CompterAppareils(q)
    <3>1. ModifieEmpreinte(q)
      BY <2>2 DEF InscrireAppareil, EcrireEmpreinte, DesactiverAppareil,
         CompterAppareils, ModifieEmpreinte
    <3>. QED
      BY <3>1 DEF Empreinte
  <2>. QED
    BY <2>1, <2>2 DEF Change
<1>3. \A p \in Requetes \ {q} :
        ~ModifieEmpreinte(p)' /\ pc'[p] \notin {"configurer", "desactiverEmpreinte",
                                                 "activerEmpreinte"}
  BY <1>1, <1>2 DEF ModifieEmpreinte
<1>4. SUFFICES /\ pc'[q] # "configurer"
               /\ pc'[q] = "desactiverEmpreinte" => DernierAppareil'
               /\ pc'[q] # "activerEmpreinte" => empreinte' \/ DernierAppareil'
  BY <1>3 DEF Empreinte
<1>5. pc[q] # "activerEmpreinte" => empreinte \/ DernierAppareil
  BY <1>2 DEF Empreinte, ModifieEmpreinte
<1>6. CASE EnregistrerAppareil(q) \/ RevoquerAppareil(q)
  <2>1. /\ pc'[q] \in {"inscrireAppareil", "revoquerAppareil"} /\ pc[q] = "libre"
        /\ empreinte' = empreinte /\ appareils' = appareils
    BY <1>6 DEF EnregistrerAppareil, RevoquerAppareil, Commencer, bioVars
  <2>. QED
    BY <1>5, <2>1 DEF DernierAppareil
<1>7. CASE ConfigurerEmpreinte(q)
  BY <1>7 DEF ConfigurerEmpreinte
<1>8. CASE InscrireAppareil(q)
  BY <1>8 DEF InscrireAppareil
<1>9. CASE EcrireEmpreinte(q)
  <2>1. pc'[q] = "libre" /\ appareils' = appareils
    BY <1>9 DEF EcrireEmpreinte
  <2>2. CASE pc[q] = "activerEmpreinte"
    <3>1. empreinte'
      BY Zenon, <1>9, <2>2 DEF EcrireEmpreinte
    <3>. QED
      BY <2>1, <3>1
  <2>3. CASE pc[q] = "desactiverEmpreinte"
    BY <2>1, <2>3 DEF Empreinte, DernierAppareil
  <2>. QED
    BY <1>9, <2>2, <2>3 DEF EcrireEmpreinte, Empreinte
<1>10. CASE DesactiverAppareil(q)
  <2>1. /\ pc'[q] = "compterAppareils" /\ pc[q] = "revoquerAppareil"
        /\ empreinte' = empreinte
        /\ appareils' = [appareils EXCEPT ![loc[q].appareil] = "REVOQUE"]
    BY <1>10 DEF DesactiverAppareil
  <2>. QED
    BY <1>5, <2>1 DEF DernierAppareil
<1>11. CASE CompterAppareils(q)
  <2>1. /\ pc'[q] \in {"desactiverEmpreinte", "libre"} /\ pc[q] = "compterAppareils"
        /\ empreinte' = empreinte /\ appareils' = appareils
        /\ pc'[q] = "desactiverEmpreinte" => DernierAppareil
    BY <1>11 DEF CompterAppareils, bioVars
  <2>. QED
    BY <1>5, <2>1 DEF DernierAppareil
<1>. QED
  BY <1>6, <1>7, <1>8, <1>9, <1>10, <1>11 DEF Change

(* Every step keeps the flag in agreement with the devices.                *)
LEMMA EmpreinteNext ==
  ASSUME TypeInv, EmpreinteInv, [Next]_vars
  PROVE  EmpreinteInv'
<1>1. /\ configure => configure'
      /\ courseEmpreinte => courseEmpreinte'
  BY CoursesRestent DEF Courses
<1>2. ASSUME Empreinte, ~courseEmpreinte', ~configure' PROVE Empreinte'
  BY <1>2, EmpreinteAilleurs, EmpreinteChange
<1>. QED
  BY Zenon, <1>1, <1>2 DEF EmpreinteInv

(* While no handler is under way a registered device can be used, unless    *)
(* the user turned the fingerprint off or two handlers changed it together: *)
(* a registration turns it on after it wrote the device, a revocation turns *)
(* it off only after it counted that no device is left.                     *)
THEOREM AppareilsSontUtilisables == Spec => []AppareilUtilisable
<1>1. Init => EmpreinteInv
  <2> SUFFICES ASSUME Init PROVE Empreinte
    BY DEF EmpreinteInv
  <2>1. \A q \in Requetes : pc[q] = "libre"
    BY DEF Init
  <2>2. DernierAppareil
    BY DEF Init, DernierAppareil
  <2>. QED
    BY <2>1, <2>2 DEF Empreinte, ModifieEmpreinte
<1>2. TypeInv /\ EmpreinteInv /\ [Next]_vars => (TypeInv /\ EmpreinteInv)'
  BY TypeNext, EmpreinteNext
<1>3. EmpreinteInv => AppareilUtilisable
  BY Zenon DEF EmpreinteInv, Empreinte, AppareilUtilisable, DernierAppareil
<1>. QED
  BY <1>1, <1>2, <1>3, TypeInit, PTL DEF Spec
=============================================================================
