-------------------------- MODULE Authentification --------------------------
(***************************************************************************)
(* One account: its codes, its PIN, its sessions and its devices           *)
(* (auth.service.ts, the two JWT strategies, and what utilisateurs.service *)
(* does to the PIN, the fingerprint and the statut).                       *)
(*                                                                         *)
(* As elsewhere a handler is a sequence of awaited calls: pc[q] is the     *)
(* next one, loc[q] what the handler has read.  A request begins with its  *)
(* first read; one that this read refuses leaves no trace and is not a     *)
(* step.  The guard of a route and the first read of its handler are one   *)
(* step, and so are updates of columns nothing here reads (deviceId,       *)
(* derniereUtilisation) and the step before.                               *)
(*                                                                         *)
(* A PIN is the number of the time it was set, 0 the null column.          *)
(*                                                                         *)
(* bcrypt reads the first 72 bytes of what it hashes: of a refresh token,  *)
(* the header and the beginning of "sub".  They are the same in every      *)
(* token of one user, so that the comparison of rafraichirToken holds for  *)
(* each of them and its other branch is no step: what a session stores is  *)
(* only whether it has a hash.                                             *)
(***************************************************************************)
EXTENDS Integers, Sequences, FiniteSets

CONSTANTS
    Requetes,           \* slots that serve one HTTP request at a time
    Appareils,          \* devices of the user
    Nul,                \* no device
    MaxTentativesOtp,   \* MAX_TENTATIVES_OTP
    MaxTentativesPin,   \* MAX_TENTATIVES_PIN
    Usages,             \* which requests come, whether the account exists, and
                        \* the bounds on codes and sessions created meanwhile
    MaxPins,            \* bound: PINs set
    MaxDeblocages,      \* bound: locks that run out
    MaxDecisions        \* bound: statuts an administrator sets

ASSUME AuthentificationAssumption ==
    /\ MaxTentativesOtp \in Nat \ {0} /\ MaxTentativesPin \in Nat \ {0}
    /\ Nul \notin Appareils
    /\ \A u \in Usages : u.existe \in BOOLEAN /\ u.otps \in Nat /\ u.sessions \in Nat
    /\ MaxPins \in Nat \ {0} /\ MaxDeblocages \in Nat /\ MaxDecisions \in Nat

VARIABLES
    statut,          \* utilisateur.statut, "ABSENT" before the inscription
    pin,             \* utilisateur.pinHash
    echecs, bloque,  \* tentativesEchouees; bloqueLe: null, to come or past
    empreinte,       \* utilisateur.empreinteActive
    otps,            \* rows of codeOTP, oldest first
    jetons,          \* scopes of the unexpired temporary tokens
    sessions,        \* rows of sessionUtilisateur
    appareils,       \* rows of appareilBiometrique
    usage, pc, loc   \* the requests that come; progress of the handlers

VARIABLES            \* history and bounds: read by no handler
    dernierPin,      \* how often a PIN was set
    resets,          \* how often a PIN was reset by code
    essais,          \* wrong PINs since the account was last open to them
    decision,        \* the statut an administrator set last
    decisions, deblocages,
    configure,       \* configurerEmpreinte was used
    courseCode, courseEchecs, courseReset, courseEmpreinte

pinVars     == <<pin, echecs, bloque, dernierPin, resets, essais, deblocages>>
codeVars    == <<otps, jetons>>
bioVars     == <<empreinte, appareils, configure>>
statutVars  == <<statut, decision, decisions, usage>>
courseVars  == <<courseCode, courseEchecs, courseReset, courseEmpreinte>>
procVars    == <<pc, loc>>
vars == <<pinVars, codeVars, sessions, bioVars, statutVars, courseVars, procVars>>

Comptes == {"ABSENT", "EN_ATTENTE", "ACTIF", "SUSPENDU", "BANNI"}
Types   == {"INSCRIPTION", "RESET_PIN"}
Etapes  == {"libre", "invaliderOtp", "creerOtp", "ecrireOtp", "poserPin",
            "ecrireConnexion", "ouvrirSession", "genererTokens", "reinitialiser",
            "changerPin", "inscrireAppareil", "activerEmpreinte",
            "revoquerAppareil", "compterAppareils", "desactiverEmpreinte",
            "lireAppareil", "configurer"}

\* vivant: utilise is false and expireLe in the future.  History: the wrong
\* codes tried and the tokens given for it.
CodeOTP == [type : Types, tentatives : Nat, vivant : BOOLEAN, essais : Nat,
            delivres : Nat]
\* active: actif is true and expireLe in the future; jeton: refreshTokenHash is
\* set.  History: how many resets the check of the PIN had seen.
Session == [active : BOOLEAN, jeton : BOOLEAN, bio : BOOLEAN, epoque : Nat]
Locales == [op : {"aucune", "demander", "verifier", "creerPin", "connexion", "generer",
                  "reinitialiser", "changerPin", "enregistrer", "revoquer",
                  "configurer", "bio"},
            type : Types \cup {"AUCUN"}, code : Nat, n : Nat, juste : BOOLEAN,
            appareil : Appareils \cup {Nul}]
Repos   == [op |-> "aucune", type |-> "AUCUN", code |-> 0, n |-> 0, juste |-> FALSE,
            appareil |-> Nul]

\* The account does not exist yet, or it is active with its first PIN.
Init ==
    /\ usage \in Usages
    /\ statut = IF usage.existe THEN "ACTIF" ELSE "ABSENT"
    /\ pin = (IF usage.existe THEN 1 ELSE 0) /\ dernierPin = pin
    /\ echecs = 0 /\ bloque = "NON" /\ empreinte = FALSE
    /\ otps = <<>> /\ jetons = {} /\ sessions = <<>>
    /\ appareils = [d \in Appareils |-> "ABSENT"]
    /\ pc = [q \in Requetes |-> "libre"] /\ loc = [q \in Requetes |-> Repos]
    /\ resets = 0 /\ essais = 0
    /\ decision = "AUCUNE" /\ decisions = 0 /\ deblocages = 0 /\ configure = FALSE
    /\ courseCode = FALSE /\ courseEchecs = FALSE /\ courseReset = FALSE
    /\ courseEmpreinte = FALSE

-----------------------------------------------------------------------------
Vers(q, etape) == pc' = [pc EXCEPT ![q] = etape]
Repondre(q)    == Vers(q, "libre") /\ loc' = [loc EXCEPT ![q] = Repos]

Commencer(q, op, etape, champs) ==
    /\ pc[q] = "libre" /\ op \in usage.operations
    /\ Vers(q, etape)
    /\ loc' = [loc EXCEPT ![q] = champs]

Lecture(op)          == [Repos EXCEPT !.op = op]
LectureCode(op, t)   == [Repos EXCEPT !.op = op, !.type = t]
LectureAppareil(op, d) == [Repos EXCEPT !.op = op, !.appareil = d]

\* How many handlers still may do what step etape does.
EnCours(ops) == Cardinality({q \in Requetes : loc[q].op \in ops})

\* The history counts no further than one more than allowed.
Compte(n, max) == IF n > max THEN n ELSE n + 1

\* What JwtStrategy accepts: a temporary token, whatever its scope, and the
\* access token of a running session.  A token of connexionBiometrique names its
\* session in a field the strategy does not read.
Accepte(s) == sessions[s].active /\ sessions[s].jeton
Authentifie == jetons # {} \/ \E s \in DOMAIN sessions : Accepte(s)

-----------------------------------------------------------------------------
(* Codes: inscription, renvoyerOtpInscription, demanderResetPin.           *)

PlaceOtp == Len(otps) + EnCours({"demander"}) < usage.otps

\* A second inscription of the same number fails on its unique index.
Inscription(q) ==
    /\ PlaceOtp /\ statut = "ABSENT"
    /\ statut' = "EN_ATTENTE"
    /\ Commencer(q, "inscription", "invaliderOtp",
                 LectureCode("demander", "INSCRIPTION"))
    /\ UNCHANGED <<pinVars, codeVars, sessions, bioVars, decision, decisions,
                   usage, courseVars>>

RepriseInscription(q) ==
    /\ PlaceOtp /\ statut \in {"EN_ATTENTE", "ACTIF"} /\ pin = 0
    /\ Commencer(q, "inscription", "invaliderOtp",
                 LectureCode("demander", "INSCRIPTION"))
    /\ UNCHANGED <<pinVars, codeVars, sessions, bioVars, statutVars, courseVars>>

DemanderResetPin(q) ==
    /\ PlaceOtp /\ statut = "ACTIF"
    /\ Commencer(q, "reset", "invaliderOtp", LectureCode("demander", "RESET_PIN"))
    /\ UNCHANGED <<pinVars, codeVars, sessions, bioVars, statutVars, courseVars>>

InvaliderOtps(q) ==
    /\ pc[q] = "invaliderOtp"
    /\ otps' = [o \in DOMAIN otps |->
                  IF otps[o].type = loc[q].type THEN [otps[o] EXCEPT !.vivant = FALSE]
                  ELSE otps[o]]
    /\ Vers(q, "creerOtp")
    /\ UNCHANGED <<pinVars, jetons, sessions, bioVars, statutVars, courseVars, loc>>

CreerOtp(q) ==
    /\ pc[q] = "creerOtp"
    /\ otps' = Append(otps, [type |-> loc[q].type, tentatives |-> 0, vivant |-> TRUE,
                             essais |-> 0, delivres |-> 0])
    /\ Repondre(q)
    /\ UNCHANGED <<pinVars, jetons, sessions, bioVars, statutVars, courseVars>>

\* findFirst of the live codes of a type, newest first
Vivants(t) == {o \in DOMAIN otps : otps[o].type = t /\ otps[o].vivant}
EcritCode(q, o) == pc[q] = "ecrireOtp" /\ loc[q].code = o

\* verifierOtp and verifierOtpResetPin: a right reset code of an account that
\* is not active is refused and stays unused.
VerifierOtp(q) ==
    \E t \in Types, juste \in BOOLEAN : \E o \in Vivants(t) :
        /\ \A p \in Vivants(t) : p <= o
        /\ t = "RESET_PIN" /\ juste => statut = "ACTIF"
        /\ Commencer(q, IF t = "RESET_PIN" THEN "reset" ELSE "inscription", "ecrireOtp",
                     [LectureCode("verifier", t) EXCEPT
                         !.code = o, !.n = otps[o].tentatives, !.juste = juste])
        /\ otps' = [otps EXCEPT ![o].essais =
                       IF juste THEN @ ELSE Compte(@, MaxTentativesOtp)]
        /\ courseCode' = (courseCode \/ \E p \in Requetes : EcritCode(p, o))
        /\ UNCHANGED <<pinVars, jetons, sessions, bioVars, statutVars, courseEchecs,
                       courseReset, courseEmpreinte>>

Epuise(n) == n >= MaxTentativesOtp

\* A code already at the limit is only marked used; a wrong one writes the
\* count that was read plus one.
EcrireOtp(q) ==
    LET o == loc[q].code  n == loc[q].n IN
    /\ pc[q] = "ecrireOtp"
    /\ IF Epuise(n)
       THEN otps' = [otps EXCEPT ![o].vivant = FALSE] /\ UNCHANGED jetons
       ELSE IF loc[q].juste
       THEN /\ otps' = [otps EXCEPT ![o].vivant = FALSE, ![o].delivres = @ + 1]
            /\ jetons' = jetons \cup {loc[q].type}
       ELSE /\ otps' = [otps EXCEPT ![o].tentatives = n + 1,
                                    ![o].vivant = @ /\ ~Epuise(n + 1)]
            /\ UNCHANGED jetons
    /\ Repondre(q)
    /\ UNCHANGED <<pinVars, sessions, bioVars, statutVars, courseVars>>

-----------------------------------------------------------------------------
(* The PIN: creerPin, connexion, reinitialiserPin, changerPin.             *)

PlacePin     == dernierPin + EnCours({"creerPin", "reinitialiser", "changerPin"}) < MaxPins
PlaceSession == Len(sessions) + EnCours({"creerPin", "connexion", "bio"}) < usage.sessions

\* Any token the guard accepts will do.
CreerPin(q) ==
    /\ PlacePin /\ PlaceSession /\ Authentifie
    /\ ~(statut = "ACTIF" /\ pin # 0)
    /\ Commencer(q, "inscription", "poserPin", [Lecture("creerPin") EXCEPT !.n = resets])
    /\ UNCHANGED <<pinVars, codeVars, sessions, bioVars, statutVars, courseVars>>

PoserPin(q) ==
    /\ pc[q] = "poserPin"
    /\ pin' = dernierPin + 1 /\ dernierPin' = pin'
    /\ statut' = "ACTIF"
    /\ Vers(q, "ouvrirSession")
    /\ UNCHANGED <<echecs, bloque, resets, essais, deblocages, codeVars, sessions,
                   bioVars, decision, decisions, usage, courseVars, loc>>

\* code is the number of resets seen: history
Connexion(q) ==
    \E juste \in BOOLEAN :
        /\ PlaceSession
        /\ statut = "ACTIF" /\ bloque # "OUI" /\ pin # 0
        /\ Commencer(q, "connexion", "ecrireConnexion",
                     [Lecture("connexion") EXCEPT !.n = echecs, !.juste = juste,
                                                  !.code = resets])
        /\ essais' = IF juste THEN essais ELSE Compte(essais, MaxTentativesPin)
        /\ courseEchecs' = (courseEchecs \/ \E p \in Requetes : pc[p] = "ecrireConnexion")
        /\ UNCHANGED <<pin, echecs, bloque, dernierPin, resets, deblocages, codeVars,
                       sessions, bioVars, statutVars, courseCode, courseReset,
                       courseEmpreinte>>

\* mutant: the lock starts one wrong PIN too late
SeuilPinDepasse(n) == n > MaxTentativesPin

SeuilPin(n) == n >= MaxTentativesPin

EcrireConnexion(q) ==
    /\ pc[q] = "ecrireConnexion"
    /\ IF loc[q].juste
       THEN /\ echecs' = 0 /\ bloque' = "NON" /\ essais' = 0
            /\ Vers(q, "ouvrirSession")
            /\ loc' = [loc EXCEPT ![q].n = loc[q].code]
       ELSE /\ echecs' = loc[q].n + 1
            /\ bloque' = IF SeuilPin(loc[q].n + 1) THEN "OUI" ELSE bloque
            /\ UNCHANGED essais
            /\ Repondre(q)
    /\ UNCHANGED <<pin, dernierPin, resets, deblocages, codeVars, sessions, bioVars,
                   statutVars, courseVars>>

\* Between a check that saw the account before a reset and its session.
OuvriraSession(p) ==
    /\ loc[p].op \in {"connexion", "creerPin"}
    /\ pc[p] = "ecrireConnexion" => loc[p].juste

OuvrirSession(q) ==
    /\ pc[q] = "ouvrirSession"
    /\ sessions' = Append(sessions, [active |-> TRUE, jeton |-> FALSE,
                                     bio |-> loc[q].op = "bio", epoque |-> loc[q].n])
    /\ IF loc[q].op = "bio" THEN Repondre(q)
       ELSE /\ Vers(q, "genererTokens")
            /\ loc' = [loc EXCEPT ![q] = [Lecture("generer") EXCEPT !.n = Len(sessions')]]
    /\ UNCHANGED <<pinVars, codeVars, bioVars,
                   statutVars, courseVars>>

\* The hash is written whatever became of the session meanwhile.
GenererTokens(q) ==
    /\ pc[q] = "genererTokens"
    /\ sessions' = [sessions EXCEPT ![loc[q].n].jeton = TRUE]
    /\ Repondre(q)
    /\ UNCHANGED <<pinVars, codeVars, bioVars, statutVars, courseVars>>

DemanderNouveauPin(q) ==
    /\ PlacePin
    /\ "RESET_PIN" \in jetons /\ statut = "ACTIF"
    /\ Commencer(q, "reset", "reinitialiser", Lecture("reinitialiser"))
    /\ UNCHANGED <<pinVars, codeVars, sessions, bioVars, statutVars, courseVars>>

Fermees == [s \in DOMAIN sessions |-> [sessions[s] EXCEPT !.active = FALSE]]

\* mutant: the reset leaves the sessions as they are
ReinitialiserSansFermer(q) ==
    /\ pc[q] = "reinitialiser"
    /\ pin' = dernierPin + 1 /\ dernierPin' = pin'
    /\ echecs' = 0 /\ bloque' = "NON" /\ essais' = 0
    /\ resets' = resets + 1
    /\ courseReset' = (courseReset \/ \E p \in Requetes : OuvriraSession(p))
    /\ Repondre(q)
    /\ UNCHANGED <<deblocages, codeVars, sessions, bioVars, statutVars, courseCode,
                   courseEchecs, courseEmpreinte>>

\* $transaction: the PIN, the counters and every active session
Reinitialiser(q) ==
    /\ pc[q] = "reinitialiser"
    /\ pin' = dernierPin + 1 /\ dernierPin' = pin'
    /\ echecs' = 0 /\ bloque' = "NON" /\ essais' = 0
    /\ sessions' = Fermees
    /\ resets' = resets + 1
    /\ courseReset' = (courseReset \/ \E p \in Requetes : OuvriraSession(p))
    /\ Repondre(q)
    /\ UNCHANGED <<deblocages, codeVars, bioVars,
                   statutVars, courseCode, courseEchecs, courseEmpreinte>>

\* Utilisateurs.changerPin: the old PIN is right; nothing closes a session.
ChangerPin(q) ==
    /\ PlacePin /\ Authentifie /\ pin # 0
    /\ Commencer(q, "changerPin", "changerPin", Lecture("changerPin"))
    /\ UNCHANGED <<pinVars, codeVars, sessions, bioVars, statutVars, courseVars>>

EcrirePin(q) ==
    /\ pc[q] = "changerPin"
    /\ pin' = dernierPin + 1 /\ dernierPin' = pin'
    /\ Repondre(q)
    /\ UNCHANGED <<echecs, bloque, resets, essais, deblocages, codeVars, sessions,
                   bioVars, statutVars, courseVars>>

-----------------------------------------------------------------------------
(* Sessions: rafraichirToken, deconnexion, revoquerSession.                *)

\* JwtRefreshStrategy finds the session running; the service reads it again with
\* the statut of the user.
Rafraichir(q) ==
    \E s \in DOMAIN sessions :
        /\ Accepte(s) /\ statut = "ACTIF"
        /\ Commencer(q, "rafraichir", "genererTokens", [Lecture("generer") EXCEPT !.n = s])
        /\ UNCHANGED <<pinVars, codeVars, sessions, bioVars, statutVars, courseVars>>

\* deconnexion, deconnexionTout and revoquerSession are one update each.
Deconnecter ==
    /\ "deconnecter" \in usage.operations
    /\ Authentifie
    /\ \/ \E s \in DOMAIN sessions :
             /\ Accepte(s)
             /\ sessions' = [sessions EXCEPT ![s].active = FALSE, ![s].jeton = FALSE]
       \/ \E s \in DOMAIN sessions :
             /\ sessions[s].active
             /\ sessions' = [sessions EXCEPT ![s].active = FALSE]
       \/ sessions' = Fermees
    /\ UNCHANGED <<pinVars, codeVars, bioVars,
                   statutVars, courseVars, procVars>>

-----------------------------------------------------------------------------
(* The fingerprint.                                                        *)

ModifieEmpreinte(p) ==
    pc[p] \in {"inscrireAppareil", "activerEmpreinte", "revoquerAppareil",
               "compterAppareils", "desactiverEmpreinte", "configurer"}
CourseEmpreinte == courseEmpreinte' = (courseEmpreinte \/
                                       \E p \in Requetes : ModifieEmpreinte(p))

EnregistrerAppareil(q) ==
    \E d \in Appareils :
        /\ Authentifie /\ statut = "ACTIF"
        /\ Commencer(q, "empreinte", "inscrireAppareil", LectureAppareil("enregistrer", d))
        /\ CourseEmpreinte
        /\ UNCHANGED <<pinVars, codeVars, sessions, bioVars, statutVars, courseCode,
                       courseEchecs, courseReset>>

\* mutant: the device is written with the statut of a new account
InscrireAppareilEnAttente(q) ==
    /\ pc[q] = "inscrireAppareil"
    /\ appareils' = [appareils EXCEPT ![loc[q].appareil] = "EN_ATTENTE"]
    /\ Vers(q, "activerEmpreinte")
    /\ UNCHANGED <<pinVars, codeVars, sessions, empreinte, configure, statutVars,
                   courseVars, loc>>

InscrireAppareil(q) ==
    /\ pc[q] = "inscrireAppareil"
    /\ appareils' = [appareils EXCEPT ![loc[q].appareil] = "ACTIF"]
    /\ Vers(q, "activerEmpreinte")
    /\ UNCHANGED <<pinVars, codeVars, sessions, empreinte, configure, statutVars,
                   courseVars, loc>>

EcrireEmpreinte(q) ==
    /\ pc[q] \in {"activerEmpreinte", "desactiverEmpreinte", "configurer"}
    /\ empreinte' = (pc[q] = "activerEmpreinte" \/ loc[q].juste)
    /\ Repondre(q)
    /\ UNCHANGED <<pinVars, codeVars, sessions, appareils, configure, statutVars,
                   courseVars>>

RevoquerAppareil(q) ==
    \E d \in Appareils :
        /\ Authentifie /\ appareils[d] # "ABSENT"
        /\ Commencer(q, "empreinte", "revoquerAppareil", LectureAppareil("revoquer", d))
        /\ CourseEmpreinte
        /\ UNCHANGED <<pinVars, codeVars, sessions, bioVars, statutVars, courseCode,
                       courseEchecs, courseReset>>

DesactiverAppareil(q) ==
    /\ pc[q] = "revoquerAppareil"
    /\ appareils' = [appareils EXCEPT ![loc[q].appareil] = "REVOQUE"]
    /\ Vers(q, "compterAppareils")
    /\ UNCHANGED <<pinVars, codeVars, sessions, empreinte, configure, statutVars,
                   courseVars, loc>>

\* mutant: revoking one device turns the fingerprint off
DernierToujours == TRUE

DernierAppareil == \A d \in Appareils : appareils[d] # "ACTIF"

CompterAppareils(q) ==
    /\ pc[q] = "compterAppareils"
    /\ IF DernierAppareil THEN Vers(q, "desactiverEmpreinte") /\ UNCHANGED loc
       ELSE Repondre(q)
    /\ UNCHANGED <<pinVars, codeVars, sessions, bioVars, statutVars, courseVars>>

\* Utilisateurs.configurerEmpreinte, with the right PIN
ConfigurerEmpreinte(q) ==
    \E actif \in BOOLEAN :
        /\ Authentifie /\ pin # 0 /\ statut = "ACTIF"
        /\ Commencer(q, "configurer", "configurer",
                     [Lecture("configurer") EXCEPT !.juste = actif])
        /\ configure' = TRUE
        /\ CourseEmpreinte
        /\ UNCHANGED <<pinVars, codeVars, sessions, empreinte, appareils, statutVars,
                       courseCode, courseEchecs, courseReset>>

\* Only a banned account is refused; the PIN, its lock and its attempts do not
\* matter.
ConnexionBiometrique(q) ==
    \E d \in Appareils :
        /\ PlaceSession
        /\ statut \notin {"ABSENT", "BANNI"} /\ empreinte
        /\ Commencer(q, "empreinte", "lireAppareil",
                     [LectureAppareil("bio", d) EXCEPT !.n = resets])
        /\ UNCHANGED <<pinVars, codeVars, sessions, bioVars, statutVars, courseVars>>

LireAppareil(q) ==
    /\ pc[q] = "lireAppareil"
    /\ IF appareils[loc[q].appareil] = "ACTIF"
       THEN Vers(q, "ouvrirSession") /\ UNCHANGED loc
       ELSE Repondre(q)
    /\ UNCHANGED <<pinVars, codeVars, sessions, bioVars, statutVars, courseVars>>

-----------------------------------------------------------------------------
(* An administrator, time and crashes.                                     *)

\* changerStatut reads only the role; any statut of the enumeration will do.
ChangerStatut ==
    /\ "statut" \in usage.operations
    /\ decisions < MaxDecisions /\ statut # "ABSENT"
    /\ \E s \in Comptes \ {"ABSENT"} : statut' = s /\ decision' = s
    /\ decisions' = decisions + 1
    /\ UNCHANGED <<pinVars, codeVars, sessions, bioVars, usage, courseVars, procVars>>

Expirer ==
    /\ \/ /\ \E t \in Types : \E o \in Vivants(t) :
                otps' = [otps EXCEPT ![o].vivant = FALSE]
          /\ UNCHANGED <<jetons, sessions>>
       \/ /\ \E t \in jetons : jetons' = jetons \ {t}
          /\ UNCHANGED <<otps, sessions>>
       \/ /\ \E s \in DOMAIN sessions :
                sessions[s].active /\ sessions' = [sessions EXCEPT ![s].active = FALSE]
          /\ UNCHANGED <<otps, jetons>>
    /\ UNCHANGED <<pinVars, bioVars, statutVars,
                   courseVars, procVars>>

\* The hourly job debloquerPINAutomatiquement, in one update
DebloquerPin ==
    /\ bloque = "PASSE"
    /\ bloque' = "NON" /\ echecs' = 0
    /\ UNCHANGED <<pin, dernierPin, resets, essais, deblocages, codeVars, sessions,
                   bioVars, statutVars, courseVars, procVars>>

\* 30 minutes pass: tentativesEchouees keeps its value.
Debloquer ==
    /\ bloque = "OUI" /\ deblocages < MaxDeblocages
    /\ bloque' = "PASSE" /\ essais' = 0
    /\ deblocages' = deblocages + 1
    /\ UNCHANGED <<pin, echecs, dernierPin, resets, codeVars, sessions, bioVars,
                   statutVars, courseVars, procVars>>

\* The process dies between the check and the write of some handler.
Panne ==
    /\ \E q \in Requetes : pc[q] # "libre"
    /\ courseCode' = (courseCode \/ \E q \in Requetes : pc[q] = "ecrireOtp")
    /\ courseEchecs' = (courseEchecs \/ \E q \in Requetes : pc[q] = "ecrireConnexion")
    /\ CourseEmpreinte
    /\ pc' = [q \in Requetes |-> "libre"] /\ loc' = [q \in Requetes |-> Repos]
    /\ UNCHANGED <<pinVars, codeVars, sessions, bioVars, statutVars, courseReset>>

-----------------------------------------------------------------------------
Recevoir(q) ==
    \/ Inscription(q) \/ RepriseInscription(q) \/ DemanderResetPin(q)
    \/ VerifierOtp(q) \/ CreerPin(q) \/ Connexion(q) \/ DemanderNouveauPin(q)
    \/ ChangerPin(q) \/ Rafraichir(q) \/ EnregistrerAppareil(q)
    \/ RevoquerAppareil(q) \/ ConfigurerEmpreinte(q) \/ ConnexionBiometrique(q)

Poursuivre(q) ==
    \/ InvaliderOtps(q) \/ CreerOtp(q) \/ EcrireOtp(q) \/ PoserPin(q)
    \/ EcrireConnexion(q) \/ OuvrirSession(q) \/ GenererTokens(q)
    \/ Reinitialiser(q) \/ EcrirePin(q)
    \/ InscrireAppareil(q) \/ EcrireEmpreinte(q) \/ DesactiverAppareil(q)
    \/ CompterAppareils(q) \/ LireAppareil(q)

Next ==
    \/ \E q \in Requetes : Recevoir(q) \/ Poursuivre(q)
    \/ Deconnecter \/ ChangerStatut \/ Expirer \/ Debloquer \/ DebloquerPin
    \/ Panne

Spec == Init /\ [][Next]_vars
-----------------------------------------------------------------------------
(* Properties.                                                             *)

\* Every column and local variable has its type.
TypeOK ==
    /\ statut \in Comptes /\ bloque \in {"NON", "OUI", "PASSE"} /\ empreinte \in BOOLEAN
    /\ pin \in 0 .. dernierPin /\ dernierPin \in Nat
    /\ echecs \in Nat /\ essais \in Nat /\ resets \in Nat
    /\ otps \in Seq(CodeOTP) /\ jetons \subseteq Types
    /\ sessions \in Seq(Session)
    /\ appareils \in [Appareils -> {"ABSENT", "ACTIF", "REVOQUE"}]
    /\ pc \in [Requetes -> Etapes] /\ loc \in [Requetes -> Locales]

\* A code takes MAX_TENTATIVES_OTP wrong tries and gives one token at most,
\* unless two verifications of it ran together or one of them never wrote its
\* count: the count is written as the value read before plus one.  However
\* logins, resets, locks and their expiry follow each other, no more than
\* MAX_TENTATIVES_PIN wrong PINs are compared while the account is open, unless
\* two logins were between reading the count and writing it.
EssaisLimites ==
    /\ \A o \in DOMAIN otps :
          courseCode \/ (otps[o].essais <= MaxTentativesOtp /\ otps[o].delivres <= 1)
    /\ courseEchecs \/ essais <= MaxTentativesPin

\* A reset closes what was opened before: a running session comes from a check
\* made after the last reset, unless a login or an inscription was under way.
ResetFermeSessions ==
    \A s \in DOMAIN sessions :
        sessions[s].active /\ ~sessions[s].bio /\ ~courseReset
          => sessions[s].epoque = resets

\* While no handler is under way a registered device can be used, unless the
\* user turned the fingerprint off or two handlers changed it together: the
\* device and the flag are written, and the devices counted, one after another.
AppareilUtilisable ==
    (\A q \in Requetes : pc[q] = "libre")
      /\ (\E d \in Appareils : appareils[d] = "ACTIF")
      /\ ~configure /\ ~courseEmpreinte => empreinte

\* What an administrator decided stays: a suspended account is told to ask the
\* support, so it does not become active by a request of its own.
DecisionTenue == decision \in {"SUSPENDU", "BANNI"} => statut = decision
=============================================================================
