------------------------------ MODULE Retraits ------------------------------
(***************************************************************************)
(* Withdrawals from a tontine (retraits.service.ts).                       *)
(*                                                                         *)
(* A request is an asynchronous handler: every awaited database call ends  *)
(* a step, and any other handler may run before the next one.  pc[q] names *)
(* the step request q is about to take ("libre" when the slot serves no    *)
(* request) and loc[q] keeps what its handler has read so far, which may   *)
(* be stale by the time it is used; a field the rest of the handler never  *)
(* reads is cleared.  prisma.$transaction is one step.                     *)
(*                                                                         *)
(* One tontine and its owner are modelled: a withdrawal code carries the   *)
(* tontine and the amount, so codes of different tontines never meet.      *)
(* Payments into the tontine (Crediter), the accounting alert and the      *)
(* passing of time are the environment here.                               *)
(***************************************************************************)
EXTENDS Integers, Sequences, FiniteSetsExt

CONSTANTS
    Requetes,        \* slots that serve one HTTP request at a time
    RetraitIds,      \* primary keys of table retrait
    Montants,        \* amounts a client asks for
    Cles,            \* idempotency keys chosen by the client
    Nul,             \* a column or a field that is null
    SeuilAdmin,      \* BUSINESS.SEUIL_RETRAIT_ADMIN
    Objectif,        \* objectifMontantFcfa of the tontine
    SoldeInitial,    \* soldeActuelFcfa when the model starts
    FraisAgent,      \* montant |-> fraisAgent of calculerFraisRetrait
    Politiques,      \* policies to explore: FLEXIBLE, PROGRAMME, BLOQUE
    MaxOtp,          \* bound: codes ever created
    MaxCredits,      \* bound: payments into the tontine
    AlertesPossibles, \* whether an accounting alert may open
    PannesPossibles  \* whether the server may crash

ASSUME RetraitsAssumption ==
    /\ Montants \subseteq Nat \ {0}
    /\ SeuilAdmin \in Nat /\ Objectif \in Nat \ {0} /\ SoldeInitial \in Nat
    /\ FraisAgent \in [Montants -> Nat]
    /\ Politiques \subseteq {"FLEXIBLE", "PROGRAMME", "BLOQUE"}
    /\ MaxOtp \in Nat /\ MaxCredits \in Nat 
    /\ AlertesPossibles \in BOOLEAN /\ PannesPossibles \in BOOLEAN
    /\ Nul \notin Cles /\ Nul \notin RetraitIds

VARIABLES
    solde,           \* tontine.soldeActuelFcfa
    commission,      \* utilisateur.soldeCommissionFcfa of the collector
    politique,       \* tontine.politique
    dateAtteinte,    \* tontine.dateDeverrouillage is in the past
    alerte,          \* an open critical COHERENCE_COMPTABLE alert exists
    otps,            \* rows of codeOTP of a withdrawal type, oldest first
    retraits,        \* rows of retrait
    envois,          \* retrait |-> transfers the payment provider received
    pc, loc          \* progress and local variables of the handlers

VARIABLES            \* history: what happened, read by no action
    credits,         \* sum paid into the tontine so far
    enregistres,     \* retrait |-> executions booked in the database
    courseSolde,     \* two handlers were between reading and debiting solde
    courseOtp,       \* two handlers were between finding and using one code
    courseDecision   \* two handlers were deciding on one retrait

tontineVars == <<solde, commission, politique, dateAtteinte, alerte>>
livreVars   == <<retraits, envois, enregistres>>
courseVars  == <<courseSolde, courseOtp, courseDecision>>
procVars    == <<pc, loc>>
vars == <<tontineVars, otps, livreVars, procVars, credits, courseVars>>

Statuts == {"ABSENT", "EN_ATTENTE", "VALIDE", "EXECUTE", "REJETE"}
Etapes  == {"libre", "idempotence", "otp", "consommer", "lire", "alerte",
            "invalider", "creerOtp", "creer", "lireRetrait", "lireSolde",
            "marquer", "rejeter", "transfert", "enregistrer"}

\* A row of codeOTP, a row of retrait, the local variables of a handler; otp
\* in a row of retrait is history: the code that authorised it.
CodeOTP == [montant : Montants, utilise : BOOLEAN, expire : BOOLEAN]
Retrait == [statut : Statuts, montant : Montants \cup {0},
            cle : Cles \cup {Nul}, validePar : BOOLEAN, otp : Nat]
Locales == [op : {"aucune", "demanderOtp", "confirmer", "valider", "rejeter"},
            montant : Montants \cup {0}, cle : Cles \cup {Nul}, code : Nat,
            retrait : RetraitIds \cup {Nul}, solde : Int]

Absent == [statut |-> "ABSENT", montant |-> 0, cle |-> Nul, validePar |-> FALSE,
           otp |-> 0]

\* The local variables of a handler that starts.
Requete(op, m, k, c, r) ==
    [op |-> op, montant |-> m, cle |-> k, code |-> c, retrait |-> r, solde |-> 0]
Repos == Requete("aucune", 0, Nul, 0, Nul)

Init ==
    /\ solde = SoldeInitial /\ commission = 0
    /\ politique \in Politiques
    /\ dateAtteinte = FALSE /\ alerte = FALSE
    /\ otps = <<>>
    /\ retraits = [r \in RetraitIds |-> Absent]
    /\ envois = [r \in RetraitIds |-> 0]
    /\ enregistres = [r \in RetraitIds |-> 0]
    /\ pc = [q \in Requetes |-> "libre"]
    /\ loc = [q \in Requetes |-> Repos]
    /\ credits = 0
    /\ courseSolde = FALSE /\ courseOtp = FALSE /\ courseDecision = FALSE

-----------------------------------------------------------------------------
(* What the handlers share.                                                *)

Existants == {r \in RetraitIds : retraits[r].statut # "ABSENT"}

\* utilise: false and expireLe in the future
Vivant(o) == ~otps[o].utilise /\ ~otps[o].expire

\* mutant: the type of a code leaves the amount out
CorrespondantsToutMontant(m) == {o \in DOMAIN otps : Vivant(o)}

\* the live codes of the type `RETRAIT:tontine:montant`
Correspondants(m) == {o \in DOMAIN otps : Vivant(o) /\ otps[o].montant = m}

\* mutant: a blocked tontine only checks its date
PolitiquePermetSansObjectif(s) == politique \in {"PROGRAMME", "BLOQUE"} => dateAtteinte

\* verifierRetraitPossible, on the balance s that was read before
PolitiquePermet(s) ==
    /\ politique \in {"PROGRAMME", "BLOQUE"} => dateAtteinte
    /\ politique = "BLOQUE" => s >= Objectif

\* Between reading the balance and debiting it (or giving up).
Depense(q) == /\ loc[q].op # "demanderOtp"
              /\ pc[q] \in {"alerte", "creer", "marquer", "transfert",
                            "enregistrer"}

\* Between finding a code and marking it used.
UtiliseOtp(q, o) == pc[q] = "consommer" /\ loc[q].code = o

\* Between reading that a retrait is pending and deciding on it.
Decide(q, r) == /\ loc[q].retrait = r
                /\ pc[q] \in {"lireSolde", "marquer", "rejeter"}

Vers(q, etape)  == pc' = [pc EXCEPT ![q] = etape]
Repondre(q)     == /\ Vers(q, "libre")
                   /\ loc' = [loc EXCEPT ![q] = Repos]

Commencer(q, etape, champs) ==
    /\ pc[q] = "libre"
    /\ Vers(q, etape)
    /\ loc' = [loc EXCEPT ![q] = champs]
    /\ UNCHANGED <<tontineVars, otps, livreVars, credits, courseVars>>

-----------------------------------------------------------------------------
(* The requests.                                                           *)

\* Codes that exist or that a request under way may still create.
CodesPrevus ==
    Len(otps) + Cardinality({q \in Requetes : loc[q].op = "demanderOtp"})

DemanderOtp(q) ==
    /\ CodesPrevus < MaxOtp
    /\ \E m \in Montants :
          Commencer(q, "lire", Requete("demanderOtp", m, Nul, 0, Nul))

\* Rows that exist or that a request under way may still create.
LignesPrevues ==
    Cardinality(Existants)
      + Cardinality({q \in Requetes : loc[q].op = "confirmer" /\
                                      loc[q].retrait = Nul})

\* The client knows every code that was sent; 0 is a code never sent.
Confirmer(q) ==
    /\ LignesPrevues < Cardinality(RetraitIds)
    /\ \E m \in Montants, k \in Cles \cup {Nul}, c \in {0} \cup DOMAIN otps :
          Commencer(q, IF k = Nul THEN "otp" ELSE "idempotence",
                    Requete("confirmer", m, k, c, Nul))

Valider(q) ==
    \E r \in Existants :
        Commencer(q, "lireRetrait", Requete("valider", 0, Nul, 0, r))

Rejeter(q) ==
    \E r \in Existants :
        Commencer(q, "lireRetrait", Requete("rejeter", 0, Nul, 0, r))

-----------------------------------------------------------------------------
(* confirmer: the key, then the code.                                      *)

ChercherCle(q) ==
    /\ pc[q] = "idempotence"
    /\ IF \E r \in Existants : retraits[r].cle = loc[q].cle
       THEN Repondre(q)
       ELSE Vers(q, "otp") /\ UNCHANGED loc
    /\ UNCHANGED <<tontineVars, otps, livreVars, credits, courseVars>>

\* findFirst ... orderBy creeLe desc, then bcrypt.compare: only the newest
\* code of this amount is accepted.
EstDernierCode(o, m) ==
    o \in Correspondants(m) /\ \A p \in Correspondants(m) : p <= o

ChercherOtp(q) ==
    LET o == loc[q].code IN
    /\ pc[q] = "otp"
    /\ IF EstDernierCode(o, loc[q].montant)
       THEN /\ Vers(q, "consommer")
            /\ UNCHANGED loc
            /\ courseOtp' = (courseOtp \/ \E p \in Requetes : UtiliseOtp(p, o))
       ELSE Repondre(q) /\ UNCHANGED courseOtp
    /\ UNCHANGED <<tontineVars, otps, livreVars, credits, courseSolde,
                   courseDecision>>

\* mutant: the code is never marked used
ConsommerOtpJamais(q) ==
    /\ pc[q] = "consommer"
    /\ Vers(q, "lire")
    /\ UNCHANGED <<tontineVars, otps, livreVars, loc, credits, courseVars>>

ConsommerOtp(q) ==
    /\ pc[q] = "consommer"
    /\ otps' = [otps EXCEPT ![loc[q].code].utilise = TRUE]
    /\ Vers(q, "lire")
    /\ UNCHANGED <<tontineVars, livreVars, loc, credits, courseVars>>

-----------------------------------------------------------------------------
(* demanderOtp and demander: read the tontine, check, then create.         *)

LireTontine(q) ==
    /\ pc[q] = "lire"
    /\ Vers(q, "alerte")
    /\ loc' = [loc EXCEPT ![q].solde = solde]
    /\ courseSolde' = (courseSolde \/ (loc[q].op = "confirmer" /\
                                       \E p \in Requetes : Depense(p)))
    /\ UNCHANGED <<tontineVars, otps, livreVars, credits, courseOtp,
                   courseDecision>>

\* verifierAucuneAlerteBloquante reads the database; the checks that follow
\* use the tontine read before.
RetraitPossible(q) ==
    ~alerte /\ loc[q].solde >= loc[q].montant /\ PolitiquePermet(loc[q].solde)

Verifier(q) ==
    /\ pc[q] = "alerte"
    /\ IF ~RetraitPossible(q) THEN Repondre(q)
       ELSE /\ Vers(q, IF loc[q].op = "demanderOtp" THEN "invalider" ELSE "creer")
            /\ loc' = [loc EXCEPT ![q].solde = 0]
    /\ UNCHANGED <<tontineVars, otps, livreVars, credits, courseVars>>

InvaliderOtps(q) ==
    /\ pc[q] = "invalider"
    /\ otps' = [o \in DOMAIN otps |-> [otps[o] EXCEPT !.utilise = TRUE]]
    /\ Vers(q, "creerOtp")
    /\ UNCHANGED <<tontineVars, livreVars, loc, credits, courseVars>>

CreerOtp(q) ==
    /\ pc[q] = "creerOtp"
    /\ otps' = Append(otps, [montant |-> loc[q].montant, utilise |-> FALSE,
                             expire |-> FALSE])
    /\ Repondre(q)
    /\ UNCHANGED <<tontineVars, livreVars, credits, courseVars>>

NecessiteAdmin(m) == m >= SeuilAdmin

\* mutant: a value that is not in the enumeration
StatutInitialInconnu(m) == IF NecessiteAdmin(m) THEN "EN_ATTENTE" ELSE "EN_COURS"

StatutInitial(m) == IF NecessiteAdmin(m) THEN "EN_ATTENTE" ELSE "VALIDE"

\* idempotencyKey is unique: creating a second row with it fails.
CleLibre(k) == k # Nul => \A r \in Existants : retraits[r].cle # k

\* mutant: an automatic withdrawal is answered before it is executed
CreerRetraitSansExecuter(q) ==
    /\ pc[q] = "creer"
    /\ \E r \in RetraitIds \ Existants :
          retraits' = [retraits EXCEPT ![r] =
             [statut |-> StatutInitial(loc[q].montant), montant |-> loc[q].montant,
              cle |-> loc[q].cle, validePar |-> FALSE, otp |-> loc[q].code]]
    /\ Repondre(q)
    /\ UNCHANGED <<tontineVars, otps, envois, enregistres, credits, courseVars>>

CreerRetrait(q) ==
    /\ pc[q] = "creer"
    /\ IF ~CleLibre(loc[q].cle)
       THEN Repondre(q) /\ UNCHANGED retraits
       ELSE \E r \in RetraitIds \ Existants :
              LET m == loc[q].montant IN
              /\ retraits' = [retraits EXCEPT ![r] =
                   [statut |-> StatutInitial(m),
                    montant |-> m, cle |-> loc[q].cle, validePar |-> FALSE,
                    otp |-> loc[q].code]]
              /\ IF NecessiteAdmin(m) THEN Repondre(q)
                 ELSE /\ Vers(q, "transfert")
                      /\ loc' = [loc EXCEPT ![q].retrait = r]
    /\ UNCHANGED <<tontineVars, otps, envois, enregistres, credits, courseVars>>

-----------------------------------------------------------------------------
(* executer: the provider sends the money, then one database transaction   *)
(* records it.                                                             *)

Transferer(q) ==
    /\ pc[q] = "transfert"
    /\ envois' = [envois EXCEPT ![loc[q].retrait] = @ + 1]
    /\ Vers(q, "enregistrer")
    /\ UNCHANGED <<tontineVars, otps, retraits, enregistres, loc, credits,
                   courseVars>>

\* mutant: without $transaction the second update may be lost
EnregistrerPartiel(q) ==
    LET r == loc[q].retrait  m == loc[q].montant IN
    /\ pc[q] = "enregistrer"
    /\ retraits' = [retraits EXCEPT ![r].statut = "EXECUTE"]
    /\ solde' \in {solde, solde - m}
    /\ commission' = commission + FraisAgent[m]
    /\ enregistres' = [enregistres EXCEPT ![r] = @ + 1]
    /\ Repondre(q)
    /\ UNCHANGED <<politique, dateAtteinte, alerte, otps, envois, credits,
                   courseVars>>

Enregistrer(q) ==
    LET r == loc[q].retrait  m == loc[q].montant IN
    /\ pc[q] = "enregistrer"
    /\ retraits' = [retraits EXCEPT ![r].statut = "EXECUTE"]
    /\ solde' = solde - m
    /\ commission' = commission + FraisAgent[m]
    /\ enregistres' = [enregistres EXCEPT ![r] = @ + 1]
    /\ Repondre(q)
    /\ UNCHANGED <<politique, dateAtteinte, alerte, otps, envois, credits,
                   courseVars>>

-----------------------------------------------------------------------------
(* valider and rejeter: the decision of an administrator.                  *)

\* mutant: a retrait already validated may be decided on again
LireRetraitNonRejete(q) ==
    LET r == loc[q].retrait IN
    /\ pc[q] = "lireRetrait"
    /\ IF retraits[r].statut # "REJETE"
       THEN /\ Vers(q, IF loc[q].op = "valider" THEN "lireSolde" ELSE "rejeter")
            /\ loc' = [loc EXCEPT ![q].montant = retraits[r].montant]
            /\ courseDecision' = (courseDecision \/
                                  \E p \in Requetes : Decide(p, r))
       ELSE Repondre(q) /\ UNCHANGED courseDecision
    /\ UNCHANGED <<tontineVars, otps, livreVars, credits, courseSolde,
                   courseOtp>>

LireRetrait(q) ==
    LET r == loc[q].retrait IN
    /\ pc[q] = "lireRetrait"
    /\ IF retraits[r].statut = "EN_ATTENTE"
       THEN /\ Vers(q, IF loc[q].op = "valider" THEN "lireSolde" ELSE "rejeter")
            /\ loc' = [loc EXCEPT ![q].montant = retraits[r].montant]
            /\ courseDecision' = (courseDecision \/
                                  \E p \in Requetes : Decide(p, r))
       ELSE Repondre(q) /\ UNCHANGED courseDecision
    /\ UNCHANGED <<tontineVars, otps, livreVars, credits, courseSolde,
                   courseOtp>>

\* mutant: valider trusts the check made when the retrait was asked for
LireSoldeSansVerifier(q) ==
    /\ pc[q] = "lireSolde"
    /\ Vers(q, "marquer")
    /\ courseSolde' = (courseSolde \/ \E p \in Requetes : Depense(p))
    /\ UNCHANGED <<tontineVars, otps, livreVars, loc, credits, courseOtp,
                   courseDecision>>

LireSolde(q) ==
    /\ pc[q] = "lireSolde"
    /\ IF solde >= loc[q].montant
       THEN /\ Vers(q, "marquer")
            /\ UNCHANGED loc
            /\ courseSolde' = (courseSolde \/ \E p \in Requetes : Depense(p))
       ELSE Repondre(q) /\ UNCHANGED courseSolde
    /\ UNCHANGED <<tontineVars, otps, livreVars, credits, courseOtp,
                   courseDecision>>

\* The statut an administrator gives to r; validePar names the administrator.
Decision(r, s) ==
    [retraits EXCEPT ![r] = [statut |-> s, montant |-> @.montant, cle |-> @.cle,
                             validePar |-> TRUE, otp |-> @.otp]]

MarquerValide(q) ==
    /\ pc[q] = "marquer"
    /\ retraits' = Decision(loc[q].retrait, "VALIDE")
    /\ Vers(q, "transfert")
    /\ UNCHANGED <<tontineVars, otps, envois, enregistres, loc, credits,
                   courseVars>>

MarquerRejete(q) ==
    /\ pc[q] = "rejeter"
    /\ retraits' = Decision(loc[q].retrait, "REJETE")
    /\ Repondre(q)
    /\ UNCHANGED <<tontineVars, otps, envois, enregistres, credits, courseVars>>

-----------------------------------------------------------------------------
(* The environment.                                                        *)

\* A payment into the tontine: traiterSucces increments the balance.
Crediter ==
    \E m \in Montants :
        /\ credits + m <= MaxCredits
        /\ solde' = solde + m
        /\ credits' = credits + m
        /\ UNCHANGED <<commission, politique, dateAtteinte, alerte, otps,
                       livreVars, procVars, courseVars>>

\* verifierCoherenceComptable opens the alert, or an administrator or the
\* next verification closes it.
ChangerAlerte ==
    /\ AlertesPossibles
    /\ alerte' = ~alerte
    /\ UNCHANGED <<solde, commission, politique, dateAtteinte, otps, livreVars,
                   procVars, credits, courseVars>>

\* A FLEXIBLE tontine has no dateDeverrouillage.
PasserDate ==
    /\ politique # "FLEXIBLE" /\ ~dateAtteinte /\ dateAtteinte' = TRUE
    /\ UNCHANGED <<solde, commission, politique, alerte, otps, livreVars,
                   procVars, credits, courseVars>>

ExpirerOtp ==
    /\ \E o \in DOMAIN otps :
          /\ Vivant(o)
          /\ otps' = [otps EXCEPT ![o].expire = TRUE]
    /\ UNCHANGED <<tontineVars, livreVars, procVars, credits, courseVars>>

\* The process dies: every handler stops where it is, nothing resumes it.
Panne ==
    /\ PannesPossibles /\ \E q \in Requetes : pc[q] # "libre"
    /\ pc' = [q \in Requetes |-> "libre"]
    /\ loc' = [q \in Requetes |-> Repos]
    /\ UNCHANGED <<tontineVars, otps, livreVars, credits, courseVars>>

-----------------------------------------------------------------------------
Recevoir(q) == DemanderOtp(q) \/ Confirmer(q) \/ Valider(q) \/ Rejeter(q)

Poursuivre(q) ==
    \/ ChercherCle(q) \/ ChercherOtp(q) \/ ConsommerOtp(q)
    \/ LireTontine(q) \/ Verifier(q) \/ InvaliderOtps(q) \/ CreerOtp(q)
    \/ CreerRetrait(q) \/ Transferer(q) \/ Enregistrer(q)
    \/ LireRetrait(q) \/ LireSolde(q) \/ MarquerValide(q) \/ MarquerRejete(q)

Next ==
    \/ \E q \in Requetes : Recevoir(q) \/ Poursuivre(q)
    \/ Crediter \/ ChangerAlerte \/ PasserDate \/ ExpirerOtp \/ Panne

Spec == Init /\ [][Next]_vars

\* A handler that was started runs to its end: the event loop resumes it.
FairSpec == Spec /\ \A q \in Requetes : WF_vars(Poursuivre(q))
-----------------------------------------------------------------------------
(* Properties.                                                             *)

DrapeauxOK ==
    /\ dateAtteinte \in BOOLEAN /\ alerte \in BOOLEAN
    /\ courseSolde \in BOOLEAN /\ courseOtp \in BOOLEAN
    /\ courseDecision \in BOOLEAN

\* Every column and local variable has its type.
TypeOK ==
    /\ DrapeauxOK
    /\ solde \in Int /\ commission \in Nat /\ credits \in Nat
    /\ politique \in Politiques
    /\ otps \in Seq(CodeOTP)
    /\ retraits \in [RetraitIds -> Retrait]
    /\ envois \in [RetraitIds -> Nat] /\ enregistres \in [RetraitIds -> Nat]
    /\ pc \in [Requetes -> Etapes]
    /\ loc \in [Requetes -> Locales]

\* The balance check of verifierRetraitPossible and of valider is enough
\* against an overdraft as long as no two handlers are between their check
\* and their debit: also across crashes, pending rows and late validations.
DecouvertSeulementSiCourse == solde < 0 => courseSolde

\* A withdrawal code authorises one withdrawal, unless two requests found it
\* before either had marked it used.
UnRetraitParOtp ==
    \A r, s \in Existants :
        r # s /\ retraits[r].otp = retraits[s].otp => courseOtp

\* No row of retrait exists without a code the client asked for, for the very
\* same amount, and that code can never be used again.
RetraitAutorise ==
    \A r \in Existants :
        /\ retraits[r].otp \in DOMAIN otps
        /\ otps[retraits[r].otp].montant = retraits[r].montant
        /\ otps[retraits[r].otp].utilise

\* From SEUIL_RETRAIT_ADMIN on, money leaves only for a row an administrator
\* decided on.
AdminPourGrosMontant ==
    \A r \in Existants :
        envois[r] > 0 /\ retraits[r].montant >= SeuilAdmin => retraits[r].validePar

\* A client may send the same key again, at any moment, even after a crash:
\* below the threshold the provider is asked to pay at most once for it.
CleUneFois ==
    \A r, s \in Existants :
        retraits[r].cle # Nul /\ retraits[r].cle = retraits[s].cle
          /\ retraits[r].montant < SeuilAdmin => r = s /\ envois[r] <= 1

\* A row is paid twice, or paid and yet shown as rejected, only when two
\* administrators decided on it at the same time.
PayeUneFois ==
    \A r \in Existants :
        \/ envois[r] > 1
        \/ envois[r] = 1 /\ retraits[r].statut = "REJETE"
        => courseDecision

\* Nothing leaves a PROGRAMME or BLOQUE tontine before its date, nor a BLOQUE
\* tontine whose payments never added up to its target.
PolitiqueRespectee ==
    \A r \in RetraitIds : envois[r] > 0 =>
        /\ politique \in {"PROGRAMME", "BLOQUE"} => dateAtteinte
        /\ politique = "BLOQUE" => SoldeInitial + credits >= Objectif

\* Money leaves only as the rules of the tontine and the threshold of the
\* administrator allow, whatever path leads to the transfer.
SortieLegitime == AdminPourGrosMontant /\ PolitiqueRespectee

\* One demand is paid once, both for the client who repeats it with its key and
\* for the administrators who decide on its row.
UnSeulPaiement == CleUneFois /\ PayeUneFois

\* While the server does not crash, an accepted withdrawal is executed, even
\* when an administrator rejects it meanwhile.
ValideFinitExecute ==
    \A r \in RetraitIds :
        retraits[r].statut = "VALIDE" ~> retraits[r].statut = "EXECUTE"
=============================================================================
