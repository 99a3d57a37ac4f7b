-------------------------------- MODULE Livre --------------------------------
(***************************************************************************)
(* What the withdrawals of a tontine promise its owner and its collector,  *)
(* whatever runs at the same time and whenever the server dies: the ledger *)
(* that Retraits implements (RetraitsLivre has the mapping).               *)
(*                                                                         *)
(* A withdrawal is accepted, decided by an administrator when it is large, *)
(* paid once, and booked once, after it was paid; the booking debits the   *)
(* tontine and pays the collector in the same step.                        *)
(***************************************************************************)
EXTENDS Integers

CONSTANTS
    RetraitIds, Montants,   \* withdrawals and their amounts
    SeuilAdmin,             \* from here on an administrator decides
    SoldeInitial,           \* balance of the tontine at the start
    FraisAgent              \* share of the collector in the fee of an amount

VARIABLES
    solde, commission,      \* balances of the tontine and of the collector
    statut, montant,        \* of each withdrawal
    payes, comptes,         \* transfers and bookings of each withdrawal
    conteste                \* two administrators decided on one withdrawal

soldes == <<solde, commission>>
vars   == <<soldes, statut, montant, payes, comptes, conteste>>

Init ==
    /\ solde = SoldeInitial /\ commission = 0 /\ conteste = FALSE
    /\ statut = [r \in RetraitIds |-> "ABSENT"] /\ montant = [r \in RetraitIds |-> 0]
    /\ payes = [r \in RetraitIds |-> 0] /\ comptes = [r \in RetraitIds |-> 0]

Crediter ==
    /\ \E m \in Montants : solde' = solde + m
    /\ UNCHANGED <<commission, statut, montant, payes, comptes, conteste>>

Accepter(r, m) ==
    /\ statut[r] = "ABSENT"
    /\ statut' = [statut EXCEPT ![r] = IF m >= SeuilAdmin THEN "EN_ATTENTE" ELSE "VALIDE"]
    /\ montant' = [montant EXCEPT ![r] = m]
    /\ UNCHANGED <<soldes, payes, comptes, conteste>>

Decider(r) ==
    /\ statut[r] = "EN_ATTENTE"
    /\ \E s \in {"VALIDE", "REJETE"} : statut' = [statut EXCEPT ![r] = s]
    /\ UNCHANGED <<soldes, montant, payes, comptes, conteste>>

Payer(r) ==
    /\ statut[r] = "VALIDE" /\ payes[r] = 0
    /\ payes' = [payes EXCEPT ![r] = 1]
    /\ UNCHANGED <<soldes, statut, montant, comptes, conteste>>

Comptabiliser(r) ==
    /\ statut[r] = "VALIDE" /\ payes[r] = 1 /\ comptes[r] = 0
    /\ comptes' = [comptes EXCEPT ![r] = 1]
    /\ statut' = [statut EXCEPT ![r] = "EXECUTE"]
    /\ solde' = solde - montant[r]
    /\ commission' = commission + FraisAgent[montant[r]]
    /\ UNCHANGED <<montant, payes, conteste>>

\* From the moment two administrators decide on one withdrawal nothing more is
\* promised: it may be paid twice, and rejected although it was paid.
Contester == conteste'

Next ==
    \/ Crediter \/ Contester
    \/ \E r \in RetraitIds :
          \/ \E m \in Montants : Accepter(r, m)
          \/ Decider(r) \/ Payer(r) \/ Comptabiliser(r)

Spec == Init /\ [][Next]_vars
=============================================================================
