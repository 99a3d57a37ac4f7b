---------------------------- MODULE RetraitsLivre ----------------------------
(* The withdrawal handlers implement the ledger of module Livre.           *)
EXTENDS Retraits

Registre == INSTANCE Livre WITH
    statut   <- [r \in RetraitIds |-> retraits[r].statut],
    montant  <- [r \in RetraitIds |-> retraits[r].montant],
    payes    <- envois,
    comptes  <- enregistres,
    conteste <- courseDecision

\* Every step of the handlers of retraits.service.ts, crashes and stale reads
\* included, is a step of the ledger or changes nothing in it: no amount leaves
\* without acceptance, a large one not without a decision, each is paid at most
\* once and booked at most once and only after it was paid, and both balances
\* move with the booking and with nothing else; until two administrators decide
\* on one withdrawal together.
LivreTenu == Registre!Spec
=============================================================================
