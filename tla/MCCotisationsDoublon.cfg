SPECIFICATION Spec
CONSTANTS
    Requetes = {q1, q2}
    Montants = {30}
    Cles = {k1}
    Nul = Nul
    Sandboxes = {FALSE}
    Caution = 0
    SeuilEchecs = 2
    SoldeInitial = 30
    MaxTransactions = 1
    MaxDoublons = 1
    MaxPannes = 0
    MaxDebits = 0
    NouvelEssai = FALSE
INVARIANTS
    CreditIdempotent
CHECK_DEADLOCK FALSE
