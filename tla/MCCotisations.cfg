SPECIFICATION Spec
CONSTANTS
    Requetes = {q1, q2}
    Montants = {30}
    Cles = {k1}
    Nul = Nul
    Sandboxes = {FALSE}
    Caution = 0
    SeuilEchecs = 2
    SoldeInitial = 30
    MaxTransactions = 2
    MaxDoublons = 1
    MaxPannes = 1
    MaxDebits = 0
    NouvelEssai = TRUE
SYMMETRY MCSymetrie
INVARIANTS
    TypeOK
    SoldeCoherent
    DisjoncteurDeclenche
CHECK_DEADLOCK FALSE
