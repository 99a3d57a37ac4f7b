SPECIFICATION Spec
CONSTANTS
    Requetes = {q1, q2}
    Montants = {40}
    Cles = {}
    Nul = Nul
    Sandboxes = {TRUE, FALSE}
    Caution = 100
    SeuilEchecs = 2
    SoldeInitial = 0
    MaxTransactions = 3
    MaxDoublons = 0
    MaxPannes = 1
    MaxDebits = 40
    NouvelEssai = FALSE
SYMMETRY MCSymetrie
INVARIANTS
    ChaineIntacte
    PlafondRespecte
CHECK_DEADLOCK FALSE
