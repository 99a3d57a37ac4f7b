SPECIFICATION FairSpec
CONSTANTS
    Requetes = {q1, q2}
    Montants = {30}
    Cles = {k1}
    Nul = Nul
    Sandboxes = {FALSE}
    Caution = 0
    SeuilEchecs = 1
    SoldeInitial = 0
    MaxTransactions = 1
    MaxDoublons = 1
    MaxPannes = 2
    MaxDebits = 0
    NouvelEssai = FALSE
PROPERTIES
    PayeFinitCredite
CHECK_DEADLOCK FALSE
