SPECIFICATION Spec
CONSTANTS
    Requetes = {q1, q2}
    RetraitIds = {r1, r2}
    Montants <- MCMontants
    Cles = {k1}
    Nul = Nul
    SeuilAdmin = 50
    Objectif = 60
    SoldeInitial = 50
    FraisAgent <- MCFraisAgent
    Politiques = {"BLOQUE"}
    MaxOtp = 2
    MaxCredits = 20
    AlertesPossibles = FALSE
    PannesPossibles = TRUE
SYMMETRY MCSymetrie
INVARIANTS
    TypeOK
    DecouvertSeulementSiCourse
    UnRetraitParOtp
    RetraitAutorise
    UnSeulPaiement
    
PROPERTIES
    LivreTenu
CHECK_DEADLOCK FALSE
