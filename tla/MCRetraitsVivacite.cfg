SPECIFICATION FairSpec
CONSTANTS
    Requetes = {q1, q2}
    RetraitIds = {r1}
    Montants <- MCMontants
    Cles = {k1}
    Nul = Nul
    SeuilAdmin = 50
    Objectif = 60
    SoldeInitial = 50
    FraisAgent <- MCFraisAgent
    Politiques = {"FLEXIBLE", "PROGRAMME"}
    MaxOtp = 1
    MaxCredits = 0
    AlertesPossibles = TRUE
    PannesPossibles = FALSE
PROPERTIES
    ValideFinitExecute
CHECK_DEADLOCK FALSE
