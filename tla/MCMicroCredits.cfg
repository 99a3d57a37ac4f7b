SPECIFICATION Spec
CONSTANTS
    Requetes = {q1, q2}
    Total = 3
    Journalier = 2
    SeuilDefaut = 2
    Methodes = {"SMS", "SMARTPHONE"}
    MaxCredits = 1
    MaxPrelevements = 2
    MaxDoublons = 1
    MaxPannes = 1
    ErreursPossibles = TRUE
SYMMETRY MCSymetrie
INVARIANTS
    TypeOK
    RestantJuste
    DecaissementLegitime
CHECK_DEADLOCK FALSE
