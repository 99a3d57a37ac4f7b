SPECIFICATION Spec
CONSTANTS
    Requetes = {q1, q2}
    Appareils = {d1, d2}
    Nul = Nul
    MaxTentativesOtp = 2
    MaxTentativesPin = 2
    Usages <- MCUsages
    MaxPins = 2
    MaxDeblocages = 1
    MaxDecisions = 1
SYMMETRY MCSymetrie
CONSTRAINT
    MCUnAccident
INVARIANTS
    TypeOK
    EssaisLimites
    ResetFermeSessions
    AppareilUtilisable
CHECK_DEADLOCK FALSE
