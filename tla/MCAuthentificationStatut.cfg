SPECIFICATION Spec
CONSTANTS
    Requetes = {q1}
    Appareils = {d1}
    Nul = Nul
    MaxTentativesOtp = 3
    MaxTentativesPin = 3
    Usages <- MCUsages
    MaxPins = 2
    MaxDeblocages = 0
    MaxDecisions = 1
INVARIANTS
    DecisionTenue
CHECK_DEADLOCK FALSE
