SPECIFICATION Spec
CONSTANTS
    Requetes = {q1, q2}
    Membres = {a, b}
    Personne = Personne
    NbMembresMax = 2
    Part = 1
    Montants = {2}
    Journalier = 2
    Cautions = {1}
    Modes = {"ALEATOIRE"}
    MaxPaiements = 2
    MaxTirages = 1
    MaxJobs = 2
SYMMETRY MCSymetrie
CONSTRAINT
    MCUnAccident
INVARIANTS
    TypeOK
    ArgentConserve
    UneDistribution
    TermineeServie
CHECK_DEADLOCK FALSE
