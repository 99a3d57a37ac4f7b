SPECIFICATION Spec
CONSTANTS
    Requetes = {q1, q2}
    Profils <- MCProfils
    Bareme <- MCBareme
    MaxCalculs = 2
    MaxDossiers = 2
SYMMETRY MCSymetrie
CONSTRAINT
    MCUnAccident
INVARIANTS
    TypeOK
    BaremeOrdonne
    ScoreAJour
    RienEnDouble
PROPERTIES
    DossierAvance
CHECK_DEADLOCK FALSE
