SPECIFICATION Spec
CONSTANTS
    Requetes = {q1, q2}
    Types = {t1, t2}
    Transactions = {x1, x2}
    Clients = {k1, k2}
    Collecteurs = {c1, c2}
    Superviseur = s
    Personne = nul
    MaxDocuments = 3
    MaxLitiges = 2
    MaxCommentaires = 1
    MaxEcritures = 5
    MaxAlertes = 2
    MaxChangements = 2
    MaxJours = 1
    MaxHeure = 1
SYMMETRY MCSymetrie
CONSTRAINT MCUnClient
INVARIANTS
    TypeOK
    KycFonde
    AlerteJuste
    CollecteurServi
    AbonnementsJustes
    DatesJustes
PROPERTIES
    LitigeTranche
    FinSansArgent
    LiensFondes
    EcheancesTenues
CHECK_DEADLOCK FALSE
