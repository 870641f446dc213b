SPECIFICATION FairSpec
CONSTANTS
    MaxSessions = 2
    MaxGestes = 2
    Identifiants <- IdentifiantsMC
    Progressions <- ProgressionsMC
    CapaciteRx = 4
    CapaciteTx = 4
    MaxLigne = 5
    MaxPertes = 1
INVARIANTS
    RienQueLArret
    CouplesFideles
PROPERTIES
    LiaisonFidele
    GesteArrete
    FermetureArrete
CHECK_DEADLOCK FALSE
