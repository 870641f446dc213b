SPECIFICATION FairSpec
CONSTANTS
    MaxSessions = 1
    MaxGestes = 1
    Identifiants <- IdentifiantsMC
    Progressions <- ProgressionsMC
    CapaciteRx = 4
    CapaciteTx = 4
    MaxLigne = 5
    MaxPertes = 1
PROPERTIES
    StopArrete
CHECK_DEADLOCK FALSE
