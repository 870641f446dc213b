SPECIFICATION FairSpec
CONSTANTS
    borne = borne
    libre = libre
    Personne = Personne
    T <- DeuxTransferts
    Delais <- DelaisMC
    MaxSoumissions = 2
INVARIANTS ReponseJuste
PROPERTIES ReponseUnique ReponseCertaine DepartRepondu
CHECK_DEADLOCK FALSE
