SPECIFICATION FairSpec
CONSTANTS
    borne = borne
    libre = libre
    Personne = Personne
    T <- UnTransfert
    Delais <- DelaisMC
    MaxSoumissions = 1
PROPERTIES SoumissionRend
CHECK_DEADLOCK FALSE
