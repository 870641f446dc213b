SPECIFICATION Spec
CONSTANTS
    Consignes <- Consigne65
    Potars <- Potar1000
    EcartMax = 935
    HautDabord = TRUE
    MaxAppels = 38
    MaxConflits = 2
INVARIANTS TypeOK IntegraleExacte DeriveBornee
CHECK_DEADLOCK FALSE
