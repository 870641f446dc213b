SPECIFICATION Spec
CONSTANTS
    Valeurs <- ValeurSeule
    Pressions <- PressionSeule
    Potars <- PotarsMC
    Aucune = Aucune
INVARIANTS DefautMaintenu
