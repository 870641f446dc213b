SPECIFICATION FairSpec
CONSTANTS
    Valeurs <- ValeursDoc
    Pressions <- PressionsMC
    Potars <- PotarsMC
    Aucune = Aucune
INVARIANTS TypeOK DutyMax VariateurCommande CarteFreinAlimentee CarteFreinCoupee
PROPERTIES SansReprise ArretDefinitif Convergence
