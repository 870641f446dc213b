SPECIFICATION FairSpec
CONSTANTS
    a1 = a1
    a2 = a2
    c1 = c1
    r1 = r1
    d1 = d1
    Personne = Personne
    A <- Attentes
    C <- Clients
    R <- Rappels
    D <- Devs
    Equipes <- EquipesMC
    MaxDelais = 1
INVARIANTS TubeEtPoll PeripheriqueVivant ArriveeAnnoncee
PROPERTIES AttenteFinie FermetureFinie
CHECK_DEADLOCK FALSE
