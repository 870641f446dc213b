SPECIFICATION Spec
CONSTANTS
    h1 = h1  h2 = h2  f1 = f1  f2 = f2  f3 = f3
    racine = racine  fils = fils  hote = hote  repartiteur = repartiteur  compo = compo  itf = itf
    t1 = t1  t2 = t2  t3 = t3  Rien = Rien
    NI = 2  MaxAppels = 3
    Attendants = {f1, f2, f3}  Appelants = {f1, f2}  AppelsControle = {f1}
    Poignees = {h1, h2}  Threads = {f1, f2, f3}
    ScanBsd <- ScanMC  UgenOpenbsd = {racine}  UgenNetbsd = {racine, fils}
    EBsd = {1, 2}  NIBsd = 1  TBsd = {t1, t2, t3}  DeBsd <- DeBsdMC  NCBsd = 2  NFdBsd = 3
    PoigneeDe <- PoigneeMC  Equipes <- EquipesMC  Noyaux <- NoyauxMC
    SContextes = {fils}  HubDeContextes <- SansHubMC
    XHubs = {h1}  FHubs = {f1}  SHubs = {racine, fils}  HubDeHubs <- HubDeMC
    X = {x1, x2}  F = {g1, g2}  MaxPrises = 2  MaxPrisesHubs = 3
    FDarwin = {f1, f2}  HDarwin = {h1, h2}  NIDarwin = 1  TuyauxDe <- TuyauxMC  InterruptionDarwin = {2}  NCDarwin = 1
    TTuyaux = {t1, t2}  DeTuyaux <- DeuxTuyauxMC  TControles = {t1, t3}  DeControles <- DeuxControlesMC
    TWin = {x1, x2, b1}  ControlesWin = {x1, x2}  FWin = {g1, g2}  NIWin = 1  NFdWin = 2  MaxSoumissions = 3
SYMMETRY SymetrieMC
INVARIANTS AttendLesRestes
