----------------------------- MODULE MCMateriel -----------------------------
(***************************************************************************)
(* The parts of libusb that work on their own, checked in one run: the     *)
(* descriptors of a device, the requests of its interfaces, the URBs of a  *)
(* transfer, the life of contexts, the calls that wait for a transfer, and *)
(* the backends of Windows, of Darwin and of the BSDs.  A behaviour is one *)
(* of one part.  The parts share the variables v1, v2 ..., which stand for *)
(* those of the part in the order of its declarations; those it does not   *)
(* need hold Rien.                                                         *)
(***************************************************************************)
EXTENDS MCParties, Integers, Sequences, FiniteSets, SequencesExt, TLC

CONSTANTS
    h1, h2, f1, f2, f3, racine, fils, hote, repartiteur, compo, itf, t1, t2, t3,
    X, F, MaxPrises, MaxPrisesHubs,
    SContextes, HubDeContextes, XHubs, FHubs, SHubs, HubDeHubs,           \* of Contextes, twice
    FDarwin, HDarwin, NIDarwin, TuyauxDe, InterruptionDarwin, NCDarwin,   \* of Darwin's pipes:
    TTuyaux, DeTuyaux, TControles, DeControles                            \* two sets of transfers

VARIABLE partie

vars == <<partie, v1, v2, v3, v4, v5, v6, v7, v8, v9, v10, v11, v12, v13, v14, v15, v16,
           v17, v18, v19, v20, v21, v22, v23, v24, v25>>

(* What a device announces: two configurations that are right, wrong counts *)
(* of interfaces and endpoints, descriptors that are too short or have no length, bytes    *)
(* that end too early. *)
Conf(v, n, t) == [type |-> "CONFIG", bLength |-> 9, num |-> v, eps |-> n, total |-> t]
Intf(n, e)    == [type |-> "INTERFACE", bLength |-> 9, num |-> n, eps |-> e, total |-> 0]
Ep            == [type |-> "ENDPOINT", bLength |-> 7, num |-> 0, eps |-> 0, total |-> 0]
EpCourt       == [Ep EXCEPT !.bLength = 5]
Classe        == [type |-> "EXTRA", bLength |-> 4, num |-> 0, eps |-> 0, total |-> 0]
Trou          == [Classe EXCEPT !.bLength = 0]
EnTeteBos(n, t) == [type |-> "BOS", bLength |-> 5, num |-> 0, eps |-> n, total |-> t]
Cap(n)          == [type |-> "CAPACITE", bLength |-> n, num |-> 0, eps |-> 0, total |-> 0]
BosMC == { <<EnTeteBos(2, 12), Cap(3), Cap(4)>>, <<EnTeteBos(2, 14), Cap(3), Cap(2), Classe>>,
           <<EnTeteBos(2, 12), Cap(3), Classe>>, <<EnTeteBos(1, 12), Cap(3), Cap(4)>> }

FichiersMC == {
    << <<Conf(1, 1, 25), Intf(0, 1), Ep>>,
       <<Conf(2, 2, 61), Classe, Intf(0, 2), Classe, Ep, Classe, Ep, Intf(0, 0), Intf(1, 0)>> >>,
    << <<Conf(1, 2, 47), Intf(0, 2), Ep, Classe, Intf(1, 1), Classe, EpCourt>> >>,
    << <<Conf(1, 2, 40), Intf(0, 1), Ep, Ep, Trou>>, <<Conf(2, 2, 34), Intf(0, 2), Ep, Intf(1, 0)>> >>,
    << <<Conf(1, 1, 60), Intf(0, 1), Classe, Ep, Classe, Trou>> >>,
    << <<[Conf(1, 1, 9) EXCEPT !.bLength = 10]>>, <<Conf(2, 33, 18), Intf(0, 0)>> >>,
    << <<Conf(1, 1, 20), Trou>> >>,
    << <<Conf(1, 1, 21), [Intf(0, 0) EXCEPT !.bLength = 8], Classe>>, <<Conf(2, 1, 18), Intf(0, 33)>> >>,
    << <<Conf(1, 1, 11), Classe, Intf(0, 0)>>, <<Conf(2, 1, 30), Intf(0, 1), Trou>> >>,
    << <<Conf(1, 1, 27), Intf(0, 1), Ep, Classe>>, <<Conf(2, 1, 20), Intf(0, 1), Classe, Ep>> >> }

(* Bulk transfers of no data, of one URB, of two full ones, three and four  *)
(* with a partial last one; isochronous packets in one, two and three URBs, *)
(* and one that is too long. *)
LongueursMC == {0, 1, 4, 5, 7}
PaquetsMC == {<<1>>, <<1, 1, 2>>, <<2, 1, 1, 2>>, <<1, 3>>}

(* Two threads of one handle, or of two. *)
PoigneeMC == (f1 :> h1) @@ (f2 :> h1) @@ (f3 :> h2)
EquipesMC == {{f1, f2}, {f1, f3}}
NoyauxMC == {{}, {0}}

(* A device on no hub; a hub and a device on it. *)
SansHubMC == (fils :> Rien)
HubDeMC == (racine :> Rien) @@ (fils :> racine)

(* A controller, its root hub, a hub, and on it a composite device with an  *)
(* interface. *)
GenreMC == (hote :> "HCD") @@ (racine :> "HUB") @@ (repartiteur :> "HUB") @@ (compo :> "DEV") @@ (itf :> "MI")
AncetresMC == (hote :> <<>>) @@ (racine :> <<hote>>) @@ (repartiteur :> <<racine, hote>>)
    @@ (compo :> <<repartiteur, racine, hote>>) @@ (itf :> <<compo, repartiteur, racine, hote>>)
PortMC == [d \in {hote, racine, repartiteur, compo, itf} |-> IF d \in {repartiteur, compo} THEN 1 ELSE 0]

(* An interface with two settings, whose pipes are in another order, and    *)
(* two transfers of one handle; no interface, and a transfer of each handle  *)
(* on the control pipe. *)
TuyauxMC == 0 :> ((0 :> <<1>>) @@ (1 :> <<2, 1>>))
DeuxTuyauxMC == (t1 :> [h |-> h1, ep |-> 1]) @@ (t2 :> [h |-> h1, ep |-> 2])
DeuxControlesMC == (t1 :> [h |-> h1, ep |-> 0]) @@ (t3 :> [h |-> h2, ep |-> 0])

(* Two devices of the BSDs, a control transfer of the second, and transfers  *)
(* to endpoints of the first. *)
ScanMC == <<racine, fils>>
Transfert(p, e, t, s) == [p |-> p, ep |-> e, type |-> t, sens |-> s, ADD_ZERO_PACKET |-> FALSE]
DeBsdMC == (t1 :> Transfert(fils, 0, "controle", "IN")) @@ (t2 :> Transfert(racine, 1, "bulk", "IN"))
    @@ (t3 :> Transfert(racine, 2, "bulk", "OUT"))

(* Poignees and Threads are of Requetes.  Attendants use a condition         *)
(* variable; Appelants call for a synchronous transfer, AppelsControle for a *)
(* control one.  X: two contexts, two devices of Darwin, or two control      *)
(* transfers of Windows; F: two threads or parts of the program. *)
SymetrieMC == Permutations(F) \cup Permutations(X)

Descr == INSTANCE Descripteurs WITH
    Fichiers <- FichiersMC, Bos <- BosMC,
    fichier <- v1, sysfs_has_descriptors <- v2, actif <- v3, pc <- v4, demande <- v5,
    total <- v6, texte <- v7, taille <- v8, p <- v9, config <- v10, bos <- v11,
    blocs <- v12, libere2 <- v13, manque <- v14
Urb == INSTANCE Usbfs WITH
    MAX_BULK_BUFFER_LENGTH <- 2, Longueurs <- LongueursMC,
    MAX_ISO_BUFFER_LENGTH <- 2, Paquets <- PaquetsMC, longueur <- v1, paquets <- v2,
    bloc <- v3, suite <- v4, pc <- v5, k <- v6, bas <- v7, retour <- v8, r <- v9,
    action <- v10, reap_status <- v11, num_retired <- v12, transferred <- v13, desc <- v14,
    iso_packet_offset <- v15, resultat <- v16, tampon <- v17, urb <- v18, lu <- v19,
    file <- v20, emis <- v21, court <- v22, arret <- v23, bloque <- v24
Cont == INSTANCE Contextes WITH
    X <- X, F <- F, S <- SContextes, HubDe <- HubDeContextes,
    MaxPrises <- MaxPrises, Rien <- Rien, udev <- v1, branche <- v2, prises <- v3,
    uevents <- v4, usbi_default_context <- v5, default_context_refcnt <- v6,
    active_contexts_list <- v7, init_count <- v8, usb_devs <- v9, herite <- v10,
    tube <- v11, pendants <- v12, tropTot <- v13, verrou <- v14, controle <- v15,
    pc <- v16, ctx <- v17, a_voir <- v18, trouve <- v19, pile <- v20, cible <- v21,
    restent <- v22, evenement <- v23, vu <- v24, etranger <- v25
Hubs == INSTANCE Contextes WITH
    X <- XHubs, F <- FHubs, S <- SHubs,
    HubDe <- HubDeHubs, MaxPrises <- MaxPrisesHubs, Rien <- Rien, udev <- v1, branche <- v2,
    prises <- v3, uevents <- v4, usbi_default_context <- v5, default_context_refcnt <- v6,
    active_contexts_list <- v7, init_count <- v8, usb_devs <- v9, herite <- v10,
    tube <- v11, pendants <- v12, tropTot <- v13, verrou <- v14, controle <- v15,
    pc <- v16, ctx <- v17, a_voir <- v18, trouve <- v19, pile <- v20, cible <- v21,
    restent <- v22, evenement <- v23, vu <- v24, etranger <- v25
WListe == INSTANCE WindowsListe WITH
    D <- {hote, racine, repartiteur, compo, itf},
    Genre <- GenreMC, Ancetres <- AncetresMC, Port <- PortMC, Hid <- {},
    Fixes <- {hote, racine}, MaxPrises <- MaxPrises, MaxListes <- 2, Rien <- Rien,
    branche <- v1, prises <- v2, listes <- v3, usb_devs <- v4, pass <- v5, a_voir <- v6,
    courant <- v7, guid <- v8, unref_list <- v9, discdevs <- v10, tenus <- v11,
    a_rendre <- v12, stables <- v13, anciens <- v14, orphelines <- v15, faux <- v16
(* Contexts of Darwin one after the other, and at the same time, with  *)
(* one hotplug thread, or with a second one while the first is stopped. *)
Darw == INSTANCE Darwin WITH
    F <- F, Ensemble <- FALSE, E <- {f1}, S <- X, MaxPrises <- MaxPrises, MaxContextes <- 3,
    Rien <- Rien, branche <- v1, prises <- v2, malade <- v3,
    darwin_cached_devices <- v4, usb_devs <- v5, active_contexts_list <- v6,
    initCount <- v7, libusb_darwin_acfl <- v8, libusb_darwin_at <- v9, pc <- v10,
    default_context_lock <- v11, active_contexts_lock <- v12, retraits <- v13,
    ajouts <- v14, arrete <- v15, a_voir <- v16, nouveau <- v17, restent <- v18,
    session <- v19, balaye <- v20, perdus <- v21, faux <- v22, courses <- v23,
    relance <- v24, crees <- v25
Ens == INSTANCE Darwin WITH
    F <- F, Ensemble <- TRUE, E <- {f1}, S <- {racine}, MaxPrises <- MaxPrises, MaxContextes <- 2,
    Rien <- Rien, branche <- v1, prises <- v2, malade <- v3,
    darwin_cached_devices <- v4, usb_devs <- v5, active_contexts_list <- v6,
    initCount <- v7, libusb_darwin_acfl <- v8, libusb_darwin_at <- v9, pc <- v10,
    default_context_lock <- v11, active_contexts_lock <- v12, retraits <- v13,
    ajouts <- v14, arrete <- v15, a_voir <- v16, nouveau <- v17, restent <- v18,
    session <- v19, balaye <- v20, perdus <- v21, faux <- v22, courses <- v23,
    relance <- v24, crees <- v25
Rel == INSTANCE Darwin WITH
    F <- F, Ensemble <- TRUE, E <- {f1, f2}, S <- {racine}, MaxPrises <- 1, MaxContextes <- 2,
    Rien <- Rien, branche <- v1, prises <- v2, malade <- v3,
    darwin_cached_devices <- v4, usb_devs <- v5, active_contexts_list <- v6,
    initCount <- v7, libusb_darwin_acfl <- v8, libusb_darwin_at <- v9, pc <- v10,
    default_context_lock <- v11, active_contexts_lock <- v12, retraits <- v13,
    ajouts <- v14, arrete <- v15, a_voir <- v16, nouveau <- v17, restent <- v18,
    session <- v19, balaye <- v20, perdus <- v21, faux <- v22, courses <- v23,
    relance <- v24, crees <- v25
(* The pipes of an interface, and the control pipe of a device without any. *)
Pipe == INSTANCE DarwinPipes WITH
    F <- FDarwin, H <- HDarwin, Ensemble <- FALSE, NI <- NIDarwin,
    Tuyaux <- TuyauxDe, Interruption <- InterruptionDarwin, T <- TTuyaux, De <- DeTuyaux, NC <- NCDarwin,
    Rien <- Rien, open_count <- v1, seize <- v2, sources <- v3, poignee <- v4,
    is_open <- v5, cfSource <- v6, configuration <- v7, active_config <- v8, alt <- v9,
    tenant <- v10, claimed_interfaces <- v11, interface <- v12, pc <- v13, de <- v14,
    etat <- v15, tuyau <- v16, resultat <- v17, annule <- v18, expire <- v19,
    demande <- v20
Ctrl == INSTANCE DarwinPipes WITH
    F <- FDarwin, H <- HDarwin, Ensemble <- FALSE, NI <- 0,
    Tuyaux <- <<>>, Interruption <- InterruptionDarwin, T <- TControles, De <- DeControles, NC <- NCDarwin,
    Rien <- Rien, open_count <- v1, seize <- v2, sources <- v3, poignee <- v4,
    is_open <- v5, cfSource <- v6, configuration <- v7, active_config <- v8, alt <- v9,
    tenant <- v10, claimed_interfaces <- v11, interface <- v12, pc <- v13, de <- v14,
    etat <- v15, tuyau <- v16, resultat <- v17, annule <- v18, expire <- v19,
    demande <- v20
Hach == INSTANCE Hachage WITH
    HTAB_SIZE <- 4, Chemins <- {0, 1, 3, 5, 6, 10},
    Rien <- Rien, htab_size <- v1, htab_filled <- v2, htab_table <- v3, donnes <- v4,
    perdus <- v5

ASSUME MaterielAssumption ==
    /\ Urb!Hypotheses /\ Cont!Hypotheses /\ Hubs!Hypotheses /\ WListe!Hypotheses
    /\ Darw!Hypotheses /\ Ens!Hypotheses /\ Rel!Hypotheses /\ Pipe!Hypotheses /\ Ctrl!Hypotheses /\ Hach!Hypotheses
-----------------------------------------------------------------------------
Init ==
    \/ partie = "descripteurs" /\ Descr!Init
       /\ v15 = Rien /\ v16 = Rien /\ v17 = Rien /\ v18 = Rien /\ v19 = Rien /\
       v20 = Rien /\ v21 = Rien /\ v22 = Rien /\ v23 = Rien /\ v24 = Rien /\ v25 = Rien
    \/ partie = "urbs" /\ Urb!Init
       /\ v25 = Rien
    \/ partie = "requetes" /\ Requ!Init
       /\ v16 = Rien /\ v17 = Rien /\ v18 = Rien /\ v19 = Rien /\ v20 = Rien /\
       v21 = Rien /\ v22 = Rien /\ v23 = Rien /\ v24 = Rien /\ v25 = Rien
    \/ partie = "contextes" /\ Cont!Init
    \/ partie = "hubs" /\ Hubs!Init
    \/ partie = "windows" /\ Win!Init
       /\ v23 = Rien /\ v24 = Rien /\ v25 = Rien
    \/ partie = "liste" /\ WListe!Init
       /\ v17 = Rien /\ v18 = Rien /\ v19 = Rien /\ v20 = Rien /\ v21 = Rien /\
       v22 = Rien /\ v23 = Rien /\ v24 = Rien /\ v25 = Rien
    \/ partie = "conditions" /\ Cond!Init
       /\ v8 = Rien /\ v9 = Rien /\ v10 = Rien /\ v11 = Rien /\ v12 = Rien /\ v13 = Rien /\
       v14 = Rien /\ v15 = Rien /\ v16 = Rien /\ v17 = Rien /\ v18 = Rien /\ v19 = Rien /\
       v20 = Rien /\ v21 = Rien /\ v22 = Rien /\ v23 = Rien /\ v24 = Rien /\ v25 = Rien
    \/ partie = "darwin" /\ Darw!Init
    \/ partie = "ensemble" /\ Ens!Init
    \/ partie = "relance" /\ Rel!Init
    \/ partie = "tuyaux" /\ Pipe!Init
       /\ v21 = Rien /\ v22 = Rien /\ v23 = Rien /\ v24 = Rien /\ v25 = Rien
    \/ partie = "controles" /\ Ctrl!Init
       /\ v21 = Rien /\ v22 = Rien /\ v23 = Rien /\ v24 = Rien /\ v25 = Rien
    \/ partie = "openbsd" /\ Obsd!Init
       /\ v14 = Rien /\ v15 = Rien /\ v16 = Rien /\ v17 = Rien /\ v18 = Rien /\
       v19 = Rien /\ v20 = Rien /\ v21 = Rien /\ v22 = Rien /\ v23 = Rien /\ v24 = Rien /\
       v25 = Rien
    \/ partie = "netbsd" /\ Nbsd!Init
       /\ v14 = Rien /\ v15 = Rien /\ v16 = Rien /\ v17 = Rien /\ v18 = Rien /\
       v19 = Rien /\ v20 = Rien /\ v21 = Rien /\ v22 = Rien /\ v23 = Rien /\ v24 = Rien /\
       v25 = Rien
    \/ partie = "synchrone" /\ Sync!Init
       /\ v11 = Rien /\ v12 = Rien /\ v13 = Rien /\ v14 = Rien /\ v15 = Rien /\
       v16 = Rien /\ v17 = Rien /\ v18 = Rien /\ v19 = Rien /\ v20 = Rien /\ v21 = Rien /\
       v22 = Rien /\ v23 = Rien /\ v24 = Rien /\ v25 = Rien
    \/ partie = "hachage" /\ Hach!Init
       /\ v6 = Rien /\ v7 = Rien /\ v8 = Rien /\ v9 = Rien /\ v10 = Rien /\ v11 = Rien /\
       v12 = Rien /\ v13 = Rien /\ v14 = Rien /\ v15 = Rien /\ v16 = Rien /\ v17 = Rien /\
       v18 = Rien /\ v19 = Rien /\ v20 = Rien /\ v21 = Rien /\ v22 = Rien /\ v23 = Rien /\
       v24 = Rien /\ v25 = Rien

(* A call on descriptors ends, the calls of Requetes and WindowsListe and   *)
(* the submissions of Windows are bounded, the program of Darwin ends, and  *)
(* all threads may wait for a condition without a deadline. *)
Fini == partie \in {"descripteurs", "requetes", "windows", "liste", "conditions", "darwin", "ensemble", "relance"} /\ UNCHANGED vars

Next ==
    \/ partie = "descripteurs" /\ Descr!Next
       /\ UNCHANGED <<partie, v15, v16, v17, v18, v19, v20, v21, v22, v23, v24, v25>>
    \/ partie = "urbs" /\ Urb!Next
       /\ UNCHANGED <<partie, v25>>
    \/ partie = "requetes" /\ Requ!Next
       /\ UNCHANGED <<partie, v16, v17, v18, v19, v20, v21, v22, v23, v24, v25>>
    \/ partie = "contextes" /\ Cont!Next
       /\ UNCHANGED <<partie>>
    \/ partie = "hubs" /\ Hubs!Next
       /\ UNCHANGED <<partie>>
    \/ partie = "windows" /\ Win!Next
       /\ UNCHANGED <<partie, v23, v24, v25>>
    \/ partie = "liste" /\ WListe!Next
       /\ UNCHANGED <<partie, v17, v18, v19, v20, v21, v22, v23, v24, v25>>
    \/ partie = "conditions" /\ Cond!Next
       /\ UNCHANGED <<partie, v8, v9, v10, v11, v12, v13, v14, v15, v16, v17, v18, v19,
           v20, v21, v22, v23, v24, v25>>
    \/ partie = "darwin" /\ Darw!Next
       /\ UNCHANGED <<partie>>
    \/ partie = "ensemble" /\ Ens!Next
       /\ UNCHANGED <<partie>>
    \/ partie = "relance" /\ Rel!Next
       /\ UNCHANGED <<partie>>
    \/ partie = "tuyaux" /\ Pipe!Next
       /\ UNCHANGED <<partie, v21, v22, v23, v24, v25>>
    \/ partie = "controles" /\ Ctrl!Next
       /\ UNCHANGED <<partie, v21, v22, v23, v24, v25>>
    \/ partie = "openbsd" /\ Obsd!Next
       /\ UNCHANGED <<partie, v14, v15, v16, v17, v18, v19, v20, v21, v22, v23, v24, v25>>
    \/ partie = "netbsd" /\ Nbsd!Next
       /\ UNCHANGED <<partie, v14, v15, v16, v17, v18, v19, v20, v21, v22, v23, v24, v25>>
    \/ partie = "synchrone" /\ Sync!Next
       /\ UNCHANGED <<partie, v11, v12, v13, v14, v15, v16, v17, v18, v19, v20, v21, v22,
           v23, v24, v25>>
    \/ partie = "hachage" /\ Hach!Next
       /\ UNCHANGED <<partie, v6, v7, v8, v9, v10, v11, v12, v13, v14, v15, v16, v17, v18,
           v19, v20, v21, v22, v23, v24, v25>>
    \/ Fini

Spec == Init /\ [][Next]_vars

-----------------------------------------------------------------------------
(* Descripteurs: what is parsed is what the device has sent. *)
ArbreFidele == partie = "descripteurs" => Descr!ArbreFidele

(* Descripteurs: no memory is lost or freed twice. *)
RienNeFuit == partie = "descripteurs" => Descr!RienNeFuit

(* Usbfs: a transfer in progress has a URB in the kernel, a URB is freed    *)
(* once the kernel has given it back, COMPLETED means that all has come,    *)
(* without a hole, and each isochronous packet has its own result. *)
UrbsFideles == partie = "urbs" => Urb!JamaisOublie /\ Urb!UrbRendues /\ Urb!StatutFidele
        /\ Urb!DonneesContigues /\ Urb!PaquetsFideles

(* Requetes: a handle remembers what the kernel has claimed for it. *)
ReclameFidele == partie = "requetes" => Requ!ReclameFidele

(* Contextes: the device list of a context at rest is exact, and            *)
(* libusb_get_device_list misses no device that was there. *)
ListeFidele ==
    /\ partie = "contextes" => Cont!ListeFidele /\ Cont!ListeAJour
    /\ partie = "hubs" => Hubs!ListeFidele /\ Hubs!ListeAJour

(* Contextes: a context in use is in the list and will be woken. *)
ContexteVivant ==
    /\ partie = "contextes" => Cont!ContexteVivant
    /\ partie = "hubs" => Hubs!ContexteVivant

(* Windows: a request that was accepted will be noticed, and automatic      *)
(* claims take nothing away and leave nothing behind. *)
TransfertsWindows == partie = "windows" => Win!Surveille /\ Win!ReclameSolde

(* WindowsListe: no object is freed too early or too late, and a list holds  *)
(* the tree of what was there during the call. *)
ListeWindows == partie = "liste" => WListe!ReferencesWindows /\ WListe!TopologieWindows

(* Hachage: a path has one session id, and no other path has it. *)
IdsFideles == partie = "hachage" => Hach!HachageFidele


(* Darwin: the list of a context is exact, and its hotplug thread listens. *)
ListeDarwin ==
    /\ partie = "darwin" => Darw!ListeDarwin /\ Darw!ThreadDarwin
    /\ partie = "ensemble" => Ens!ListeDarwin /\ Ens!ThreadDarwin
    /\ partie = "relance" => Rel!ListeDarwin /\ Rel!ThreadDarwin

(* DarwinPipes: the device is open while a handle is, and answers come, to   *)
(* the transfer they are for, and say why. *)
TuyauxDarwin ==
    /\ partie = "tuyaux" => Pipe!OuvertDarwin /\ Pipe!TuyauJuste /\ Pipe!AnnuleFidele
    /\ partie = "controles" => Ctrl!OuvertDarwin /\ Ctrl!TuyauJuste /\ Ctrl!AnnuleFidele

(* Openbsd and Netbsd: libusb's descriptors are open on the nodes that they  *)
(* are used for and all will be closed, a request reaches its device, and    *)
(* the cached configuration is the one that is active. *)
FichiersBsd ==
    /\ partie = "openbsd" => Obsd!FichiersJustes /\ Obsd!RequeteJuste /\ Obsd!ConfigurationJuste
    /\ partie = "netbsd" => Nbsd!FichiersJustes /\ Nbsd!RequeteJuste /\ Nbsd!ConfigurationJuste

(* Synchrone: nothing that a callback will use is freed, and a call returns  *)
(* what became of its own transfer. *)
SynchroneFidele == partie = "synchrone" => Sync!SynchroneFidele

(* Usbfs: what a comment says of the URBs that remain.  False. *)
AttendLesRestes == partie = "urbs" => Urb!AttendLesRestes

(* Contextes: what the documentation of libusb_get_device_list says.  False. *)
ListeExacte == partie = "contextes" => Cont!ListeExacte

(* Windows: what a comment of auto_claim says.  False. *)
ReclameTenu == partie = "windows" => Win!ReclameTenu

(* Conditions does what VariableCondition says: no broadcast is lost, and   *)
(* nobody returns without the mutex. *)
ConditionTenue ==
    /\ partie = "conditions" => Cond!Promesse!Init
    /\ [][partie = "conditions" => [Cond!Promesse!Next]_(Cond!Promesse!vars)]_vars

=============================================================================
