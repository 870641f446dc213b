-------------------------- MODULE MaterielPreuves --------------------------
(***************************************************************************)
(* Theorems about the parts of libusb that MCMateriel runs together, for   *)
(* every value of their constants.  Each part has an inductive invariant   *)
(* of its own, whose lemmas are in PartiesPreuves and which says nothing   *)
(* of the other parts: a behaviour is one of one part.                     *)
(***************************************************************************)
EXTENDS MCMateriel, PartiesPreuves, TLAPS

(* A behaviour stays with its part. *)
LEMMA PartieFixe == ASSUME [Next]_vars PROVE partie' = partie
BY DEF Next, vars, Fini

-----------------------------------------------------------------------------
(* A step of the part is one of the synchronous transfers.                 *)
LEMMA SynchronePas ==
    ASSUME [Next]_vars, partie = "synchrone"
    PROVE  Sync!Next \/ UNCHANGED Sync!vars
BY DEF Next, vars, Fini, Sync!vars, Sync!memoire, Sync!noyau, Sync!rendus

(* The theorem of the synchronous transfers: as long as a callback may     *)
(* come its call waits and has not freed its transfer; once it has         *)
(* returned it has told what became of that transfer, and nothing of it is *)
(* left.                                                                   *)
THEOREM SynchroneCorrect == Spec => []SynchroneFidele
<1> DEFINE Invariant == partie = "synchrone" => Sync!Inductif
<1>1. Init => Invariant
  BY SynchroneDepart DEF Init
<1>2. ASSUME Invariant, [Next]_vars PROVE Invariant'
  <2> SUFFICES ASSUME partie = "synchrone", Sync!Inductif PROVE Sync!Inductif'
    BY <1>2, PartieFixe
  <2>1. CASE Sync!Next
    <3>1. Sync!TypeSynchrone'
      BY <2>1, SynchroneType DEF Sync!Inductif
    <3>2. \A b \in Appelants : Sync!Appel(b)'
      BY <2>1, SynchroneAppels
    <3> QED BY <3>1, <3>2 DEF Sync!Inductif
  <2>2. CASE UNCHANGED Sync!vars
    BY <2>2 DEF Sync!vars, Sync!memoire, Sync!noyau, Sync!rendus, Sync!Inductif, Sync!TypeSynchrone, Sync!Appel
  <2> QED BY <1>2, <2>1, <2>2, SynchronePas
<1>3. Invariant => SynchroneFidele
  BY DEF SynchroneFidele, Sync!SynchroneFidele, Sync!Inductif, Sync!Appel
<1>4. Invariant /\ [Next]_vars => Invariant'
  BY <1>2
<1> QED BY <1>1, <1>3, <1>4, PTL DEF Spec

-----------------------------------------------------------------------------
(* A step of the part is one of the condition variable.                    *)
LEMMA ConditionsPas ==
    ASSUME [Next]_vars, partie = "conditions"
    PROVE  Cond!Next \/ UNCHANGED Cond!vars
BY DEF Next, vars, Fini, Cond!vars

(* The condition variable of threads_windows.c implements the abstract     *)
(* one: no broadcast is lost, nobody returns without the mutex, and no     *)
(* thread wakes for nothing but once for a late broadcast.                 *)
THEOREM ConditionCorrecte == Spec => ConditionTenue
<1> DEFINE Invariant == partie = "conditions" => Cond!Inductif
           Pas == partie = "conditions" => [Cond!Promesse!Next]_(Cond!Promesse!vars)
<1>1. Init => Invariant /\ (partie = "conditions" => Cond!Promesse!Init)
  BY ConditionsDepart DEF Init
<1>2. Invariant /\ [Next]_vars => Invariant'
  <2> SUFFICES ASSUME Invariant, [Next]_vars, partie = "conditions", Cond!Inductif PROVE Cond!Inductif'
    BY PartieFixe
  <2>1. CASE UNCHANGED Cond!vars
    BY <2>1 DEF Cond!vars, Cond!Inductif, Cond!TypeConditions
  <2> QED BY <2>1, ConditionsPas, ConditionsInductif
<1>3. Invariant /\ [Next]_vars => Pas
  <2> SUFFICES ASSUME [Next]_vars, partie = "conditions", Cond!Inductif
               PROVE  Cond!Promesse!Next \/ UNCHANGED Cond!Promesse!vars
    OBVIOUS
  <2>1. CASE UNCHANGED Cond!vars
    BY <2>1 DEF Cond!vars, Cond!Promesse!vars, Cond!Etat
  <2> QED BY <2>1, ConditionsPas, ConditionsPromesse
<1>4. Invariant /\ [Next]_vars => [Pas]_vars
  BY <1>3
<1> QED BY <1>1, <1>2, <1>4, PTL DEF Spec, ConditionTenue

-----------------------------------------------------------------------------
(* A step of the part is one of the requests.                              *)
LEMMA RequetesPas ==
    ASSUME [Next]_vars, partie = "requetes"
    PROVE  Requ!Next \/ UNCHANGED Requ!vars
BY DEF Next, vars, Fini, Requ!vars, Requ!materiel, Requ!poignees

(* Between the calls a handle remembers as claimed what the kernel has      *)
(* claimed for it, whatever the threads and the other programs do. *)
THEOREM ReclameCorrect == Spec => []ReclameFidele
<1> DEFINE Invariant == partie = "requetes" => Requ!Inductif
<1>0. Requ!Hypotheses
  BY PartiesAssumption
<1>1. Init => Invariant
  BY <1>0, RequetesDepart DEF Init
<1>2. Invariant /\ [Next]_vars => Invariant'
  <2> SUFFICES ASSUME [Next]_vars, partie = "requetes", Requ!Inductif PROVE Requ!Inductif'
    BY PartieFixe
  <2> QED BY <1>0, RequetesPas, RequetesPreserve
<1>3. Invariant => ReclameFidele
  BY <1>0, RequetesPromesse DEF ReclameFidele
<1> QED BY <1>1, <1>2, <1>3, PTL DEF Spec

-----------------------------------------------------------------------------
(* The backends of the BSDs: the argument is in PartiesPreuves. *)
LEMMA ObsdPas ==
    ASSUME [Next]_vars, partie = "openbsd"
    PROVE  Obsd!Next \/ UNCHANGED Obsd!vars
BY DEF Next, vars, Fini, Obsd!vars, Obsd!fichiers, Obsd!objets, Obsd!prises, Obsd!transferts

(* A step of the part is one of netbsd_usb.c.                              *)
LEMMA NbsdPas ==
    ASSUME [Next]_vars, partie = "netbsd"
    PROVE  Nbsd!Next \/ UNCHANGED Nbsd!vars
BY DEF Next, vars, Fini, Nbsd!vars, Nbsd!fichiers, Nbsd!objets, Nbsd!prises, Nbsd!transferts

(* Every descriptor that libusb keeps is open on the node that it is used   *)
(* for, the others are closed or known to be lost, and requests reach       *)
(* their device, for any devices, endpoints, transfers and descriptors.     *)
THEOREM FichiersBsdCorrect == Spec => []FichiersBsd
<1> DEFINE Invariant ==
        /\ partie \in {"openbsd", "netbsd"} => Ug!Inductif
        /\ partie = "netbsd" => Nbsd!SansBus
<1>0. Ug!Hypotheses
  BY PartiesAssumption, NbsdHypotheses
<1>1. Init => Invariant
  BY <1>0, ObsdMemePas, UgenDepart, NbsdDepart DEF Init
<1>2. Invariant /\ [Next]_vars => Invariant'
  <2> SUFFICES ASSUME Invariant, [Next]_vars PROVE Invariant'
    OBVIOUS
  <2>1. CASE partie = "openbsd"
    <3>1. Ug!Inductif'
      BY <1>0, <2>1, ObsdPas, ObsdPreserve, ObsdMemePas, UgenCadre
    <3> QED BY <2>1, <3>1, PartieFixe
  <2>2. CASE partie = "netbsd"
    <3>1. Ug!Inductif' /\ Nbsd!SansBus'
      BY <1>0, <2>2, NbsdPas, NbsdPreserve, NbsdCadre
    <3> QED BY <2>2, <3>1, PartieFixe
  <2> QED BY <2>1, <2>2, PartieFixe
<1>3. Invariant => FichiersBsd
  BY <1>0, ObsdPromesse, NbsdPromesse DEF FichiersBsd
<1> QED BY <1>1, <1>2, <1>3, PTL DEF Spec

-----------------------------------------------------------------------------
(* A step of the part is one of the transfers of Windows.                  *)
LEMMA WindowsPas ==
    ASSUME [Next]_vars, partie = "windows"
    PROVE  Win!Next \/ UNCHANGED Win!vars
BY DEF Next, vars, Fini, Win!vars, Win!soumis, Win!table, Win!reclames, Win!temoins, Win!locaux

(* A request that Windows has accepted is noticed when it is over, and      *)
(* nothing is freed before; what is claimed for a control transfer is given *)
(* back, but what a submission that fails has left, for any transfers,      *)
(* threads, interfaces and size of the table.                               *)
THEOREM TransfertsWindowsCorrect == Spec => []TransfertsWindows
<1> DEFINE Invariant == partie = "windows" => Win!Inductif
<1>0. Win!Hypotheses
  BY PartiesAssumption
<1>1. Init => Invariant
  BY <1>0, WinDepart DEF Init
<1>2. Invariant /\ [Next]_vars => Invariant'
  <2> SUFFICES ASSUME [Next]_vars, partie = "windows", Win!Inductif PROVE Win!Inductif'
    BY PartieFixe
  <2> QED BY <1>0, WindowsPas, WinPreserve
<1>3. Invariant => TransfertsWindows
  BY <1>0, WinPromesse DEF TransfertsWindows
<1> QED BY <1>1, <1>2, <1>3, PTL DEF Spec

-----------------------------------------------------------------------------
(* The components that are run twice, contexts and Darwin's pipes: their    *)
(* invariants are proved in ContextesPreuves; here they are those of the    *)
(* parts of the runs. *)
Premier == INSTANCE ContextesPreuves WITH
    X <- X, F <- F, S <- SContextes, HubDe <- HubDeContextes, MaxPrises <- MaxPrises, Rien
    <- Rien, udev <- v1, branche <- v2, prises <- v3, uevents <- v4, usbi_default_context
    <- v5, default_context_refcnt <- v6, active_contexts_list <- v7, init_count <- v8,
    usb_devs <- v9, herite <- v10, tube <- v11, pendants <- v12, tropTot <- v13, verrou <-
    v14, controle <- v15, pc <- v16, ctx <- v17, a_voir <- v18, trouve <- v19, pile <-
    v20, cible <- v21, restent <- v22, evenement <- v23, vu <- v24, etranger <- v25
Second == INSTANCE ContextesPreuves WITH
    X <- XHubs, F <- FHubs, S <- SHubs, HubDe <- HubDeHubs, MaxPrises <- MaxPrisesHubs,
    Rien <- Rien, NIDarwin <- 0, TuyauxDe <- <<>>, TTuyaux <- TControles, DeTuyaux <-
    DeControles, udev <- v1, branche <- v2, prises <- v3, uevents <- v4,
    usbi_default_context <- v5, default_context_refcnt <- v6, active_contexts_list <- v7,
    init_count <- v8, usb_devs <- v9, herite <- v10, tube <- v11, pendants <- v12, tropTot
    <- v13, verrou <- v14, controle <- v15, pc <- v16, ctx <- v17, a_voir <- v18, trouve
    <- v19, pile <- v20, cible <- v21, restent <- v22, evenement <- v23, vu <- v24,
    etranger <- v25

-----------------------------------------------------------------------------
(* The same constants and initial states. *)
LEMMA ContextesMeme ==
    /\ Cont!Hypotheses => Premier!Hypotheses
    /\ Cont!Init => Premier!Init
    /\ UNCHANGED Cont!vars => UNCHANGED Premier!vars
BY DEF
    Cont!Hypotheses, Premier!Hypotheses, Cont!Init, Premier!Init, Cont!vars, Premier!vars,
    Cont!prise, Premier!prise, Cont!listes, Premier!listes, Cont!globales, Premier!globales,
    Cont!scan, Premier!scan, Cont!diffusion, Premier!diffusion, Cont!sonde, Premier!sonde,
    Cont!locaux, Premier!locaux, Cont!Verrous, Premier!Verrous, Cont!Moniteur, Premier!Moniteur,
    Cont!Fils, Premier!Fils, Cont!SansHub, Premier!SansHub

(* The same steps. *)
LEMMA ContextesMemePas == ASSUME Cont!Next PROVE Premier!Next
BY DEF
    Cont!Next, Premier!Next, Cont!Programme, Premier!Programme, Cont!Commun, Premier!Commun,
    Cont!Branche, Premier!Branche, Cont!Debranche, Premier!Debranche, Cont!AutreMessage,
    Premier!AutreMessage, Cont!Annonce, Premier!Annonce, Cont!Reste, Premier!Reste, Cont!Pret,
    Premier!Pret, Cont!Notifie, Premier!Notifie, Cont!Un, Premier!Un, Cont!Objets,
    Premier!Objets, Cont!DejaLa, Premier!DejaLa, Cont!Enumere, Premier!Enumere, Cont!HubInconnu,
    Premier!HubInconnu, Cont!linux_get_parent_info, Premier!linux_get_parent_info,
    Cont!usbi_connect_device, Premier!usbi_connect_device, Cont!Nouveaux, Premier!Nouveaux,
    Cont!libusb_init, Premier!libusb_init, Cont!Ajoute, Premier!Ajoute, Cont!op_init,
    Premier!op_init, Cont!linux_scan_devices, Premier!linux_scan_devices, Cont!Cherche,
    Premier!Cherche, Cont!FinCherche, Premier!FinCherche, Cont!IoInit, Premier!IoInit,
    Cont!usbi_io_init, Premier!usbi_io_init, Cont!Efface, Premier!Efface, Cont!Echec,
    Premier!Echec, Cont!Dernier, Premier!Dernier, Cont!libusb_exit, Premier!libusb_exit,
    Cont!Retire, Premier!Retire, Cont!Apres, Premier!Apres, Cont!Quitte, Premier!Quitte,
    Cont!op_exit, Premier!op_exit, Cont!Joint, Premier!Joint, Cont!Reveille, Premier!Reveille,
    Cont!Lit, Premier!Lit, Cont!libusb_get_device_list, Premier!libusb_get_device_list,
    Cont!op_hotplug_poll, Premier!op_hotplug_poll, Cont!Copie, Premier!Copie,
    Cont!Destinataires, Premier!Destinataires, Cont!Diffuse, Premier!Diffuse, Cont!Arrivee,
    Premier!Arrivee, Cont!Depart, Premier!Depart, Cont!FinDiffuse, Premier!FinDiffuse,
    Cont!Traite, Premier!Traite, Cont!Va, Premier!Va, Cont!Libre, Premier!Libre, Cont!Prend,
    Premier!Prend, Cont!Rend, Premier!Rend, Cont!prise, Premier!prise, Cont!listes,
    Premier!listes, Cont!globales, Premier!globales, Cont!scan, Premier!scan, Cont!diffusion,
    Premier!diffusion, Cont!sonde, Premier!sonde, Cont!locaux, Premier!locaux, Cont!Verrous,
    Premier!Verrous, Cont!Presents, Premier!Presents, Cont!Moniteur, Premier!Moniteur,
    Cont!Fils, Premier!Fils, Cont!Last, Premier!Last, Cont!Front, Premier!Front, Cont!RemoveAt,
    Premier!RemoveAt

(* The same property. *)
LEMMA ContextesMemePromesse == Premier!ContexteVivant => Cont!ContexteVivant
<1>1. \A E : Cont!Cardinality(E) = Premier!Cardinality(E)
  BY DEF Cont!Cardinality, Premier!Cardinality, Cont!IsFiniteSet, Premier!IsFiniteSet
<1> QED BY <1>1 DEF Cont!ContexteVivant, Premier!ContexteVivant, Cont!Vivant, Premier!Vivant, Cont!Moniteur,
    Premier!Moniteur

(* The same constants and initial states. *)
LEMMA HubsMeme ==
    /\ Hubs!Hypotheses => Second!Hypotheses
    /\ Hubs!Init => Second!Init
    /\ UNCHANGED Hubs!vars => UNCHANGED Second!vars
BY DEF
    Hubs!Hypotheses, Second!Hypotheses, Hubs!Init, Second!Init, Hubs!vars, Second!vars,
    Hubs!prise, Second!prise, Hubs!listes, Second!listes, Hubs!globales, Second!globales,
    Hubs!scan, Second!scan, Hubs!diffusion, Second!diffusion, Hubs!sonde, Second!sonde,
    Hubs!locaux, Second!locaux, Hubs!Verrous, Second!Verrous, Hubs!Moniteur, Second!Moniteur,
    Hubs!Fils, Second!Fils, Hubs!SansHub, Second!SansHub

(* The same steps. *)
LEMMA HubsMemePas == ASSUME Hubs!Next PROVE Second!Next
BY DEF
    Hubs!Next, Second!Next, Hubs!Programme, Second!Programme, Hubs!Commun, Second!Commun,
    Hubs!Branche, Second!Branche, Hubs!Debranche, Second!Debranche, Hubs!AutreMessage,
    Second!AutreMessage, Hubs!Annonce, Second!Annonce, Hubs!Reste, Second!Reste, Hubs!Pret,
    Second!Pret, Hubs!Notifie, Second!Notifie, Hubs!Un, Second!Un, Hubs!Objets, Second!Objets,
    Hubs!DejaLa, Second!DejaLa, Hubs!Enumere, Second!Enumere, Hubs!HubInconnu,
    Second!HubInconnu, Hubs!linux_get_parent_info, Second!linux_get_parent_info,
    Hubs!usbi_connect_device, Second!usbi_connect_device, Hubs!Nouveaux, Second!Nouveaux,
    Hubs!libusb_init, Second!libusb_init, Hubs!Ajoute, Second!Ajoute, Hubs!op_init,
    Second!op_init, Hubs!linux_scan_devices, Second!linux_scan_devices, Hubs!Cherche,
    Second!Cherche, Hubs!FinCherche, Second!FinCherche, Hubs!IoInit, Second!IoInit,
    Hubs!usbi_io_init, Second!usbi_io_init, Hubs!Efface, Second!Efface, Hubs!Echec,
    Second!Echec, Hubs!Dernier, Second!Dernier, Hubs!libusb_exit, Second!libusb_exit,
    Hubs!Retire, Second!Retire, Hubs!Apres, Second!Apres, Hubs!Quitte, Second!Quitte,
    Hubs!op_exit, Second!op_exit, Hubs!Joint, Second!Joint, Hubs!Reveille, Second!Reveille,
    Hubs!Lit, Second!Lit, Hubs!libusb_get_device_list, Second!libusb_get_device_list,
    Hubs!op_hotplug_poll, Second!op_hotplug_poll, Hubs!Copie, Second!Copie, Hubs!Destinataires,
    Second!Destinataires, Hubs!Diffuse, Second!Diffuse, Hubs!Arrivee, Second!Arrivee,
    Hubs!Depart, Second!Depart, Hubs!FinDiffuse, Second!FinDiffuse, Hubs!Traite, Second!Traite,
    Hubs!Va, Second!Va, Hubs!Libre, Second!Libre, Hubs!Prend, Second!Prend, Hubs!Rend,
    Second!Rend, Hubs!prise, Second!prise, Hubs!listes, Second!listes, Hubs!globales,
    Second!globales, Hubs!scan, Second!scan, Hubs!diffusion, Second!diffusion, Hubs!sonde,
    Second!sonde, Hubs!locaux, Second!locaux, Hubs!Verrous, Second!Verrous, Hubs!Presents,
    Second!Presents, Hubs!Moniteur, Second!Moniteur, Hubs!Fils, Second!Fils, Hubs!Last,
    Second!Last, Hubs!Front, Second!Front, Hubs!RemoveAt, Second!RemoveAt

(* The same property. *)
LEMMA HubsMemePromesse == Second!ContexteVivant => Hubs!ContexteVivant
<1>1. \A E : Hubs!Cardinality(E) = Second!Cardinality(E)
  BY DEF Hubs!Cardinality, Second!Cardinality, Hubs!IsFiniteSet, Second!IsFiniteSet
<1> QED BY <1>1 DEF Hubs!ContexteVivant, Second!ContexteVivant, Hubs!Vivant, Second!Vivant, Hubs!Moniteur,
    Second!Moniteur

(* A step of the part is one of the contexts, with or without hubs. *)
LEMMA ContextesPas ==
    ASSUME [Next]_vars
    PROVE  /\ partie = "contextes" => Premier!Next \/ UNCHANGED Premier!vars
           /\ partie = "hubs" => Second!Next \/ UNCHANGED Second!vars
<1>1. partie = "contextes" => Cont!Next \/ UNCHANGED Cont!vars
  BY DEF Next, vars, Fini, Cont!vars, Cont!prise, Cont!listes, Cont!globales, Cont!scan, Cont!diffusion, Cont!sonde, Cont!locaux
<1>2. partie = "hubs" => Hubs!Next \/ UNCHANGED Hubs!vars
  BY DEF Next, vars, Fini, Hubs!vars, Hubs!prise, Hubs!listes, Hubs!globales, Hubs!scan, Hubs!diffusion, Hubs!sonde, Hubs!locaux
<1> QED BY <1>1, <1>2, ContextesMeme, ContextesMemePas, HubsMeme, HubsMemePas

(* A part of the program that has initialised libusb has a context in the   *)
(* list, which it shares only with those that it counts, and whose monitor  *)
(* runs and has not been told to stop; an event that is pending will wake   *)
(* it: for any contexts, parts of the program and tree of devices, however  *)
(* often something is plugged or unplugged, and wherever a creation fails.  *)
THEOREM ContexteVivantCorrect == Spec => []ContexteVivant
<1> DEFINE Invariant ==
        /\ partie = "contextes" => Premier!Inductif
        /\ partie = "hubs" => Second!Inductif
<1>0. Premier!Hypotheses /\ Second!Hypotheses
  BY MaterielAssumption, ContextesMeme, HubsMeme
<1>1. Init => Invariant
  BY <1>0, ContextesMeme, HubsMeme, Premier!ContextesDepart, Second!ContextesDepart DEF Init
<1>2. Invariant /\ [Next]_vars => Invariant'
  <2> SUFFICES ASSUME Invariant, [Next]_vars PROVE Invariant'
    OBVIOUS
  <2>1. ASSUME partie = "contextes" PROVE Premier!Inductif'
    BY <1>0, <2>1, ContextesPas, Premier!ContextesPreserve
  <2>2. ASSUME partie = "hubs" PROVE Second!Inductif'
    BY <1>0, <2>2, ContextesPas, Second!ContextesPreserve
  <2> QED BY <2>1, <2>2, PartieFixe
<1>3. Invariant => ContexteVivant
  BY <1>0, ContextesMemePromesse, HubsMemePromesse, Premier!ContextesPromesse, Second!ContextesPromesse
     DEF ContexteVivant
<1> QED BY <1>1, <1>2, <1>3, PTL DEF Spec

-----------------------------------------------------------------------------
(* The same constants and initial states. *)
LEMMA TuyauxMeme ==
    /\ Pipe!Hypotheses => Premier!Pipe!Hypotheses
    /\ Pipe!Init => Premier!Pipe!Init
    /\ UNCHANGED Pipe!vars => UNCHANGED Premier!Pipe!vars
BY DEF
    Pipe!Hypotheses, Premier!Pipe!Hypotheses, Pipe!Init, Premier!Pipe!Init, Pipe!I,
    Premier!Pipe!I, Pipe!Reglages, Premier!Pipe!Reglages, Pipe!Nulle, Premier!Pipe!Nulle,
    Pipe!vars, Premier!Pipe!vars, Pipe!ouvertures, Premier!Pipe!ouvertures, Pipe!noyau,
    Premier!Pipe!noyau, Pipe!prises, Premier!Pipe!prises, Pipe!transferts,
    Premier!Pipe!transferts

(* The same steps. *)
LEMMA TuyauxMemePas == ASSUME Pipe!Next PROVE Premier!Pipe!Next
BY DEF
    Pipe!Next, Premier!Pipe!Next, Pipe!Application, Premier!Pipe!Application, Pipe!darwin_open,
    Premier!Pipe!darwin_open, Pipe!darwin_close, Premier!Pipe!darwin_close, Pipe!Configure,
    Premier!Pipe!Configure, Pipe!darwin_set_configuration,
    Premier!Pipe!darwin_set_configuration, Pipe!darwin_claim_interface,
    Premier!Pipe!darwin_claim_interface, Pipe!darwin_release_interface,
    Premier!Pipe!darwin_release_interface, Pipe!darwin_set_interface_altsetting,
    Premier!Pipe!darwin_set_interface_altsetting, Pipe!Compte, Premier!Pipe!Compte,
    Pipe!USBDeviceClose, Premier!Pipe!USBDeviceClose, Pipe!submit_control_transfer,
    Premier!Pipe!submit_control_transfer, Pipe!submit_bulk_transfer,
    Premier!Pipe!submit_bulk_transfer, Pipe!Fin, Premier!Pipe!Fin, Pipe!darwin_cancel_transfer,
    Premier!Pipe!darwin_cancel_transfer, Pipe!darwin_async_io_callback,
    Premier!Pipe!darwin_async_io_callback, Pipe!darwin_handle_transfer_completion,
    Premier!Pipe!darwin_handle_transfer_completion, Pipe!I, Premier!Pipe!I, Pipe!Reglages,
    Premier!Pipe!Reglages, Pipe!ouvertures, Premier!Pipe!ouvertures, Pipe!noyau,
    Premier!Pipe!noyau, Pipe!prises, Premier!Pipe!prises, Pipe!transferts,
    Premier!Pipe!transferts, Pipe!Nulle, Premier!Pipe!Nulle, Pipe!Va, Premier!Pipe!Va,
    Pipe!Seul, Premier!Pipe!Seul, Pipe!EnVol, Premier!Pipe!EnVol, Pipe!Repos,
    Premier!Pipe!Repos, Pipe!Relache, Premier!Pipe!Relache, Pipe!Ferme, Premier!Pipe!Ferme,
    Pipe!Derniere, Premier!Pipe!Derniere, Pipe!Ouverte, Premier!Pipe!Ouverte, Pipe!Neuve,
    Premier!Pipe!Neuve, Pipe!Tuee, Premier!Pipe!Tuee, Pipe!Reclames, Premier!Pipe!Reclames,
    Pipe!get_endpoints, Premier!Pipe!get_endpoints, Pipe!ep_to_pipeRef,
    Premier!Pipe!ep_to_pipeRef, Pipe!Soumet, Premier!Pipe!Soumet, Pipe!cancel_control_transfer,
    Premier!Pipe!cancel_control_transfer, Pipe!darwin_abort_transfers,
    Premier!Pipe!darwin_abort_transfers, Pipe!Abandonnes, Premier!Pipe!Abandonnes, Pipe!Source,
    Premier!Pipe!Source

(* The same properties. *)
LEMMA TuyauxMemePromesse ==
    /\ Premier!Pipe!OuvertDarwin => Pipe!OuvertDarwin
    /\ Premier!Pipe!TuyauJuste => Pipe!TuyauJuste
    /\ Premier!Pipe!AnnuleFidele => Pipe!AnnuleFidele
<1>1. \A S : Pipe!Cardinality(S) = Premier!Pipe!Cardinality(S)
  BY DEF Pipe!Cardinality, Premier!Pipe!Cardinality, Pipe!IsFiniteSet, Premier!Pipe!IsFiniteSet
<1>2. Premier!Pipe!OuvertDarwin => Pipe!OuvertDarwin
  BY <1>1 DEF Pipe!OuvertDarwin, Premier!Pipe!OuvertDarwin, Pipe!Ouvertes, Premier!Pipe!Ouvertes
<1>3. Premier!Pipe!TuyauJuste => Pipe!TuyauJuste
  BY DEF Pipe!TuyauJuste, Premier!Pipe!TuyauJuste, Pipe!Source, Premier!Pipe!Source
<1>4. Premier!Pipe!AnnuleFidele => Pipe!AnnuleFidele
  BY DEF Pipe!AnnuleFidele, Premier!Pipe!AnnuleFidele, Pipe!darwin_transfer_status,
    Premier!Pipe!darwin_transfer_status
<1> QED BY <1>2, <1>3, <1>4

(* The same constants and initial states. *)
LEMMA ControlesMeme ==
    /\ Ctrl!Hypotheses => Second!Pipe!Hypotheses
    /\ Ctrl!Init => Second!Pipe!Init
    /\ UNCHANGED Ctrl!vars => UNCHANGED Second!Pipe!vars
BY DEF
    Ctrl!Hypotheses, Second!Pipe!Hypotheses, Ctrl!Init, Second!Pipe!Init, Ctrl!I, Second!Pipe!I,
    Ctrl!Reglages, Second!Pipe!Reglages, Ctrl!Nulle, Second!Pipe!Nulle, Ctrl!vars,
    Second!Pipe!vars, Ctrl!ouvertures, Second!Pipe!ouvertures, Ctrl!noyau, Second!Pipe!noyau,
    Ctrl!prises, Second!Pipe!prises, Ctrl!transferts, Second!Pipe!transferts

(* The same steps. *)
LEMMA ControlesMemePas == ASSUME Ctrl!Next PROVE Second!Pipe!Next
BY DEF
    Ctrl!Next, Second!Pipe!Next, Ctrl!Application, Second!Pipe!Application, Ctrl!darwin_open,
    Second!Pipe!darwin_open, Ctrl!darwin_close, Second!Pipe!darwin_close, Ctrl!Configure,
    Second!Pipe!Configure, Ctrl!darwin_set_configuration, Second!Pipe!darwin_set_configuration,
    Ctrl!darwin_claim_interface, Second!Pipe!darwin_claim_interface,
    Ctrl!darwin_release_interface, Second!Pipe!darwin_release_interface,
    Ctrl!darwin_set_interface_altsetting, Second!Pipe!darwin_set_interface_altsetting,
    Ctrl!Compte, Second!Pipe!Compte, Ctrl!USBDeviceClose, Second!Pipe!USBDeviceClose,
    Ctrl!submit_control_transfer, Second!Pipe!submit_control_transfer,
    Ctrl!submit_bulk_transfer, Second!Pipe!submit_bulk_transfer, Ctrl!Fin, Second!Pipe!Fin,
    Ctrl!darwin_cancel_transfer, Second!Pipe!darwin_cancel_transfer,
    Ctrl!darwin_async_io_callback, Second!Pipe!darwin_async_io_callback,
    Ctrl!darwin_handle_transfer_completion, Second!Pipe!darwin_handle_transfer_completion,
    Ctrl!I, Second!Pipe!I, Ctrl!Reglages, Second!Pipe!Reglages, Ctrl!ouvertures,
    Second!Pipe!ouvertures, Ctrl!noyau, Second!Pipe!noyau, Ctrl!prises, Second!Pipe!prises,
    Ctrl!transferts, Second!Pipe!transferts, Ctrl!Nulle, Second!Pipe!Nulle, Ctrl!Va,
    Second!Pipe!Va, Ctrl!Seul, Second!Pipe!Seul, Ctrl!EnVol, Second!Pipe!EnVol, Ctrl!Repos,
    Second!Pipe!Repos, Ctrl!Relache, Second!Pipe!Relache, Ctrl!Ferme, Second!Pipe!Ferme,
    Ctrl!Derniere, Second!Pipe!Derniere, Ctrl!Ouverte, Second!Pipe!Ouverte, Ctrl!Neuve,
    Second!Pipe!Neuve, Ctrl!Tuee, Second!Pipe!Tuee, Ctrl!Reclames, Second!Pipe!Reclames,
    Ctrl!get_endpoints, Second!Pipe!get_endpoints, Ctrl!ep_to_pipeRef,
    Second!Pipe!ep_to_pipeRef, Ctrl!Soumet, Second!Pipe!Soumet, Ctrl!cancel_control_transfer,
    Second!Pipe!cancel_control_transfer, Ctrl!darwin_abort_transfers,
    Second!Pipe!darwin_abort_transfers, Ctrl!Abandonnes, Second!Pipe!Abandonnes, Ctrl!Source,
    Second!Pipe!Source

(* The same properties. *)
LEMMA ControlesMemePromesse ==
    /\ Second!Pipe!OuvertDarwin => Ctrl!OuvertDarwin
    /\ Second!Pipe!TuyauJuste => Ctrl!TuyauJuste
    /\ Second!Pipe!AnnuleFidele => Ctrl!AnnuleFidele
<1>1. \A S : Ctrl!Cardinality(S) = Second!Pipe!Cardinality(S)
  BY DEF Ctrl!Cardinality, Second!Pipe!Cardinality, Ctrl!IsFiniteSet, Second!Pipe!IsFiniteSet
<1>2. Second!Pipe!OuvertDarwin => Ctrl!OuvertDarwin
  BY <1>1 DEF Ctrl!OuvertDarwin, Second!Pipe!OuvertDarwin, Ctrl!Ouvertes, Second!Pipe!Ouvertes
<1>3. Second!Pipe!TuyauJuste => Ctrl!TuyauJuste
  BY DEF Ctrl!TuyauJuste, Second!Pipe!TuyauJuste, Ctrl!Source, Second!Pipe!Source
<1>4. Second!Pipe!AnnuleFidele => Ctrl!AnnuleFidele
  BY DEF Ctrl!AnnuleFidele, Second!Pipe!AnnuleFidele, Ctrl!darwin_transfer_status,
    Second!Pipe!darwin_transfer_status
<1> QED BY <1>2, <1>3, <1>4

(* A step of the part is one of the pipes, or of the control pipe.         *)
LEMMA TuyauxPas ==
    ASSUME [Next]_vars
    PROVE  /\ partie = "tuyaux" => Premier!Pipe!Next \/ UNCHANGED Premier!Pipe!vars
           /\ partie = "controles" => Second!Pipe!Next \/ UNCHANGED Second!Pipe!vars
<1>1. partie = "tuyaux" => Pipe!Next \/ UNCHANGED Pipe!vars
  BY DEF Next, vars, Fini, Pipe!vars, Pipe!ouvertures, Pipe!noyau, Pipe!prises, Pipe!transferts
<1>2. partie = "controles" => Ctrl!Next \/ UNCHANGED Ctrl!vars
  BY DEF Next, vars, Fini, Ctrl!vars, Ctrl!ouvertures, Ctrl!noyau, Ctrl!prises, Ctrl!transferts
<1> QED BY <1>1, <1>2, TuyauxMeme, TuyauxMemePas, ControlesMeme, ControlesMemePas

(* As long as a handle is open so is Darwin's device, the count says when   *)
(* to close it, and a transfer in progress has the pipe of its endpoint and *)
(* a source to answer it, and is given back for the reason it was ended     *)
(* for: for any handles, interfaces with any endpoints, threads and         *)
(* transfers, when one thread at a time opens and closes.                   *)
THEOREM TuyauxDarwinCorrect == Spec => []TuyauxDarwin
<1> DEFINE Invariant ==
        /\ partie = "tuyaux" => Premier!Pipe!Inductif
        /\ partie = "controles" => Second!Pipe!Inductif
<1>0. Premier!Pipe!Hypotheses /\ Second!Pipe!Hypotheses
  BY MaterielAssumption, TuyauxMeme, ControlesMeme
<1>1. Init => Invariant
  BY <1>0, TuyauxMeme, ControlesMeme, Premier!TuyauxDepart, Second!TuyauxDepart DEF Init
<1>2. Invariant /\ [Next]_vars => Invariant'
  <2> SUFFICES ASSUME Invariant, [Next]_vars PROVE Invariant'
    OBVIOUS
  <2>1. ASSUME partie = "tuyaux" PROVE Premier!Pipe!Inductif'
    BY <1>0, <2>1, TuyauxPas, Premier!TuyauxPreserve
  <2>2. ASSUME partie = "controles" PROVE Second!Pipe!Inductif'
    BY <1>0, <2>2, TuyauxPas, Second!TuyauxPreserve
  <2> QED BY <2>1, <2>2, PartieFixe
<1>3. Invariant => TuyauxDarwin
  BY <1>0, TuyauxMemePromesse, ControlesMemePromesse, Premier!TuyauxPromesse, Second!TuyauxPromesse
     DEF TuyauxDarwin
<1> QED BY <1>1, <1>2, <1>3, PTL DEF Spec

=============================================================================
