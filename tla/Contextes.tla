------------------------------ MODULE Contextes ------------------------------
(***************************************************************************)
(* libusb on Linux: the contexts that several parts of a program create    *)
(* and destroy, the hotplug monitor they share, and the device list each   *)
(* of them keeps.  The first context starts the monitor, by udev or by a   *)
(* netlink socket, and the last one stops it.  A new context looks for     *)
(* devices itself, while they come and go.                                 *)
(*                                                                         *)
(* A device is known by its bus and address, which are used again.  The    *)
(* n-th plugging of a device has the number n.                             *)
(***************************************************************************)
EXTENDS Integers, Sequences, FiniteSets, SequencesExt

CONSTANTS
    X,          \* contexts
    F,          \* parts of the program
    S,          \* addresses
    HubDe,      \* the address of the hub a device is on, or Rien
    MaxPrises,  \* how often something is plugged or unplugged (bound of the model)
    Rien

Moniteur == "moniteur"
Fils == F \cup {Moniteur}

(* What the constants must satisfy. *)
Hypotheses ==
    /\ Moniteur \notin F /\ Rien \notin S \cup X \cup Fils
    /\ HubDe \in [S -> S \cup {Rien}] /\ MaxPrises \in Nat

VARIABLES
    udev,                    \* libusb is built with udev
    branche, prises,         \* the device at each address, 0 for none
    uevents,                 \* what the monitor has not read
    usbi_default_context, default_context_refcnt,
    active_contexts_list, init_count,
    usb_devs,                \* of each context: its devices
    herite,                  \* it had some when it started the monitor
    tube,                    \* "calloc", "sans" (hotplug_msgs is initialised), then what it holds
    pendants, tropTot,       \* events are pending; one came before there was a pipe
    verrou,                  \* the owners of the four locks
    controle,                \* a byte in the monitor's control pipe
    pc, ctx,
    a_voir, trouve,          \* of a scan: the devices it has still to look at; has it found one
    pile, cible,             \* the devices that are being enumerated, a hub before those on it,
                             \* and the context they are for
    restent, evenement,      \* the contexts to which an event has still to be given
    vu, etranger             \* what was plugged in when libusb_get_device_list was called;
                             \* whether a message about something else came with it

prise == <<udev, branche, prises>>
listes == <<usb_devs, herite, tube, pendants, tropTot>>
globales == <<usbi_default_context, default_context_refcnt, active_contexts_list, init_count>>
scan == <<a_voir, trouve>>
diffusion == <<restent, evenement>>
sonde == <<vu, etranger>>
locaux == <<ctx, cible, scan, diffusion, sonde>>
vars == <<prise, uevents, listes, globales, verrou, controle, pc, pile, locaux>>

Verrous == {"default", "startstop", "hotplug", "active"}
Presents == {<<s, branche[s]>> : s \in {s \in S : branche[s] > 0}}

SansHub(s) == branche[s] > 0 /\ HubDe[s] # Rien /\ branche[HubDe[s]] = 0

Init ==
    /\ udev \in BOOLEAN
    /\ branche \in [S -> 0..1] /\ (\A s \in S : ~SansHub(s)) /\ prises = 0 /\ uevents = <<>>
    /\ usbi_default_context = Rien /\ default_context_refcnt = 0
    /\ active_contexts_list = {} /\ init_count = 0
    /\ usb_devs = [x \in X |-> <<>>] /\ herite = [x \in X |-> FALSE]
    /\ tube = [x \in X |-> "calloc"]
    /\ pendants = [x \in X |-> FALSE] /\ tropTot = [x \in X |-> FALSE]
    /\ verrou = [l \in Verrous |-> Rien] /\ controle = FALSE
    /\ pc = [f \in Fils |-> IF f = Moniteur THEN "absent" ELSE "dehors"]
    /\ ctx = [f \in F |-> Rien] /\ cible = [f \in Fils |-> Rien]
    /\ a_voir = [f \in F |-> {}] /\ trouve = [f \in Fils |-> FALSE] /\ pile = [f \in Fils |-> <<>>]
    /\ restent = [f \in Fils |-> {}] /\ evenement = [f \in Fils |-> <<>>]
    /\ vu = [f \in F |-> {}] /\ etranger = [f \in F |-> FALSE]

Va(f, etape) == pc' = [pc EXCEPT ![f] = etape]
Libre(l) == verrou[l] = Rien
Prend(f, l) == Libre(l) /\ verrou' = [verrou EXCEPT ![l] = f]
Rend(ls) == verrou' = [l \in Verrous |-> IF l \in ls THEN Rien ELSE verrou[l]]

-----------------------------------------------------------------------------
(* Devices come and go; the kernel tells the monitor's socket. *)
Annonce(action, s) == uevents' = IF pc[Moniteur] = "absent" THEN <<>> ELSE Append(uevents, <<action, s>>)
Reste == UNCHANGED <<udev, listes, globales, verrou, controle, pc, pile, locaux>>

Branche(s) ==
    /\ prises < MaxPrises /\ branche[s] = 0 /\ ~(HubDe[s] # Rien /\ branche[HubDe[s]] = 0)
    /\ branche' = [branche EXCEPT ![s] = prises + 2] /\ prises' = prises + 1
    /\ Annonce("add", s) /\ Reste

Debranche(s) ==
    /\ prises < MaxPrises /\ branche[s] > 0 /\ \A t \in S : HubDe[t] = s => branche[t] = 0
    /\ branche' = [branche EXCEPT ![s] = 0] /\ prises' = prises + 1
    /\ Annonce("remove", s) /\ Reste

(* A message about something else than the coming and going of a device. *)
AutreMessage ==
    /\ prises < MaxPrises /\ prises' = prises + 1
    /\ \E s \in S : branche[s] > 0 /\ Annonce("bind", s)
    /\ Reste /\ UNCHANGED branche

-----------------------------------------------------------------------------
(* usbi_hotplug_notification to one context, once its list of messages     *)
(* exists: a byte is written for the first pending event.                  *)
Pret(x) == tube[x] # "calloc"
Notifie(x) ==
    /\ pendants' = [pendants EXCEPT ![x] = @ \/ Pret(x)]
    /\ tube' = [tube EXCEPT ![x] = IF ~pendants[x] /\ @ = "vide" THEN "octet" ELSE @]
    /\ tropTot' = [tropTot EXCEPT ![x] = @ \/ tube[x] = "sans"]

Un(s) == <<[s |-> s, lu |-> 0, essaye |-> FALSE]>>
Objets(x, s) == {i \in DOMAIN usb_devs[x] : usb_devs[x][i].s = s}

(* linux_enumerate_device, to the context cible:  nothing is done if the   *)
(* address is in the list; the descriptors are read, ...                   *)
DejaLaJamais(x, s) == FALSE   \* variant: the list is not searched
DejaLa(x, s) == Objets(x, s) # {}

Enumere(f) ==
    /\ pile[f] # <<>>
    /\ LET e == Last(pile[f])  x == cible[f] IN
       /\ e.lu = 0
       /\ IF DejaLa(x, e.s) \/ branche[e.s] = 0
          THEN /\ pile' = [pile EXCEPT ![f] = Front(@)]
               /\ trouve' = [trouve EXCEPT ![f] = @ \/ (Len(pile[f]) = 1 /\ DejaLa(x, e.s))]
          ELSE /\ pile' = [pile EXCEPT ![f] = Append(Front(@), [e EXCEPT !.lu = branche[e.s]])]
               /\ UNCHANGED trouve
    /\ UNCHANGED <<prise, uevents, listes, globales, verrou, controle, pc, ctx, cible, a_voir, diffusion, sonde>>

(* ... its hub is looked for, and enumerated if it is not there, once, ... *)
HubInconnu(x, e) == HubDe[e.s] # Rien /\ ~e.essaye /\ Objets(x, HubDe[e.s]) = {}

linux_get_parent_info(f) ==
    /\ pile[f] # <<>>
    /\ LET e == Last(pile[f]) IN
       /\ e.lu > 0 /\ HubInconnu(cible[f], e)
       /\ pile' = [pile EXCEPT ![f] = Append(Front(@), [e EXCEPT !.essaye = TRUE]) \o Un(HubDe[e.s])]
    /\ UNCHANGED <<prise, uevents, listes, globales, verrou, controle, pc, locaux>>

(* ... and the device goes to the list. *)
usbi_connect_device(f) ==
    /\ pile[f] # <<>>
    /\ LET e == Last(pile[f])
           x == cible[f]
           hub == IF HubDe[e.s] = Rien THEN {} ELSE Objets(x, HubDe[e.s])
       IN
       /\ e.lu > 0 /\ ~HubInconnu(x, e)
       /\ usb_devs' = [usb_devs EXCEPT ![x] = Append(@,
              [s |-> e.s, n |-> e.lu,
               parent |-> IF hub = {} THEN 0 ELSE usb_devs[x][CHOOSE i \in hub : TRUE].n])]
       /\ Notifie(x) /\ UNCHANGED herite
       /\ pile' = [pile EXCEPT ![f] = Front(@)]
       /\ trouve' = [trouve EXCEPT ![f] = TRUE]
    /\ UNCHANGED <<prise, uevents, globales, verrou, controle, pc, ctx, cible, a_voir, diffusion, sonde>>

-----------------------------------------------------------------------------
(* libusb_init. *)
Nouveaux == {x \in X : \A f \in F : ctx[f] # x}

libusb_init(f, explicite) ==
    /\ pc[f] = "dehors" /\ Libre("default")
    /\ IF ~explicite /\ usbi_default_context # Rien
       THEN /\ default_context_refcnt' = default_context_refcnt + 1
            /\ ctx' = [ctx EXCEPT ![f] = usbi_default_context]
            /\ Va(f, "vit")
            /\ UNCHANGED <<usbi_default_context, verrou>>
       ELSE \E x \in Nouveaux :
            /\ Prend(f, "default")
            /\ ctx' = [ctx EXCEPT ![f] = x]
            /\ usbi_default_context' = IF usbi_default_context = Rien THEN x ELSE usbi_default_context
            /\ default_context_refcnt' =
                   IF usbi_default_context = Rien THEN default_context_refcnt + 1 ELSE default_context_refcnt
            /\ Va(f, "ajoute")
    /\ UNCHANGED <<prise, uevents, listes, active_contexts_list, init_count, controle, pile, cible, scan, diffusion, sonde>>

Ajoute(f) ==
    /\ pc[f] = "ajoute" /\ Libre("active")
    /\ active_contexts_list' = active_contexts_list \cup {ctx[f]}
    /\ Va(f, "backend")
    /\ UNCHANGED <<prise, uevents, listes, usbi_default_context, default_context_refcnt, init_count,
                   verrou, controle, pile, locaux>>

(* op_init: the monitor is started before the devices are looked for.      *)
op_init(f) ==
    /\ pc[f] = "backend" /\ Libre("startstop")
    /\ \/ /\ Prend(f, "startstop")
          /\ pc' = [pc EXCEPT ![f] = "demarre", ![Moniteur] = IF init_count = 0 THEN "attend" ELSE @]
          /\ herite' = [herite EXCEPT ![ctx[f]] = init_count = 0 /\ usb_devs[ctx[f]] # <<>>]
       \/ Va(f, "echec") /\ UNCHANGED <<verrou, herite>>
    /\ UNCHANGED <<prise, uevents, usb_devs, tube, pendants, tropTot, globales, controle, pile, locaux>>

linux_scan_devices(f) ==
    /\ pc[f] = "demarre" /\ Prend(f, "hotplug")
    /\ a_voir' = [a_voir EXCEPT ![f] = {s \in S : branche[s] > 0}]
    /\ trouve' = [trouve EXCEPT ![f] = udev]
    /\ Va(f, "cherche")
    /\ UNCHANGED <<prise, uevents, listes, globales, controle, pile, ctx, cible, diffusion, sonde>>

Cherche(f) ==
    /\ pc[f] = "cherche" /\ pile[f] = <<>>
    /\ \E s \in a_voir[f] :
          /\ a_voir' = [a_voir EXCEPT ![f] = @ \ {s}]
          /\ pile' = [pile EXCEPT ![f] = Un(s)]
          /\ cible' = [cible EXCEPT ![f] = ctx[f]]
    /\ UNCHANGED <<prise, uevents, listes, globales, verrou, controle, pc, ctx, trouve, diffusion, sonde>>

(* Without udev a scan that finds nothing is an error. *)
FinCherche(f) ==
    /\ pc[f] = "cherche" /\ pile[f] = <<>> /\ a_voir[f] = {}
    /\ IF trouve[f]
       THEN init_count' = init_count + 1 /\ Rend({"hotplug", "startstop"}) /\ Va(f, "io") /\ UNCHANGED controle
       ELSE IF init_count = 0
       THEN controle' = TRUE /\ Rend({"hotplug"}) /\ Va(f, "joint") /\ UNCHANGED init_count
       ELSE Rend({"hotplug", "startstop"}) /\ Va(f, "echec") /\ UNCHANGED <<init_count, controle>>
    /\ trouve' = [trouve EXCEPT ![f] = FALSE] /\ cible' = [cible EXCEPT ![f] = Rien]
    /\ UNCHANGED <<prise, uevents, listes, usbi_default_context, default_context_refcnt,
                   active_contexts_list, pile, ctx, a_voir, diffusion, sonde>>

(* usbi_io_init: the list of hotplug messages, and then the event pipe,    *)
(* whose descriptor is added to those to poll, which is an event.          *)
IoInit(f) ==
    /\ pc[f] = "io"
    /\ tube' = [tube EXCEPT ![ctx[f]] = "sans"]
    /\ Va(f, "tube")
    /\ UNCHANGED <<prise, uevents, usb_devs, herite, pendants, tropTot, globales, verrou, controle, pile, locaux>>

usbi_io_init(f) ==
    LET x == ctx[f] IN
    /\ pc[f] = "tube"
    /\ \/ /\ tube' = [tube EXCEPT ![x] = IF pendants[x] THEN "vide" ELSE "octet"]
          /\ pendants' = [pendants EXCEPT ![x] = TRUE]
          /\ Rend({"default"}) /\ Va(f, "vit")
       \/ Va(f, "sort") /\ UNCHANGED <<tube, pendants, verrou>>
    /\ UNCHANGED <<prise, uevents, usb_devs, herite, tropTot, globales, controle, pile, locaux>>

Efface(x) ==
    /\ usb_devs' = [usb_devs EXCEPT ![x] = <<>>] /\ herite' = [herite EXCEPT ![x] = FALSE]
    /\ tube' = [tube EXCEPT ![x] = "calloc"]
    /\ pendants' = [pendants EXCEPT ![x] = FALSE] /\ tropTot' = [tropTot EXCEPT ![x] = FALSE]

(* A failure before or after. *)
Echec(f) ==
    LET x == ctx[f] IN
    /\ pc[f] = "echec" /\ Libre("active")
    /\ usbi_default_context' = IF usbi_default_context = x THEN Rien ELSE usbi_default_context
    /\ default_context_refcnt' =
           IF usbi_default_context = x THEN default_context_refcnt - 1 ELSE default_context_refcnt
    /\ active_contexts_list' = active_contexts_list \ {x}
    /\ Efface(x)
    /\ ctx' = [ctx EXCEPT ![f] = Rien] /\ Rend({"default"}) /\ Va(f, "dehors")
    /\ UNCHANGED <<prise, uevents, init_count, controle, pile, cible, scan, diffusion, sonde>>

-----------------------------------------------------------------------------
(* libusb_exit: only the last user of the default context destroys it.     *)
DernierToujours(n) == TRUE   \* variant: the count is not looked at
Dernier(n) == n = 1

libusb_exit(f) ==
    LET x == ctx[f]
        defaut == x = usbi_default_context
        autres == defaut /\ ~Dernier(default_context_refcnt)
    IN
    /\ pc[f] = "vit" /\ Libre("default")
    /\ default_context_refcnt' = IF defaut THEN default_context_refcnt - 1 ELSE default_context_refcnt
    /\ usbi_default_context' = IF defaut /\ ~autres THEN Rien ELSE usbi_default_context
    /\ ctx' = IF autres THEN [ctx EXCEPT ![f] = Rien] ELSE ctx
    /\ Va(f, IF autres THEN "dehors" ELSE "retire")
    /\ UNCHANGED <<prise, uevents, listes, active_contexts_list, init_count, verrou, controle, pile,
                   cible, scan, diffusion, sonde>>

(* The context leaves the list; its pending events are handled and its     *)
(* devices given up, which nobody else can reach any more.                 *)
Retire(f) ==
    /\ pc[f] = "retire" /\ Libre("active")
    /\ active_contexts_list' = active_contexts_list \ {ctx[f]}
    /\ Efface(ctx[f])
    /\ Va(f, "sort")
    /\ UNCHANGED <<prise, uevents, usbi_default_context, default_context_refcnt, init_count, verrou,
                   controle, pile, locaux>>

Apres(f) == IF verrou["default"] = f THEN "echec" ELSE "dehors"
Quitte(f) == ctx' = IF verrou["default"] = f THEN ctx ELSE [ctx EXCEPT ![f] = Rien]

op_exit(f) ==
    /\ pc[f] = "sort" /\ Libre("startstop")
    /\ init_count' = init_count - 1
    /\ IF init_count = 1
       THEN controle' = TRUE /\ Prend(f, "startstop") /\ Va(f, "joint") /\ UNCHANGED ctx
       ELSE Va(f, Apres(f)) /\ Quitte(f) /\ UNCHANGED <<controle, verrou>>
    /\ UNCHANGED <<prise, uevents, listes, usbi_default_context, default_context_refcnt,
                   active_contexts_list, pile, cible, scan, diffusion, sonde>>

(* linux_udev_stop_event_monitor, linux_netlink_stop_event_monitor: the    *)
(* thread is joined, and its socket closed.                                *)
Joint(f) ==
    /\ pc[f] = "joint" /\ pc[Moniteur] = "termine"
    /\ pc' = [pc EXCEPT ![f] = Apres(f), ![Moniteur] = "absent"]
    /\ controle' = FALSE /\ uevents' = <<>> /\ Quitte(f) /\ Rend({"startstop"})
    /\ UNCHANGED <<prise, listes, globales, pile, cible, scan, diffusion, sonde>>

-----------------------------------------------------------------------------
(* The monitor's thread. *)
Reveille ==
    /\ pc[Moniteur] = "attend"
    /\ \/ controle /\ Va(Moniteur, "termine")
       \/ ~controle /\ uevents # <<>> /\ Va(Moniteur, "reveille")
    /\ UNCHANGED <<prise, uevents, listes, globales, verrou, controle, pile, locaux>>

(* It reads a message with linux_hotplug_lock held; libusb_get_device_list *)
(* may have read it before.                                                *)
Lit ==
    /\ pc[Moniteur] = "reveille" /\ Libre("hotplug")
    /\ uevents' = IF uevents = <<>> THEN <<>> ELSE Tail(uevents)
    /\ IF uevents = <<>> \/ Head(uevents)[1] = "bind"
       THEN Va(Moniteur, "attend") /\ UNCHANGED <<verrou, evenement>>
       ELSE /\ Va(Moniteur, "diffuse") /\ Prend(Moniteur, "hotplug")
            /\ evenement' = [evenement EXCEPT ![Moniteur] = Head(uevents)]
    /\ UNCHANGED <<prise, listes, globales, controle, pile, ctx, cible, scan, restent, sonde>>

(* libusb_get_device_list first reads all messages: op_hotplug_poll.       *)
(* Without udev it stops at the first that is about something else.        *)
libusb_get_device_list(f) ==
    /\ pc[f] = "vit"
    /\ vu' = [vu EXCEPT ![f] = Presents]
    /\ Va(f, "sonde")
    /\ UNCHANGED <<prise, uevents, listes, globales, verrou, controle, pile, ctx, cible, scan, diffusion, etranger>>

op_hotplug_poll(f) ==
    LET rien == uevents = <<>>
        autre == ~rien /\ Head(uevents)[1] = "bind"
    IN
    /\ pc[f] = "sonde" /\ verrou["hotplug"] \in {f, Rien}
    /\ uevents' = IF rien THEN <<>> ELSE Tail(uevents)
    /\ etranger' = [etranger EXCEPT ![f] = autre /\ ~udev]
    /\ IF rien \/ (autre /\ ~udev)
       THEN Va(f, "copie") /\ Rend({"hotplug"}) /\ UNCHANGED evenement
       ELSE /\ verrou' = [verrou EXCEPT !["hotplug"] = f]
            /\ IF autre THEN UNCHANGED <<pc, evenement>>
               ELSE Va(f, "diffuse") /\ evenement' = [evenement EXCEPT ![f] = Head(uevents)]
    /\ UNCHANGED <<prise, listes, globales, controle, pile, ctx, cible, scan, restent, vu>>

Copie(f) ==
    /\ pc[f] = "copie"
    /\ vu' = [vu EXCEPT ![f] = {}] /\ etranger' = [etranger EXCEPT ![f] = FALSE]
    /\ Va(f, "vit")
    /\ UNCHANGED <<prise, uevents, listes, globales, verrou, controle, pile, ctx, cible, scan, diffusion>>

(* linux_hotplug_enumerate, linux_device_disconnected: to every context.  *)
DestinatairesDefaut == active_contexts_list \cap {usbi_default_context}   \* variant: only the default context
Destinataires == active_contexts_list

Diffuse(f) ==
    /\ pc[f] = "diffuse" /\ Prend(f, "active")
    /\ restent' = [restent EXCEPT ![f] = Destinataires]
    /\ Va(f, "donne")
    /\ UNCHANGED <<prise, uevents, listes, globales, controle, pile, ctx, cible, scan, evenement, sonde>>

Arrivee(f) ==
    /\ pc[f] = "donne" /\ pile[f] = <<>> /\ evenement[f][1] = "add"
    /\ \E x \in restent[f] :
          /\ restent' = [restent EXCEPT ![f] = @ \ {x}]
          /\ cible' = [cible EXCEPT ![f] = x]
    /\ pile' = [pile EXCEPT ![f] = Un(evenement[f][2])]
    /\ UNCHANGED <<prise, uevents, listes, globales, verrou, controle, pc, ctx, scan, evenement, sonde>>

Depart(f) ==
    /\ pc[f] = "donne" /\ evenement[f][1] = "remove"
    /\ \E x \in restent[f] :
          LET o == Objets(x, evenement[f][2]) IN
          /\ restent' = [restent EXCEPT ![f] = @ \ {x}]
          /\ IF o = {} THEN UNCHANGED listes
             ELSE /\ usb_devs' = [usb_devs EXCEPT ![x] = RemoveAt(@, CHOOSE i \in o : TRUE)]
                  /\ Notifie(x) /\ UNCHANGED herite
    /\ UNCHANGED <<prise, uevents, globales, verrou, controle, pc, pile, ctx, cible, scan, evenement, sonde>>

FinDiffuse(f) ==
    /\ pc[f] = "donne" /\ pile[f] = <<>> /\ restent[f] = {}
    /\ IF f = Moniteur THEN Rend({"active", "hotplug"}) /\ Va(f, "attend")
       ELSE Rend({"active"}) /\ Va(f, "sonde")
    /\ evenement' = [evenement EXCEPT ![f] = <<>>] /\ cible' = [cible EXCEPT ![f] = Rien]
    /\ trouve' = [trouve EXCEPT ![f] = FALSE]
    /\ UNCHANGED <<prise, uevents, listes, globales, controle, pile, ctx, a_voir, restent, sonde>>

(* libusb_handle_events, as far as pending events go. *)
Traite(f) ==
    LET x == ctx[f] IN
    /\ pc[f] = "vit" /\ tube[x] = "octet"
    /\ tube' = [tube EXCEPT ![x] = "vide"] /\ pendants' = [pendants EXCEPT ![x] = FALSE]
    /\ UNCHANGED <<prise, uevents, usb_devs, herite, tropTot, globales, verrou, controle, pc, pile, locaux>>

Programme(f) ==
    \/ \E b \in BOOLEAN : libusb_init(f, b)
    \/ Ajoute(f) \/ op_init(f) \/ linux_scan_devices(f) \/ Cherche(f) \/ FinCherche(f)
    \/ IoInit(f) \/ usbi_io_init(f) \/ Echec(f)
    \/ libusb_exit(f) \/ Retire(f) \/ op_exit(f) \/ Joint(f)
    \/ libusb_get_device_list(f) \/ op_hotplug_poll(f) \/ Copie(f) \/ Traite(f)
Commun(f) ==
    \/ Enumere(f) \/ linux_get_parent_info(f) \/ usbi_connect_device(f)
    \/ Diffuse(f) \/ Arrivee(f) \/ Depart(f) \/ FinDiffuse(f)

Next ==
    \/ \E s \in S : Branche(s) \/ Debranche(s)
    \/ AutreMessage
    \/ \E f \in F : Programme(f)
    \/ \E f \in Fils : Commun(f)
    \/ Reveille \/ Lit

Spec == Init /\ [][Next]_vars

-----------------------------------------------------------------------------
Vivant(f) == pc[f] \in {"vit", "sonde", "diffuse", "donne", "copie"}
Liste(x) == {<<o.s, o.n>> : o \in ToSet(usb_devs[x])}

(* What a context has listed is what is plugged in, each device once and   *)
(* on its hub. *)
Exacte(x) ==
    /\ Liste(x) = Presents /\ Len(usb_devs[x]) = Cardinality(Presents)
    /\ \A o \in ToSet(usb_devs[x]) :
           o.parent = IF HubDe[o.s] = Rien THEN 0 ELSE branche[HubDe[o.s]]

Calme(f) == pc[f] = "vit" /\ uevents = <<>> /\ Libre("hotplug") /\ pc[Moniteur] = "attend"

(* Whenever the monitor has nothing to do, the list of every context is    *)
(* exact, whatever came and went while the context looked for devices      *)
(* itself; unless it had devices before it started the monitor.            *)
ListeFidele == \A f \in F : Calme(f) /\ ~herite[ctx[f]] => Exacte(ctx[f])

(* And without that exception: a new context is in active_contexts_list    *)
(* while the monitor of another one is being stopped, and a device that    *)
(* this monitor still gives it, and that leaves before the next monitor    *)
(* starts, stays in the list.                                              *)
ListeExacte == \A f \in F : Calme(f) => Exacte(ctx[f])

(* libusb_get_device_list returns every device that was plugged in when it *)
(* was called and still is; built without udev, unless a message about     *)
(* something else stopped its reading of events.  A context that had       *)
(* devices before it started the monitor is again left out.                *)
ListeAJour ==
    \A f \in F : pc[f] = "copie" /\ ~etranger[f] /\ ~herite[ctx[f]] => vu[f] \cap Presents \subseteq Liste(ctx[f])

(* A part of the program that has initialised libusb has a context in the  *)
(* list, shared with others only if they count it, and a monitor that runs.*)
(* Its pending events have a byte in the pipe, unless one came after the   *)
(* list of messages was initialised and before the pipe existed.           *)
ContexteVivant ==
    \A f \in F : Vivant(f) =>
        LET x == ctx[f] IN
        /\ x \in active_contexts_list /\ init_count > 0
        /\ pc[Moniteur] \notin {"absent", "termine"} /\ ~controle
        /\ x = usbi_default_context => default_context_refcnt = Cardinality({g \in F : ctx[g] = x})
        /\ x # usbi_default_context => \A g \in F \ {f} : ctx[g] # x
        /\ pendants[x] /\ ~tropTot[x] => tube[x] = "octet"

-----------------------------------------------------------------------------
(* What every step preserves of the contexts, whatever is in their lists.  *)
EtapesMoniteur == {"absent", "attend", "reveille", "diffuse", "donne", "termine"}
Vives == {"vit", "sonde", "diffuse", "donne", "copie"}
Creation == {"ajoute", "backend", "demarre", "cherche", "io", "tube", "echec"}
Fin == {"retire", "sort", "joint"}
Bascule == {"demarre", "cherche", "joint"}   \* the monitor is started or stopped

TypeContextes ==
    /\ pc \in [Fils -> EtapesMoniteur \cup Vives \cup Creation \cup Fin \cup {"dehors"}]
    /\ pc[Moniteur] \in EtapesMoniteur /\ \A f \in F : pc[f] \in Vives \cup Creation \cup Fin \cup {"dehors"}
    /\ ctx \in [F -> X \cup {Rien}]
    /\ usbi_default_context \in X \cup {Rien} /\ default_context_refcnt \in Int
    /\ active_contexts_list \in SUBSET X /\ init_count \in Int
    /\ tube \in [X -> {"calloc", "sans", "vide", "octet"}]
    /\ pendants \in [X -> BOOLEAN] /\ tropTot \in [X -> BOOLEAN]
    /\ verrou \in [Verrous -> Fils \cup {Rien}] /\ controle \in BOOLEAN

(* A part of the program that creates a context has the first lock, and    *)
(* one that starts or stops the monitor the second.                        *)
Verrouille(f) ==
    /\ pc[f] \in Creation => verrou["default"] = f
    /\ verrou["default"] = f => pc[f] \in Creation \cup {"sort", "joint"}
    /\ pc[f] \in Bascule <=> verrou["startstop"] = f

(* Its context: in the list from the creation to the destruction, without  *)
(* a list of messages at first; the default one is in use, or in creation. *)
EnListe == Vives \cup {"backend", "demarre", "cherche", "io", "tube", "retire"}
Possede(f) ==
    /\ ctx[f] = Rien <=> pc[f] = "dehors"
    /\ pc[f] \in EnListe => ctx[f] \in active_contexts_list
    /\ pc[f] = "tube" => tube[ctx[f]] = "sans"
    /\ ctx[f] # Rien /\ ctx[f] = usbi_default_context => pc[f] \in Vives \/ verrou["default"] = f

(* Only the default context is shared, and only in use. *)
Partage(f, g) ==
    ctx[f] # Rien /\ ctx[g] = ctx[f] => /\ ctx[f] = usbi_default_context
                                        /\ pc[f] \in Vives /\ pc[g] \in Vives

Usagers == {f \in F : ctx[f] # Rien /\ ctx[f] = usbi_default_context}
ParDefaut ==
    /\ IsFiniteSet(Usagers) /\ default_context_refcnt = Cardinality(Usagers)
    /\ usbi_default_context # Rien => Usagers # {}

(* The contexts for which the monitor runs. *)
Comptes == {ctx[f] : f \in {f \in F : pc[f] \in Vives \cup {"io", "tube", "retire", "sort"}}}
Surveillance ==
    /\ IsFiniteSet(Comptes) /\ init_count = Cardinality(Comptes)
    /\ pc[Moniteur] = "absent" => init_count = 0 /\ \A f \in F : pc[f] \notin Bascule
    /\ controle \/ pc[Moniteur] = "termine" => \E f \in F : pc[f] = "joint"
    /\ (\E f \in F : pc[f] = "joint") => init_count = 0

(* A pending event has its byte, but for one that came too early. *)
Equipe(f) == pc[f] \in Vives \cup {"tube", "retire"} \/ (pc[f] \in {"sort", "joint", "echec"} /\ verrou["default"] = f)
Tuyau(x) ==
    /\ pendants[x] /\ ~tropTot[x] => tube[x] = "octet"
    /\ tube[x] = "calloc" => ~pendants[x]
    /\ tube[x] # "calloc" => \E f \in F : ctx[f] = x /\ Equipe(f)

Inductif ==
    /\ TypeContextes
    /\ \A f \in F : Verrouille(f) /\ Possede(f) /\ \A g \in F \ {f} : Partage(f, g)
    /\ ParDefaut /\ Surveillance
    /\ \A x \in X : Tuyau(x)
=============================================================================
