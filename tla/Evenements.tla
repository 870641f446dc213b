----------------------------- MODULE Evenements -----------------------------
(***************************************************************************)
(* libusb: who handles events.  Threads that wait for a transfer of their  *)
(* own take turns at it: one holds events_lock and polls, the others wait  *)
(* until it gives the lock up.  A thread that closes a device interrupts   *)
(* the one that polls through the event pipe and keeps the others away.    *)
(* Hotplug messages go through the same pipe.                              *)
(*                                                                         *)
(* All descriptors are polled without timeout here; a timeout that passes  *)
(* may end a wait, but nothing relies on it.  Sections under               *)
(* event_data_lock, hotplug_cbs_lock and open_devs_lock are one step each. *)
(* The waiting threads' transfers are on one handle that stays open.       *)
(***************************************************************************)
EXTENDS Peripheriques

CONSTANTS
    A,          \* threads that wait for a synchronous transfer
    C,          \* threads that open a device and close it; also their handles
    R,          \* threads that register a hotplug callback; also the callbacks
    Equipes,    \* the sets of threads that run together
    MaxDelais   \* waits that a timeout ends (bound of the model)

VARIABLES
    pc,
    device_close, pollfds_modified, hotplug_msgs,   \* the pending events
    tube,                  \* bytes in the event pipe
    ipollfds, pollfds,     \* the clients' descriptors to poll, and the copy that is polled
    ouverts, open_devs,    \* descriptors that are open; handles in the list
    events_lock,           \* its owner and how often it has it
    event_handler_active,
    event_waiters_lock, dorment,   \* its owner, and the threads that wait on the condition
    pret, completed,       \* the kernel has finished a transfer; its callback has run
    hotplug_cbs, annonces, \* callbacks registered, and the arrivals each was told of
    evts,                  \* what poll has returned to a thread
    message,               \* the message it has taken from the list
    liste,                 \* the device list of a thread
    objet,                 \* the device a thread works on, or has a handle to
    delais

pendants == <<device_close, pollfds_modified, hotplug_msgs, tube>>
fds == <<ipollfds, pollfds, ouverts, open_devs>>
verrous == <<events_lock, event_handler_active, event_waiters_lock, dorment>>
transferts == <<pret, completed>>
rappels == <<hotplug_cbs, annonces>>
locaux == <<evts, message, liste, objet, delais>>
vars == <<pc, pendants, fds, verrous, transferts, rappels, locaux, peripheriques>>

Moniteur == "moniteur"
Fils == A \cup C \cup R \cup {Moniteur}
Aucun == [event |-> "aucun", device |-> Personne]

ASSUME EvenementsAssumption ==
    /\ Personne \notin Fils /\ Moniteur \notin A \cup C \cup R
    /\ A \cap C = {} /\ A \cap R = {} /\ C \cap R = {}
    /\ \A e \in Equipes : e \subseteq Fils
    /\ MaxDelais \in Nat

(* libusb_hotplug_register_callback with the flag ENUMERATE. *)
OrdreInscriptionEnFin ==   \* variant: the callback is registered last
    <<"enumere", "rappelle", "sansliste", "enregistre">>
OrdreInscription == <<"enregistre", "enumere", "rappelle", "sansliste">>

Depart(f) ==
    CASE f \in A -> "boucle" [] f \in C -> "liste" [] f \in R -> OrdreInscription[1] [] OTHER -> "surveille"

Init ==
    /\ PeripheriquesInit
    /\ \E e \in Equipes : pc = [f \in Fils |-> IF f \in e THEN Depart(f) ELSE "fin"]
    /\ device_close = 0 /\ pollfds_modified = FALSE /\ hotplug_msgs = <<>> /\ tube = 0
    /\ ipollfds = {} /\ pollfds = {} /\ ouverts = {} /\ open_devs = {}
    /\ events_lock = [fil |-> Personne, fois |-> 0] /\ event_handler_active = FALSE
    /\ event_waiters_lock = Personne /\ dorment = {}
    /\ pret = {} /\ completed = {}
    /\ hotplug_cbs = {} /\ annonces = [r \in R |-> {}]
    /\ evts = [a \in A |-> {}] /\ message = [a \in A |-> Aucun]
    /\ liste = [f \in C \cup R |-> {}] /\ objet = [f \in Fils |-> Personne] /\ delais = 0

Va(f, etape) == pc' = [pc EXCEPT ![f] = etape]

-----------------------------------------------------------------------------
(* The event pipe: a byte is written when the first event becomes pending, *)
(* and read when the last one has been handled.  Reading blocks.           *)
usbi_pending_events(dc, mod, msgs) == dc > 0 \/ mod \/ msgs # <<>>
Pendant == usbi_pending_events(device_close, pollfds_modified, hotplug_msgs)

usbi_signal_event == tube' = IF Pendant THEN tube ELSE tube + 1

ResteSansMessages(dc, mod, msgs) == dc > 0 \/ mod   \* variant: messages are not counted
Reste(dc, mod, msgs) == usbi_pending_events(dc, mod, msgs)
usbi_clear_event(dc, mod, msgs) ==
    \/ Reste(dc, mod, msgs) /\ tube' = tube
    \/ ~Reste(dc, mod, msgs) /\ tube > 0 /\ tube' = tube - 1

usbi_hotplug_notification(e, d) ==
    /\ hotplug_msgs' = Append(hotplug_msgs, [event |-> e, device |-> d])
    /\ usbi_signal_event
    /\ UNCHANGED <<device_close, pollfds_modified>>

(* usbi_add_pollfd, usbi_remove_pollfd: the set changes and the event      *)
(* thread is told to take a new copy.                                      *)
usbi_pollfd(ens) ==
    /\ ipollfds' = ens
    /\ IF ens = ipollfds THEN UNCHANGED pendants
       ELSE /\ pollfds_modified' = TRUE
            /\ usbi_signal_event
            /\ UNCHANGED <<device_close, hotplug_msgs>>
    /\ UNCHANGED <<pollfds, ouverts>>

-----------------------------------------------------------------------------
(* The waiters' loop: sync_transfer_wait_for_completion and                *)
(* libusb_handle_events_timeout_completed.                                 *)
Boucle(a) ==
    /\ pc[a] = "boucle"
    /\ Va(a, IF a \in completed THEN "fin" ELSE "essaie")
    /\ UNCHANGED <<pendants, fds, verrous, transferts, rappels, locaux, peripheriques>>

(* libusb_try_lock_events: it gives up when someone closes a device. *)
LaissePasserTous == TRUE   \* variant: device_close is not looked at
LaissePasser == device_close = 0

Essaie(a) ==
    /\ pc[a] = "essaie"
    /\ Va(a, IF LaissePasser THEN "tente" ELSE "attend")
    /\ UNCHANGED <<pendants, fds, verrous, transferts, rappels, locaux, peripheriques>>

Tente(a) ==
    /\ pc[a] = "tente"
    /\ IF events_lock.fois = 0
       THEN /\ events_lock' = [fil |-> a, fois |-> 1]
            /\ Va(a, "active")
       ELSE /\ UNCHANGED events_lock
            /\ Va(a, "attend")
    /\ UNCHANGED <<pendants, fds, event_handler_active, event_waiters_lock, dorment, transferts, rappels, locaux, peripheriques>>

Active(a) ==
    /\ pc[a] = "active"
    /\ event_handler_active' = TRUE
    /\ Va(a, "verifie")
    /\ UNCHANGED <<pendants, fds, events_lock, event_waiters_lock, dorment, transferts, rappels, locaux, peripheriques>>

Verifie(a) ==
    /\ pc[a] = "verifie"
    /\ Va(a, IF a \in completed THEN "libere" ELSE "prepare")
    /\ UNCHANGED <<pendants, fds, verrous, transferts, rappels, locaux, peripheriques>>

-----------------------------------------------------------------------------
(* handle_events. *)
Prepare(a) ==
    /\ pc[a] = "prepare"
    /\ IF pollfds_modified
       THEN /\ pollfds' = ipollfds
            /\ pollfds_modified' = FALSE
            /\ usbi_clear_event(device_close, FALSE, hotplug_msgs)
       ELSE UNCHANGED <<pollfds, pollfds_modified, tube>>
    /\ Va(a, "poll")
    /\ UNCHANGED <<device_close, hotplug_msgs, ipollfds, ouverts, open_devs, verrous, transferts, rappels, locaux, peripheriques>>

(* Handles whose device has gone, in a set of descriptors. *)
EnErreur(S) == {c \in S \cap ouverts : branche[objet[c]] = "parti"}

Prets == (IF tube > 0 THEN {"tube"} ELSE {}) \cup (IF pret # {} THEN {"transfert"} ELSE {}) \cup EnErreur(pollfds)

Suivant(a, E) ==
    IF "tube" \in E THEN "tube" ELSE IF E # {} THEN "backend"
    ELSE IF message[a] # Aucun THEN "repoll" ELSE "libere"

Poll(a) ==
    /\ pc[a] = "poll" /\ Prets # {}
    /\ evts' = [evts EXCEPT ![a] = Prets]
    /\ Va(a, IF "tube" \in Prets THEN "tube" ELSE "backend")
    /\ UNCHANGED <<pendants, fds, verrous, transferts, rappels, message, liste, objet, delais, peripheriques>>

(* The poll after a special event does not wait. *)
Repoll(a) ==
    /\ pc[a] = "repoll"
    /\ evts' = [evts EXCEPT ![a] = Prets]
    /\ message' = [message EXCEPT ![a] = Aucun]
    /\ Va(a, IF "tube" \in Prets THEN "tube" ELSE IF Prets # {} THEN "backend" ELSE "libere")
    /\ UNCHANGED <<pendants, fds, verrous, transferts, rappels, liste, objet, delais, peripheriques>>

(* One message is taken, and the pipe read if it was the last event.       *)
Tube(a) ==
    /\ pc[a] = "tube"
    /\ IF hotplug_msgs # <<>>
       THEN /\ message' = [message EXCEPT ![a] = Head(hotplug_msgs)]
            /\ hotplug_msgs' = Tail(hotplug_msgs)
            /\ Va(a, "message")
       ELSE /\ UNCHANGED <<message, hotplug_msgs>>
            /\ Va(a, IF evts[a] = {"tube"} THEN "libere" ELSE "backend")
    /\ evts' = [evts EXCEPT ![a] = @ \ {"tube"}]
    /\ usbi_clear_event(device_close, pollfds_modified, hotplug_msgs')
    /\ UNCHANGED <<device_close, pollfds_modified, fds, verrous, transferts, rappels, liste, objet, delais, peripheriques>>

(* usbi_hotplug_match calls the callbacks; a device that left loses the    *)
(* reference it had since its enumeration.                                 *)
Message(a) ==
    LET m == message[a] IN
    /\ pc[a] = "message"
    /\ annonces' = [r \in R |-> IF m.event = "ARRIVED" /\ r \in hotplug_cbs
                                THEN annonces[r] \cup {m.device} ELSE annonces[r]]
    /\ IF m.event = "LEFT"
       THEN libusb_unref_device({m.device}) ELSE UNCHANGED <<refcnt, detruits>>
    /\ Va(a, Suivant(a, evts[a]))
    /\ UNCHANGED <<pendants, fds, verrous, transferts, hotplug_cbs, locaux,
                   branche, usb_devs, attached, linux_hotplug_lock>>

(* op_handle_events: transfers are reaped until there is none; a handle in *)
(* error leaves the descriptors, and its device is taken for gone.         *)
Reap(a) ==
    /\ pc[a] = "backend" /\ "transfert" \in evts[a]
    /\ IF pret # {}
       THEN /\ \E x \in pret : pret' = pret \ {x} /\ completed' = completed \cup {x}
            /\ UNCHANGED evts
       ELSE /\ evts' = [evts EXCEPT ![a] = @ \ {"transfert"}]
            /\ UNCHANGED transferts
    /\ UNCHANGED <<pc, pendants, fds, verrous, rappels, message, liste, objet, delais, peripheriques>>

PollErr(a, c) ==
    /\ pc[a] = "backend" /\ c \in evts[a] \ {"transfert"}
    /\ evts' = [evts EXCEPT ![a] = @ \ {c}]
    /\ IF c \in open_devs
       THEN /\ usbi_pollfd(ipollfds \ {c})
            /\ objet' = [objet EXCEPT ![a] = objet[c]]
            /\ Va(a, "perdu")
       ELSE UNCHANGED <<pendants, ipollfds, pollfds, ouverts, objet, pc>>
    /\ UNCHANGED <<open_devs, verrous, transferts, rappels, message, liste, delais, peripheriques>>

FinBackend(a) ==
    /\ pc[a] = "backend" /\ evts[a] = {}
    /\ Va(a, Suivant(a, {}))
    /\ UNCHANGED <<pendants, fds, verrous, transferts, rappels, locaux, peripheriques>>

-----------------------------------------------------------------------------
(* libusb_unlock_events, for the waiters and, twice, for a client. *)
Libere(f) ==
    /\ pc[f] = "libere"
    /\ event_handler_active' = FALSE
    /\ Va(f, "rend")
    /\ UNCHANGED <<pendants, fds, events_lock, event_waiters_lock, dorment, transferts, rappels, locaux, peripheriques>>

MoinsUnEntier == 0   \* variant: events_lock is not recursive
MoinsUn == events_lock.fois - 1

Rend(f) ==
    /\ pc[f] = "rend"
    /\ events_lock' = [fil |-> IF MoinsUn = 0 THEN Personne ELSE f, fois |-> MoinsUn]
    /\ Va(f, "diffuse")
    /\ UNCHANGED <<pendants, fds, event_handler_active, event_waiters_lock, dorment, transferts, rappels, locaux, peripheriques>>

ReveilleAucun == {}   \* variant: the broadcast is missing
Reveilles == dorment

Diffuse(f) ==
    /\ pc[f] = "diffuse" /\ event_waiters_lock = Personne
    /\ dorment' = dorment \ Reveilles
    /\ pc' = [g \in Fils |-> IF g \in Reveilles THEN "reveil"
                ELSE IF g # f THEN pc[g]
                ELSE IF f \in A THEN "boucle" ELSE IF f \in open_devs THEN "desinscrit" ELSE "fin"]
    /\ UNCHANGED <<pendants, fds, events_lock, event_handler_active, event_waiters_lock, transferts, rappels, locaux, peripheriques>>

-----------------------------------------------------------------------------
(* Waiting for the thread that handles events: both tests are made with    *)
(* event_waiters_lock held, so that no broadcast is missed.                *)
Attend(a) ==
    /\ pc[a] = "attend" /\ event_waiters_lock = Personne
    /\ IF a \in completed
       THEN UNCHANGED event_waiters_lock /\ Va(a, "boucle")
       ELSE event_waiters_lock' = a /\ Va(a, "ferme?")
    /\ UNCHANGED <<pendants, fds, events_lock, event_handler_active, dorment, transferts, rappels, locaux, peripheriques>>

(* libusb_event_handler_active, then libusb_wait_for_event or another try. *)
Occupe(a) ==
    /\ pc[a] \in {"ferme?", "actif?"}
    /\ LET dort == IF pc[a] = "ferme?" THEN device_close > 0 ELSE event_handler_active
           encore == pc[a] = "ferme?" /\ ~dort
       IN  /\ event_waiters_lock' = IF encore THEN a ELSE Personne
           /\ dorment' = IF dort THEN dorment \cup {a} ELSE dorment
           /\ Va(a, IF encore THEN "actif?" ELSE IF dort THEN "dort" ELSE "essaie")
    /\ UNCHANGED <<pendants, fds, events_lock, event_handler_active, transferts, rappels, locaux, peripheriques>>

Reveil(a) ==
    /\ pc[a] = "reveil" /\ event_waiters_lock = Personne
    /\ Va(a, "boucle")
    /\ UNCHANGED <<pendants, fds, verrous, transferts, rappels, locaux, peripheriques>>

(* A timeout of poll or of the condition. *)
Expire(a) ==
    /\ pc[a] \in {"poll", "dort"} /\ delais < MaxDelais
    /\ delais' = delais + 1
    /\ Va(a, IF pc[a] = "poll" THEN "libere" ELSE "reveil")
    /\ dorment' = dorment \ {a}
    /\ UNCHANGED <<pendants, fds, events_lock, event_handler_active, event_waiters_lock, transferts, rappels, evts, message, liste, objet, peripheriques>>

-----------------------------------------------------------------------------
(* A device that has gone, for the event thread (its handle is in error),  *)
(* for a client (it cannot be opened) or for the monitor.                  *)
Perdu(f) ==
    LET d == objet[f] IN
    /\ pc[f] = "perdu" /\ linux_hotplug_lock = Personne
    /\ IF d \in usb_devs
       THEN linux_device_disconnected(f, d) /\ Va(f, "depart")
       ELSE UNCHANGED peripheriques /\ Va(f, "apres")
    /\ UNCHANGED <<pendants, fds, verrous, transferts, rappels, locaux>>

AnnonceDepart(f) ==
    /\ pc[f] = "depart"
    /\ usbi_hotplug_notification("LEFT", objet[f])
    /\ Va(f, "rendre")
    /\ UNCHANGED <<fds, verrous, transferts, rappels, locaux, peripheriques>>

Rendre(f) ==
    /\ pc[f] = "rendre"
    /\ FinDisconnected(f, objet[f])
    /\ Va(f, "apres")
    /\ UNCHANGED <<pendants, fds, verrous, transferts, rappels, locaux>>

Apres(f) ==
    /\ pc[f] = "apres"
    /\ Va(f, CASE f \in A -> "backend" [] f \in C -> "echec" [] OTHER -> "surveille")
    /\ UNCHANGED <<pendants, fds, verrous, transferts, rappels, locaux, peripheriques>>

(* The hotplug monitor: what comes is announced, what has gone is lost. *)
Arrivee(d) ==
    /\ pc[Moniteur] = "surveille"
    /\ branche[d] # "avant" /\ refcnt[d] = 0 /\ d \notin detruits
    /\ linux_enumerate_device(Moniteur, d)
    /\ objet' = [objet EXCEPT ![Moniteur] = d]
    /\ Va(Moniteur, IF d \in usb_devs' THEN "arrive" ELSE "surveille")
    /\ UNCHANGED <<pendants, fds, verrous, transferts, rappels, evts, message, liste, delais>>

AnnonceArrivee ==
    /\ pc[Moniteur] = "arrive"
    /\ usbi_hotplug_notification("ARRIVED", objet[Moniteur])
    /\ linux_hotplug_lock' = Personne
    /\ Va(Moniteur, "surveille")
    /\ UNCHANGED <<fds, verrous, transferts, rappels, locaux, branche, usb_devs, attached, refcnt, detruits>>

Perte(d) ==
    /\ pc[Moniteur] = "surveille"
    /\ branche[d] = "parti" /\ d \in usb_devs
    /\ objet' = [objet EXCEPT ![Moniteur] = d]
    /\ Va(Moniteur, "perdu")
    /\ UNCHANGED <<pendants, fds, verrous, transferts, rappels, evts, message, liste, delais, peripheriques>>

-----------------------------------------------------------------------------
(* A client: libusb_open_device_with_vid_pid, then libusb_close. *)
libusb_get_device_list(f) ==
    /\ liste' = [liste EXCEPT ![f] = usb_devs]
    /\ libusb_ref_device(usb_devs)
    /\ UNCHANGED <<branche, usb_devs, attached, detruits, linux_hotplug_lock>>

Cherche(c) ==
    /\ pc[c] = "liste"
    /\ libusb_get_device_list(c)
    /\ IF usb_devs = {} THEN Va(c, "fin") /\ UNCHANGED objet
       ELSE \E d \in usb_devs : objet' = [objet EXCEPT ![c] = d] /\ Va(c, "ouvre")
    /\ UNCHANGED <<pendants, fds, verrous, transferts, rappels, evts, message, delais>>

libusb_open(c) ==
    /\ pc[c] = "ouvre"
    /\ IF attached[objet[c]] THEN libusb_ref_device({objet[c]}) /\ Va(c, "op_open")
       ELSE UNCHANGED refcnt /\ Va(c, "sansliste")
    /\ UNCHANGED <<pendants, fds, verrous, transferts, rappels, locaux,
                   branche, usb_devs, attached, detruits, linux_hotplug_lock>>

op_open(c) ==
    /\ pc[c] = "op_open"
    /\ \/ branche[objet[c]] = "la" /\ ouverts' = ouverts \cup {c} /\ Va(c, "ajoute")
       \/ branche[objet[c]] = "parti" /\ Va(c, "perdu") /\ UNCHANGED ouverts
       \/ Va(c, "echec") /\ UNCHANGED ouverts
    /\ UNCHANGED <<pendants, ipollfds, pollfds, open_devs, verrous, transferts, rappels, locaux, peripheriques>>

usbi_add_pollfd(c) ==
    /\ pc[c] = "ajoute"
    /\ usbi_pollfd(ipollfds \cup {c})
    /\ Va(c, "inscrit")
    /\ UNCHANGED <<open_devs, verrous, transferts, rappels, locaux, peripheriques>>

(* The backend keeps open_devs_lock while it handles events. *)
Inscrit(c) ==
    /\ pc[c] = "inscrit"
    /\ \A a \in A : pc[a] \notin {"backend", "perdu", "depart", "rendre", "apres"}
    /\ open_devs' = open_devs \cup {c}
    /\ Va(c, "sansliste")
    /\ UNCHANGED <<pendants, ipollfds, pollfds, ouverts, verrous, transferts, rappels, locaux, peripheriques>>

Echec(c) ==
    /\ pc[c] = "echec"
    /\ libusb_unref_device({objet[c]})
    /\ Va(c, "sansliste")
    /\ UNCHANGED <<pendants, fds, verrous, transferts, rappels, locaux, branche, usb_devs, attached, linux_hotplug_lock>>

libusb_free_device_list(f) ==
    /\ libusb_unref_device(liste[f])
    /\ liste' = [liste EXCEPT ![f] = {}]
    /\ UNCHANGED <<branche, usb_devs, attached, linux_hotplug_lock>>

SansListe(c) ==
    /\ pc[c] = "sansliste"
    /\ libusb_free_device_list(c)
    /\ Va(c, IF c \in open_devs THEN "utilise" ELSE "fin")
    /\ UNCHANGED <<pendants, fds, verrous, transferts, rappels, evts, message, objet, delais>>

(* libusb_close: the event thread is interrupted, events_lock taken, and   *)
(* taken again by do_close.                                                *)
libusb_close(c) ==
    /\ pc[c] = "utilise"
    /\ usbi_signal_event
    /\ device_close' = device_close + 1
    /\ Va(c, "verrou")
    /\ UNCHANGED <<pollfds_modified, hotplug_msgs, fds, verrous, transferts, rappels, locaux, peripheriques>>

do_close(c) ==
    /\ pc[c] = "verrou" /\ events_lock.fois = 0
    /\ events_lock' = [fil |-> c, fois |-> 2]
    /\ event_handler_active' = TRUE
    /\ Va(c, "libere")
    /\ UNCHANGED <<pendants, fds, event_waiters_lock, dorment, transferts, rappels, locaux, peripheriques>>

Desinscrit(c) ==
    /\ pc[c] = "desinscrit"
    /\ open_devs' = open_devs \ {c}
    /\ Va(c, "op_close")
    /\ UNCHANGED <<pendants, ipollfds, pollfds, ouverts, verrous, transferts, rappels, locaux, peripheriques>>

op_close(c) ==
    /\ pc[c] = "op_close"
    /\ usbi_pollfd(ipollfds \ {c})
    /\ Va(c, "close")
    /\ UNCHANGED <<open_devs, verrous, transferts, rappels, locaux, peripheriques>>

Close(c) ==
    /\ pc[c] = "close"
    /\ ouverts' = ouverts \ {c}
    /\ libusb_unref_device({objet[c]})
    /\ Va(c, "decompte")
    /\ UNCHANGED <<pendants, ipollfds, pollfds, open_devs, verrous, transferts, rappels, locaux,
                   branche, usb_devs, attached, linux_hotplug_lock>>

FinClose(c) ==
    /\ pc[c] = "decompte"
    /\ device_close' = device_close - 1
    /\ usbi_clear_event(device_close - 1, pollfds_modified, hotplug_msgs)
    /\ Va(c, "libere")
    /\ UNCHANGED <<pollfds_modified, hotplug_msgs, fds, verrous, transferts, rappels, locaux, peripheriques>>

-----------------------------------------------------------------------------
(* The registration of a callback, in the order given above. *)
Suite(r) ==
    LET i == CHOOSE j \in DOMAIN OrdreInscription : OrdreInscription[j] = pc[r]
    IN  Va(r, IF i = Len(OrdreInscription) THEN "fin" ELSE OrdreInscription[i + 1])

Enregistre(r) ==
    /\ pc[r] = "enregistre"
    /\ hotplug_cbs' = hotplug_cbs \cup {r}
    /\ Suite(r)
    /\ UNCHANGED <<pendants, fds, verrous, transferts, annonces, locaux, peripheriques>>

Enumere(r) ==
    /\ pc[r] = "enumere"
    /\ libusb_get_device_list(r)
    /\ Suite(r)
    /\ UNCHANGED <<pendants, fds, verrous, transferts, rappels, evts, message, objet, delais>>

Rappelle(r) ==
    /\ pc[r] = "rappelle"
    /\ annonces' = [annonces EXCEPT ![r] = @ \cup liste[r]]
    /\ Suite(r)
    /\ UNCHANGED <<pendants, fds, verrous, transferts, hotplug_cbs, locaux, peripheriques>>

FinEnumere(r) ==
    /\ pc[r] = "sansliste"
    /\ libusb_free_device_list(r)
    /\ Suite(r)
    /\ UNCHANGED <<pendants, fds, verrous, transferts, rappels, evts, message, objet, delais>>

-----------------------------------------------------------------------------
Attente(a) ==
    \/ Boucle(a) \/ Essaie(a) \/ Tente(a) \/ Active(a) \/ Verifie(a)
    \/ Prepare(a) \/ Poll(a) \/ Repoll(a) \/ Tube(a) \/ Message(a)
    \/ Reap(a) \/ (\E c \in C : PollErr(a, c)) \/ FinBackend(a)
    \/ Attend(a) \/ Occupe(a) \/ Reveil(a)

Client(c) ==
    \/ Cherche(c) \/ libusb_open(c) \/ op_open(c) \/ usbi_add_pollfd(c) \/ Inscrit(c)
    \/ Echec(c) \/ SansListe(c)
    \/ do_close(c) \/ Desinscrit(c) \/ op_close(c) \/ Close(c) \/ FinClose(c)

Inscription(r) == Enregistre(r) \/ Enumere(r) \/ Rappelle(r) \/ FinEnumere(r)

Surveillance == (\E d \in D : Arrivee(d) \/ Perte(d)) \/ AnnonceArrivee

Commun(f) == Libere(f) \/ Rend(f) \/ Diffuse(f) \/ Perdu(f) \/ AnnonceDepart(f) \/ Rendre(f) \/ Apres(f)

Fil(f) ==
    \/ f \in A /\ Attente(f)
    \/ f \in C /\ Client(f)
    \/ f \in R /\ Inscription(f)
    \/ f = Moniteur /\ Surveillance
    \/ Commun(f)

(* The kernel finishes a transfer; a device is plugged or unplugged. *)
Finit(a) ==
    /\ pc[a] # "fin" /\ a \notin pret \cup completed
    /\ pret' = pret \cup {a}
    /\ UNCHANGED <<pc, pendants, fds, verrous, completed, rappels, locaux, peripheriques>>

Prise ==
    /\ pc[Moniteur] # "fin"
    /\ \E d \in D : Branche(d) \/ Debranche(d)
    /\ UNCHANGED <<pc, pendants, fds, verrous, transferts, rappels, locaux>>

Next ==
    \/ \E f \in Fils : Fil(f)
    \/ \E c \in C : libusb_close(c)
    \/ \E a \in A : Expire(a) \/ Finit(a)
    \/ Prise

Spec == Init /\ [][Next]_vars

(* Every thread that can go on does.  Transfers need not end, timeouts     *)
(* pass, handles be closed or devices be unplugged.                        *)
FairSpec == Spec /\ \A f \in Fils : WF_vars(Fil(f))

-----------------------------------------------------------------------------
(* The pipe can be read exactly when an event is pending: no event waits   *)
(* for a thread that sleeps, and no thread blocks on an empty pipe.        *)
TubeFidele == tube = IF Pendant THEN 1 ELSE 0

(* The descriptors that are being polled are open: a handle is closed only *)
(* when no thread polls its descriptor.                                    *)
PollValide == \A a \in A : pc[a] \in {"poll", "tube", "message", "backend", "repoll"} => pollfds \subseteq ouverts

(* Both: what a thread polls exists, and the pipe tells it what it must do. *)
TubeEtPoll == TubeFidele /\ PollValide

(* Whoever has a device object has one that has not been freed. *)
PeripheriqueVivant ==
    \A d \in detruits :
        /\ d \notin usb_devs
        /\ \A i \in DOMAIN hotplug_msgs : hotplug_msgs[i].device # d
        /\ \A a \in A : pc[a] = "message" => message[a].device # d
        /\ \A f \in C \cup R : d \notin liste[f]
        /\ \A c \in ouverts : objet[c] # d
        /\ \A f \in Fils : pc[f] \in {"depart", "rendre", "op_open", "echec"} => objet[f] # d

(* A callback registered with ENUMERATE misses no device, whenever it was  *)
(* plugged in: it has been told, or a message is on the way.               *)
ArriveeAnnoncee ==
    \A r \in R : pc[r] = "fin" /\ r \in hotplug_cbs =>
        \A d \in usb_devs :
            \/ d \in annonces[r]
            \/ pc[Moniteur] = "arrive" /\ objet[Moniteur] = d
            \/ \E m \in {hotplug_msgs[i] : i \in DOMAIN hotplug_msgs} \cup {message[a] : a \in {b \in A : pc[b] = "message"}} :
                   m = [event |-> "ARRIVED", device |-> d]

(* A transfer that the kernel has finished is noticed by the thread that   *)
(* waits for it, whoever handles the event.                                *)
AttenteFinie == \A a \in A : a \in pret ~> pc[a] = "fin"

(* A close comes to an end, however busy the threads that handle events.   *)
FermetureFinie == \A c \in C : pc[c] = "verrou" ~> pc[c] = "fin"

=============================================================================
