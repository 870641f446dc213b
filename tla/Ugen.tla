---------------------------------- MODULE Ugen ----------------------------------
(***************************************************************************)
(* What the backends of OpenBSD and of NetBSD have in common: the ugen(4)  *)
(* driver gives each endpoint of a device a node, 0 for the control one,   *)
(* and libusb opens these nodes when it needs them.  Transfers are         *)
(* synchronous: libusb_submit_transfer comes back when the kernel is done, *)
(* and the callback still runs later, from the events.                     *)
(*                                                                         *)
(* The application opens a device once at a time, claims one interface at  *)
(* a time, submits to an endpoint from one thread at a time, and releases  *)
(* and closes what has nothing in flight.                                  *)
(***************************************************************************)
EXTENDS Integers, Sequences, FiniteSets, SequencesExt, FiniteSetsExt

CONSTANTS
    Scan,        \* the places of devices, in the order they are looked at
    Attaches,    \* those whose device has ugen as its driver
    E, NI,       \* endpoints other than 0; the interfaces are 0..(NI - 1)
    T, De,       \* transfers: device, endpoint, type, direction, flag
    NC,          \* configurations
    NFd,         \* file descriptors of the process, the first of which is its standard input
    Rien

P == ToSet(Scan)
I == 0..(NI - 1)
Fd == 0..(NFd - 1)

(* The nodes that libusb opens, and an object of a device. *)
Noeud(p, e) == <<"ugen", p, e>>
Bus == <<"usb">>
Perdu == <<"perdu">>
Noeuds == {Noeud(p, e) : p \in P, e \in E \cup {0}} \cup {Bus, Perdu}
Objets == [fd : Fd \cup {-1}, devname : BOOLEAN, cdesc : 1..NC]

(* What the constants must satisfy. *)
Hypotheses ==
    /\ IsInjective(Scan) /\ Attaches \subseteq P /\ E \subseteq Nat \ {0}
    /\ NI \in Nat \ {0} /\ NC \in Nat \ {0} /\ NFd \in Nat \ {0, 1}
    /\ \A t \in T : De[t].p \in P /\ De[t].ep \in E \cup {0}
    /\ \A t \in T : (De[t].ep = 0) <=> (De[t].type = "controle")
    /\ Rien \notin Objets \cup Noeuds \cup {<<"entree">>}

VARIABLES
    noeud, perdus,          \* the node of each descriptor; those that nobody will ever close
    conf,                   \* the kernel's: the active configurations
    objet, perime,          \* the device objects; those whose active configuration was not read again
    liste, poignee,         \* what the application has: a list, open devices
    claimed, endpoints,     \* of each handle: its interfaces, the descriptors of its endpoints
    etat, sur,              \* of each transfer: its step, the descriptor and node it is on
    completed_transfers,
    egare                   \* a request has gone to another node than that of its device

fichiers == <<noeud, perdus>>
objets == <<objet, perime, liste>>
prises == <<poignee, claimed, endpoints>>
transferts == <<etat, sur, completed_transfers>>
vars == <<fichiers, conf, objets, prises, transferts, egare>>

Aucun == [fd |-> -1, noeud |-> Rien]

Init ==
    /\ noeud = [d \in Fd |-> IF d = 0 THEN <<"entree">> ELSE Rien] /\ perdus = {}
    /\ conf = [p \in P |-> 1]
    /\ objet = [p \in P |-> Rien] /\ perime = {} /\ liste = Rien
    /\ poignee = [p \in P |-> FALSE] /\ claimed = [p \in P |-> {}] /\ endpoints = [p \in P |-> [e \in E |-> 0]]
    /\ etat = [t \in T |-> "libre"] /\ sur = [t \in T |-> Aucun] /\ completed_transfers = <<>>
    /\ egare = FALSE

-----------------------------------------------------------------------------
(* The descriptors of the process: open() takes the lowest one. *)
Libres == {d \in Fd : noeud[d] = Rien}
Ouvrable == Libres # {}
Bas == Min(Libres)
Ouvre(n) == [noeud EXCEPT ![Bas] = n]
Sans(S) == [d \in Fd |-> IF d \in S THEN Rien ELSE noeud[d]]

(* A call that holds one descriptor already leaves a second one open. *)
Second == Min(Libres \ {Bas})

(* libusb_free_device_list and libusb_unref_device: the objects that are   *)
(* neither in the list nor open are destroyed.                             *)
Vivants(o, l, h) == [p \in P |-> IF h[p] \/ (l # Rien /\ p \in ToSet(l)) THEN o[p] ELSE Rien]

libusb_free_device_list ==
    /\ liste # Rien
    /\ liste' = Rien
    /\ objet' = Vivants(objet, Rien, poignee)
    /\ UNCHANGED <<fichiers, conf, perime, prises, transferts, egare>>

(* libusb_open clears the handle; the backend has opened the node, d, of   *)
(* the device, or nothing.                                                 *)
libusb_open(p, d) ==
    /\ poignee' = [poignee EXCEPT ![p] = TRUE]
    /\ endpoints' = [endpoints EXCEPT ![p] = [e \in E |-> 0]]
    /\ objet' = [objet EXCEPT ![p].fd = d]
    /\ noeud' = IF d < 0 THEN noeud ELSE [noeud EXCEPT ![d] = Noeud(p, 0)]
    /\ UNCHANGED <<perdus, conf, perime, liste, claimed, transferts, egare>>

Fermee(p) == liste # Rien /\ p \in ToSet(liste) /\ ~poignee[p]
EnVol(p) == {t \in T : De[t].p = p /\ etat[t] \in {"noyau", "signale"}}

(* libusb_close, when the interface has been released. *)
libusb_close(p, S) ==
    /\ poignee[p] /\ claimed[p] = {} /\ EnVol(p) = {}
    /\ poignee' = [poignee EXCEPT ![p] = FALSE]
    /\ noeud' = Sans(S)
    /\ objet' = Vivants([objet EXCEPT ![p].fd = IF S = {} THEN @ ELSE -1], liste, poignee')
    /\ UNCHANGED <<perdus, conf, perime, liste, claimed, endpoints, transferts, egare>>

(* What a claim and a release do to the descriptors of a handle. *)
Fermes(p) == {endpoints[p][e] : e \in {x \in E : endpoints[p][x] >= 0}}

Reclame(p, i, table) ==
    /\ poignee[p] /\ claimed[p] = {}
    /\ claimed' = [claimed EXCEPT ![p] = {i}]
    /\ endpoints' = [endpoints EXCEPT ![p] = table]
    /\ UNCHANGED <<fichiers, conf, objets, poignee, transferts, egare>>

Relache(p, i, S) ==
    /\ i \in claimed[p] /\ \A t \in EnVol(p) : De[t].ep = 0
    /\ claimed' = [claimed EXCEPT ![p] = {}]
    /\ noeud' = Sans(S)
    /\ UNCHANGED <<perdus, conf, objets, poignee, endpoints, transferts, egare>>

(* A request goes to a node. *)
Demande(p, n) == egare' = (egare \/ n \notin {Noeud(p, 0), Bus})
Requete(p, n) ==
    /\ Demande(p, n)
    /\ UNCHANGED <<fichiers, conf, objets, prises, transferts>>

-----------------------------------------------------------------------------
(* The transfers that no backend supports. *)
Refuse(t) ==
    \/ De[t].type = "flux"
    \/ De[t].type = "iso" /\ De[t].sens = "OUT"
    \/ De[t].type = "bulk" /\ De[t].sens = "OUT" /\ De[t].ADD_ZERO_PACKET

(* A thread is in the kernel with a transfer, on descriptor d. *)
Soumet(t, d, n) ==
    /\ etat' = [etat EXCEPT ![t] = "noyau"]
    /\ sur' = [sur EXCEPT ![t] = [fd |-> d, noeud |-> n]]
    /\ UNCHANGED completed_transfers

Soumissible(t) ==
    /\ etat[t] = "libre" /\ poignee[De[t].p] /\ ~Refuse(t)
    /\ De[t].ep # 0 => claimed[De[t].p] # {}
    /\ \A u \in EnVol(De[t].p) : etat[u] = "noyau" => De[u].ep # De[t].ep

(* The answer: usbi_signal_transfer_completion, or an error of the         *)
(* submission; S is what is closed.                                        *)
Repond(t, S) ==
    /\ etat[t] = "noyau"
    /\ \/ etat' = [etat EXCEPT ![t] = "signale"] /\ completed_transfers' = Append(completed_transfers, t)
       \/ etat' = [etat EXCEPT ![t] = "libre"] /\ UNCHANGED completed_transfers
    /\ sur' = [sur EXCEPT ![t] = Aucun]
    /\ noeud' = Sans(S)
    /\ UNCHANGED <<perdus, conf, objets, prises, egare>>

(* usbi_handle_transfer_completion, called by the events with COMPLETED.   *)
handle_transfer_completion ==
    /\ completed_transfers # <<>>
    /\ etat' = [etat EXCEPT ![Head(completed_transfers)] = "libre"]
    /\ completed_transfers' = Tail(completed_transfers)
    /\ UNCHANGED <<fichiers, conf, objets, prises, sur, egare>>

-----------------------------------------------------------------------------
(* libusb's descriptors are open on the nodes it takes them for, and every *)
(* open descriptor will be closed, but those that a failed enumeration has *)
(* lost.                                                                   *)
References ==
    {<<objet[p].fd, Noeud(p, 0)>> : p \in {q \in P : objet[q] # Rien /\ objet[q].fd >= 0}}
        \cup (UNION {{<<endpoints[p][e], Noeud(p, e)>> : e \in {x \in E : endpoints[p][x] >= 0}}
                        : p \in {q \in P : claimed[q] # {}}})
        \cup {<<sur[t].fd, sur[t].noeud>> : t \in {u \in T : etat[u] = "noyau"}}

FichiersJustes ==
    /\ \A r \in References : noeud[r[1]] = r[2]
    /\ {d \in Fd \ {0} : noeud[d] # Rien} = {r[1] : r \in References} \cup perdus
    /\ \A t \in T : etat[t] = "noyau" => sur[t].noeud \in {Noeud(De[t].p, De[t].ep), Bus}

(* A request reaches its device, and what libusb says of the active        *)
(* configuration is true unless it could not be read again.                *)
RequeteJuste == ~egare
ConfigurationJuste == \A p \in P : objet[p] # Rien /\ p \notin perime => objet[p].cdesc = conf[p]

-----------------------------------------------------------------------------
(* The inductive invariant.  A device that is open has an object, which    *)
(* alone has the descriptor of its node; an endpoint's descriptor counts   *)
(* while an interface is claimed.                                          *)
TypeUgen ==
    /\ noeud \in [Fd -> Noeuds \cup {<<"entree">>, Rien}] /\ noeud[0] = <<"entree">>
    /\ perdus \in SUBSET (Fd \ {0})
    /\ conf \in [P -> 1..NC] /\ objet \in [P -> Objets \cup {Rien}] /\ perime \in SUBSET P
    /\ poignee \in [P -> BOOLEAN] /\ claimed \in [P -> SUBSET I]
    /\ endpoints \in [P -> [E -> Fd \cup {-1}]]
    /\ etat \in [T -> {"libre", "noyau", "signale"}]
    /\ sur \in [T -> [fd : Fd \cup {-1}, noeud : Noeuds \cup {<<"entree">>, Rien}]]
    /\ completed_transfers \in Seq(T)

Ouvert(p, d) == objet[p] # Rien /\ objet[p].fd = d
Acces(p, e, d) == claimed[p] # {} /\ endpoints[p][e] = d
ParBus(t, d) == etat[t] = "noyau" /\ sur[t] = [fd |-> d, noeud |-> Bus]

Appareil(p) ==
    /\ poignee[p] => objet[p] # Rien
    /\ objet[p] # Rien => (objet[p].fd >= 0 <=> poignee[p] /\ objet[p].devname)
    /\ liste # Rien /\ p \in ToSet(liste) => objet[p] # Rien
    /\ claimed[p] # {} => poignee[p]

Transport(t) ==
    LET p == De[t].p
        e == De[t].ep
        d == sur[t].fd
    IN  etat[t] = "noyau" =>
        /\ d \in Fd \ {0} /\ poignee[p]
        /\ \/ ParBus(t, d) /\ e = 0
           \/ e = 0 /\ Ouvert(p, d) /\ sur[t].noeud = Noeud(p, 0)
           \/ e # 0 /\ Acces(p, e, d) /\ sur[t].noeud = Noeud(p, e)

(* A descriptor has the node of what holds it, and one that is open is     *)
(* held.                                                                   *)
Tenu(d) ==
    \/ d \in perdus
    \/ \E p \in P : Ouvert(p, d) \/ \E e \in E : Acces(p, e, d)
    \/ \E t \in T : ParBus(t, d)

Descripteur(d) ==
    /\ \A p \in P : Ouvert(p, d) => noeud[d] = Noeud(p, 0)
    /\ \A p \in P, e \in E : Acces(p, e, d) => noeud[d] = Noeud(p, e)
    /\ \A t \in T : ParBus(t, d) => noeud[d] = Bus /\ d \notin perdus
    /\ \A t, u \in T : ParBus(t, d) /\ ParBus(u, d) => t = u
    /\ d \in perdus => noeud[d] \in {Bus, Perdu}
    /\ noeud[d] # Rien => d = 0 \/ Tenu(d)

Signales ==
    /\ \A i \in DOMAIN completed_transfers : etat[completed_transfers[i]] = "signale"
    /\ \A i, j \in DOMAIN completed_transfers : completed_transfers[i] = completed_transfers[j] => i = j

Inductif ==
    /\ TypeUgen /\ Signales /\ RequeteJuste /\ ConfigurationJuste
    /\ \A d \in Fd : Descripteur(d)
    /\ \A p \in P : Appareil(p)
    /\ \A t \in T : Transport(t)
=============================================================================
