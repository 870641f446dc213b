-------------------------------- MODULE Openbsd --------------------------------
(***************************************************************************)
(* libusb on OpenBSD.  A device that has another driver than ugen is       *)
(* listed too, and reached through the node of its bus, which is opened    *)
(* for each request and closed after it.                                   *)
(***************************************************************************)
EXTENDS Ugen

(* obsd_get_device_list.  What may become of a device: it is not there, or *)
(* fails one of the steps for a new object, and is left out; or there is   *)
(* no memory for it, and the whole call fails.  A configuration for which  *)
(* there is no memory leaves the bus open a second time.                   *)
Issues == {"absent", "echec", "cdesc", "alloc", "oui"}

Nouveau(p) == [fd |-> -1, devname |-> p \in Attaches, cdesc |-> conf[p]]
Decouvert(o, p) == o[p] # "absent" /\ (objet[p] # Rien \/ o[p] = "oui")
Manque(o) == \E p \in P : objet[p] = Rien /\ o[p] = "alloc"
Present(o) == \E p \in P : o[p] # "absent"
Neufs(o) == \E p \in P : objet[p] = Rien /\ o[p] \in {"oui", "cdesc"}
Perd(o) == \E p \in P : objet[p] = Rien /\ o[p] = "cdesc"

obsd_get_device_list ==
    /\ liste = Rien
    /\ \E o \in [P -> Issues] :
        /\ Present(o) => Ouvrable
        /\ Neufs(o) => Cardinality(Libres) > 1
        /\ Perd(o) => perdus = {}
        /\ LET trouves == IF Manque(o) THEN <<>> ELSE SelectSeq(Scan, LAMBDA p : Decouvert(o, p)) IN
            /\ liste' = IF Manque(o) THEN Rien ELSE trouves
            /\ objet' = [p \in P |-> IF objet[p] = Rien /\ p \in ToSet(trouves) THEN Nouveau(p) ELSE objet[p]]
            /\ perime' = {p \in perime : objet[p] # Rien}
        /\ IF Perd(o)
           THEN perdus' = {Second} /\ noeud' = [noeud EXCEPT ![Second] = Bus]
           ELSE UNCHANGED fichiers
    /\ UNCHANGED <<conf, prises, transferts, egare>>

(* obsd_open opens the node of a device that has ugen. *)
obsd_open(p) ==
    /\ Fermee(p)
    /\ IF objet[p].devname THEN Ouvrable /\ libusb_open(p, Bas) ELSE libusb_open(p, -1)

obsd_close(p) == libusb_close(p, IF objet[p].devname THEN {objet[p].fd} ELSE {})

(* _bus_open, when it succeeds. *)
_bus_open == Ouvrable

(* obsd_get_config_descriptor, and obsd_clear_halt on an open device. *)
obsd_get_config_descriptor(p) == objet[p] # Rien /\ _bus_open /\ Requete(p, Bus)
obsd_clear_halt(p) == poignee[p] /\ _bus_open /\ Requete(p, Bus)

(* obsd_get_active_config_descriptor and obsd_get_configuration answer     *)
(* from the cache that _cache_active_config_descriptor fills: they change  *)
(* nothing.  Without memory for it the node of the bus stays open.         *)
CacheGarde(p) == objet[p].cdesc   \* variant: the old configuration is kept
_cache_active_config_descriptor(p) == conf'[p]

obsd_set_configuration(p, c) ==
    /\ poignee[p] /\ objet[p].devname /\ EnVol(p) = {} /\ claimed[p] = {}
    /\ Demande(p, noeud[objet[p].fd])
    /\ conf' = [conf EXCEPT ![p] = c]
    /\ \/ /\ _bus_open
          /\ objet' = [objet EXCEPT ![p].cdesc = _cache_active_config_descriptor(p)] /\ perime' = perime \ {p}
          /\ UNCHANGED fichiers
       \/ perime' = perime \cup {p} /\ UNCHANGED <<objet, fichiers>>
       \/ /\ _bus_open /\ perdus = {} /\ perdus' = {Bas} /\ noeud' = Ouvre(Bus)
          /\ perime' = perime \cup {p} /\ UNCHANGED objet
    /\ UNCHANGED <<liste, prises, transferts>>

(* The descriptors of the endpoints: forgotten by a claim, closed, but not *)
(* forgotten, by a release.                                                *)
obsd_claim_interface(p, i) == Reclame(p, i, [e \in E |-> -1])

FermeRien(p) == {}   \* variant: nothing is closed
ReleaseObsd(p) == Fermes(p)
obsd_release_interface(p, i) == Relache(p, i, ReleaseObsd(p))

obsd_set_interface_altsetting(p, i) ==
    /\ poignee[p] /\ objet[p].devname /\ i \in claimed[p]
    /\ Requete(p, noeud[objet[p].fd])

(* _sync_control_transfer: by the node of the device or that of the bus. *)
_sync_control_transfer(t) ==
    LET o == objet[De[t].p] IN
    /\ De[t].type = "controle"
    /\ IF o.devname
       THEN Soumet(t, o.fd, noeud[o.fd]) /\ UNCHANGED fichiers
       ELSE _bus_open /\ Soumet(t, Bas, Bus) /\ noeud' = Ouvre(Bus) /\ UNCHANGED perdus
    /\ UNCHANGED endpoints

(* _sync_gen_transfer: _access_endpoint opens the node of the endpoint the *)
(* first time.                                                             *)
_access_endpoint(p, e) ==
    IF endpoints[p][e] >= 0
    THEN UNCHANGED <<fichiers, endpoints>>
    ELSE /\ Ouvrable
         /\ noeud' = Ouvre(Noeud(p, e))
         /\ endpoints' = [endpoints EXCEPT ![p][e] = Bas] /\ UNCHANGED perdus

_sync_gen_transfer(t) ==
    LET p == De[t].p
        e == De[t].ep
    IN  /\ De[t].type # "controle" /\ objet[p].devname
        /\ _access_endpoint(p, e)
        /\ Soumet(t, endpoints'[p][e], noeud'[endpoints'[p][e]])

obsd_submit_transfer(t) ==
    /\ Soumissible(t)
    /\ _sync_control_transfer(t) \/ _sync_gen_transfer(t)
    /\ UNCHANGED <<conf, objets, poignee, claimed, egare>>

(* The kernel is done: the node of the bus is closed. *)
FinSoumission(t) == Repond(t, IF sur[t].noeud = Bus THEN {sur[t].fd} ELSE {})

Next ==
    \/ obsd_get_device_list \/ libusb_free_device_list \/ handle_transfer_completion
    \/ \E p \in P :
        \/ obsd_open(p) \/ obsd_close(p) \/ obsd_get_config_descriptor(p) \/ obsd_clear_halt(p)
        \/ \E c \in 1..NC : obsd_set_configuration(p, c)
        \/ \E i \in I :
            \/ obsd_claim_interface(p, i) \/ obsd_release_interface(p, i)
            \/ obsd_set_interface_altsetting(p, i)
    \/ \E t \in T : obsd_submit_transfer(t) \/ FinSoumission(t)

Spec == Init /\ [][Next]_vars
=============================================================================
