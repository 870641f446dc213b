--------------------------------- MODULE Netbsd ---------------------------------
(***************************************************************************)
(* libusb on NetBSD, where only the devices that have ugen are listed.     *)
(* They are found by opening the nodes of all of them, and the object      *)
(* keeps the name of the node.                                             *)
(***************************************************************************)
EXTENDS Ugen

(* netbsd_get_device_list.  What may become of a node: it does not open;   *)
(* it opens but does not say what it is, and stays open; there is no memory *)
(* for a new object, and it stays open too, or a later step for it fails,   *)
(* and so does the whole call, which then has listed nothing.               *)
Issues == {"absent", "muet", "memoire", "echec", "oui"}

Nouveau(p) == [fd |-> -1, devname |-> TRUE, cdesc |-> conf[p]]
Trouve(o, p) == p \in Attaches /\ o[p] \in {"memoire", "echec", "oui"}
Echoue(o) == \E p \in Attaches : objet[p] = Rien /\ o[p] \in {"memoire", "echec"}
Laisses(o) == {p \in Attaches : o[p] = "muet" \/ (o[p] = "memoire" /\ objet[p] = Rien)}

netbsd_get_device_list ==
    /\ liste = Rien
    /\ \E o \in [P -> Issues] :
        /\ (\E p \in Attaches : o[p] # "absent") => Ouvrable
        /\ Laisses(o) # {} => perdus = {} /\ Cardinality(Laisses(o)) = 1 /\ Cardinality(Libres) > 1
        /\ LET trouves == IF Echoue(o) THEN <<>> ELSE SelectSeq(Scan, LAMBDA p : Trouve(o, p)) IN
            /\ liste' = IF Echoue(o) THEN Rien ELSE trouves
            /\ objet' = [p \in P |-> IF objet[p] = Rien /\ p \in ToSet(trouves) THEN Nouveau(p) ELSE objet[p]]
            /\ perime' = {p \in perime : objet[p] # Rien}
        /\ IF Laisses(o) # {}
           THEN perdus' = {Bas} /\ noeud' = Ouvre(Perdu)
           ELSE UNCHANGED fichiers
    /\ UNCHANGED <<conf, prises, transferts, egare>>

netbsd_open(p) == Fermee(p) /\ Ouvrable /\ libusb_open(p, Bas)
netbsd_close(p) == libusb_close(p, {objet[p].fd})

(* netbsd_get_config_descriptor opens the node of a device that is not     *)
(* open, and closes it again.                                              *)
netbsd_get_config_descriptor(p) ==
    /\ objet[p] # Rien
    /\ IF objet[p].fd >= 0
       THEN Requete(p, noeud[objet[p].fd])
       ELSE Ouvrable /\ Requete(p, Noeud(p, 0))

netbsd_get_configuration(p) == poignee[p] /\ Requete(p, noeud[objet[p].fd])
netbsd_clear_halt(p) == poignee[p] /\ Requete(p, noeud[objet[p].fd])

(* netbsd_get_active_config_descriptor answers from the cache. *)
CacheGarde(p) == objet[p].cdesc   \* variant: the old configuration is kept
_cache_active_config_descriptor(p) == conf'[p]

netbsd_set_configuration(p, c) ==
    /\ poignee[p] /\ EnVol(p) = {} /\ claimed[p] = {}
    /\ Demande(p, noeud[objet[p].fd])
    /\ conf' = [conf EXCEPT ![p] = c]
    /\ \/ objet' = [objet EXCEPT ![p].cdesc = _cache_active_config_descriptor(p)] /\ perime' = perime \ {p}
       \/ perime' = perime \cup {p} /\ UNCHANGED objet
    /\ UNCHANGED <<fichiers, liste, prises, transferts>>

(* The descriptors of the endpoints: forgotten by a claim, closed, but not *)
(* forgotten, by a release.                                                *)
TableGardee(p) == endpoints[p]   \* variant: what was there is kept
TableVide(p) == [e \in E |-> -1]
netbsd_claim_interface(p, i) == Reclame(p, i, TableVide(p))
netbsd_release_interface(p, i) == Relache(p, i, Fermes(p))

netbsd_set_interface_altsetting(p, i) ==
    poignee[p] /\ i \in claimed[p] /\ Requete(p, noeud[objet[p].fd])

_sync_control_transfer(t) ==
    LET d == objet[De[t].p].fd IN
    De[t].type = "controle" /\ Soumet(t, d, noeud[d]) /\ UNCHANGED <<fichiers, endpoints>>

(* _sync_gen_transfer: _access_endpoint opens the node of the endpoint,    *)
(* whose name is made from that of the control node, the first time.       *)
_access_endpoint(p, e) ==
    IF endpoints[p][e] >= 0
    THEN UNCHANGED <<fichiers, endpoints>>
    ELSE /\ Ouvrable
         /\ noeud' = Ouvre(Noeud(p, e))
         /\ endpoints' = [endpoints EXCEPT ![p][e] = Bas] /\ UNCHANGED perdus

_sync_gen_transfer(t) ==
    LET p == De[t].p
        e == De[t].ep
    IN  /\ De[t].type # "controle"
        /\ _access_endpoint(p, e)
        /\ Soumet(t, endpoints'[p][e], noeud'[endpoints'[p][e]])

netbsd_submit_transfer(t) ==
    /\ Soumissible(t)
    /\ _sync_control_transfer(t) \/ _sync_gen_transfer(t)
    /\ UNCHANGED <<conf, objets, poignee, claimed, egare>>

FinSoumission(t) == Repond(t, {})

Next ==
    \/ netbsd_get_device_list \/ libusb_free_device_list \/ handle_transfer_completion
    \/ \E p \in P :
        \/ netbsd_open(p) \/ netbsd_close(p) \/ netbsd_get_config_descriptor(p)
        \/ netbsd_get_configuration(p) \/ netbsd_clear_halt(p)
        \/ \E c \in 1..NC : netbsd_set_configuration(p, c)
        \/ \E i \in I :
            \/ netbsd_claim_interface(p, i) \/ netbsd_release_interface(p, i)
            \/ netbsd_set_interface_altsetting(p, i)
    \/ \E t \in T : netbsd_submit_transfer(t) \/ FinSoumission(t)

Spec == Init /\ [][Next]_vars

(* The node of the bus serves nothing here: every object has the name of   *)
(* its node, and no transfer is in the kernel by the bus.                  *)
SansBus ==
    /\ \A p \in P : objet[p] # Rien => objet[p].devname
    /\ \A t \in T : etat[t] = "noyau" => sur[t].noeud # Bus
=============================================================================
