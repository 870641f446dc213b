----------------------------- MODULE WindowsListe -----------------------------
(***************************************************************************)
(* libusb on Windows: libusb_get_device_list.  There is no hotplug:  each  *)
(* call asks Windows for the controllers, the hubs, all devices, those     *)
(* with a driver, and the interfaces of composite devices, in passes, and  *)
(* builds the tree from what it has seen.  An object lives as long as it   *)
(* is referred to, and a later call finds it again by its session, which   *)
(* stands for the path of the device: a device that is plugged in again at *)
(* the same place has the same.                                            *)
(*                                                                         *)
(* One thread calls; devices come and go at any time.  Memory does not     *)
(* fail, and a device that is there can be read.                           *)
(***************************************************************************)
EXTENDS Integers, Sequences, FiniteSets, SequencesExt

CONSTANTS
    D,          \* places in the tree of Windows
    Genre,      \* of each: "HCD", "HUB", "DEV", or "MI", an interface of a composite device
    Ancetres,   \* of each: the places above it, the nearest first
    Port,       \* of each: the port of its hub
    Hid,        \* the interfaces that the HID pass finds
    Fixes,      \* the places that are never unplugged
    MaxPrises,  \* how often something is plugged or unplugged (bound of the model)
    MaxListes,  \* how often libusb_get_device_list is called (bound of the model)
    Rien

Pere(d) == IF Ancetres[d] = <<>> THEN Rien ELSE Head(Ancetres[d])
Sous(d) == {e \in D : e = d \/ d \in ToSet(Ancetres[e])}

(* What the constants must satisfy. *)
Hypotheses ==
    /\ Rien \notin D /\ MaxPrises \in Nat /\ MaxListes \in Nat /\ Hid \subseteq D
    /\ \A d \in D : /\ Genre[d] \in {"HCD", "HUB", "DEV", "MI"}
                    /\ Genre[d] = "HCD" <=> Ancetres[d] = <<>>
                    /\ Pere(d) # Rien => Tail(Ancetres[d]) = Ancetres[Pere(d)]
                    /\ Genre[d] = "HCD" => d \in Fixes
                    /\ d \in Fixes /\ Pere(d) # Rien => Pere(d) \in Fixes

VARIABLES
    branche,      \* of each place: when it was plugged in, 0 if it is empty
    prises, listes,
    usb_devs,     \* of each place: its object
    pass, a_voir, \* the pass, and what Windows has still to give in it
    courant,      \* GEN_PASS: the device looked at and its parent, <<>> for none
    guid,         \* interfaces whose class GEN_PASS has found
    unref_list, discdevs,
    tenus,        \* references of the program to each object
    a_rendre,     \* libusb_unref_device: what it has still to do
    stables,      \* places whose device has been there since the call began
    anciens,      \* objects that are older than the call
    orphelines,   \* of each object: references that nobody will give back
    faux          \* an object without a reference has been given back

systeme == <<branche, prises, stables>>
appel == <<pass, a_voir, courant, guid, unref_list, discdevs>>
suivi == <<anciens, orphelines, faux>>
vars == <<systeme, listes, usb_devs, appel, tenus, a_rendre, suivi>>

UINT8_MAX == 255
Presents == {d \in D : branche[d] > 0}
Absent == [refcnt |-> 0, bus |-> 0, depth |-> 0, hub |-> FALSE, pilote |-> FALSE, parent |-> Rien,
           lu |-> <<>>, interfaces |-> {}]
Vivants == {d \in D : usb_devs[d].refcnt > 0}

Init ==
    /\ \E B \in SUBSET D : /\ Fixes \subseteq B
                           /\ \A d \in B : ToSet(Ancetres[d]) \subseteq B
                           /\ \A d \in D : Genre[d] = "MI" /\ Pere(d) \in B => d \in B
                           /\ branche = [d \in D |-> IF d \in B THEN 1 ELSE 0]
    /\ prises = 0 /\ listes = 0
    /\ usb_devs = [d \in D |-> Absent]
    /\ pass = "repos" /\ a_voir = {} /\ courant = <<>> /\ guid = {} /\ unref_list = <<>> /\ discdevs = <<>>
    /\ tenus = [d \in D |-> 0] /\ a_rendre = <<>>
    /\ stables = {} /\ anciens = {} /\ orphelines = [d \in D |-> 0] /\ faux = FALSE

-----------------------------------------------------------------------------
(* Devices are plugged in one at a time, with their interfaces, and leave  *)
(* with all that is below them.                                            *)
Branche(d) ==
    LET avec == {d} \cup {m \in D : Pere(m) = d /\ Genre[m] = "MI"} IN
    /\ prises < MaxPrises /\ branche[d] = 0 /\ Genre[d] # "MI" /\ Pere(d) \in Presents
    /\ branche' = [e \in D |-> IF e \in avec THEN prises + 2 ELSE branche[e]]
    /\ prises' = prises + 1
    /\ UNCHANGED <<stables, listes, usb_devs, appel, tenus, a_rendre, suivi>>

Debranche(d) ==
    /\ prises < MaxPrises /\ branche[d] > 0 /\ Genre[d] # "MI" /\ d \notin Fixes
    /\ branche' = [e \in D |-> IF e \in Sous(d) THEN 0 ELSE branche[e]]
    /\ prises' = prises + 1 /\ stables' = stables \ Sous(d)
    /\ UNCHANGED <<listes, usb_devs, appel, tenus, a_rendre, suivi>>

-----------------------------------------------------------------------------
(* libusb_get_device_list begins, if nothing is being given back.          *)
libusb_get_device_list ==
    /\ pass = "repos" /\ listes < MaxListes
    /\ listes' = listes + 1
    /\ pass' = "HCD" /\ a_voir' = {d \in Presents : Genre[d] = "HCD"}
    /\ guid' = {} /\ unref_list' = <<>> /\ discdevs' = <<>>
    /\ stables' = Presents /\ anciens' = Vivants
    /\ UNCHANGED <<branche, prises, usb_devs, courant, tenus, a_rendre, orphelines, faux>>

(* usbi_get_device_by_session_id, or usbi_alloc_device and                 *)
(* windows_device_priv_init: one reference more, for unref_list.           *)
Obtient(d) == [usb_devs[d] EXCEPT !.refcnt = @ + 1]

(* Windows lists the controllers one after the other: their number is the  *)
(* bus.                                                                    *)
HCD_PASS(d) ==
    /\ pass = "HCD" /\ d \in a_voir
    /\ a_voir' = a_voir \ {d}
    /\ usb_devs' = [usb_devs EXCEPT ![d] =
           [Obtient(d) EXCEPT !.bus = 1 + Cardinality({e \in D : Genre[e] = "HCD"} \ a_voir),
                              !.lu = <<>>, !.hub = TRUE, !.pilote = TRUE, !.depth = UINT8_MAX]]
    /\ unref_list' = Append(unref_list, d)
    /\ UNCHANGED <<systeme, listes, pass, courant, guid, discdevs, tenus, a_rendre, suivi>>

(* A hub is set up once.                                                   *)
HUB_PASS(d) ==
    /\ pass = "HUB" /\ d \in a_voir
    /\ a_voir' = a_voir \ {d}
    /\ usb_devs' = [usb_devs EXCEPT ![d] = [Obtient(d) EXCEPT !.hub = TRUE, !.pilote = TRUE]]
    /\ unref_list' = Append(unref_list, d)
    /\ UNCHANGED <<systeme, listes, pass, courant, guid, discdevs, tenus, a_rendre, suivi>>

(* The nearest ancestor that has an object.  Windows forgets the ancestors *)
(* of a device that has left.                                              *)
Numerotes(d) ==   \* variant: an ancestor that has no bus yet is passed over
    IF d \in Presents THEN SelectSeq(Ancetres[d], LAMBDA e : e \in Vivants /\ usb_devs[e].bus # 0) ELSE <<>>
Connus(d) == IF d \in Presents THEN SelectSeq(Ancetres[d], LAMBDA e : e \in Vivants) ELSE <<>>

(* GEN_PASS: a device below a hub gets its object.  (Windows gives a       *)
(* device before its interfaces, whose class is noted.)                    *)
GEN_PASS(d) ==
    /\ pass = "GEN" /\ courant = <<>> /\ d \in a_voir
    /\ Genre[d] = "MI" => Pere(d) \notin a_voir
    /\ a_voir' = a_voir \ {d}
    /\ guid' = IF Genre[d] = "MI" THEN guid \cup {d} ELSE guid
    /\ IF Connus(d) # <<>> /\ usb_devs[Head(Connus(d))].hub
       THEN /\ usb_devs' = [usb_devs EXCEPT ![d] = Obtient(d), ![Head(Connus(d))].refcnt = @ + 1]
            /\ unref_list' = Append(unref_list, d)
            /\ courant' = <<d, Head(Connus(d))>>
       ELSE UNCHANGED <<usb_devs, unref_list, courant>>
    /\ UNCHANGED <<systeme, listes, pass, discdevs, tenus, a_rendre, suivi>>

(* init_device: the bus is that of the parent, or, while the parent has    *)
(* none yet, of an ancestor further up.  Without a bus the whole call      *)
(* fails, and the reference to the parent is lost.                         *)
Bus(d, p) ==
    LET plusHaut == SelectSeq(Tail(Connus(d)), LAMBDA e : usb_devs[e].bus # 0) IN
    IF usb_devs[p].bus # 0 THEN usb_devs[p].bus
    ELSE IF Connus(d) # <<>> /\ plusHaut # <<>> THEN usb_devs[Head(plusHaut)].bus ELSE 0

Profondeur(p) == (usb_devs[p].depth + 1) % (UINT8_MAX + 1)

(* The parent's port answers for whatever is plugged into it.              *)
AuPort(p, n) == {e \in Presents : Pere(e) = p /\ Genre[e] # "MI" /\ Port[e] = n}

PasDeBus ==
    /\ courant # <<>> /\ Bus(courant[1], courant[2]) = 0
    /\ orphelines' = [orphelines EXCEPT ![courant[2]] = @ + 1]
    /\ pass' = "rend" /\ a_rendre' = unref_list \o discdevs /\ courant' = <<>>
    /\ UNCHANGED <<systeme, listes, usb_devs, a_voir, guid, unref_list, discdevs, tenus, anciens, faux>>

(* The object refers to its parent.  (The reference to the parent that an  *)
(* earlier call has found is lost.)  A device that was read by an earlier  *)
(* call is not read again; one that has left is not listed, and if its     *)
(* hub has left too the whole call fails.                                  *)
EstHub(d) == usb_devs[d].hub
init_device ==
    /\ courant # <<>> /\ Bus(courant[1], courant[2]) # 0
    /\ LET d == courant[1]  p == courant[2]
           lie == [usb_devs EXCEPT ![p].bus = Bus(d, p), ![d].bus = Bus(d, p),
                                   ![d].parent = p, ![d].depth = Profondeur(p)]
           x == IF Profondeur(p) = 0 THEN {d} ELSE AuPort(p, Port[d])
       IN
       /\ orphelines' = IF usb_devs[d].parent = Rien THEN orphelines
                        ELSE [orphelines EXCEPT ![usb_devs[d].parent] = @ + 1]
       /\ IF usb_devs[d].lu = <<>> /\ Profondeur(p) # 0 /\ p \notin Presents
          THEN /\ usb_devs' = lie
               /\ pass' = "rend" /\ a_rendre' = unref_list \o discdevs
               /\ UNCHANGED discdevs
          ELSE /\ UNCHANGED <<pass, a_rendre>>
               /\ IF usb_devs[d].lu # <<>>
                  THEN usb_devs' = [lie EXCEPT ![d].refcnt = @ + 1] /\ discdevs' = Append(discdevs, d)
                  ELSE IF x = {} THEN usb_devs' = lie /\ UNCHANGED discdevs
                  ELSE \E e \in x :
                          /\ usb_devs' = [lie EXCEPT ![d].refcnt = @ + 1, ![d].lu = <<e, branche[e]>>]
                          /\ discdevs' = Append(discdevs, d)
    /\ courant' = <<>>
    /\ UNCHANGED <<systeme, listes, a_voir, guid, unref_list, tenus, anciens, faux>>

(* A device that has no object by now is ignored.                          *)
DEV_PASS(d) ==
    /\ pass = "DEV" /\ d \in a_voir
    /\ a_voir' = a_voir \ {d}
    /\ IF d \in Vivants
       THEN /\ usb_devs' = [usb_devs EXCEPT ![d] = [Obtient(d) EXCEPT !.pilote = TRUE]]
            /\ unref_list' = Append(unref_list, d)
       ELSE UNCHANGED <<usb_devs, unref_list>>
    /\ UNCHANGED <<systeme, listes, pass, courant, guid, discdevs, tenus, a_rendre, suivi>>

(* set_composite_interface, set_hid_interface.                             *)
HID_PASS(m) ==
    /\ pass = "HID" /\ m \in a_voir
    /\ a_voir' = a_voir \ {m}
    /\ IF Connus(m) # <<>> /\ ~EstHub(Head(Connus(m))) /\ usb_devs[Head(Connus(m))].pilote
       THEN usb_devs' = [usb_devs EXCEPT ![Head(Connus(m))].interfaces = @ \cup {m}]
       ELSE UNCHANGED usb_devs
    /\ UNCHANGED <<systeme, listes, pass, courant, guid, unref_list, discdevs, tenus, a_rendre, suivi>>

(* Each pass asks Windows anew for what is there.                          *)
Suivante ==
    /\ a_voir = {} /\ courant = <<>>
    /\ \/ pass = "HCD" /\ pass' = "HUB" /\ a_voir' = {d \in Presents : Genre[d] = "HUB"}
       \/ pass = "HUB" /\ pass' = "GEN" /\ a_voir' = {d \in Presents : Genre[d] # "HCD"}
       \/ pass = "GEN" /\ pass' = "DEV" /\ a_voir' = {d \in Presents : Genre[d] = "DEV"}
       \/ pass = "DEV" /\ pass' = "HID" /\ a_voir' = {d \in Presents : d \in Hid \cup guid}
    /\ UNCHANGED <<systeme, listes, usb_devs, courant, guid, unref_list, discdevs, tenus, a_rendre, suivi>>

(* The references of unref_list are given back; those of discdevs go to    *)
(* the program.                                                            *)
Fin ==
    /\ pass = "HID" /\ a_voir = {}
    /\ pass' = "rend" /\ a_rendre' = unref_list
    /\ tenus' = [d \in D |-> tenus[d] + Cardinality({i \in DOMAIN discdevs : discdevs[i] = d})]
    /\ UNCHANGED <<systeme, listes, usb_devs, a_voir, courant, guid, unref_list, discdevs, suivi>>

-----------------------------------------------------------------------------
(* libusb_unref_device: the last reference takes the object out of the     *)
(* list and gives back its parent's.                                       *)
DerniereJamais(d) == FALSE   \* variant: the object stays without a reference
Derniere(d) == usb_devs[d].refcnt = 1

libusb_unref_device ==
    /\ pass = "rend" /\ a_rendre # <<>>
    /\ LET d == Head(a_rendre)  p == usb_devs[d].parent IN
       /\ faux' = (faux \/ d \notin Vivants)
       /\ IF Derniere(d)
          THEN /\ usb_devs' = [usb_devs EXCEPT ![d] = Absent]
               /\ a_rendre' = (IF p = Rien THEN <<>> ELSE <<p>>) \o Tail(a_rendre)
               /\ orphelines' = [orphelines EXCEPT ![d] = 0]
          ELSE /\ usb_devs' = [usb_devs EXCEPT ![d].refcnt = @ - 1]
               /\ a_rendre' = Tail(a_rendre) /\ UNCHANGED orphelines
    /\ UNCHANGED <<systeme, listes, appel, tenus, anciens>>

Rendu ==
    /\ pass = "rend" /\ a_rendre = <<>>
    /\ pass' = "repos" /\ a_voir' = {} /\ unref_list' = <<>> /\ discdevs' = <<>> /\ guid' = {}
    /\ UNCHANGED <<systeme, listes, usb_devs, courant, tenus, a_rendre, suivi>>

(* The program gives back a device of a list.                              *)
Rend(d) ==
    /\ pass = "repos" /\ tenus[d] > 0
    /\ tenus' = [tenus EXCEPT ![d] = @ - 1]
    /\ a_rendre' = <<d>> /\ pass' = "rend"
    /\ UNCHANGED <<systeme, listes, usb_devs, a_voir, courant, guid, unref_list, discdevs, suivi>>

windows_get_device_list ==
    \/ \E d \in D : HCD_PASS(d) \/ HUB_PASS(d) \/ GEN_PASS(d) \/ DEV_PASS(d) \/ HID_PASS(d)
    \/ PasDeBus \/ init_device \/ Suivante \/ Fin

Next ==
    \/ \E d \in D : Branche(d) \/ Debranche(d) \/ Rend(d)
    \/ libusb_get_device_list \/ windows_get_device_list \/ libusb_unref_device \/ Rendu

Spec == Init /\ [][Next]_vars

-----------------------------------------------------------------------------
(* An object has as many references as the program, the call, the objects  *)
(* below it and the lost references make; so it is freed neither too early *)
(* nor too late, but for the references that are lost: those that a new    *)
(* call has overwritten, or a call that failed has left.                   *)
Compte(L, d) == Cardinality({i \in DOMAIN L : L[i] = d})
ReferencesWindows ==
    /\ ~faux
    /\ \A d \in D : usb_devs[d].refcnt =
           tenus[d] + orphelines[d] + Cardinality({e \in Vivants : usb_devs[e].parent = d})
           + (IF courant # <<>> /\ courant[2] = d THEN 1 ELSE 0)
           + (IF pass = "rend" THEN Compte(a_rendre, d) ELSE Compte(unref_list, d) + Compte(discdevs, d))

(* A call that succeeds lists every device that was there from its         *)
(* beginning to its end, once, on its own hub and bus, with its interfaces *)
(* and the description of what is plugged in, unless the object is older   *)
(* than the call and was read before.                                      *)
Reussi == pass = "HID" /\ a_voir = {}
TopologieWindows ==
    Reussi => \A d \in stables : Genre[d] \in {"HUB", "DEV"} =>
        /\ Compte(discdevs, d) = 1
        /\ usb_devs[d].parent = Pere(d)
        /\ usb_devs[d].bus # 0 /\ usb_devs[d].bus = usb_devs[Last(Ancetres[d])].bus
        /\ usb_devs[d].lu = <<d, branche[d]>> \/ d \in anciens
        /\ usb_devs[d].interfaces = {m \in D : Genre[m] = "MI" /\ Pere(m) = d} \/ Genre[d] # "DEV"
=============================================================================
