------------------------------ MODULE Requetes ------------------------------
(***************************************************************************)
(* libusb: claiming and releasing the interfaces of an open device, the    *)
(* kernel drivers that have to give way, and the reset.                    *)
(* Each handle remembers what it has claimed; the kernel does so too, and  *)
(* takes claims away when a device is reset, when another program forces   *)
(* a driver off, and when the device is unplugged.                         *)
(*                                                                         *)
(* One access to the kernel is one step.  Several threads may share a      *)
(* handle; another handle stands for another program.                      *)
(***************************************************************************)
EXTENDS Integers, FiniteSets

CONSTANTS
    H,          \* the handles
    Fils,       \* threads
    Poignee,    \* the handle each works with
    Equipes,    \* the sets of threads that run together
    Noyaux,     \* the sets of interfaces that the kernel may have a driver for
    NI,         \* the interfaces are 0..(NI - 1)
    MaxAppels,  \* calls of the library (bound of the model)
    Personne

I == 0..(NI - 1)

(* What the constants must satisfy. *)
Hypotheses ==
    NI \in Nat \ {0} /\ MaxAppels \in Nat /\ Poignee \in [Fils -> H] /\ Personne \notin H \cup Fils

VARIABLES
    branche, attached,       \* the device is there; libusb believes so
    pilote, tenu,            \* the driver bound to an interface; the handle it is claimed for
    noyau,                   \* interfaces the kernel has a driver for
    disconnect_claim,        \* the kernel knows IOCTL_USBFS_DISCONNECT_CLAIM
    ouvert, claimed_interfaces, auto_detach_kernel_driver, lock,   \* of each handle
    perdu,                   \* claims the kernel has taken away
    pc, ou, reset,           \* of each thread: the interface it is at, whether it resets
    appels                   \* calls made

materiel == <<branche, pilote, tenu, noyau, disconnect_claim>>
poignees == <<ouvert, claimed_interfaces, auto_detach_kernel_driver, lock>>
vars == <<materiel, attached, poignees, perdu, pc, ou, reset, appels>>

Init ==
    /\ branche = TRUE /\ attached = TRUE
    /\ noyau \in Noyaux /\ disconnect_claim \in BOOLEAN
    /\ pilote = [i \in I |-> IF i \in noyau THEN "noyau" ELSE "aucun"]
    /\ tenu = [i \in I |-> Personne]
    /\ ouvert = [h \in H |-> TRUE] /\ claimed_interfaces = [h \in H |-> {}]
    /\ auto_detach_kernel_driver = [h \in H |-> FALSE] /\ lock = [h \in H |-> Personne]
    /\ perdu = [h \in H |-> {}]
    /\ \E e \in Equipes : pc = [f \in Fils |-> IF f \in e THEN "repos" ELSE "absent"] /\ ou = [f \in Fils |-> 0]
    /\ reset = [f \in Fils |-> FALSE] /\ appels = 0

VaA(f, etape, i) == pc' = [pc EXCEPT ![f] = etape] /\ ou' = [ou EXCEPT ![f] = i]
Va(f, etape) == VaA(f, etape, IF etape = "repos" THEN 0 ELSE ou[f])
Verrouille(f) == lock[Poignee[f]] = Personne /\ lock' = [lock EXCEPT ![Poignee[f]] = f]
Deverrouille(f) == lock' = [lock EXCEPT ![Poignee[f]] = Personne]
Retient(f, ens) == claimed_interfaces' = [claimed_interfaces EXCEPT ![Poignee[f]] = ens]
retenues(f) == claimed_interfaces[Poignee[f]]

(* The kernel's side of an interface. *)
Lie(i, p, h) == pilote' = [pilote EXCEPT ![i] = p] /\ tenu' = [tenu EXCEPT ![i] = h]
Arrache(S, h) ==   \* the claims of other handles on the interfaces of S end
    perdu' = [g \in H |-> IF g = h THEN perdu[g] ELSE perdu[g] \cup {i \in S : tenu[i] = g}]
Inchange == UNCHANGED <<branche, noyau, disconnect_claim, attached>>

-----------------------------------------------------------------------------
(* The beginning of each call: those with a test of attached read it       *)
(* without a lock.                                                         *)
Appelle(f, etape, i) ==
    /\ pc[f] = "repos" /\ ouvert[Poignee[f]] /\ appels < MaxAppels /\ appels' = appels + 1
    /\ VaA(f, etape, i)
    /\ reset' = [reset EXCEPT ![f] = etape = "rend"]
    /\ UNCHANGED <<materiel, attached, poignees, perdu>>

libusb_claim_interface(f, i) == attached /\ Appelle(f, "reclame", i)
libusb_release_interface(f, i) == Appelle(f, "relache", i)
libusb_reset_device(f) == attached /\ Appelle(f, "rend", 0)
libusb_detach_kernel_driver(f, i) == attached /\ Appelle(f, "quipilote", i)
libusb_attach_kernel_driver(f, i) == attached /\ Appelle(f, "attache", i)

libusb_set_auto_detach_kernel_driver(f, b) ==
    /\ pc[f] = "repos" /\ ouvert[Poignee[f]] /\ appels < MaxAppels /\ appels' = appels + 1
    /\ auto_detach_kernel_driver' = [auto_detach_kernel_driver EXCEPT ![Poignee[f]] = b]
    /\ UNCHANGED <<materiel, attached, ouvert, claimed_interfaces, lock, perdu, pc, ou, reset>>

-----------------------------------------------------------------------------
(* libusb_claim_interface, with op_claim_interface. *)
Reclame(f) ==
    /\ pc[f] = "reclame"
    /\ IF ou[f] \in retenues(f)
       THEN lock[Poignee[f]] = Personne /\ Va(f, "repos") /\ UNCHANGED lock
       ELSE /\ Verrouille(f)
            /\ Va(f, IF auto_detach_kernel_driver[Poignee[f]] THEN "ecarte" ELSE "claim")
    /\ UNCHANGED <<materiel, attached, ouvert, claimed_interfaces,
                   auto_detach_kernel_driver, perdu, reset, appels>>

(* How a claim ends: libusb_claim_interface notes it and unlocks; a reset  *)
(* takes an interface that it could not claim again for released.          *)
OublieRien(S, i) == S   \* variant: the interface is still taken for claimed
Oublie(S, i) == S \ {i}

ClaimFini(f, reussi) ==
    IF reset[f]
    THEN /\ Retient(f, IF reussi THEN retenues(f) ELSE Oublie(retenues(f), ou[f]))
         /\ VaA(f, "reprend", ou[f] + 1) /\ UNCHANGED lock
    ELSE /\ Retient(f, IF reussi THEN retenues(f) \cup {ou[f]} ELSE retenues(f))
         /\ Va(f, "repos") /\ Deverrouille(f)

(* After the kernel's answer, before the caller looks at it. *)
FinClaim(f) ==
    /\ pc[f] \in {"obtenue", "refuse"}
    /\ ClaimFini(f, pc[f] = "obtenue")
    /\ UNCHANGED <<materiel, attached, ouvert, auto_detach_kernel_driver, perdu, reset, appels>>

Obtient(f) ==
    /\ Lie(ou[f], "usbfs", Poignee[f])
    /\ perdu' = [perdu EXCEPT ![Poignee[f]] = @ \ {ou[f]}]
    /\ Va(f, "obtenue")

claim_interface(f) ==
    LET libre == tenu[ou[f]] = Poignee[f] \/ pilote[ou[f]] = "aucun" IN
    /\ pc[f] = "claim"
    /\ IF branche /\ libre THEN Obtient(f)
       ELSE Va(f, "refuse") /\ UNCHANGED <<pilote, tenu, perdu>>
    /\ Inchange /\ UNCHANGED <<poignees, reset, appels>>

(* detach_kernel_driver_and_claim: one request of newer kernels, or three. *)
Ecarte(f) ==
    /\ pc[f] = "ecarte"
    /\ IF ~disconnect_claim THEN Va(f, "quipilote") /\ UNCHANGED <<pilote, tenu, perdu>>
       ELSE IF branche /\ pilote[ou[f]] # "usbfs" THEN Obtient(f)
       ELSE Va(f, "refuse") /\ UNCHANGED <<pilote, tenu, perdu>>
    /\ Inchange /\ UNCHANGED <<poignees, reset, appels>>

(* op_detach_kernel_driver looks who has the interface, and then sends     *)
(* away who has it.  Called by the application it ends here.               *)
ReclameEnsuite(f) == lock[Poignee[f]] = f
Ensuite(f, si) == IF ReclameEnsuite(f) THEN si ELSE "repos"

QuiPilote(f) ==
    /\ pc[f] = "quipilote"
    /\ Va(f, IF branche /\ pilote[ou[f]] = "usbfs" THEN Ensuite(f, "claim") ELSE "chasse")
    /\ UNCHANGED <<materiel, attached, poignees, perdu, reset, appels>>

Chasse(f) ==
    LET i == ou[f] IN
    /\ pc[f] = "chasse"
    /\ IF branche /\ pilote[i] # "aucun"
       THEN Lie(i, "aucun", Personne) /\ Arrache({i}, Personne)
       ELSE UNCHANGED <<pilote, tenu, perdu>>
    /\ Va(f, Ensuite(f, IF branche THEN "claim" ELSE "refuse"))
    /\ Inchange /\ UNCHANGED <<poignees, reset, appels>>

-----------------------------------------------------------------------------
(* libusb_release_interface, with op_release_interface. *)
Relache(f) ==
    /\ pc[f] = "relache"
    /\ IF ou[f] \notin retenues(f)
       THEN lock[Poignee[f]] = Personne /\ Va(f, "repos") /\ UNCHANGED lock
       ELSE Verrouille(f) /\ Va(f, "release")
    /\ UNCHANGED <<materiel, attached, ouvert, claimed_interfaces,
                   auto_detach_kernel_driver, perdu, reset, appels>>

Rendue(i, h) == IF branche /\ tenu[i] = h THEN Lie(i, "aucun", Personne) ELSE UNCHANGED <<pilote, tenu>>

release_interface(f) ==
    LET h == Poignee[f]  rendue == branche /\ tenu[ou[f]] = h IN
    /\ pc[f] = "release"
    /\ Rendue(ou[f], h)
    /\ IF rendue THEN Va(f, IF auto_detach_kernel_driver[h] THEN "rattache" ELSE "relachee") /\ UNCHANGED lock
       ELSE Va(f, "repos") /\ Deverrouille(f)
    /\ Inchange /\ UNCHANGED <<ouvert, claimed_interfaces, auto_detach_kernel_driver, perdu, reset, appels>>

(* op_attach_kernel_driver; when an interface is released, its result is   *)
(* ignored.                                                                *)
op_attach_kernel_driver(f) ==
    LET i == ou[f] IN
    /\ pc[f] \in {"attache", "rattache"}
    /\ IF branche /\ pilote[i] = "aucun" /\ i \in noyau THEN Lie(i, "noyau", Personne)
       ELSE UNCHANGED <<pilote, tenu>>
    /\ Va(f, IF pc[f] = "attache" THEN "repos" ELSE "relachee")
    /\ Inchange /\ UNCHANGED <<poignees, perdu, reset, appels>>

FinRelache(f) ==
    /\ pc[f] = "relachee"
    /\ Retient(f, retenues(f) \ {ou[f]})
    /\ Va(f, "repos") /\ Deverrouille(f)
    /\ UNCHANGED <<materiel, attached, ouvert, auto_detach_kernel_driver, perdu, reset, appels>>

-----------------------------------------------------------------------------
(* op_reset_device releases what is claimed, without the lock, so that the *)
(* kernel does not give it to its own drivers, ...                         *)
Rend(f) ==
    /\ pc[f] = "rend" /\ ou[f] < NI
    /\ IF ou[f] \in retenues(f) THEN Rendue(ou[f], Poignee[f]) ELSE UNCHANGED <<pilote, tenu>>
    /\ VaA(f, "rend", ou[f] + 1)
    /\ Inchange /\ UNCHANGED <<poignees, perdu, reset, appels>>

RendFini(f) ==
    /\ pc[f] = "rend" /\ ou[f] = NI
    /\ Verrouille(f)
    /\ VaA(f, "reinitialise", 0)
    /\ UNCHANGED <<materiel, attached, ouvert, claimed_interfaces,
                   auto_detach_kernel_driver, perdu, reset, appels>>

(* ... resets the device, which ends the claims that are left on it, ...   *)
op_reset_device(f) ==
    LET S == {i \in I : pilote[i] = "usbfs"} IN
    /\ pc[f] = "reinitialise"
    /\ \/ /\ branche
          /\ pilote' = [i \in I |-> IF i \notin S THEN pilote[i] ELSE IF i \in noyau THEN "noyau" ELSE "aucun"]
          /\ tenu' = [i \in I |-> Personne]
          /\ Arrache(S, Poignee[f])
          /\ Va(f, "reprend") /\ UNCHANGED <<lock, reset, appels>>
       \/ /\ perdu' = [perdu EXCEPT ![Poignee[f]] = @ \cup {i \in retenues(f) : tenu[i] # Poignee[f]}]
          /\ Va(f, "repos") /\ Deverrouille(f) /\ reset' = [reset EXCEPT ![f] = FALSE]
          /\ UNCHANGED <<pilote, tenu>>
    /\ Inchange /\ UNCHANGED <<ouvert, claimed_interfaces, auto_detach_kernel_driver, appels>>

(* ... and claims again what was claimed.                                  *)
Reprend(f) ==
    /\ pc[f] = "reprend"
    /\ IF ou[f] = NI
       THEN Va(f, "repos") /\ Deverrouille(f) /\ reset' = [reset EXCEPT ![f] = FALSE]
       ELSE /\ UNCHANGED <<lock, reset, appels>>
            /\ IF ou[f] \in retenues(f) THEN Va(f, "ecarte") ELSE VaA(f, "reprend", ou[f] + 1)
    /\ UNCHANGED <<materiel, attached, ouvert, claimed_interfaces,
                   auto_detach_kernel_driver, perdu, appels>>

-----------------------------------------------------------------------------
(* A handle is closed when no call uses it: the kernel ends its claims,    *)
(* and libusb does not give the drivers back.                              *)
Ferme(h) ==
    LET S == {i \in I : tenu[i] = h} IN
    /\ ouvert[h] /\ \A f \in Fils : Poignee[f] = h => pc[f] \in {"repos", "absent"}
    /\ ouvert' = [ouvert EXCEPT ![h] = FALSE]
    /\ pilote' = [i \in I |-> IF i \in S THEN "aucun" ELSE pilote[i]]
    /\ tenu' = [i \in I |-> IF i \in S THEN Personne ELSE tenu[i]]
    /\ perdu' = [perdu EXCEPT ![h] = {}]
    /\ Inchange /\ UNCHANGED <<claimed_interfaces, auto_detach_kernel_driver, lock, pc, ou, reset, appels>>

Ouvre(h) ==
    /\ ~ouvert[h] /\ branche
    /\ ouvert' = [ouvert EXCEPT ![h] = TRUE]
    /\ claimed_interfaces' = [claimed_interfaces EXCEPT ![h] = {}]
    /\ auto_detach_kernel_driver' = [auto_detach_kernel_driver EXCEPT ![h] = FALSE]
    /\ UNCHANGED <<materiel, attached, lock, perdu, pc, ou, reset, appels>>

Debranche ==
    /\ branche /\ branche' = FALSE
    /\ pilote' = [i \in I |-> "aucun"] /\ tenu' = [i \in I |-> Personne]
    /\ UNCHANGED <<noyau, disconnect_claim, attached, poignees, perdu, pc, ou, reset, appels>>

usbi_disconnect_device ==
    /\ ~branche /\ attached /\ attached' = FALSE
    /\ UNCHANGED <<materiel, poignees, perdu, pc, ou, reset, appels>>

Next ==
    \/ \E f \in Fils :
        \/ libusb_reset_device(f)
        \/ \E i \in I : \/ libusb_claim_interface(f, i) \/ libusb_release_interface(f, i)
                        \/ libusb_detach_kernel_driver(f, i) \/ libusb_attach_kernel_driver(f, i)
        \/ \E b \in BOOLEAN : libusb_set_auto_detach_kernel_driver(f, b)
        \/ Reclame(f) \/ FinClaim(f) \/ claim_interface(f) \/ Ecarte(f) \/ QuiPilote(f) \/ Chasse(f)
        \/ Relache(f) \/ release_interface(f) \/ op_attach_kernel_driver(f) \/ FinRelache(f)
        \/ Rend(f) \/ RendFini(f) \/ op_reset_device(f) \/ Reprend(f)
    \/ \E h \in H : Ferme(h) \/ Ouvre(h)
    \/ Debranche \/ usbi_disconnect_device

Spec == Init /\ [][Next]_vars

-----------------------------------------------------------------------------
Tranquille(h) == ouvert[h] /\ \A f \in Fils : Poignee[f] = h => pc[f] \in {"repos", "absent"}

(* Between the calls a handle remembers as claimed what the kernel has     *)
(* claimed for it, nothing less, and nothing more but what was taken away  *)
(* behind its back: by a reset that failed, by the reset of another        *)
(* program, by one that forced a driver off with the three requests, or    *)
(* with the device.                                                        *)
ReclameFidele ==
    \A h \in H : Tranquille(h) =>
        /\ {i \in I : tenu[i] = h} \subseteq claimed_interfaces[h]
        /\ branche => claimed_interfaces[h] \subseteq {i \in I : tenu[i] = h} \cup perdu[h]

(* Why: the inductive invariant.  Whoever claims, releases or resets holds  *)
(* the lock of its handle, except the first part of a reset; a difference   *)
(* between the kernel and a handle is either known to the thread that has   *)
(* made it, or was made from outside.                                       *)
EtapesDeClaim == {"ecarte", "quipilote", "chasse", "claim", "refuse"}
AvecVerrou == {"ecarte", "claim", "refuse", "obtenue", "release", "rattache", "relachee", "reinitialise", "reprend"}
Etapes == AvecVerrou \cup {"quipilote", "chasse", "repos", "absent", "reclame", "relache", "attache", "rend"}

TypeRequetes ==
    /\ branche \in BOOLEAN
    /\ pilote \in [I -> {"noyau", "aucun", "usbfs"}] /\ tenu \in [I -> H \cup {Personne}]
    /\ ouvert \in [H -> BOOLEAN] /\ claimed_interfaces \in [H -> SUBSET I]
    /\ lock \in [H -> Fils \cup {Personne}] /\ perdu \in [H -> SUBSET I]
    /\ pc \in [Fils -> Etapes] /\ ou \in [Fils -> 0..NI] /\ reset \in [Fils -> BOOLEAN]

(* What a thread knows: whether it has the lock, where it is, and, in a     *)
(* reset, what it has still to claim again. *)
Fil(f) ==
    /\ lock[Poignee[f]] = f => pc[f] \in AvecVerrou \cup {"quipilote", "chasse"}
    /\ pc[f] \in AvecVerrou => lock[Poignee[f]] = f
    /\ reset[f] => pc[f] = "rend" \/ (lock[Poignee[f]] = f /\ pc[f] \in EtapesDeClaim \cup {"obtenue", "reinitialise", "reprend"})
    /\ pc[f] \in {"rend", "reinitialise", "reprend"} => reset[f]
    /\ pc[f] \notin {"rend", "reprend"} => ou[f] \in I
    /\ pc[f] = "reinitialise" => ou[f] = 0
    /\ reset[f] /\ pc[f] \in EtapesDeClaim \cup {"obtenue"} => ou[f] \in claimed_interfaces[Poignee[f]]
    /\ reset[f] /\ pc[f] \in EtapesDeClaim \cup {"reprend"} => \A i \in I : i >= ou[f] => tenu[i] # Poignee[f]
    /\ reset[f] /\ pc[f] = "obtenue" => \A i \in I : i > ou[f] => tenu[i] # Poignee[f]
    /\ pc[f] \in {"rattache", "relachee"} => tenu[ou[f]] # Poignee[f]
    /\ ~ouvert[Poignee[f]] => pc[f] \in {"repos", "absent"}

(* A claim that the kernel has granted and libusb_claim_interface has not   *)
(* noted; an interface that is claimed and that a thread has given back, to *)
(* release it or to claim it again. *)
Obtenue(h, i) == \E f \in Fils : Poignee[f] = h /\ pc[f] = "obtenue" /\ ou[f] = i
Rendu(f, i) ==
    \/ pc[f] \in {"rattache", "relachee"} /\ ou[f] = i
    \/ pc[f] = "rend" /\ i < ou[f]
    \/ pc[f] = "reinitialise"
    \/ reset[f] /\ pc[f] \in EtapesDeClaim \cup {"reprend"} /\ i >= ou[f]
    \/ reset[f] /\ pc[f] = "obtenue" /\ i > ou[f]
Connu(h, i) == i \in claimed_interfaces[h] \/ Obtenue(h, i)

Tenu(i) == (pilote[i] = "usbfs" <=> tenu[i] # Personne) /\ (~branche => tenu[i] = Personne)
Noyau(h, i) == tenu[i] = h => ouvert[h] /\ Connu(h, i)
Perdu(h, i) ==
    branche /\ ouvert[h] /\ Connu(h, i) /\ tenu[i] # h /\ i \notin perdu[h]
        => \E f \in Fils : Poignee[f] = h /\ Rendu(f, i)

Inductif ==
    /\ TypeRequetes
    /\ \A f \in Fils : Fil(f)
    /\ \A i \in I : Tenu(i)
    /\ \A h \in H, i \in I : Noyau(h, i) /\ Perdu(h, i)
=============================================================================
