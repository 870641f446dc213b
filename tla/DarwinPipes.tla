----------------------------- MODULE DarwinPipes -----------------------------
(***************************************************************************)
(* libusb on Mac OS X: the handles of one device, the interfaces they      *)
(* claim, and the transfers on their pipes.  The device is really opened   *)
(* by the first handle only.  The kernel numbers the pipes of an interface *)
(* from 1, and libusb keeps the table of their endpoints.                  *)
(*                                                                         *)
(* The open, the close and the answers of transfers are several steps; any *)
(* other call is one.                                                      *)
(***************************************************************************)
EXTENDS Integers, FiniteSets

CONSTANTS
    F, H,          \* threads of the application; handles
    Ensemble,      \* two threads may open and close at the same time
    NI,            \* the interfaces are 0..(NI - 1)
    Tuyaux,        \* the endpoints of the pipes of an interface, for each alternate setting
    Interruption,  \* the interrupt endpoints
    T, De,         \* transfers; the handle and the endpoint of each, 0 for the control pipe
    NC,            \* configurations
    Rien

I == 0..(NI - 1)
Reglages(i) == DOMAIN Tuyaux[i]

(* What the constants must satisfy: an interface has a setting 0, and no   *)
(* handle is taken for nobody or for another program.                      *)
Hypotheses ==
    /\ Ensemble \in BOOLEAN /\ NI \in Nat /\ NC \in Nat \ {0}
    /\ Rien \notin F \cup H /\ "autre" \notin H \cup {Rien}
    /\ \A t \in T : De[t].h \in H
    /\ \A i \in I : 0 \in Reglages(i)

VARIABLES
    open_count, seize,          \* the device's count; is it open in the kernel
    sources,                    \* handles whose source of device answers is in the run loop
    poignee, is_open, cfSource, \* of each handle
    configuration, active_config, alt,   \* the kernel's; what libusb believes; the settings
    tenant,                     \* who has opened each interface in the kernel
    claimed_interfaces, interface,       \* of each handle
    pc, de,
    etat, tuyau, resultat,      \* of each transfer
    annule, expire,             \* USBI_TRANSFER_CANCELLING, USBI_TRANSFER_TIMED_OUT
    demande                     \* a transfer in flight on the same endpoint has been cancelled

ouvertures == <<open_count, seize, sources, poignee, is_open, cfSource>>
noyau == <<configuration, active_config, alt, tenant>>
prises == <<claimed_interfaces, interface>>
transferts == <<etat, tuyau, resultat, annule, expire, demande>>
vars == <<ouvertures, noyau, prises, pc, de, transferts>>

Nulle == [objet |-> "nul", endpoint_addrs |-> <<>>, cfSource |-> "nul"]

Init ==
    /\ open_count = 0 /\ seize = FALSE /\ sources = {}
    /\ poignee = [h \in H |-> "fermee"] /\ is_open = [h \in H |-> FALSE] /\ cfSource = [h \in H |-> FALSE]
    /\ configuration \in 0..NC /\ active_config = configuration
    /\ alt = [i \in I |-> 0] /\ tenant \in [I -> {Rien, "autre"}]
    /\ (configuration = 0 => \A i \in I : tenant[i] = Rien)
    /\ claimed_interfaces = [h \in H |-> {}] /\ interface = [h \in H |-> [i \in I |-> Nulle]]
    /\ pc = [f \in F |-> "repos"] /\ de = [f \in F |-> Rien]
    /\ etat = [t \in T |-> "libre"] /\ tuyau = [t \in T |-> <<>>] /\ resultat = [t \in T |-> "aucun"]
    /\ annule = [t \in T |-> FALSE] /\ expire = [t \in T |-> FALSE] /\ demande = [t \in T |-> FALSE]

Va(f, etape) == pc' = [pc EXCEPT ![f] = etape]
Seul(f) == Ensemble \/ \A g \in F \ {f} : pc[g] = "repos"
EnVol == {t \in T : etat[t] # "libre"}
Repos(h) == \A t \in EnVol : De[t].h # h

-----------------------------------------------------------------------------
(* darwin_open: only the first handle opens the device, and makes the      *)
(* source of its answers.  A device that somebody else has opened is used  *)
(* all the same.                                                           *)
darwin_open(f, h) ==
    /\ pc[f] = "repos" /\ poignee[h] = "fermee" /\ Seul(f) /\ \A g \in F : de[g] # h
    /\ de' = [de EXCEPT ![f] = h]
    /\ IF open_count # 0
       THEN Va(f, "compte") /\ UNCHANGED <<seize, sources, is_open, cfSource>>
       ELSE \E ouvre \in {"oui", "occupe", "non"}, source \in BOOLEAN :
               /\ is_open' = [is_open EXCEPT ![h] = ouvre = "oui" /\ source]
               /\ cfSource' = [cfSource EXCEPT ![h] = ouvre # "non" /\ source]
               /\ sources' = IF ouvre # "non" /\ source THEN sources \cup {h} ELSE sources
               /\ seize' = ((seize \/ ouvre = "oui") /\ ~(ouvre = "oui" /\ ~source))
               /\ Va(f, IF ouvre = "non" \/ ~source THEN "refuse" ELSE "compte")
    /\ UNCHANGED <<open_count, poignee, noyau, prises, transferts>>

Compte(f) ==
    /\ pc[f] \in {"compte", "refuse"}
    /\ IF pc[f] = "compte"
       THEN open_count' = open_count + 1 /\ poignee' = [poignee EXCEPT ![de[f]] = "ouverte"]
       ELSE UNCHANGED <<open_count, poignee>>
    /\ Va(f, "repos") /\ de' = [de EXCEPT ![f] = Rien]
    /\ UNCHANGED <<seize, sources, is_open, cfSource, noyau, prises, transferts>>

(* What darwin_release_interface does to the entry of an interface.  (It   *)
(* keeps the pointer to the source that it has released.)                  *)
Relache(h, is) == interface' = [interface EXCEPT ![h] = [i \in I |-> IF i \in is THEN Nulle ELSE @[i]]]
Ferme(h, is) == [i \in I |-> IF i \in is /\ tenant[i] = h /\ interface[h][i].objet = "ouvert" THEN Rien ELSE tenant[i]]

(* darwin_close, of a handle that has no transfer in flight: the count,    *)
(* and the interfaces, ...                                                 *)
darwin_close(f, h) ==
    /\ pc[f] = "repos" /\ poignee[h] = "ouverte" /\ Repos(h) /\ Seul(f)
    /\ poignee' = [poignee EXCEPT ![h] = "fermee"]
    /\ IF open_count = 0
       THEN UNCHANGED <<open_count, prises, tenant, pc, de>>
       ELSE /\ open_count' = open_count - 1
            /\ Relache(h, claimed_interfaces[h]) /\ tenant' = Ferme(h, claimed_interfaces[h])
            /\ claimed_interfaces' = [claimed_interfaces EXCEPT ![h] = {}]
            /\ Va(f, "ferme") /\ de' = [de EXCEPT ![f] = h]
    /\ UNCHANGED <<seize, sources, is_open, cfSource, configuration, active_config, alt, transferts>>

(* ... and the last handle closes the device, if this handle opened it.    *)
DerniereToujours == TRUE   \* variant: the count is not looked at
Derniere == open_count = 0

USBDeviceClose(f) ==
    LET h == de[f] IN
    /\ pc[f] = "ferme"
    /\ IF Derniere
       THEN /\ sources' = sources \ {h} /\ seize' = (seize /\ ~is_open[h])
       ELSE UNCHANGED <<sources, seize>>
    /\ is_open' = [is_open EXCEPT ![h] = FALSE] /\ cfSource' = [cfSource EXCEPT ![h] = FALSE]
    /\ interface' = [interface EXCEPT ![h] = [i \in I |-> Nulle]]
    /\ Va(f, "repos") /\ de' = [de EXCEPT ![f] = Rien]
    /\ UNCHANGED <<open_count, poignee, noyau, claimed_interfaces, transferts>>

-----------------------------------------------------------------------------
Ouverte(f, h) == pc[f] = "repos" /\ poignee[h] = "ouverte"

(* darwin_set_configuration gives up the claimed interfaces of the handle, *)
(* and claims them again, whose failure nobody reports; the objects that   *)
(* other handles have are dead.                                            *)
Neuve(i) == [objet |-> "ouvert", endpoint_addrs |-> Tuyaux[i][0], cfSource |-> "vive"]
Tuee(r) == IF r.objet = "nul" THEN r ELSE [r EXCEPT !.objet = "mort"]
Reclames(h, reussis) ==
    /\ interface' = [g \in H |-> [i \in I |->
           IF g # h THEN Tuee(interface[g][i])
           ELSE IF i \in reussis THEN Neuve(i)
           ELSE IF i \in claimed_interfaces[h] THEN Nulle ELSE interface[h][i]]]
    /\ tenant' = [i \in I |-> IF i \in reussis THEN h ELSE Rien]
    /\ alt' = [i \in I |-> 0]

darwin_set_configuration(f, h, c) ==
    /\ Ouverte(f, h) /\ EnVol = {}
    /\ \/ \E R \in SUBSET claimed_interfaces[h] :
            /\ Reclames(h, R) /\ configuration' = c /\ active_config' = c
       \/ /\ Relache(h, claimed_interfaces[h]) /\ tenant' = Ferme(h, claimed_interfaces[h])
          /\ UNCHANGED <<configuration, active_config, alt>>
    /\ UNCHANGED <<ouvertures, claimed_interfaces, pc, de, transferts>>

(* darwin_claim_interface, whose first step configures a device that has   *)
(* no interfaces, ...                                                      *)
Configure(f, h) ==
    /\ Ouverte(f, h) /\ configuration = 0 /\ EnVol = {}
    /\ \E R \in SUBSET claimed_interfaces[h] : Reclames(h, R)
    /\ configuration' = 1 /\ active_config' = 1
    /\ UNCHANGED <<ouvertures, claimed_interfaces, pc, de, transferts>>

(* ... opens the interface, unless somebody else has it open, and takes    *)
(* its endpoints and the source of its answers.  Without them it is given  *)
(* back.                                                                   *)
darwin_claim_interface(f, h, i) ==
    /\ Ouverte(f, h) /\ configuration # 0 /\ i \notin claimed_interfaces[h]
    /\ IF tenant[i] # Rien
       THEN /\ interface' = [interface EXCEPT ![h][i].objet = "tenu"]
            /\ UNCHANGED <<tenant, claimed_interfaces>>
       ELSE \/ /\ interface' = [interface EXCEPT ![h][i] = [Neuve(i) EXCEPT !.endpoint_addrs = Tuyaux[i][alt[i]]]]
               /\ tenant' = [tenant EXCEPT ![i] = h]
               /\ claimed_interfaces' = [claimed_interfaces EXCEPT ![h] = @ \cup {i}]
            \/ /\ interface' = [interface EXCEPT ![h][i] = Nulle]
               /\ UNCHANGED <<tenant, claimed_interfaces>>
    /\ UNCHANGED <<ouvertures, configuration, active_config, alt, pc, de, transferts>>

darwin_release_interface(f, h, i) ==
    /\ Ouverte(f, h) /\ Repos(h) /\ i \in claimed_interfaces[h]
    /\ Relache(h, {i}) /\ tenant' = Ferme(h, {i})
    /\ claimed_interfaces' = [claimed_interfaces EXCEPT ![h] = @ \ {i}]
    /\ UNCHANGED <<ouvertures, configuration, active_config, alt, pc, de, transferts>>

(* darwin_set_interface_altsetting reads the endpoints again, whether the  *)
(* setting was changed or the device was reset instead.                    *)
TableGardee(i, table, a) == table   \* variant: the table is not built again
get_endpoints(i, table, a) == Tuyaux[i][a]

darwin_set_interface_altsetting(f, h, i, a) ==
    LET r == interface[h][i] IN
    /\ Ouverte(f, h) /\ Repos(h) /\ i \in claimed_interfaces[h] /\ r.objet # "nul"
    /\ IF r.objet = "ouvert"
       THEN \E b \in {a, alt[i]} :
               /\ alt' = [alt EXCEPT ![i] = b]
               /\ interface' = [interface EXCEPT ![h][i].endpoint_addrs = get_endpoints(i, @, b)]
               /\ UNCHANGED <<tenant>>
       ELSE Relache(h, {i}) /\ tenant' = Ferme(h, {i}) /\ UNCHANGED alt
    /\ UNCHANGED <<ouvertures, configuration, active_config, claimed_interfaces, pc, de, transferts>>

-----------------------------------------------------------------------------
(* ep_to_pipeRef: the first claimed interface whose table has the endpoint.*)
ep_to_pipeRef(h, ep) ==
    LET Avec(i) == {q \in DOMAIN interface[h][i].endpoint_addrs : interface[h][i].endpoint_addrs[q] = ep} IN
    {w \in UNION {{i} \X Avec(i) : i \in claimed_interfaces[h]} :
        /\ \A q \in Avec(w[1]) : w[2] <= q
        /\ \A j \in claimed_interfaces[h] : j < w[1] => Avec(j) = {}}

(* A transfer that the kernel accepts: without a source for its answers,   *)
(* or on an interface that is dead, it does not.                           *)
Soumet(t, w) ==
    /\ etat[t] = "libre"
    /\ tuyau' = [tuyau EXCEPT ![t] = w] /\ etat' = [etat EXCEPT ![t] = "noyau"]
    /\ UNCHANGED <<ouvertures, noyau, prises, pc, de, resultat, annule, expire, demande>>

submit_control_transfer(f, t) ==
    /\ Ouverte(f, De[t].h) /\ De[t].ep = 0 /\ sources # {}
    /\ Soumet(t, <<"controle">>)

submit_bulk_transfer(f, t) ==
    LET h == De[t].h IN
    /\ Ouverte(f, h) /\ De[t].ep # 0
    /\ \E w \in ep_to_pipeRef(h, De[t].ep) :
          /\ interface[h][w[1]].objet = "ouvert" /\ interface[h][w[1]].cfSource = "vive"
          /\ Soumet(t, w)

(* The kernel ends a transfer; on its own after a timeout, but for         *)
(* interrupt endpoints.                                                    *)
Fin(t) ==
    /\ etat[t] = "noyau"
    /\ \E r \in {"succes", "cale"} \cup (IF De[t].ep \in Interruption THEN {} ELSE {"delai"}) :
          resultat' = [resultat EXCEPT ![t] = r]
    /\ etat' = [etat EXCEPT ![t] = "rappel"]
    /\ UNCHANGED <<ouvertures, noyau, prises, pc, de, tuyau, annule, expire, demande>>

(* What a cancellation aborts: everything on the pipe, and on the control  *)
(* pipe that of all handles.                                               *)
cancel_control_transfer == {u \in T : etat[u] = "noyau" /\ De[u].ep = 0}
darwin_abort_transfers(t) == {u \in T : etat[u] = "noyau" /\ De[u].h = De[t].h /\ tuyau[u] = tuyau[t]}

AbandonneTout(t) == {u \in T : etat[u] = "noyau" /\ (De[u].ep = 0) = (De[t].ep = 0)}   \* variant: on every pipe
Abandonnes(t) == IF De[t].ep = 0 THEN cancel_control_transfer ELSE darwin_abort_transfers(t)

(* darwin_cancel_transfer: the application cancels, or, on an interrupt    *)
(* endpoint, libusb itself after a timeout.                                *)
darwin_cancel_transfer(t, delai) ==
    /\ etat[t] # "libre" /\ ~annule[t] /\ (delai => De[t].ep \in Interruption)
    /\ annule' = [annule EXCEPT ![t] = TRUE] /\ expire' = [expire EXCEPT ![t] = delai]
    /\ LET A == Abandonnes(t) IN
        /\ etat' = [u \in T |-> IF u \in A THEN "rappel" ELSE etat[u]]
        /\ resultat' = [u \in T |-> IF u \in A THEN "abandon" ELSE resultat[u]]
    /\ demande' = [u \in T |-> demande[u] \/ (etat[u] # "libre" /\ De[u].ep = De[t].ep
                                               /\ (De[t].ep = 0 \/ De[u].h = De[t].h))]
    /\ UNCHANGED <<ouvertures, noyau, prises, pc, de, tuyau>>

(* darwin_async_io_callback, in the run loop that has the source.          *)
Source(t) ==
    IF De[t].ep = 0 THEN sources # {} ELSE interface[De[t].h][tuyau[t][1]].cfSource = "vive"

darwin_async_io_callback(t) ==
    /\ etat[t] = "rappel" /\ Source(t)
    /\ etat' = [etat EXCEPT ![t] = "signale"]
    /\ UNCHANGED <<ouvertures, noyau, prises, pc, de, tuyau, resultat, annule, expire, demande>>

(* darwin_handle_transfer_completion, in the thread that handles events.   *)
darwin_transfer_status(t) ==
    IF expire[t] \/ resultat[t] = "delai" THEN "TIMED_OUT"
    ELSE CASE resultat[t] = "succes" -> "COMPLETED"
           [] resultat[t] = "abandon" -> "CANCELLED"
           [] resultat[t] = "cale" -> "STALL"

darwin_handle_transfer_completion(t) ==
    /\ etat[t] = "signale"
    /\ etat' = [etat EXCEPT ![t] = "libre"] /\ tuyau' = [tuyau EXCEPT ![t] = <<>>]
    /\ resultat' = [resultat EXCEPT ![t] = "aucun"]
    /\ annule' = [annule EXCEPT ![t] = FALSE] /\ expire' = [expire EXCEPT ![t] = FALSE]
    /\ demande' = [demande EXCEPT ![t] = FALSE]
    /\ UNCHANGED <<ouvertures, noyau, prises, pc, de>>

Application(f) ==
    \/ \E h \in H :
        \/ darwin_open(f, h) \/ darwin_close(f, h) \/ Configure(f, h)
        \/ \E c \in 1..NC : darwin_set_configuration(f, h, c)
        \/ \E i \in I :
            \/ darwin_claim_interface(f, h, i) \/ darwin_release_interface(f, h, i)
            \/ \E a \in Reglages(i) : darwin_set_interface_altsetting(f, h, i, a)
    \/ Compte(f) \/ USBDeviceClose(f)
    \/ \E t \in T : submit_control_transfer(f, t) \/ submit_bulk_transfer(f, t)

Next ==
    \/ \E f \in F : Application(f)
    \/ \E t \in T :
        \/ Fin(t) \/ \E delai \in BOOLEAN : darwin_cancel_transfer(t, delai)
        \/ darwin_async_io_callback(t) \/ darwin_handle_transfer_completion(t)

Spec == Init /\ [][Next]_vars

-----------------------------------------------------------------------------
(* Between the calls that open and close, the count is that of the open    *)
(* handles, whichever of them was the first; the device stays open, and a  *)
(* source of its answers is in the run loop.                               *)
Ouvertes == {h \in H : poignee[h] = "ouverte"}
OuvertDarwin ==
    (\A f \in F : pc[f] = "repos") =>
        /\ open_count = Cardinality(Ouvertes)
        /\ Ouvertes # {} => sources # {}
        /\ \A h \in Ouvertes : is_open[h] => seize

(* The answer of a transfer that the kernel has will be noticed: the       *)
(* source that brings it is in the run loop.  And the pipe is that of the  *)
(* transfer's endpoint, on an interface its handle has open.               *)
TuyauJuste ==
    \A t \in T : etat[t] \in {"noyau", "rappel"} =>
        /\ Source(t)
        /\ De[t].ep # 0 => /\ tenant[tuyau[t][1]] = De[t].h
                           /\ Tuyaux[tuyau[t][1]][alt[tuyau[t][1]]][tuyau[t][2]] = De[t].ep

(* A transfer is reported as cancelled or timed out only if it was, or one *)
(* in flight on the same endpoint, which is aborted with it.               *)
AnnuleFidele ==
    \A t \in T : etat[t] = "signale" =>
        CASE darwin_transfer_status(t) = "CANCELLED" -> demande[t]
          [] darwin_transfer_status(t) = "TIMED_OUT" -> expire[t] \/ (resultat[t] = "delai" /\ De[t].ep \notin Interruption)
          [] OTHER -> resultat[t] \in {"succes", "cale"}

-----------------------------------------------------------------------------
(* What every step preserves when one thread at a time opens and closes.   *)
Tables == {<<>>} \cup UNION {{Tuyaux[i][a] : a \in Reglages(i)} : i \in I}
Positions == UNION {DOMAIN L : L \in Tables}
Fiches == [objet : {"nul", "ouvert", "tenu", "mort"}, endpoint_addrs : Tables, cfSource : {"nul", "vive"}]

TypeTuyaux ==
    /\ open_count \in Nat /\ seize \in BOOLEAN /\ sources \subseteq H
    /\ poignee \in [H -> {"fermee", "ouverte"}] /\ is_open \in [H -> BOOLEAN] /\ cfSource \in [H -> BOOLEAN]
    /\ alt \in [I -> UNION {Reglages(i) : i \in I}] /\ \A i \in I : alt[i] \in Reglages(i)
    /\ tenant \in [I -> H \cup {Rien, "autre"}]
    /\ claimed_interfaces \in [H -> SUBSET I] /\ interface \in [H -> [I -> Fiches]]
    /\ pc \in [F -> {"repos", "compte", "refuse", "ferme"}] /\ de \in [F -> H \cup {Rien}]
    /\ etat \in [T -> {"libre", "noyau", "rappel", "signale"}]
    /\ tuyau \in [T -> {<<>>, <<"controle">>} \cup I \X Positions]
    /\ resultat \in [T -> {"aucun", "succes", "cale", "delai", "abandon"}]
    /\ annule \in [T -> BOOLEAN] /\ expire \in [T -> BOOLEAN] /\ demande \in [T -> BOOLEAN]

(* The thread that opens or closes: it is alone, its handle is closed, and *)
(* one that goes on after the open has a source.                           *)
Passage(f) ==
    pc[f] # "repos" =>
        /\ \A g \in F \ {f} : pc[g] = "repos"
        /\ de[f] \in H /\ poignee[de[f]] = "fermee"
        /\ pc[f] = "compte" => sources # {}
        /\ pc[f] = "refuse" => ~is_open[de[f]]

(* The count, and what the handles know of the kernel's device.            *)
Comptee == IsFiniteSet(Ouvertes) /\ open_count = Cardinality(Ouvertes) /\ (Ouvertes # {} => sources # {})
Ouvreuse(h) ==
    is_open[h] => /\ seize
                  /\ h \in Ouvertes \/ \E f \in F : pc[f] # "repos" /\ de[f] = h

(* An interface object that is not dead is that of the interface's tenant, *)
(* with the endpoints of its setting and the source of its answers.        *)
Objet(h, i) ==
    interface[h][i].objet = "ouvert" =>
        /\ i \in claimed_interfaces[h] /\ tenant[i] = h
        /\ interface[h][i].endpoint_addrs = Tuyaux[i][alt[i]] /\ interface[h][i].cfSource = "vive"

(* A transfer in progress: its handle is open, and so is the interface of  *)
(* its pipe, which has its endpoint.                                       *)
SurTuyau(t) ==
    LET i == tuyau[t][1]  n == tuyau[t][2] IN
    /\ tuyau[t] \in I \X Positions /\ interface[De[t].h][i].objet = "ouvert"
    /\ n \in DOMAIN Tuyaux[i][alt[i]] /\ Tuyaux[i][alt[i]][n] = De[t].ep

Transport(t) ==
    t \in EnVol =>
        /\ De[t].h \in Ouvertes
        /\ IF De[t].ep = 0 THEN tuyau[t] = <<"controle">> ELSE SurTuyau(t)

(* Its result: an abort is one that was asked for, a timeout one that the  *)
(* kernel has.                                                             *)
Issue(t) ==
    /\ resultat[t] = "aucun" <=> etat[t] \in {"libre", "noyau"}
    /\ resultat[t] = "abandon" => demande[t]
    /\ resultat[t] = "delai" => De[t].ep \notin Interruption

Inductif ==
    /\ TypeTuyaux /\ Comptee
    /\ \A f \in F : Passage(f)
    /\ \A h \in H : Ouvreuse(h) /\ \A i \in I : Objet(h, i)
    /\ \A t \in T : Transport(t) /\ Issue(t)
=============================================================================
