------------------------------- MODULE Usbfs -------------------------------
(***************************************************************************)
(* libusb's Linux backend: one bulk or isochronous transfer from the       *)
(* device, split into URBs that are all given to the kernel at once.  The  *)
(* kernel fills them in order and gives them back one by one; a short      *)
(* packet, an error, a refused URB or a cancellation makes libusb discard  *)
(* the rest, while data may still arrive in them.                          *)
(*                                                                         *)
(* The loops over the URBs run under the transfer's lock, but the kernel   *)
(* does not wait for it.  A bulk device's data are the numbers 1, 2, 3 ... *)
(* An isochronous packet is received or in error, whatever it holds.       *)
(***************************************************************************)
EXTENDS Integers, SequencesExt

CONSTANTS
    MAX_BULK_BUFFER_LENGTH,
    Longueurs,              \* the lengths asked for, bulk
    MAX_ISO_BUFFER_LENGTH,
    Paquets                 \* the lengths of the packets, isochronous

(* What the constants must satisfy. *)
Hypotheses ==
    /\ MAX_BULK_BUFFER_LENGTH \in Nat \ {0}
    /\ Longueurs \subseteq Nat
    /\ MAX_ISO_BUFFER_LENGTH \in Nat
    /\ Paquets \subseteq Seq(Nat) \ {<<>>}

VARIABLES
    longueur,     \* transfer->length
    paquets,      \* iso_packet_desc[].length; <<>> for a bulk transfer
    bloc,         \* bulk_buffer_len
    suite,        \* use_bulk_continuation
    pc,           \* where the thread that holds the lock is; "vol" when it is free
    k, bas,       \* the URB of a loop, and the last one discard_urbs goes to
    retour,       \* the caller of discard_urbs
    r,            \* its result
    action,       \* reap_action
    reap_status,
    num_retired,
    transferred,
    desc,         \* iso_packet_desc[].status, "rien" until it is written
    iso_packet_offset,
    resultat,     \* the status given to the callback
    tampon,       \* the user's buffer
    urb,          \* the URBs: where each is, what it has received, its status
    lu,           \* what has become of each isochronous packet
    file,         \* those the kernel has finished, in order
    emis,         \* data sent by the device
    court,        \* history: the device has sent a short packet
    arret,        \* the endpoint is halted ("halte"), shut down ("coupe") or neither
    bloque        \* the kernel refuses continuations

appel == <<longueur, paquets, bloc, suite>>
iso == <<desc, iso_packet_offset>>
reaped == <<action, reap_status, num_retired, transferred, iso, resultat>>
noyau == <<urb, lu, file, tampon, emis, court, arret, bloque>>
vars == <<appel, pc, k, bas, retour, r, reaped, noyau>>

EstIso == paquets # <<>>

(* submit_iso_transfer puts each packet in the same URB as the one before  *)
(* as long as there is room.                                               *)
Place(us, l) ==
    IF FoldSeq(+, 0, Last(us)) + l > MAX_ISO_BUFFER_LENGTH
    THEN Append(us, <<l>>) ELSE Front(us) \o <<Append(Last(us), l)>>
Decoupe == FoldLeft(Place, << <<>> >>, paquets)
number_of_packets(i) == Len(Decoupe[i])
PremierPaquet(i) == FoldLeft(LAMBDA n, us : n + Len(us), 1, SubSeq(Decoupe, 1, i - 1))

num_urbs ==
    IF EstIso THEN Len(Decoupe)
    ELSE IF longueur = 0 THEN 1 ELSE (longueur + bloc - 1) \div bloc
Urbs == 1..num_urbs

buffer_length(i) ==
    IF i = num_urbs /\ longueur % bloc > 0 THEN longueur % bloc
    ELSE IF longueur = 0 THEN 0 ELSE bloc
Debut(i) == (i - 1) * bloc

(* submit_bulk_transfer up to its loop: the capabilities of the kernel     *)
(* decide on the split: none, with continuation, or without it.            *)
InitBulk ==
    /\ longueur \in Longueurs /\ paquets = <<>>
    /\ \/ bloc = (IF longueur = 0 THEN 1 ELSE longueur) /\ suite = FALSE
       \/ bloc = MAX_BULK_BUFFER_LENGTH /\ suite \in BOOLEAN
    /\ pc = "soumet"

(* submit_iso_transfer up to its loop: a packet that is too long for a URB *)
(* is refused.                                                             *)
InitIso ==
    /\ longueur = 0 /\ paquets \in Paquets
    /\ bloc = 1 /\ suite = FALSE
    /\ pc = IF \E p \in DOMAIN paquets : paquets[p] > MAX_ISO_BUFFER_LENGTH THEN "refus" ELSE "soumet"

Init ==
    /\ InitBulk \/ InitIso
    /\ desc = [p \in DOMAIN paquets |-> "rien"] /\ iso_packet_offset = 1
    /\ lu = [p \in DOMAIN paquets |-> "attente"]
    /\ k = 1 /\ bas = 1 /\ retour = "aucun" /\ r = 0
    /\ action = "NORMAL" /\ reap_status = "COMPLETED" /\ num_retired = 0
    /\ transferred = 0 /\ resultat = "aucun"
    /\ tampon = [j \in 1..longueur |-> 0]
    /\ urb = [i \in Urbs |-> [etat |-> "absent", recu |-> 0, statut |-> "0"]]
    /\ file = <<>> /\ emis = 0
    /\ court = FALSE /\ arret = "non" /\ bloque = FALSE

-----------------------------------------------------------------------------
(* The loop that submits the URBs. *)
SubmitUrb ==
    /\ pc = "soumet" /\ k \in Urbs
    /\ arret # "coupe" /\ ~bloque
    /\ urb' = [urb EXCEPT ![k].etat = "cours"]
    /\ k' = k + 1
    /\ pc' = IF k = num_urbs THEN "vol" ELSE "soumet"
    /\ UNCHANGED <<appel, bas, retour, r, reaped, lu, file, tampon, emis, court, arret, bloque>>

(* The URBs that were not submitted count as retired. *)
NonSoumisOublies(i) == 0   \* variant: they do not
NonSoumis(i) == num_urbs - i + 1

SubmitEchoue ==
    /\ pc = "soumet" /\ k \in Urbs
    /\ IF k = 1
       THEN /\ pc' = "refus"
            /\ UNCHANGED <<bas, k, retour, r, action, num_retired>>
       ELSE /\ num_retired' = num_retired + NonSoumis(k)
            /\ IF bloque /\ arret # "coupe"   \* EREMOTEIO
               THEN /\ action' = "COMPLETED_EARLY" /\ pc' = "vol"
                    /\ UNCHANGED <<bas, k, retour, r>>
               ELSE /\ action' = "SUBMIT_FAILED" /\ pc' = "discard"
                    /\ k' = k - 1 /\ bas' = 1 /\ retour' = "submit" /\ r' = 0
    /\ UNCHANGED <<appel, reap_status, transferred, iso, resultat, noyau>>

-----------------------------------------------------------------------------
(* discard_urbs, from the last one down: the kernel gives back what it     *)
(* still has, and does not find the others.                                *)
Discard ==
    /\ pc = "discard" /\ k >= bas
    /\ IF urb[k].etat = "cours"
       THEN /\ urb' = [urb EXCEPT ![k].etat = "fini", ![k].statut = "ENOENT"]
            /\ file' = Append(file, k)
            /\ UNCHANGED r
       ELSE /\ r' = IF k = num_urbs THEN 1 ELSE r
            /\ UNCHANGED <<urb, file>>
    /\ k' = k - 1
    /\ UNCHANGED <<appel, pc, bas, retour, reaped, lu, tampon, emis, court, arret, bloque>>

(* The end of it, and of op_cancel_transfer if that was the caller.        *)
FinDiscard ==
    /\ pc = "discard" /\ k < bas
    /\ pc' = "vol"
    /\ action' = IF retour = "cancel" /\ r = 0 /\ action # "ERROR" THEN "CANCELLED" ELSE action
    /\ UNCHANGED <<appel, k, bas, retour, r, reap_status, num_retired, transferred, iso, resultat, noyau>>

op_cancel_transfer ==
    /\ pc = "vol" /\ retour # "cancel"   \* CANCELLING lets one call through
    /\ pc' = "discard" /\ k' = num_urbs /\ bas' = 1 /\ retour' = "cancel" /\ r' = 0
    /\ UNCHANGED <<appel, reaped, noyau>>

-----------------------------------------------------------------------------
(* handle_bulk_completion for the URB that reap_for_handle has got: what   *)
(* it makes of reap_action and reap_status, and whether the transfer ends, *)
(* goes on, or has its other URBs discarded.                               *)
Apres(u, n) ==
    LET st == urb[u].statut
        suivant(a, s) ==   \* cancel_remaining
            [action |-> a, status |-> IF a = "ERROR" /\ s = "COMPLETED" THEN "ERROR" ELSE s,
             pc |-> IF n = num_urbs THEN "rendu" ELSE "discard"]
        premier(s) == IF reap_status = "COMPLETED" THEN s ELSE reap_status
    IN  CASE st = "ESHUTDOWN" -> suivant(action, "NO_DEVICE")
          [] st = "EPIPE"     -> suivant(action, premier("STALL"))
          [] st = "EOVERFLOW" -> [action |-> action, status |-> premier("OVERFLOW"), pc |-> "rendu"]
          [] st = "EPROTO"    -> suivant("ERROR", reap_status)
          [] OTHER ->
               IF u = num_urbs THEN [action |-> action, status |-> reap_status, pc |-> "rendu"]
               ELSE IF urb[u].recu < buffer_length(u) THEN suivant("COMPLETED_EARLY", reap_status)
               ELSE [action |-> action, status |-> reap_status, pc |-> "vol"]

DernierePremiere(n) == TRUE   \* variant: the first abnormal URB ends the transfer
Derniere(n) == n = num_urbs

StatutFinalNormal(a) == reap_status   \* variant: a failed submission is not reported
StatutFinal(a) ==
    IF a # "COMPLETED_EARLY" /\ reap_status = "COMPLETED" THEN "ERROR" ELSE reap_status

ApresAnormal(n) ==
    [action |-> action,
     status |-> IF Derniere(n) THEN StatutFinal(action) ELSE reap_status,
     pc     |-> IF Derniere(n) THEN "rendu" ELSE "vol"]

(* Surplus data are moved behind the data received before. *)
DeplaceRien(u) == tampon   \* variant: they stay where they are
Deplace(u) ==
    [j \in DOMAIN tampon |->
        IF j \in (transferred + 1)..(transferred + urb[u].recu)
        THEN tampon[j - transferred + Debut(u)] ELSE tampon[j]]

handle_bulk_completion ==
    /\ pc = "vol" /\ file # <<>> /\ ~EstIso
    /\ LET u == Head(file)
           n == num_retired + 1
           a == IF action = "NORMAL" THEN Apres(u, n) ELSE ApresAnormal(n)
       IN  /\ file' = Tail(file)
           /\ urb' = [urb EXCEPT ![u].etat = "rendu"]
           /\ tampon' = IF action = "NORMAL" THEN tampon ELSE Deplace(u)
           /\ transferred' = transferred + urb[u].recu
           /\ num_retired' = n
           /\ action' = a.action /\ reap_status' = a.status /\ pc' = a.pc
           /\ resultat' = IF a.pc # "rendu" THEN resultat
                          ELSE IF a.action = "CANCELLED" THEN "CANCELLED" ELSE a.status
           /\ IF a.pc = "discard"
              THEN k' = num_urbs /\ bas' = u + 1 /\ r' = 0 /\ retour' = IF retour = "cancel" THEN retour ELSE "reap"
              ELSE UNCHANGED <<k, bas, retour, r>>
    /\ UNCHANGED <<appel, iso, lu, emis, court, arret, bloque>>

(* handle_iso_completion: the results of the URB's packets go to the next  *)
(* descriptors of the transfer, whichever URB it is.                       *)
SuivantParUrb(u) == iso_packet_offset + 1   \* variant: one packet per URB
SuivantPaquet(u) == iso_packet_offset + number_of_packets(u)

ApresIso(u, n) ==
    LET fin(s) == [pc |-> "rendu", resultat |-> s]
        vol    == [pc |-> "vol", resultat |-> resultat]
    IN  IF action # "NORMAL"
        THEN IF n # num_urbs THEN vol ELSE fin(IF action = "CANCELLED" THEN "CANCELLED" ELSE "ERROR")
        ELSE IF u # num_urbs THEN vol
        ELSE fin(IF urb[u].statut = "ESHUTDOWN" THEN "NO_DEVICE" ELSE "COMPLETED")

handle_iso_completion ==
    /\ pc = "vol" /\ file # <<>> /\ EstIso
    /\ LET u == Head(file)
           a == ApresIso(u, num_retired + 1)
           o == iso_packet_offset
       IN  /\ file' = Tail(file)
           /\ urb' = [urb EXCEPT ![u].etat = "rendu"]
           /\ desc' = [p \in DOMAIN desc |->
                          IF p \in o..(o + number_of_packets(u) - 1) THEN lu[PremierPaquet(u) + p - o] ELSE desc[p]]
           /\ iso_packet_offset' = SuivantPaquet(u)
           /\ num_retired' = num_retired + 1
           /\ pc' = a.pc /\ resultat' = a.resultat
    /\ UNCHANGED <<appel, k, bas, retour, r, action, reap_status, transferred,
                   lu, tampon, emis, court, arret, bloque>>

-----------------------------------------------------------------------------
(* The kernel and the device: data go to the first URB in progress.        *)
Actif(i) == urb[i].etat = "cours" /\ \A j \in 1..(i - 1) : urb[j].etat # "cours"

(* URB i ends; if that is not a success the URBs that continue it end too. *)
Termine(i, u, st) ==
    LET echec  == suite /\ st # "0"
        autres == {j \in (i + 1)..num_urbs : urb[j].etat = "cours" /\ (echec \/ st = "ESHUTDOWN")}
        fin(j) == IF st = "ESHUTDOWN" THEN st ELSE "ECONNRESET"
    IN  /\ urb' = [j \in Urbs |-> IF j = i THEN [u EXCEPT !.etat = "fini", !.statut = st]
                                  ELSE IF j \in autres THEN [urb[j] EXCEPT !.etat = "fini", !.statut = fin(j)]
                                  ELSE urb[j]]
        /\ file' = file \o [x \in 1..(1 + Cardinality(autres)) |-> i + x - 1]
        /\ bloque' = (bloque \/ echec)

Donnee(i) ==
    LET u == [urb[i] EXCEPT !.recu = @ + 1] IN
    /\ Actif(i) /\ ~EstIso /\ arret = "non" /\ urb[i].recu < buffer_length(i)
    /\ emis' = emis + 1
    /\ tampon' = [tampon EXCEPT ![Debut(i) + u.recu] = emis + 1]
    /\ IF u.recu = buffer_length(i) THEN Termine(i, u, "0")
       ELSE urb' = [urb EXCEPT ![i] = u] /\ UNCHANGED <<file, bloque>>
    /\ UNCHANGED <<appel, pc, k, bas, retour, r, reaped, lu, court, arret>>

(* An isochronous packet has its turn; the URB ends with the last one.     *)
Paquet(i) ==
    LET u == [urb[i] EXCEPT !.recu = @ + 1] IN
    /\ Actif(i) /\ EstIso /\ arret = "non"
    /\ \E s \in {"recu", "erreur"} : lu' = [lu EXCEPT ![PremierPaquet(i) + urb[i].recu] = s]
    /\ IF u.recu = number_of_packets(i) THEN Termine(i, u, "0")
       ELSE urb' = [urb EXCEPT ![i] = u] /\ UNCHANGED <<file, bloque>>
    /\ UNCHANGED <<appel, pc, k, bas, retour, r, reaped, tampon, emis, court, arret>>

PaquetCourt(i) ==
    /\ Actif(i) /\ ~EstIso /\ arret = "non"
    /\ urb[i].recu < buffer_length(i) \/ longueur = 0
    /\ Termine(i, urb[i], IF suite /\ i < num_urbs THEN "EREMOTEIO" ELSE "0")
    /\ court' = TRUE
    /\ UNCHANGED <<appel, pc, k, bas, retour, r, reaped, lu, tampon, emis, arret>>

(* An overflow needs a URB that is not a whole number of packets: the last. *)
Erreur(i, st) ==
    /\ Actif(i) /\ (arret = "halte" => st \in {"EPIPE", "ESHUTDOWN"})
    /\ EstIso => st = "ESHUTDOWN"
    /\ st = "EOVERFLOW" => i = num_urbs /\ longueur % MAX_BULK_BUFFER_LENGTH # 0
    /\ Termine(i, urb[i], st)
    /\ arret' = CASE st = "EPIPE" -> "halte" [] st = "ESHUTDOWN" -> "coupe" [] OTHER -> arret
    /\ UNCHANGED <<appel, pc, k, bas, retour, r, reaped, lu, tampon, emis, court>>

Noyau ==
    \E i \in Urbs :
        Donnee(i) \/ PaquetCourt(i) \/ Paquet(i)
        \/ \E st \in {"EPIPE", "EPROTO", "EOVERFLOW", "ESHUTDOWN"} : Erreur(i, st)

(* Nothing is left to do when the transfer has been answered or refused.   *)
Next ==
    \/ SubmitUrb \/ SubmitEchoue \/ Discard \/ FinDiscard \/ op_cancel_transfer
    \/ handle_bulk_completion \/ handle_iso_completion \/ Noyau
    \/ pc \in {"rendu", "refus"} /\ UNCHANGED vars

Spec == Init /\ [][Next]_vars

-----------------------------------------------------------------------------
(* When the callback is called the buffer holds everything the device has  *)
(* sent, in order, without a hole, and actual_length says how much.        *)
DonneesContigues ==
    pc = "rendu" => transferred = emis /\ \A j \in 1..emis : tampon[j] = j

(* A transfer that is not answered yet has a URB in the kernel: the event  *)
(* thread will be told about it again.                                     *)
JamaisOublie ==
    pc = "vol" => \E i \in Urbs : urb[i].etat \in {"cours", "fini"}

RestesAttendus == pc \in {"rendu", "refus"} => \A i \in Urbs : urb[i].etat \in {"absent", "rendu"}

(* Only when the endpoint has stalled without continuation is the callback *)
(* called, and the URBs freed, while the kernel still has one of them.     *)
UrbRendues == (resultat = "STALL" /\ ~suite) \/ RestesAttendus

(* A transfer ends with COMPLETED only if all that was asked for has come, *)
(* the device has ended it with a short packet, or the kernel has refused  *)
(* a continuation, which libusb takes for the effect of a short packet.    *)
StatutFidele ==
    resultat = "COMPLETED" =>
        \/ transferred = longueur \/ court
        \/ suite /\ \E i \in Urbs : urb[i].etat = "absent"

(* Unless URBs have been discarded, which gives them back from the last to *)
(* the first, each isochronous packet has its own result when the callback *)
(* is called, and COMPLETED means that every packet had its turn.          *)
PaquetsFideles ==
    resultat \in {"COMPLETED", "NO_DEVICE"} =>
        /\ desc = lu
        /\ resultat = "COMPLETED" => \A p \in DOMAIN lu : lu[p] # "attente"

-----------------------------------------------------------------------------
(* What a comment of the source says, and the code does not always do:     *)
(* "cancel remaining urbs and wait for their completion before reporting   *)
(* results".  False after a stall.                                         *)
AttendLesRestes == RestesAttendus
=============================================================================
