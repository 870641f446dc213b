----------------------------- MODULE Transferts -----------------------------
(***************************************************************************)
(* libusb: the life of a transfer.  Application threads submit, another    *)
(* one cancels, the event thread reaps what the kernel has finished and    *)
(* handles a device that disappears, and any thread that waits for events  *)
(* may find deadlines that have passed.  They meet in the transfer's flags *)
(* and lock and in the list flying_transfers, sorted by deadline.          *)
(*                                                                         *)
(* Each transfer has a thread of its own that submits it again when its    *)
(* callback has been called.  A critical section in which nobody waits is  *)
(* one step.  Transfers have one URB (module Usbfs has several), and the   *)
(* backend is the one of Linux, without timerfd.                           *)
(***************************************************************************)
EXTENDS Integers, Sequences, SequencesExt, FiniteSets

CONSTANTS
    T,                \* the transfers, and the threads that submit them
    Delais,           \* the timeouts each transfer is submitted with, 0 for none
    MaxSoumissions,   \* calls of libusb_submit_transfer (bound of the model)
    Personne          \* no thread, no transfer

ASSUME TransfertsAssumption ==
    /\ T \cap {"ev", "autre"} = {} /\ Personne \notin T \cup {"ev", "autre"}
    /\ Delais \in [T -> (SUBSET {0, 1}) \ {{}}]
    /\ MaxSoumissions \in Nat

Minuteurs == {"ev", "autre"}   \* the event thread, and one that waits for events

VARIABLES
    flags,      \* usbi_transfer.flags
    lock,       \* usbi_transfer.lock is held by a submission
    timeout,    \* usbi_transfer.timeout, 0 when it is not set
    status,     \* what the event thread will report of its transfer
    flying,     \* flying_transfers
    volLock,    \* who holds flying_transfers_lock over several steps
    urbs,       \* the backend's URB is allocated
    annule,     \* reap_action is CANCELLED
    noyau,      \* the URB in the kernel
    branche,    \* the device is there
    surveille,  \* its file descriptor is polled
    horloge,    \* deadlines up to this one have passed
    pc, cur,    \* where each thread is, and the transfer it works on
    lu,         \* the flags a thread has read without flags_lock
    rang,       \* number of submissions
    acceptees,  \* history: submissions of each transfer that returned success
    reponses,   \* history: calls of its callback
    demande,    \* history: the user has cancelled the present submission
    ecrases     \* history: transfers whose IN_FLIGHT was written over

vars == <<flags, lock, timeout, status, flying, volLock, urbs, annule, noyau,
          branche, surveille, horloge, pc, cur, lu, rang, acceptees, reponses, demande, ecrases>>
backend == <<urbs, annule, noyau>>
histoire == <<rang, acceptees, reponses, demande, ecrases>>

Fils == T \cup Minuteurs

Init ==
    /\ flags = [t \in T |-> {}] /\ lock = [t \in T |-> FALSE]
    /\ timeout = [t \in T |-> 0] /\ status = "aucun"
    /\ flying = <<>> /\ volLock = Personne
    /\ urbs = [t \in T |-> FALSE] /\ annule = [t \in T |-> FALSE]
    /\ noyau = [t \in T |-> "rien"] /\ branche = TRUE /\ surveille = TRUE
    /\ horloge = 0 /\ rang = 0
    /\ pc = [f \in Fils |-> "repos"] /\ cur = [f \in Minuteurs |-> Personne]
    /\ lu = [f \in Minuteurs |-> {}]
    /\ demande = [t \in T |-> FALSE] /\ ecrases = {}
    /\ acceptees = [t \in T |-> 0] /\ reponses = [t \in T |-> 0]

-----------------------------------------------------------------------------
(* libusb_submit_transfer, by the thread of the transfer. *)

(* Deadlines are numbered in the order they are computed in: all timeouts  *)
(* are equal.  Without a timeout transfer->timeout is left as it is.       *)
calculate_timeout(t, d) == IF d = 0 THEN timeout[t] ELSE rang + 1

FlagsSoumisGardes(t) == flags[t] \cup {"SUBMITTING"}   \* variant: flags = 0 is missing
FlagsSoumis(t) == {"SUBMITTING"}

Soumet(t, d) ==
    /\ pc[t] = "repos" /\ rang < MaxSoumissions
    /\ acceptees[t] = reponses[t]
    /\ ~lock[t]
    /\ "IN_FLIGHT" \notin flags[t]
    /\ flags' = [flags EXCEPT ![t] = FlagsSoumis(t)]
    /\ timeout' = [timeout EXCEPT ![t] = calculate_timeout(t, d)]
    /\ lock' = [lock EXCEPT ![t] = TRUE]
    /\ pc' = [pc EXCEPT ![t] = "liste"]
    /\ rang' = rang + 1
    /\ UNCHANGED <<status, flying, volLock, backend, branche, surveille, horloge, cur, lu,
                   acceptees, reponses, demande, ecrases>>

PlaceEnFin(t) == Len(flying) + 1   \* variant: the list is not sorted
(* The place of a transfer: behind the deadlines that are not later.       *)
Place(t) ==
    IF timeout[t] = 0 THEN Len(flying) + 1
    ELSE LET apres == {i \in DOMAIN flying : timeout[flying[i]] = 0 \/ timeout[flying[i]] > timeout[t]}
         IN  IF apres = {} THEN Len(flying) + 1 ELSE CHOOSE i \in apres : \A j \in apres : i <= j

add_to_flying_list(t) ==
    /\ pc[t] = "liste" /\ volLock = Personne
    /\ flying' = InsertAt(flying, Place(t), t)
    /\ pc' = [pc EXCEPT ![t] = "noyau"]
    /\ UNCHANGED <<flags, lock, timeout, status, volLock, backend, branche, surveille, horloge, cur, lu, histoire>>

(* The backend's submit_transfer: refused by the kernel, or without device. *)
op_submit_transfer(t) ==
    /\ pc[t] = "noyau"
    /\ \/ /\ branche
          /\ urbs' = [urbs EXCEPT ![t] = TRUE]
          /\ annule' = [annule EXCEPT ![t] = FALSE]
          /\ noyau' = [noyau EXCEPT ![t] = "cours"]
          /\ pc' = [pc EXCEPT ![t] = "soumis"]
       \/ /\ pc' = [pc EXCEPT ![t] = "echec"]
          /\ UNCHANGED backend
    /\ UNCHANGED <<flags, lock, timeout, status, flying, volLock, branche, surveille, horloge, cur, lu, histoire>>

DisparuIgnore(t) == pc[t] = "echec"   \* variant: the disappearance is not looked at
Disparu(t) == pc[t] = "echec" \/ "DEVICE_DISAPPEARED" \in flags[t]

(* The end of libusb_submit_transfer, under flags_lock again.              *)
Accepte(t) ==
    /\ pc[t] = "soumis" /\ ~Disparu(t)
    /\ flags' = [flags EXCEPT ![t] = (@ \ {"SUBMITTING"})
                    \cup IF "COMPLETED" \in @ THEN {} ELSE {"IN_FLIGHT"}]
    /\ acceptees' = [acceptees EXCEPT ![t] = @ + 1]
    /\ lock' = [lock EXCEPT ![t] = FALSE]
    /\ pc' = [pc EXCEPT ![t] = "repos"]
    /\ UNCHANGED <<timeout, status, flying, volLock, backend, branche, surveille, horloge, cur, lu,
                   rang, reponses, demande, ecrases>>

Refuse(t) ==
    /\ pc[t] \in {"soumis", "echec"} /\ Disparu(t)
    /\ flags' = [flags EXCEPT ![t] = @ \ {"SUBMITTING"}]
    /\ urbs' = [urbs EXCEPT ![t] = FALSE]
    /\ pc' = [pc EXCEPT ![t] = "retire"]
    /\ UNCHANGED <<lock, timeout, status, flying, volLock, annule, noyau, branche, surveille, horloge, cur, lu, histoire>>

(* remove_from_flying_list, then the transfer's lock is released. *)
Retire(t) ==
    /\ pc[t] = "retire" /\ volLock = Personne
    /\ flying' = RemoveFirst(flying, t)
    /\ lock' = [lock EXCEPT ![t] = FALSE]
    /\ pc' = [pc EXCEPT ![t] = "repos"]
    /\ UNCHANGED <<flags, timeout, status, volLock, backend, branche, surveille, horloge, cur, lu, histoire>>

-----------------------------------------------------------------------------
(* libusb_cancel_transfer: both locks are held from the test to the end.   *)
Annulable(t) == "IN_FLIGHT" \in flags[t] /\ "CANCELLING" \notin flags[t]

(* The backend finds the URB and discards it, which succeeds only as long  *)
(* as the kernel has not finished it.                                      *)
Discard(t) == Annulable(t) /\ branche /\ urbs[t] /\ noyau[t] = "cours"

libusb_cancel_transfer(t) ==
    /\ ~lock[t]
    /\ flags' = [flags EXCEPT ![t] = IF ~Annulable(t) THEN @
                    ELSE @ \cup {"CANCELLING"} \cup IF branche THEN {} ELSE {"DEVICE_DISAPPEARED"}]
    /\ annule' = [annule EXCEPT ![t] = @ \/ Discard(t)]
    /\ noyau' = [noyau EXCEPT ![t] = IF Discard(t) THEN "annule" ELSE @]

Annule(t) ==
    /\ Annulable(t)
    /\ libusb_cancel_transfer(t)
    /\ demande' = [demande EXCEPT ![t] = TRUE]
    /\ UNCHANGED <<lock, timeout, status, flying, volLock, urbs, branche, surveille, horloge, pc, cur, lu,
                   rang, acceptees, reponses, ecrases>>

-----------------------------------------------------------------------------
Echu(t) == timeout[t] # 0 /\ timeout[t] <= horloge

(* The next transfer of the list whose deadline has passed and has not     *)
(* been handled; the search ends at the first one that has not passed.     *)
Expires(f) ==
    {i \in DOMAIN flying :
        /\ \A j \in i..Len(flying) : flying[j] # cur[f]
        /\ Echu(flying[i]) /\ "TIMEOUT_HANDLED" \notin flags[flying[i]]
        /\ \A j \in 1..(i - 1) : Echu(flying[j]) \/ (timeout[flying[j]] # 0 /\ "TIMEOUT_HANDLED" \in flags[flying[j]])}

(* handle_timeouts, by any thread that polls or waits for events.  A call  *)
(* that finds no deadline to handle changes nothing and is left out.       *)
handle_timeouts(f) ==
    /\ pc[f] = "repos" /\ volLock = Personne /\ Expires(f) # {}
    /\ volLock' = f
    /\ pc' = [pc EXCEPT ![f] = "cherche"]
    /\ UNCHANGED <<flags, lock, timeout, status, flying, backend, branche, surveille, horloge, cur, lu, histoire>>

Cherche(f) ==
    /\ pc[f] = "cherche"
    /\ IF Expires(f) = {}
       THEN /\ volLock' = Personne
            /\ cur' = [cur EXCEPT ![f] = Personne]
            /\ pc' = [pc EXCEPT ![f] = "repos"] /\ UNCHANGED lu
       ELSE LET i == CHOOSE k \in Expires(f) : \A j \in Expires(f) : k <= j
            IN  /\ cur' = [cur EXCEPT ![f] = flying[i]]
                /\ lu' = [lu EXCEPT ![f] = flags[flying[i]]]
                /\ pc' = [pc EXCEPT ![f] = "traite"] /\ UNCHANGED volLock
    /\ UNCHANGED <<flags, lock, timeout, status, flying, backend, branche, surveille, horloge, histoire>>

(* flags |= TIMEOUT_HANDLED without flags_lock: what others have written   *)
(* since the flags were read is lost, or what this thread writes is.  The  *)
(* IN_FLIGHT of a submission that has just returned may be lost this way.  *)
Traite(f) ==
    /\ pc[f] = "traite"
    /\ \/ /\ flags' = [flags EXCEPT ![cur[f]] = lu[f] \cup {"TIMEOUT_HANDLED"}]
          /\ ecrases' = ecrases \cup ({cur[f]} \cap {t \in T : "IN_FLIGHT" \in flags[t] \ lu[f]})
       \/ flags[cur[f]] # lu[f] /\ UNCHANGED <<flags, ecrases>>
    /\ pc' = [pc EXCEPT ![f] = "annule"]
    /\ lu' = [lu EXCEPT ![f] = {}]
    /\ UNCHANGED <<lock, timeout, status, flying, volLock, backend, branche, surveille, horloge, cur,
                   rang, acceptees, reponses, demande>>

(* Its call of libusb_cancel_transfer. *)
AnnuleEchu(f) ==
    /\ pc[f] = "annule"
    /\ libusb_cancel_transfer(cur[f])
    /\ pc' = [pc EXCEPT ![f] = IF Discard(cur[f]) THEN "marque" ELSE "cherche"]
    /\ UNCHANGED <<lock, timeout, status, flying, volLock, urbs, branche, surveille, horloge, cur, lu, histoire>>

MarqueRien(f) ==   \* variant: TIMED_OUT is not set
    /\ pc[f] = "marque"
    /\ pc' = [pc EXCEPT ![f] = "cherche"]
    /\ UNCHANGED <<flags, lock, timeout, status, flying, volLock, backend, branche, surveille, horloge, cur, lu, histoire>>
Marque(f) ==
    /\ pc[f] = "marque"
    /\ flags' = [flags EXCEPT ![cur[f]] = @ \cup {"TIMED_OUT"}]
    /\ pc' = [pc EXCEPT ![f] = "cherche"]
    /\ UNCHANGED <<lock, timeout, status, flying, volLock, backend, branche, surveille, horloge, cur, lu, histoire>>

-----------------------------------------------------------------------------
(* The event thread: reap_for_handle and the completion of a transfer.     *)
Reap(t) ==
    /\ pc["ev"] = "repos" /\ branche /\ noyau[t] \in {"fini", "annule"}
    /\ noyau' = [noyau EXCEPT ![t] = "rien"]
    /\ cur' = [cur EXCEPT !["ev"] = t]
    /\ pc' = [pc EXCEPT !["ev"] = "fini"]
    /\ UNCHANGED <<flags, lock, timeout, status, flying, volLock, urbs, annule, branche, surveille, horloge, lu, histoire>>

(* handle_bulk_completion takes the transfer's lock and frees the URB;     *)
(* usbi_handle_transfer_cancellation then reads the flags without a lock.  *)
PretSansVerrou(t) == TRUE   \* variant: the transfer's lock is not taken
Pret(t) == ~lock[t]

handle_completion ==
    LET t == cur["ev"] IN
    /\ pc["ev"] = "fini" /\ Pret(t)
    /\ urbs' = [urbs EXCEPT ![t] = FALSE]
    /\ IF annule[t]
       THEN pc' = [pc EXCEPT !["ev"] = "cause"] /\ UNCHANGED status
       ELSE /\ status' = "COMPLETED"
            /\ pc' = [pc EXCEPT !["ev"] = "sortie"]
    /\ UNCHANGED <<flags, lock, timeout, flying, volLock, annule, noyau, branche, surveille, horloge, cur, lu, histoire>>

usbi_handle_transfer_cancellation ==
    LET t == cur["ev"] IN
    /\ pc["ev"] = "cause"
    /\ status' = IF "TIMED_OUT" \in flags[t] THEN "TIMED_OUT" ELSE "CANCELLED"
    /\ pc' = [pc EXCEPT !["ev"] = "sortie"]
    /\ UNCHANGED <<flags, lock, timeout, flying, volLock, backend, branche, surveille, horloge, cur, lu, histoire>>

(* usbi_handle_transfer_completion: off the list, then the flags and the   *)
(* callback.                                                               *)
Sortie ==
    /\ pc["ev"] = "sortie" /\ volLock = Personne
    /\ flying' = RemoveFirst(flying, cur["ev"])
    /\ pc' = [pc EXCEPT !["ev"] = "rappel"]
    /\ UNCHANGED <<flags, lock, timeout, status, volLock, backend, branche, surveille, horloge, cur, lu, histoire>>

Rappel ==
    LET t == cur["ev"] IN
    /\ pc["ev"] = "rappel"
    /\ flags' = [flags EXCEPT ![t] = (@ \ {"IN_FLIGHT"}) \cup {"COMPLETED"}]
    /\ reponses' = [reponses EXCEPT ![t] = @ + 1]
    /\ pc' = [pc EXCEPT !["ev"] = IF status = "NO_DEVICE" THEN "parti" ELSE "repos"]
    /\ cur' = [cur EXCEPT !["ev"] = Personne] /\ status' = "aucun"
    /\ demande' = [demande EXCEPT ![t] = FALSE] /\ ecrases' = ecrases \ {t}
    /\ UNCHANGED <<lock, timeout, flying, volLock, backend, branche, surveille, horloge, lu, rang, acceptees>>

-----------------------------------------------------------------------------
(* usbi_handle_disconnect, by the event thread when poll reports an error. *)
handle_disconnect ==
    /\ pc["ev"] = "repos" /\ ~branche /\ surveille
    /\ surveille' = FALSE
    /\ pc' = [pc EXCEPT !["ev"] = "parti"]
    /\ UNCHANGED <<flags, lock, timeout, status, flying, volLock, backend, branche, horloge, cur, lu, histoire>>

(* One turn of its loop: the first transfer in flight is terminated, those *)
(* before it, whose submission has not ended, are told.                    *)
MarqueDisparu(i) == {flying[j] : j \in 1..(i - 1)}

Parti ==
    LET vol == {i \in DOMAIN flying : "IN_FLIGHT" \in flags[flying[i]]}
        i   == IF vol = {} THEN Len(flying) + 1 ELSE CHOOSE k \in vol : \A j \in vol : k <= j
    IN  /\ pc["ev"] = "parti" /\ volLock = Personne
        /\ flags' = [t \in T |-> IF t \in MarqueDisparu(i) THEN flags[t] \cup {"DEVICE_DISAPPEARED"} ELSE flags[t]]
        /\ IF vol = {}
           THEN pc' = [pc EXCEPT !["ev"] = "repos"] /\ UNCHANGED cur
           ELSE pc' = [pc EXCEPT !["ev"] = "prive"] /\ cur' = [cur EXCEPT !["ev"] = flying[i]]
    /\ UNCHANGED <<lock, timeout, status, flying, volLock, backend, branche, surveille, horloge, lu, histoire>>

clear_transfer_priv ==
    LET t == cur["ev"] IN
    /\ pc["ev"] = "prive" /\ ~lock[t]
    /\ urbs' = [urbs EXCEPT ![t] = FALSE]
    /\ status' = "NO_DEVICE"
    /\ pc' = [pc EXCEPT !["ev"] = "sortie"]
    /\ UNCHANGED <<flags, lock, timeout, flying, volLock, annule, noyau, branche, surveille, horloge, cur, lu, histoire>>

-----------------------------------------------------------------------------
(* The kernel and the clock. *)
Finit(t) ==
    /\ noyau[t] = "cours"
    /\ noyau' = [noyau EXCEPT ![t] = "fini"]
    /\ UNCHANGED <<flags, lock, timeout, status, flying, volLock, urbs, annule, branche, surveille, horloge, pc, cur, lu, histoire>>

Debranche ==
    /\ branche
    /\ branche' = FALSE
    /\ noyau' = [t \in T |-> "rien"]
    /\ UNCHANGED <<flags, lock, timeout, status, flying, volLock, urbs, annule, surveille, horloge, pc, cur, lu, histoire>>

Tic ==
    /\ horloge < rang
    /\ horloge' = horloge + 1
    /\ UNCHANGED <<flags, lock, timeout, status, flying, volLock, backend, branche, surveille, pc, cur, lu, histoire>>

-----------------------------------------------------------------------------
Soumission(t) ==
    \/ \E d \in Delais[t] : Soumet(t, d)
    \/ add_to_flying_list(t) \/ op_submit_transfer(t)
    \/ Accepte(t) \/ Refuse(t) \/ Retire(t)

Minuterie(f) == handle_timeouts(f) \/ Cherche(f) \/ Traite(f) \/ AnnuleEchu(f) \/ Marque(f)

(* What the event thread does once it has something to do. *)
Completion ==
    \/ handle_completion \/ usbi_handle_transfer_cancellation \/ Sortie \/ Rappel
    \/ Parti \/ clear_transfer_priv

Next ==
    \/ \E t \in T : Soumission(t) \/ Annule(t) \/ Reap(t) \/ Finit(t)
    \/ \E f \in Minuteurs : Minuterie(f)
    \/ Completion \/ handle_disconnect
    \/ Debranche \/ Tic

Spec == Init /\ [][Next]_vars

(* Threads go on and time passes; a transfer may never end by itself, and  *)
(* nobody has to submit, cancel or unplug.  The event thread polls again   *)
(* after each event, so what is ready is reaped and deadlines are handled. *)
FairSpec ==
    /\ Spec
    /\ \A t \in T : WF_vars(Soumission(t) /\ pc[t] # "repos")
    /\ \A f \in Minuteurs : WF_vars(Minuterie(f) /\ pc[f] # "repos")
    /\ WF_vars(handle_timeouts("ev"))
    /\ WF_vars(\E t \in T : Reap(t)) /\ WF_vars(handle_disconnect)
    /\ WF_vars(Completion)
    /\ WF_vars(Tic)

-----------------------------------------------------------------------------
(* A transfer that was accepted and is still to be answered can be found:  *)
(* it is in flying_transfers until the event thread itself has taken it,   *)
(* and in flight for those who cancel it or terminate it.  One case is     *)
(* lost: its deadline passed before its submission had returned, and who   *)
(* handles deadlines wrote IN_FLIGHT over.                                 *)
Retrouvable ==
    \A t \in T : acceptees[t] > reponses[t] =>
        /\ (\E i \in DOMAIN flying : flying[i] = t) \/ (pc["ev"] = "rappel" /\ cur["ev"] = t)
        /\ \/ "IN_FLIGHT" \in flags[t]
           \/ t \in ecrases /\ Echu(t) /\ "TIMEOUT_HANDLED" \in flags[t]

(* A transfer that the user has not cancelled ends with CANCELLED in one   *)
(* case only: another thread has cancelled it because of its deadline and  *)
(* has not got to the mark that says so before the event thread looks.     *)
ExpirationRapportee ==
    LET t == cur["ev"]
    IN  pc["ev"] = "cause" /\ "TIMED_OUT" \notin flags[t] /\ ~demande[t]
            => pc["autre"] = "marque" /\ cur["autre"] = t

(* Both: the event thread can find what it must answer, and says why.      *)
ReponseJuste == Retrouvable /\ ExpirationRapportee

(* Each submission that returns success is answered by exactly one call of *)
(* the callback, and one that fails by none.                               *)
Reponses == INSTANCE Soumissions
ReponseUnique == Reponses!Spec

(* The deadlock of SoumissionRend below: who handles deadlines holds the   *)
(* list and waits for a transfer, whose submission has failed, holds the   *)
(* transfer and waits for the list.                                        *)
Interbloque ==
    \E t \in T, f \in Minuteurs :
        pc[t] = "retire" /\ volLock = f /\ pc[f] = "annule" /\ cur[f] = t

(* Answered, unless IN_FLIGHT was lost or that deadlock has occurred.      *)
Repondue(t) == acceptees[t] = reponses[t] \/ t \in ecrases \/ Interbloque

(* With a timeout the answer comes whatever the device does; without one,  *)
(* and even when IN_FLIGHT was lost, it comes once the kernel has finished *)
(* the URB, or the device goes.                                            *)
ReponseCertaine ==
    /\ \A t \in {u \in T : 0 \notin Delais[u]} : acceptees[t] > reponses[t] ~> Repondue(t)
    /\ \A t \in T : noyau[t] \in {"fini", "annule"} ~> acceptees[t] = reponses[t] \/ ~branche \/ Interbloque

(* When the device has gone every transfer in progress is answered.        *)
DepartRepondu == ~branche ~> \A t \in T : Repondue(t)

-----------------------------------------------------------------------------
(* What a comment of the source says, and the code does not do.            *)

(* libusb_submit_transfer "will fire off the USB transfer and then return  *)
(* immediately".                                                           *)
SoumissionRend == \A t \in T : pc[t] # "repos" ~> pc[t] = "repos"
=============================================================================
