------------------------------- MODULE Synchrone -------------------------------
(***************************************************************************)
(* The synchronous transfers of libusb (sync.c): a call allocates a        *)
(* transfer, submits it, handles events until its callback has run, reads  *)
(* the result, and frees it.  The callback of a transfer runs in any of    *)
(* the threads that handle events, and writes in the stack of the one that *)
(* waits.                                                                  *)
(***************************************************************************)
EXTENDS Naturals, FiniteSets

CONSTANTS
    A, Controles    \* threads that call; those whose call is a control transfer

(* What the constants must satisfy. *)
Hypotheses == Controles \subseteq A

VARIABLES
    pc,
    transfer, buffer,    \* the memory of a call: "nul" or "vif"
    completed,           \* its variable on the stack
    etat, annule,        \* the transfer: in the kernel, answered; libusb_cancel_transfer was called
    status, actual,      \* of the transfer, once answered
    r, transferred       \* what the call returns

memoire == <<transfer, buffer>>
noyau == <<etat, annule, status, actual>>
rendus == <<r, transferred>>
vars == <<pc, memoire, completed, noyau, rendus>>

Statuts == {"COMPLETED", "ERROR", "TIMED_OUT", "CANCELLED", "STALL", "NO_DEVICE", "OVERFLOW"}

Init ==
    /\ pc = [a \in A |-> "repos"]
    /\ transfer = [a \in A |-> "nul"] /\ buffer = [a \in A |-> "nul"]
    /\ completed = [a \in A |-> FALSE]
    /\ etat = [a \in A |-> "libre"] /\ annule = [a \in A |-> FALSE]
    /\ status = [a \in A |-> "aucun"] /\ actual = [a \in A |-> 0]
    /\ r = [a \in A |-> "aucun"] /\ transferred = [a \in A |-> 0]

Va(a, etape) == pc' = [pc EXCEPT ![a] = etape]

(* libusb_free_transfer; LIBUSB_TRANSFER_FREE_BUFFER is set once there is  *)
(* a buffer of its own.                                                    *)
Libere(a) ==
    /\ transfer' = [transfer EXCEPT ![a] = "nul"]
    /\ buffer' = [buffer EXCEPT ![a] = "nul"]

Refuse(a, erreur) ==
    /\ Libere(a) /\ r' = [r EXCEPT ![a] = erreur] /\ Va(a, "rendu")
    /\ UNCHANGED <<completed, noyau, transferred>>

-----------------------------------------------------------------------------
(* libusb_control_transfer and do_sync_bulk_transfer, until the transfer   *)
(* is submitted.                                                           *)
libusb_alloc_transfer(a) ==
    /\ pc[a] = "repos"
    /\ transfer' = [transfer EXCEPT ![a] = "vif"] /\ completed' = [completed EXCEPT ![a] = FALSE]
    /\ Va(a, IF a \in Controles THEN "tampon" ELSE "soumet")
    /\ UNCHANGED <<buffer, noyau, rendus>>

libusb_control_transfer(a) ==
    /\ pc[a] = "tampon"
    /\ \/ buffer' = [buffer EXCEPT ![a] = "vif"] /\ Va(a, "soumet")
          /\ UNCHANGED <<transfer, completed, noyau, rendus>>
       \/ Refuse(a, "NO_MEM")

libusb_submit_transfer(a) ==
    /\ pc[a] = "soumet"
    /\ \/ etat' = [etat EXCEPT ![a] = "noyau"] /\ annule' = [annule EXCEPT ![a] = FALSE]
          /\ Va(a, "attend") /\ UNCHANGED <<memoire, completed, status, actual, rendus>>
       \/ Refuse(a, "submit")

(* The kernel answers; it has moved data or not.  A transfer is cancelled  *)
(* only if it was asked.                                                   *)
Noyau(a) ==
    /\ etat[a] = "noyau"
    /\ etat' = [etat EXCEPT ![a] = "pret"]
    /\ \E s \in Statuts, n \in {0, 1} :
        /\ s = "CANCELLED" => annule[a]
        /\ status' = [status EXCEPT ![a] = s] /\ actual' = [actual EXCEPT ![a] = n]
    /\ UNCHANGED <<pc, memoire, completed, annule, rendus>>

(* sync_transfer_cb, for the transfers of S, in the thread that handles    *)
(* events.                                                                 *)
sync_transfer_cb(S) ==
    /\ etat' = [a \in A |-> IF a \in S THEN "libre" ELSE etat[a]]
    /\ completed' = [a \in A |-> completed[a] \/ a \in S]

(* sync_transfer_wait_for_completion: events are handled until the         *)
(* callback has run.  After an error, other than an interruption, the      *)
(* transfer is cancelled, which its callback will tell.                    *)
SuiteRend(e) == IF e = "erreur" THEN "lit" ELSE "attend"   \* variant: an error ends the loop
Suite(e) == "attend"

sync_transfer_wait_for_completion(a) ==
    /\ pc[a] = "attend" /\ ~completed[a]
    /\ \/ /\ \E S \in SUBSET {b \in A : etat[b] = "pret"} : S # {} /\ sync_transfer_cb(S)
          /\ UNCHANGED <<pc, annule>>
       \/ /\ annule' = [annule EXCEPT ![a] = @ \/ etat[a] = "noyau"] /\ Va(a, Suite("erreur"))
          /\ UNCHANGED <<etat, completed>>
    /\ UNCHANGED <<memoire, status, actual, rendus>>

Sort(a) ==
    /\ pc[a] = "attend" /\ completed[a]
    /\ Va(a, "lit")
    /\ UNCHANGED <<memoire, completed, noyau, rendus>>

(* What the call returns: for a control transfer, the bytes moved. *)
Traduit(s) ==
    CASE s = "COMPLETED" -> "succes"
      [] s = "TIMED_OUT" -> "TIMEOUT"
      [] s = "STALL" -> "PIPE"
      [] s \in {"ERROR", "CANCELLED"} -> "IO"
      [] s \in {"NO_DEVICE", "OVERFLOW"} -> s
      [] OTHER -> "OTHER"

do_sync_bulk_transfer(a) ==
    /\ pc[a] = "lit"
    /\ r' = [r EXCEPT ![a] = Traduit(status[a])]
    /\ transferred' = [transferred EXCEPT ![a] = actual[a]]
    /\ Libere(a) /\ Va(a, "rendu")
    /\ UNCHANGED <<completed, noyau>>

(* The thread may call again. *)
Rappelle(a) ==
    /\ pc[a] = "rendu"
    /\ Va(a, "repos")
    /\ status' = [status EXCEPT ![a] = "aucun"] /\ actual' = [actual EXCEPT ![a] = 0]
    /\ r' = [r EXCEPT ![a] = "aucun"] /\ transferred' = [transferred EXCEPT ![a] = 0]
    /\ UNCHANGED <<memoire, completed, etat, annule>>

Next == \E a \in A :
    \/ libusb_alloc_transfer(a) \/ libusb_control_transfer(a) \/ libusb_submit_transfer(a) \/ Noyau(a)
    \/ sync_transfer_wait_for_completion(a) \/ Sort(a) \/ do_sync_bulk_transfer(a) \/ Rappelle(a)

Spec == Init /\ [][Next]_vars

-----------------------------------------------------------------------------
(* As long as a callback may come, the thread is in its call and the       *)
(* transfer is not freed; once the call has returned nothing of it is      *)
(* left, and it tells what became of its own transfer.                     *)
SynchroneFidele == \A a \in A :
    /\ etat[a] # "libre" => pc[a] = "attend" /\ transfer[a] = "vif" /\ (a \in Controles => buffer[a] = "vif")
    /\ pc[a] = "rendu" =>
        /\ transfer[a] = "nul" /\ buffer[a] = "nul"
        /\ r[a] = "succes" <=> status[a] = "COMPLETED"
        /\ r[a] \notin {"submit", "NO_MEM"} => transferred[a] = actual[a] /\ status[a] # "aucun"

(* Why: the inductive invariant.  A transfer is in the kernel or answered   *)
(* only while its call waits; status is set before the callback runs, and   *)
(* completed by the callback alone. *)
Etapes == {"repos", "tampon", "soumet", "attend", "lit", "rendu"}
Retours == {"aucun", "submit", "NO_MEM", "succes", "TIMEOUT", "PIPE", "IO", "NO_DEVICE", "OVERFLOW", "OTHER"}

TypeSynchrone ==
    /\ pc \in [A -> Etapes]
    /\ transfer \in [A -> {"nul", "vif"}] /\ buffer \in [A -> {"nul", "vif"}]
    /\ completed \in [A -> BOOLEAN]
    /\ etat \in [A -> {"libre", "noyau", "pret"}]
    /\ status \in [A -> Statuts \cup {"aucun"}] /\ actual \in [A -> {0, 1}]
    /\ r \in [A -> Retours] /\ transferred \in [A -> {0, 1}]

Appel(a) ==
    /\ pc[a] \in {"repos", "tampon", "soumet"} => status[a] = "aucun" /\ etat[a] = "libre"
    /\ pc[a] \in {"tampon", "soumet"} => ~completed[a]
    /\ pc[a] \in {"tampon", "soumet", "attend"} => transfer[a] = "vif"
    /\ pc[a] \in {"soumet", "attend"} /\ a \in Controles => buffer[a] = "vif"
    /\ etat[a] # "libre" => pc[a] = "attend" /\ ~completed[a]
    /\ etat[a] = "pret" \/ pc[a] = "lit" \/ (pc[a] = "attend" /\ completed[a]) => status[a] # "aucun"
    /\ pc[a] = "rendu" =>
        /\ transfer[a] = "nul" /\ buffer[a] = "nul"
        /\ r[a] = "succes" <=> status[a] = "COMPLETED"
        /\ r[a] \notin {"submit", "NO_MEM"} => transferred[a] = actual[a] /\ status[a] # "aucun"

Inductif == TypeSynchrone /\ \A a \in A : Appel(a)
=============================================================================
