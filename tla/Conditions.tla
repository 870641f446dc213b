------------------------------ MODULE Conditions ------------------------------
(***************************************************************************)
(* threads_windows.c: a condition variable made of two lists of threads    *)
(* and of an event for each thread.  The lists are protected by the mutex  *)
(* that libusb holds whenever it waits or broadcasts.  (usbi_cond_signal   *)
(* is never called.)  It does what VariableCondition says.                 *)
(***************************************************************************)
EXTENDS Naturals, FiniteSets

CONSTANTS P, Rien

(* What the constants must satisfy. *)
Hypotheses == Rien \notin P /\ IsFiniteSet(P)

VARIABLES
    mutex,
    waiters, not_waiting,
    event,        \* the threads whose event is set
    timeout_ms,   \* of each thread: its wait has a deadline
    r2,           \* of each thread: what its last wait for the event gave
    pc

vars == <<mutex, waiters, not_waiting, event, timeout_ms, r2, pc>>

Init ==
    /\ mutex = Rien /\ waiters = {} /\ not_waiting = {} /\ event = {}
    /\ timeout_ms = [p \in P |-> FALSE] /\ r2 = [p \in P |-> "rien"]
    /\ pc = [p \in P |-> "repos"]

Va(p, etape) == pc' = [pc EXCEPT ![p] = etape]

usbi_mutex_lock(p) ==
    /\ pc[p] = "repos" /\ mutex = Rien /\ mutex' = p /\ Va(p, "tient")
    /\ UNCHANGED <<waiters, not_waiting, event, timeout_ms, r2>>

usbi_mutex_unlock(p) ==
    /\ pc[p] = "tient" /\ mutex' = Rien /\ Va(p, "repos")
    /\ UNCHANGED <<waiters, not_waiting, event, timeout_ms, r2>>

(* The events of all that wait are set, of those too that are about to     *)
(* return.                                                                 *)
usbi_cond_broadcast(p) ==
    /\ pc[p] = "tient" /\ event' = event \cup waiters
    /\ UNCHANGED <<mutex, waiters, not_waiting, timeout_ms, r2, pc>>

(* usbi_cond_intwait: the thread's entry, made at its first wait, goes to  *)
(* the list, and then the mutex is given up, ...                           *)
usbi_cond_intwait(p, limite) ==
    /\ pc[p] = "tient" /\ Va(p, "lache")
    /\ waiters' = waiters \cup {p} /\ not_waiting' = not_waiting \ {p}
    /\ timeout_ms' = [timeout_ms EXCEPT ![p] = limite]
    /\ UNCHANGED <<mutex, event, r2>>

Lache(p) ==
    /\ pc[p] = "lache" /\ mutex' = Rien /\ Va(p, "attend")
    /\ UNCHANGED <<waiters, not_waiting, event, timeout_ms, r2>>

(* ... the event, which waiting for it clears, or the deadline comes, ...  *)
ConsommeRien(p) == event   \* variant: waiting does not clear the event
Consomme(p) == event \ {p}

WaitForSingleObject(p) ==
    /\ pc[p] = "attend"
    /\ \/ p \in event /\ event' = Consomme(p) /\ r2' = [r2 EXCEPT ![p] = "WAIT_OBJECT_0"]
       \/ p \notin event /\ timeout_ms[p] /\ r2' = [r2 EXCEPT ![p] = "WAIT_TIMEOUT"] /\ UNCHANGED event
    /\ Va(p, "reprend")
    /\ UNCHANGED <<mutex, waiters, not_waiting, timeout_ms>>

(* ... and with the mutex the thread leaves the list.                      *)
Reprend(p) ==
    /\ pc[p] = "reprend" /\ mutex = Rien /\ mutex' = p /\ Va(p, "tient")
    /\ waiters' = waiters \ {p} /\ not_waiting' = not_waiting \cup {p}
    /\ UNCHANGED <<event, timeout_ms, r2>>

(* The entries, with their events, live until the variable is destroyed.   *)
usbi_cond_destroy ==
    /\ \A p \in P : pc[p] = "repos"
    /\ waiters = {} /\ not_waiting' = {} /\ event' = event \ not_waiting
    /\ UNCHANGED <<mutex, waiters, timeout_ms, r2, pc>>

Next ==
    \/ \E p \in P :
        \/ usbi_mutex_lock(p) \/ usbi_mutex_unlock(p) \/ usbi_cond_broadcast(p)
        \/ \E limite \in BOOLEAN : usbi_cond_intwait(p, limite)
        \/ Lache(p) \/ WaitForSingleObject(p) \/ Reprend(p)
    \/ usbi_cond_destroy

Spec == Init /\ [][Next]_vars

-----------------------------------------------------------------------------
(* The state of VariableCondition. *)
Etat(p) ==
    CASE pc[p] \in {"tient", "lache"} -> "tient"
      [] pc[p] = "attend" -> IF p \in event THEN "reveille" ELSE IF timeout_ms[p] THEN "somnole" ELSE "dort"
      [] pc[p] = "reprend" -> IF r2[p] = "WAIT_TIMEOUT" THEN "expire" ELSE "reveille"
      [] OTHER -> "repos"

Promesse == INSTANCE VariableCondition WITH
    etat <- [p \in P |-> Etat(p)],
    perimes <- {p \in event : pc[p] # "attend"}

(* The lists and the events do what libusb expects of a condition          *)
(* variable:  no broadcast is lost, nobody returns without the mutex, and  *)
(* no thread wakes for nothing, but once for a late broadcast.             *)
ConditionTenue == Promesse!Spec

(* Why: the inductive invariant.  The mutex has one owner, the threads that *)
(* wait are in the list from the time they give it up to the time they      *)
(* have it again, and every event that is set has an entry.                 *)
TypeConditions ==
    /\ pc \in [P -> {"repos", "tient", "lache", "attend", "reprend"}]
    /\ timeout_ms \in [P -> BOOLEAN] /\ r2 \in [P -> {"rien", "WAIT_OBJECT_0", "WAIT_TIMEOUT"}]
    /\ waiters \subseteq P /\ not_waiting \subseteq P /\ event \subseteq P
    /\ mutex \in P \cup {Rien}

Inductif ==
    /\ TypeConditions
    /\ \A p \in P : mutex = p <=> pc[p] \in {"tient", "lache"}
    /\ \A p \in P : p \in waiters <=> pc[p] \in {"lache", "attend", "reprend"}
    /\ event \subseteq waiters \cup not_waiting
=============================================================================
