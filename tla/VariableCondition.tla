-------------------------- MODULE VariableCondition --------------------------
(***************************************************************************)
(* What libusb expects of a condition variable and its mutex:  a thread    *)
(* that waits gives up the mutex and goes to sleep in one step, a          *)
(* broadcast wakes all that sleep, and a thread that wakes takes the mutex *)
(* before it returns.  It may wake for nothing only once, and only if a    *)
(* broadcast came while it returned from an earlier wait.                  *)
(***************************************************************************)
CONSTANTS P, Rien

VARIABLES
    mutex,
    etat,     \* of each thread: "repos", "tient", "dort", "somnole" (until a deadline), "reveille", "expire"
    perimes   \* threads that a broadcast has come too late for

vars == <<mutex, etat, perimes>>
Dormeurs == {q \in P : etat[q] \in {"dort", "somnole"}}

Init ==
    /\ mutex = Rien /\ etat = [p \in P |-> "repos"] /\ perimes = {}

Prend(p) ==
    /\ mutex = Rien /\ mutex' = p
    /\ etat[p] \in {"repos", "reveille", "expire"}
    /\ etat' = [etat EXCEPT ![p] = "tient"]
    /\ UNCHANGED perimes

Lache(p) ==
    /\ etat[p] = "tient" /\ mutex' = Rien
    /\ etat' = [etat EXCEPT ![p] = "repos"]
    /\ UNCHANGED perimes

Attend(p) ==
    /\ etat[p] = "tient" /\ mutex' = Rien
    /\ \E sommeil \in {"dort", "somnole"} :
          etat' = [etat EXCEPT ![p] = IF p \in perimes THEN "reveille" ELSE sommeil]
    /\ perimes' = perimes \ {p}

Diffuse(p) ==
    LET tardifs == {q \in P : etat[q] \in {"reveille", "expire"}} IN
    /\ etat[p] = "tient"
    /\ etat' = [q \in P |-> IF q \in Dormeurs THEN "reveille" ELSE etat[q]]
    /\ \E R \in SUBSET tardifs : perimes' = perimes \cup R
    /\ UNCHANGED mutex

Expire(p) ==
    /\ etat[p] = "somnole"
    /\ etat' = [etat EXCEPT ![p] = "expire"]
    /\ UNCHANGED <<mutex, perimes>>

(* The variable is destroyed when nobody uses it. *)
Detruit ==
    /\ \A p \in P : etat[p] = "repos"
    /\ perimes' = {} /\ UNCHANGED <<mutex, etat>>

Next ==
    \/ \E p \in P : Prend(p) \/ Lache(p) \/ Attend(p) \/ Diffuse(p) \/ Expire(p)
    \/ Detruit

Spec == Init /\ [][Next]_vars
=============================================================================
