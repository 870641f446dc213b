---------------------------- MODULE Soumissions ----------------------------
(***************************************************************************)
(* What asynchronous transfers promise to the application: a submission    *)
(* that is accepted is answered exactly once before the transfer may be    *)
(* submitted again, and nothing is answered that was not accepted.         *)
(***************************************************************************)
EXTENDS Integers

CONSTANT T    \* the transfers

VARIABLES acceptees, reponses

vars == <<acceptees, reponses>>

Init == acceptees = [t \in T |-> 0] /\ reponses = [t \in T |-> 0]

Accepte(t) ==
    /\ acceptees[t] = reponses[t]
    /\ acceptees' = [acceptees EXCEPT ![t] = @ + 1]
    /\ UNCHANGED reponses

Repond(t) ==
    /\ acceptees[t] > reponses[t]
    /\ reponses' = [reponses EXCEPT ![t] = @ + 1]
    /\ UNCHANGED acceptees

Next == \E t \in T : Accepte(t) \/ Repond(t)

Spec == Init /\ [][Next]_vars
=============================================================================
