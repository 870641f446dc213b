------------------------------ MODULE Liaison ------------------------------
(***************************************************************************)
(* What the link from the PC to the sketch promises: a queue of lines.     *)
(* The PC puts whole lines into it, the sketch executes them one by one,   *)
(* in order, each exactly once.  Nothing is promised once a character has  *)
(* been lost.                                                              *)
(***************************************************************************)
EXTENDS Sequences

CONSTANTS
    Lignes,       \* the lines the PC may write
    OrdresDebut,  \* the orders before the first line
    Effet(_, _)   \* what a line makes of the orders

VARIABLES
    attente,      \* the lines written and not executed
    ordres,       \* the orders the sketch follows
    fiable        \* nothing has been lost

vars == <<attente, ordres, fiable>>

Init ==
    /\ attente = <<>>
    /\ ordres = OrdresDebut
    /\ fiable = TRUE

Ecrit ==
    /\ fiable /\ fiable'
    /\ \E l \in Lignes : attente' = Append(attente, l)
    /\ UNCHANGED ordres

Execute ==
    /\ fiable /\ fiable'
    /\ attente # <<>>
    /\ ordres' = Effet(ordres, Head(attente))
    /\ attente' = Tail(attente)

Perd == ~fiable'

Next == Ecrit \/ Execute \/ Perd

Spec == Init /\ [][Next]_vars
=============================================================================
