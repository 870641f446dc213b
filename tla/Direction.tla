----------------------------- MODULE Direction -----------------------------
(***************************************************************************)
(* The position servo of the steering: direction::commande and             *)
(* ::asservissement, called by the main program for a message and by the   *)
(* timer interrupt with the last set-point.  Both calls add their error to *)
(* the one erreur_sommeP, a 16-bit int.  The main program loads and stores *)
(* it byte by byte; the interrupt may come between two of these accesses,  *)
(* and is itself one step.                                                 *)
(*                                                                         *)
(* kd is 0, so erreur_precP is written and never reaches the output.  The  *)
(* two-byte store of commande_direction is in the module Actionneurs; here *)
(* the set-point is stored in one step.                                    *)
(***************************************************************************)
EXTENDS Avr

CONSTANTS
    Consignes,   \* the set-points of the messages and of arret()
    Potars,      \* the readings of the steering potentiometer (A4)
    EcartMax,    \* a bound on the distance of a set-point from a reading
    HautDabord,  \* TRUE if the compiler stores the high byte of an int first
    MaxAppels,   \* bound on the number of calls of commande
    MaxConflits  \* bound on the number of interrupts between load and store

ConsigneInit == 500   \* commande_direction as setup() leaves it

ASSUME EcartAssumption ==
    /\ Consignes \subseteq Int16 /\ Potars \subseteq 0..1023
    /\ EcartMax \in 0..INT_MAX
    /\ \A v \in Consignes \cup {ConsigneInit}, p \in Potars :
          v - p <= EcartMax /\ p - v <= EcartMax
ASSUME CompilateurAssumption == HautDabord \in BOOLEAN
ASSUME BornesAssumption      == MaxAppels \in Nat /\ MaxConflits \in Nat

VARIABLES
    etape,    \* the next access of the main program's call, "repos" outside a call
    value,    \* its set-point
    erreur,   \* its error
    bas,      \* the low byte of erreur_sommeP that it has loaded
    reg,      \* its sum, in registers
    erreur_sommeP,
    commande_direction,
    duty,     \* the duty cycle of pin 10
    appels,   \* history: number of calls of commande
    total,    \* history: the sum of their errors
    conflits  \* history: number of interrupts between a load and a store

appelMain  == <<etape, value, erreur, bas, reg>>
historique == <<appels, total, conflits>>
vars == <<appelMain, erreur_sommeP, commande_direction, duty, historique>>

Etapes == {"repos", "chargeBas", "chargeHaut", "range1", "range2", "sortie"}

(* The window in which the main program holds a copy of erreur_sommeP.     *)
Fenetre == {"chargeHaut", "range1", "range2"}

-----------------------------------------------------------------------------
(* asservissement: the error, and the output kp * erreur + ki * somme with *)
(* kp = 5 and ki = 0.3, converted to int.                                  *)
Erreur(pos_consigne, pos_reel) == Wrap16(-(pos_reel - pos_consigne))
Sortie(e, somme) == Wrap16(Dixieme(50 * e + 3 * somme))

(* commande: out of 65..245 the power card locks itself. *)
CommandeDirectionSansMinimum(e, somme) ==   \* variant: only the upper limit
    IF Sortie(e, somme) > 245 THEN 245 ELSE Sortie(e, somme)
CommandeDirection(e, somme) == Borne(Sortie(e, somme), 65, 245)

-----------------------------------------------------------------------------
Init ==
    /\ etape = "repos" /\ value = 0 /\ erreur = 0 /\ bas = 0 /\ reg = 0
    /\ erreur_sommeP = 0
    /\ commande_direction = ConsigneInit
    /\ duty = 65                             \* what unlock() leaves
    /\ appels = 0 /\ total = 0 /\ conflits = 0

(* The main program calls commande(v) and has read the potentiometer. *)
Appel(v, p) ==
    /\ etape = "repos"
    /\ appels < MaxAppels
    /\ etape' = "chargeBas"
    /\ value' = v
    /\ erreur' = Erreur(v, p)
    /\ appels' = appels + 1
    /\ total' = total + Erreur(v, p)
    /\ UNCHANGED <<bas, reg, erreur_sommeP, commande_direction, duty, conflits>>

(* erreur_sommeP += erreur: two loads, the sum, two stores. *)
ChargeBas ==
    /\ etape = "chargeBas"
    /\ etape' = "chargeHaut"
    /\ bas' = Lo(erreur_sommeP)
    /\ UNCHANGED <<value, erreur, reg, erreur_sommeP, commande_direction, duty, historique>>

ChargeHautOctetsInverses ==   \* variant: the bytes are swapped
    /\ etape = "chargeHaut"
    /\ etape' = "range1"
    /\ reg' = Wrap16(256 * bas + Lo(Hi(erreur_sommeP)) + erreur)
    /\ UNCHANGED <<value, erreur, bas, erreur_sommeP, commande_direction, duty, historique>>
ChargeHaut ==
    /\ etape = "chargeHaut"
    /\ etape' = "range1"
    /\ reg' = Wrap16(Melange(erreur_sommeP, bas) + erreur)
    /\ UNCHANGED <<value, erreur, bas, erreur_sommeP, commande_direction, duty, historique>>

Range1 ==
    /\ etape = "range1"
    /\ etape' = "range2"
    /\ erreur_sommeP' = IF HautDabord THEN Melange(reg, erreur_sommeP)
                                      ELSE Melange(erreur_sommeP, reg)
    /\ UNCHANGED <<value, erreur, bas, reg, commande_direction, duty, historique>>

Range2MemeOctet ==   \* variant: the second store writes the first one's byte again
    /\ etape = "range2"
    /\ etape' = "sortie"
    /\ erreur_sommeP' = IF HautDabord THEN Melange(reg, erreur_sommeP)
                                      ELSE Melange(erreur_sommeP, reg)
    /\ UNCHANGED <<value, erreur, bas, reg, commande_direction, duty, historique>>
Range2 ==
    /\ etape = "range2"
    /\ etape' = "sortie"
    /\ erreur_sommeP' = IF HautDabord THEN Melange(erreur_sommeP, reg)
                                      ELSE Melange(reg, erreur_sommeP)
    /\ UNCHANGED <<value, erreur, bas, reg, commande_direction, duty, historique>>

(* The output, and the assignment of commande_direction after the call. *)
SortieMain ==
    /\ etape = "sortie"
    /\ etape' = "repos"
    /\ duty' = CommandeDirection(erreur, reg)
    /\ commande_direction' = value
    /\ value' = 0 /\ erreur' = 0 /\ bas' = 0 /\ reg' = 0   \* the locals end
    /\ UNCHANGED <<erreur_sommeP, historique>>

(* dir.commande(commande_direction) in the interrupt. *)
ISR(p) ==
    /\ appels < MaxAppels
    /\ etape \in Fenetre => conflits < MaxConflits
    /\ LET e == Erreur(commande_direction, p)
           s == Wrap16(erreur_sommeP + e)
       IN /\ erreur_sommeP' = s
          /\ duty' = CommandeDirection(e, s)
          /\ total' = total + e
    /\ appels' = appels + 1
    /\ conflits' = IF etape \in Fenetre THEN conflits + 1 ELSE conflits
    /\ UNCHANGED <<appelMain, commande_direction>>

Next ==
    \/ \E v \in Consignes, p \in Potars : Appel(v, p)
    \/ ChargeBas \/ ChargeHaut \/ Range1 \/ Range2 \/ SortieMain
    \/ \E p \in Potars : ISR(p)

Spec == Init /\ [][Next]_vars

-----------------------------------------------------------------------------
(* Every variable has its type, and the power card never gets a command    *)
(* out of the interval in which it works.                                  *)
TypeOK ==
    /\ etape \in Etapes
    /\ value \in Consignes \cup {0}
    /\ erreur \in Int16 /\ bas \in UChar /\ reg \in Int16
    /\ erreur_sommeP \in Int16
    /\ commande_direction \in Consignes \cup {ConsigneInit}
    /\ duty \in 65..245
    /\ appels \in Nat /\ total \in Int /\ conflits \in Nat

(* While no interrupt has come between the load and the store of the main  *)
(* program, and the calls are too few to overflow the int, the integral    *)
(* term is the sum of the errors of all calls, those of both contexts.     *)
(* The sum is complete outside of the main program's read-modify-write.    *)
IntegraleExacte ==
    /\ conflits = 0 /\ appels * EcartMax <= INT_MAX
    /\ etape \in {"repos", "sortie"}
    => erreur_sommeP = total

(* Wherever the interrupts come, a mixture of bytes is at most one byte    *)
(* away from a sum: each call moves the integral term by its error and at  *)
(* most three times 255 (a torn load, two torn stores).  So it cannot      *)
(* overflow before there are enough calls, with the races included.        *)
DeriveBornee ==
    LET pas == EcartMax + 765
    IN  appels * pas <= INT_MAX =>
            erreur_sommeP <= appels * pas /\ -erreur_sommeP <= appels * pas
=============================================================================
