------------------------------- MODULE Trame -------------------------------
(***************************************************************************)
(* The serial line from the PC to the central sketch: the characters on    *)
(* their way, the receive buffer that the reception interrupt fills, and   *)
(* serialEvent(), which collects characters in inputString until '\n' and  *)
(* then calls parseMessage().  Nothing slows the sender down: while a      *)
(* handler runs the buffer fills, and what arrives when it is full is      *)
(* lost.                                                                   *)
(*                                                                         *)
(* parseMessage() is one step here: what it does to the actuators while    *)
(* the timer interrupt runs is the module Actionneurs.                     *)
(***************************************************************************)
EXTENDS Integers, Sequences, SequencesExt

CONSTANTS
    CapaciteRx,   \* characters the receive buffer of Serial holds
    CapaciteTx,   \* characters the PC's port driver takes before Write blocks
    MaxLigne,     \* characters inputString can hold before it finds no memory
    MaxPertes     \* characters the receive buffer loses (bound of the model)

ASSUME CapaciteAssumption ==
    /\ {CapaciteRx, CapaciteTx, MaxLigne} \subseteq Nat \ {0}
    /\ MaxPertes \in Nat

VARIABLES
    fil,          \* characters written by the PC and not yet received
    tampon,       \* the receive buffer of Serial
    inputString,  \* the characters of the line being collected
    enMessage,    \* parseMessage() is running
    ordres,       \* commande_frein, commande_variateur, commande_direction
    pertes,       \* history: characters the receive buffer has lost
    coupe         \* history: inputString has had no memory for a character

trameVars == <<fil, tampon, inputString, enMessage, ordres, pertes, coupe>>

Lf == 10

OrdresInit  == [frein |-> 0, variateur |-> 0, direction |-> 500]
OrdresArret == [frein |-> 100, variateur |-> 0, direction |-> 50]

(* The orders parseMessage() stores for a line: one case per header ('D'   *)
(* is 68, 'F' 70, 'R' 82, 'V' 86) and arret() for 'S' and for all others.  *)
ApresMessage(o, ligne) ==
    LET value == IF Len(ligne) > 1 THEN ligne[2] ELSE 0
    IN  CASE Head(ligne) = 68 -> [o EXCEPT !.direction = (17 * value + 650) \div 10]
          [] Head(ligne) = 70 -> [o EXCEPT !.frein = value]
          [] Head(ligne) = 86 -> [o EXCEPT !.variateur = value]
          [] Head(ligne) = 82 -> [o EXCEPT !.frein = -400]
          [] OTHER            -> OrdresArret

(* A character for inputString: String's += drops it when it finds no room. *)
Ajoute(s, c) == IF Len(s) < MaxLigne THEN Append(s, c) ELSE s

TrameInit ==
    /\ fil = <<>> /\ tampon = <<>> /\ inputString = <<>>
    /\ enMessage = FALSE
    /\ ordres = OrdresInit
    /\ pertes = 0
    /\ coupe = FALSE

(* SerialPort.Write blocks until the driver has room for the text. *)
PlaceSurLeFil(texte) == Len(fil) + Len(texte) <= CapaciteTx

(* The reception interrupt: one character into the buffer, or lost.        *)
ReceptionInterrupt ==
    /\ fil # <<>>
    /\ fil' = Tail(fil)
    /\ \/ /\ Len(tampon) < CapaciteRx
          /\ tampon' = Append(tampon, Head(fil))
          /\ UNCHANGED pertes
       \/ /\ Len(tampon) >= CapaciteRx
          /\ pertes < MaxPertes
          /\ pertes' = pertes + 1
          /\ UNCHANGED tampon
    /\ UNCHANGED <<inputString, enMessage, ordres, coupe>>

(* One turn of the loop of serialEvent(). *)
serialEvent ==
    /\ ~enMessage
    /\ tampon # <<>>
    /\ tampon' = Tail(tampon)
    /\ inputString' = Ajoute(inputString, Head(tampon))
    /\ enMessage' = (Head(tampon) = Lf)
    /\ coupe' = (coupe \/ Len(inputString) >= MaxLigne)
    /\ UNCHANGED <<fil, ordres, pertes>>

LigneApresMessageGardee == inputString   \* variant: the message is not destroyed
LigneApresMessage == <<>>

parseMessage ==
    /\ enMessage
    /\ enMessage' = FALSE
    /\ ordres' = ApresMessage(ordres, inputString)
    /\ inputString' = LigneApresMessage
    /\ UNCHANGED <<fil, tampon, pertes, coupe>>

Trame == ReceptionInterrupt \/ serialEvent \/ parseMessage
=============================================================================
