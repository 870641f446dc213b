---------------------------- MODULE Telecommande ----------------------------
(***************************************************************************)
(* The Android application.  MainActivity opens a ConnectedActivity, whose *)
(* ClientThread creates the socket while the screen already shows the seek *)
(* bars and the STOP button: the user's gestures, handled by the screen's  *)
(* thread, and the connection race.  Each ConnectedActivity is a session.  *)
(*                                                                         *)
(* A gesture without a socket, or on a closed one, throws: send() and the  *)
(* STOP listener catch only IOException and then use the null writer.      *)
(***************************************************************************)
EXTENDS Integers, Sequences, FiniteSets

CONSTANTS
    MaxSessions,   \* ConnectedActivities the user opens
    MaxGestes,     \* movements of a seek bar, over all sessions
    Identifiants,  \* the seek bars used: ID_FREIN = 1, ID_VAR = 2, ID_DIR = 3
    Progressions   \* the positions the seek bars are given

Sessions == 1..MaxSessions
S == 83            \* the character of the STOP button

ASSUME GestesAssumption ==
    /\ MaxSessions \in Nat /\ MaxGestes \in Nat
    /\ Identifiants \subseteq 1..3 /\ Progressions \subseteq 0..100

VARIABLES
    ecran,      \* the session whose screen is shown, 0 for MainActivity
    thread,     \* ClientThread of each session
    socket,     \* the field socket of each session
    stop,       \* sessions whose STOP button has been pressed
    flux,       \* the bytes each session sent and the server has not read
    gestes,     \* number of gestures
    faits       \* history: the pairs each session sent

telecommandeVars == <<ecran, thread, socket, stop, flux, gestes, faits>>

TelecommandeInit ==
    /\ ecran = 0
    /\ thread = [n \in Sessions |-> "aucun"]
    /\ socket = [n \in Sessions |-> "null"]
    /\ stop = {}
    /\ flux = [n \in Sessions |-> <<>>]
    /\ gestes = 0
    /\ faits = [n \in Sessions |-> {}]

(* MainActivity: a new ConnectedActivity, whose onCreate starts the thread. *)
startActivity(n) ==
    /\ ecran = 0
    /\ thread[n] = "aucun" /\ \A m \in 1..(n - 1) : thread[m] # "aucun"
    /\ ecran' = n
    /\ thread' = [thread EXCEPT ![n] = "encours"]
    /\ UNCHANGED <<socket, stop, flux, gestes, faits>>

(* new Socket(...) returns, or throws and the thread calls finish().       *)
SocketCree(n) ==
    /\ thread[n] = "encours"
    /\ thread' = [thread EXCEPT ![n] = "fini"]
    /\ socket' = [socket EXCEPT ![n] = "ouvert"]
    /\ UNCHANGED <<ecran, stop, flux, gestes, faits>>

SocketRefuse(n) ==
    /\ thread[n] = "encours"
    /\ thread' = [thread EXCEPT ![n] = "fini"]
    /\ UNCHANGED <<ecran, socket, stop, flux, gestes, faits>>

(* An uncaught exception ends the process: the system closes its sockets   *)
(* and the user finds MainActivity again.                                  *)
Plante ==
    /\ ecran' = 0
    /\ thread' = [n \in Sessions |-> IF thread[n] = "encours" THEN "fini" ELSE thread[n]]
    /\ socket' = [n \in Sessions |-> IF socket[n] = "ouvert" THEN "ferme" ELSE socket[n]]
    /\ UNCHANGED <<stop, flux, faits>>

(* send(header, value): the two characters, in this order. *)
MessageInverse(header, value) == <<value, header>>   \* variant: the value first
Message(header, value) == <<header, value>>

(* onProgressChanged: send(id, progress). *)
Geste(id, progress) ==
    /\ ecran # 0 /\ gestes < MaxGestes
    /\ gestes' = gestes + 1
    /\ IF socket[ecran] = "ouvert"
       THEN /\ flux' = [flux EXCEPT ![ecran] = @ \o Message(id, progress)]
            /\ faits' = [faits EXCEPT ![ecran] = @ \cup {<<id, progress>>}]
            /\ UNCHANGED <<ecran, thread, socket, stop>>
       ELSE Plante

(* The STOP button: it sends its character, closes and disables itself.    *)
(* The screen may still be there for a while after finish().               *)
Stop ==
    /\ ecran # 0 /\ ecran \notin stop
    /\ IF socket[ecran] = "ouvert"
       THEN /\ flux' = [flux EXCEPT ![ecran] = Append(@, S)]
            /\ socket' = [socket EXCEPT ![ecran] = "ferme"]
            /\ stop' = stop \cup {ecran}
            /\ UNCHANGED <<ecran, thread, gestes, faits>>
       ELSE Plante /\ UNCHANGED gestes

(* The screen goes: after finish(), or by the back button, which leaves    *)
(* the socket open.                                                        *)
QuitteEcran ==
    /\ ecran # 0
    /\ ecran' = 0
    /\ UNCHANGED <<thread, socket, stop, flux, gestes, faits>>

(* The socket of a screen that is gone is closed when it is collected.     *)
SocketRamasse(n) ==
    /\ n # ecran /\ thread[n] = "fini" /\ socket[n] = "ouvert"
    /\ socket' = [socket EXCEPT ![n] = "ferme"]
    /\ UNCHANGED <<ecran, thread, stop, flux, gestes, faits>>
=============================================================================
