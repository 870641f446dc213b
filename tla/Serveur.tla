------------------------------ MODULE Serveur ------------------------------
(***************************************************************************)
(* The PC: main.cpp accepts one connection in its life, receives two bytes *)
(* at a time without looking at how many came, and forwards them through   *)
(* InterfaceArduino::commandeActionneur, which writes both as decimal      *)
(* numbers and a '\n'.  An 'S' in the first byte ends the program.         *)
(***************************************************************************)
EXTENDS Telecommande, Trame

VARIABLES
    serveur,     \* where main() is
    entrantes,   \* sessions whose connection waits for accept
    csock,       \* the session accepted, 0 before
    buff,        \* the two bytes of the buffer, 0 at the start
    court        \* history: a recv has returned one byte

serveurVars == <<serveur, entrantes, csock, buff, court>>

ServeurInit ==
    /\ serveur = "accept"
    /\ entrantes = <<>>
    /\ csock = 0
    /\ buff = <<0, 0>>
    /\ court = FALSE

(* The characters of Int32.ToString for a byte of the protocol. *)
Decimal(n) ==
    LET chiffre(d) == 48 + (d % 10)
    IN  IF n < 10 THEN <<chiffre(n)>>
        ELSE IF n < 100 THEN <<chiffre(n \div 10), chiffre(n)>>
        ELSE <<chiffre(n \div 100), chiffre(n \div 10), chiffre(n)>>

LigneCommandeBrute(header, value) == <<header, value, Lf>>   \* variant: the bytes themselves
LigneCommande(header, value) == Decimal(header) \o Decimal(value) \o <<Lf>>

(* A connection of the application reaches the queue of listen(sock, 1).   *)
Connexion(n) ==
    /\ serveur # "fini" /\ entrantes = <<>>
    /\ SocketCree(n)
    /\ entrantes' = Append(entrantes, n)
    /\ UNCHANGED <<serveur, csock, buff, court, trameVars>>

Accept ==
    /\ serveur = "accept" /\ entrantes # <<>>
    /\ csock' = Head(entrantes)
    /\ entrantes' = Tail(entrantes)
    /\ serveur' = "recv"
    /\ UNCHANGED <<buff, court, telecommandeVars, trameVars>>

(* After recv: an 'S' leaves the loop, anything else is forwarded. *)
SuivantFiltre(b) ==   \* variant: only the headers of the sketch are forwarded
    IF b = S THEN "fini" ELSE IF b \in {68, 70, 82, 86} THEN "commande" ELSE "recv"
Suivant(b) == IF b = S THEN "fini" ELSE "commande"

(* recv(csock, buff, 2, 0) returns what has arrived, one byte or two.      *)
Recv(n) ==
    /\ serveur = "recv" /\ n <= Len(flux[csock])
    /\ buff' = [i \in 1..2 |-> IF i <= n THEN flux[csock][i] ELSE buff[i]]
    /\ flux' = [flux EXCEPT ![csock] = SubSeq(@, n + 1, Len(@))]
    /\ court' = (court \/ n = 1)
    /\ serveur' = Suivant(buff'[1])
    /\ UNCHANGED <<ecran, thread, socket, stop, gestes, faits,
                   entrantes, csock, trameVars>>

(* The connection is closed and everything was read: recv returns 0 at     *)
(* once, and the buffer is handled again as it is.                         *)
RecvFermeTermine ==   \* variant: a closed connection ends the loop
    /\ serveur = "recv" /\ flux[csock] = <<>> /\ socket[csock] = "ferme"
    /\ serveur' = "fini"
    /\ UNCHANGED <<entrantes, csock, buff, court, telecommandeVars, trameVars>>
RecvFerme ==
    /\ serveur = "recv" /\ flux[csock] = <<>> /\ socket[csock] = "ferme"
    /\ serveur' = Suivant(buff[1])
    /\ UNCHANGED <<entrantes, csock, buff, court, telecommandeVars, trameVars>>

(* IUA->commandeActionneur(buff[0], buff[1]) *)
commandeActionneur ==
    LET ligne == LigneCommande(buff[1], buff[2])
    IN  /\ serveur = "commande"
        /\ PlaceSurLeFil(ligne)
        /\ fil' = fil \o ligne
        /\ serveur' = "recv"
        /\ UNCHANGED <<entrantes, csock, buff, court, telecommandeVars,
                       tampon, inputString, enMessage, ordres, pertes, coupe>>

Serveur == Accept \/ Recv(1) \/ Recv(2) \/ RecvFerme \/ commandeActionneur
=============================================================================
