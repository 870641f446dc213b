-------------------------------- MODULE ICar --------------------------------
(***************************************************************************)
(* The whole chain: the application's screens and connection threads, the  *)
(* PC server, the serial line and the sketch.  What becomes of a gesture   *)
(* of the user?                                                            *)
(***************************************************************************)
EXTENDS Serveur

vars == <<telecommandeVars, serveurVars, trameVars>>

Init == TelecommandeInit /\ ServeurInit /\ TrameInit

(* The screens and the threads of the application, with nothing else.      *)
Utilisateur ==
    /\ \/ \E n \in Sessions : startActivity(n)
       \/ \E id \in Identifiants, p \in Progressions : Geste(id, p)
       \/ Stop
       \/ QuitteEcran
    /\ UNCHANGED <<serveurVars, trameVars>>

Reseau ==
    \/ \E n \in Sessions : Connexion(n)
    \/ \E n \in Sessions : (SocketRefuse(n) \/ SocketRamasse(n)) /\ UNCHANGED <<serveurVars, trameVars>>

Sketch == Trame /\ UNCHANGED <<telecommandeVars, serveurVars>>

Next == Utilisateur \/ Reseau \/ Serveur \/ Sketch

Spec == Init /\ [][Next]_vars

(* The server's loop and the sketch never stop, the reception interrupt is *)
(* enabled again and again, and what a connection carries is delivered.    *)
(* Users, connections and their ends are not fair.                         *)
FairSpec ==
    /\ Spec
    /\ WF_vars(Serveur)
    /\ WF_vars(ReceptionInterrupt /\ UNCHANGED <<telecommandeVars, serveurVars>>)
    /\ WF_vars((serialEvent \/ parseMessage) /\ UNCHANGED <<telecommandeVars, serveurVars>>)

-----------------------------------------------------------------------------
(* Whatever the user does, however the network cuts the stream and         *)
(* whatever the serial line loses, the sketch only ever has its initial    *)
(* orders or those of an emergency stop: a line that the PC writes starts  *)
(* with a digit, and so does what is left of one, so no case of the switch *)
(* but the default one is ever taken.  Written as bytes, headers and       *)
(* values that a short recv has exchanged would be orders.                 *)
RienQueLArret == ordres \in {OrdresInit, OrdresArret}

(* As long as no recv was short, what the server forwards is a pair that   *)
(* the user of the accepted session made, or its initial buffer: nobody    *)
(* else's bytes, and no value in the place of a header.                    *)
CouplesFideles ==
    ~court /\ serveur = "commande" => buff \in faits[csock] \cup {<<0, 0>>}

(* The whole lines in what the sketch has not executed, cut at their '\n'. *)
Decoupe(texte) ==
    LET fins   == {p \in DOMAIN texte : texte[p] = Lf}
        fin(k) == IF k = 0 THEN 0
                  ELSE CHOOSE p \in fins : Cardinality({q \in fins : q <= p}) = k
    IN  [k \in 1..Cardinality(fins) |-> SubSeq(texte, fin(k - 1) + 1, fin(k))]

(* While no character is lost the serial line, serialEvent() and           *)
(* parseMessage() are a queue of lines: each line the PC writes is         *)
(* executed once, whole and in order.                                      *)
Octets == Identifiants \cup Progressions \cup {0, S}
LiaisonSerie == INSTANCE Liaison WITH
    Lignes      <- {LigneCommande(h, v) : h, v \in Octets},
    OrdresDebut <- OrdresInit,
    Effet       <- ApresMessage,
    attente     <- Decoupe(inputString \o tampon \o fil),
    fiable      <- (pertes = 0 /\ ~coupe)
LiaisonFidele == LiaisonSerie!Spec

(* A gesture on the accepted connection stops the car in the end: its line *)
(* is not an order of the sketch, so it is an emergency stop.              *)
GesteArrete ==
    \A n \in Sessions : (csock = n /\ faits[n] # {}) ~> (ordres = OrdresArret)

(* A connection that ends without STOP stops the car as well, even without *)
(* any gesture: recv returns at once and the buffer is forwarded again.    *)
FermetureArrete ==
    \A n \in Sessions :
        (csock = n /\ socket[n] = "ferme" /\ n \notin stop) ~> (ordres = OrdresArret)

(* ConnectedActivity.java:78 says of the STOP button that the car goes to  *)
(* emergency stop whatever is sent.                                        *)
StopArrete == \A n \in Sessions : (csock = n /\ n \in stop) ~> (ordres = OrdresArret)
=============================================================================
