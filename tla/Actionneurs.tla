---------------------------- MODULE Actionneurs ----------------------------
(***************************************************************************)
(* The central actuator sketch, Actionneurs/Centralisé/actionneurs.  Two   *)
(* contexts share the actuators: the main program, which runs setup() and  *)
(* then parseMessage() for each line serialEvent() completes, and the      *)
(* timer 1 interrupt, which drives the three actuators from the commande_* *)
(* variables.  The interrupt runs with interrupts disabled, so it is one   *)
(* step; it may come between any two statements of the main program, and   *)
(* between the two bytes of a 16-bit store, so the main program is one     *)
(* step per access to what the two contexts share.                         *)
(*                                                                         *)
(* The position servo of the steering is the module Direction; here the    *)
(* steering keeps the set-point it was last driven with.                   *)
(***************************************************************************)
EXTENDS Frein, Variateur

CONSTANTS
    Valeurs,    \* the values inputString[1] may have, as signed chars
    Pressions,  \* the readings of the brake pressure sensor (A5)
    Potars,     \* the readings of the steering potentiometer (A4)
    Aucune      \* no set-point yet

Adc == 0..1023   \* what analogRead returns

ASSUME ValeursAssumption   == Valeurs \subseteq Char
ASSUME MesuresAssumption   == Pressions \cup Potars \subseteq Adc
ASSUME AucuneAssumption    == Aucune \notin Int

VARIABLES
    Uno,         \* the ATmega168/328P build, where the shield uses timer 1
    pc,          \* the next statement of the main program
    entete,      \* inputString[0] of the message being handled, or of the last one
    valeur,      \* inputString[1] of the message being handled
    k,           \* index of the next pin write in lock() or initvar()
    speed,       \* the local of frein::commande / setM1Speed, in the main program
    commande,    \* commande_frein, commande_variateur, commande_direction
    isInit,      \* variateur::isInit
    consigneDir, \* the set-point of the last dir.commande
    pin,         \* the levels and duty cycles of the output pins
    ocr1a,       \* compare register A of timer 1
    temp,        \* high byte register shared by the 16-bit registers of timer 1
    canal,       \* the analog input of the conversion in progress, or of the last one
    defautVu     \* history: parseMessage has reached its default case

locales == <<entete, valeur, k, speed>>
sorties == <<consigneDir, pin, ocr1a, temp, canal>>
vars == <<Uno, pc, locales, commande, isInit, sorties, defautVu>>

Acteurs == {"frein", "variateur", "direction"}
Entetes == {"D", "F", "V", "S", "R", "autre"}   \* "autre": no case of the switch
Arrets  == {"S", "autre"}                       \* the cases that call arret()
Etiquettes ==
    {"reset", "loop", "lock", "dir", "dirConv", "dirImp", "cmdDir1", "cmdDir2", "frAdc", "frCalc",
     "frPwm", "frHi", "frLo", "frSens", "cmdFr1", "cmdFr2", "varTest", "initvar",
     "varPwm", "cmdVar1", "cmdVar2"}

(* inputString[1]*1.7+65 converted to int. *)
EchelleDirection(v) == Dixieme(17 * v + 650)

(* The set-point parseMessage or arret gives to an actuator. *)
Consigne(a) ==
    CASE a = "direction" -> IF entete = "D" THEN EchelleDirection(valeur) ELSE 50
      [] a = "frein"     -> IF entete = "F" THEN valeur
                            ELSE IF entete = "R" THEN -400 ELSE 100
      [] a = "variateur" -> IF entete = "V" THEN valeur ELSE 0

(* The first statement of each case of the switch. *)
Debut(e) ==
    CASE e \in {"D", "S"} -> "dir"
      [] e \in {"F", "R"} -> "frAdc"
      [] e = "V"          -> "varTest"
      [] OTHER            -> "lock"

(* The labels of the two byte stores of each commande_*, and what follows: *)
(* arret() goes on from the steering to the brake and to the throttle.     *)
Rangement1 == [direction |-> "cmdDir1", frein |-> "cmdFr1", variateur |-> "cmdVar1"]
Rangement2 == [direction |-> "cmdDir2", frein |-> "cmdFr2", variateur |-> "cmdVar2"]
SuiteSansVariateur(a) ==   \* variant: arret() forgets the throttle
    IF entete \in Arrets /\ a = "direction" THEN "frAdc" ELSE "loop"
Suite(a) ==
    IF entete \in Arrets /\ a = "direction" THEN "frAdc"
    ELSE IF entete \in Arrets /\ a = "frein" THEN "varTest"
    ELSE "loop"

-----------------------------------------------------------------------------
Init ==
    /\ Uno \in BOOLEAN
    /\ pc = "reset"
    /\ entete = "aucun" /\ valeur = 0 /\ k = 1 /\ speed = 0
    /\ commande = [a \in Acteurs |-> 0]
    /\ isInit = FALSE
    /\ consigneDir = Aucune
    /\ pin = [b \in Pins |-> 0]
    /\ ocr1a = 0 /\ temp = 0 /\ canal = "A4"
    /\ defautVu = FALSE

(* setup() initializes the throttle, then the brake, which share pin 4.    *)
InitActionneursInverse(p) == InitVariateur(InitFrein(p))   \* variant: brake first
InitActionneurs(p) == InitFrein(InitVariateur(p))

(* setup(): dir.init, var.init, fr.init, initTimer1.  The compare interrupt *)
(* is enabled by the last of them, so setup() is one step.                  *)
Setup ==
    /\ pc = "reset"
    /\ pc' = "loop"
    /\ commande' = [commande EXCEPT !["direction"] = 500]
    /\ isInit' = TRUE
    /\ pin' = InitActionneurs(pin)
    /\ ocr1a' = 31250
    /\ temp' = Hi(31250)
    /\ UNCHANGED <<locales, consigneDir, canal, defautVu>>

(* serialEvent has read a '\n': parseMessage() switches on the header. *)
Recoit(e, v) ==
    /\ pc = "loop"
    /\ pc' = Debut(e)
    /\ entete' = e
    /\ valeur' = v
    /\ defautVu' = (defautVu \/ e = "autre")
    /\ UNCHANGED <<k, speed, commande, isInit, sorties>>

(* One pin write of a list; then the statement that ends it. *)
EcrireListe(liste) ==
    /\ k <= Len(liste)
    /\ pin' = Ecrit(pin, liste[k][1], liste[k][2])
    /\ k' = k + 1
    /\ UNCHANGED <<pc, entete, valeur, speed, commande, isInit,
                   consigneDir, ocr1a, temp, canal, defautVu>>

FinListe(liste, init, suivant) ==
    /\ k = Len(liste) + 1
    /\ isInit' = init
    /\ k' = 1
    /\ pc' = suivant
    /\ UNCHANGED <<entete, valeur, speed, commande, sorties, defautVu>>

(* var.lock() in the default case. *)
Lock ==
    /\ pc = "lock"
    /\ EcrireListe(EcrituresLock) \/ FinListe(EcrituresLock, FALSE, "dir")

(* dir.commande(): an analogRead of A4, an analogWrite of pin 10 that on a *)
(* Uno is a write of OCR1B, of high byte 0, through temp, and a second     *)
(* analogRead for the message it prints.                                   *)
Dir ==
    /\ pc = "dir"
    /\ pc' = "dirConv"
    /\ canal' = "A4"
    /\ UNCHANGED <<locales, commande, isInit, consigneDir, pin, ocr1a, temp, defautVu>>

DirPwm ==
    /\ pc = "dirConv"
    /\ pc' = "dirImp"
    /\ consigneDir' = Consigne("direction")
    /\ temp' = 0
    /\ canal' = "A4"
    /\ UNCHANGED <<locales, commande, isInit, pin, ocr1a, defautVu>>

DirFin ==
    /\ pc = "dirImp"
    /\ pc' = "cmdDir1"
    /\ UNCHANGED <<locales, commande, isInit, sorties, defautVu>>

(* fr.commande(): analogRead starts a conversion and waits; the result it  *)
(* reads is the one of the last conversion, the interrupt's if it came in  *)
(* between.                                                                *)
FrAdc ==
    /\ pc = "frAdc"
    /\ pc' = "frCalc"
    /\ canal' = "A5"
    /\ UNCHANGED <<locales, commande, isInit, consigneDir, pin, ocr1a, temp, defautVu>>

FrCalc ==
    /\ pc = "frCalc"
    /\ pc' = IF Uno THEN "frHi" ELSE "frPwm"
    /\ \E p \in IF canal = "A5" THEN Pressions ELSE Potars :
          speed' = CommandeFrein(Consigne("frein"), p)
    /\ UNCHANGED <<entete, valeur, k, commande, isInit, sorties, defautVu>>

(* setM1Speed: OCR1A = speed is a store of the high byte to temp and then  *)
(* of the low byte, which takes the high byte from temp.                   *)
FrHi ==
    /\ pc = "frHi"
    /\ pc' = "frLo"
    /\ temp' = Hi(Vitesse(speed))
    /\ UNCHANGED <<locales, commande, isInit, consigneDir, pin, ocr1a, canal, defautVu>>

FrLo ==
    /\ pc = "frLo"
    /\ pc' = "frSens"
    /\ ocr1a' = 256 * temp + Lo(Vitesse(speed))
    /\ UNCHANGED <<locales, commande, isInit, consigneDir, pin, temp, canal, defautVu>>

FrPwm ==
    /\ pc = "frPwm"
    /\ pc' = "frSens"
    /\ pin' = Ecrit(pin, M1PWM, PwmM1(speed))
    /\ UNCHANGED <<locales, commande, isInit, consigneDir, ocr1a, temp, canal, defautVu>>

FrSens ==
    /\ pc = "frSens"
    /\ pc' = "cmdFr1"
    /\ pin' = Ecrit(pin, M1DIR, Reverse(speed))
    /\ speed' = 0
    /\ UNCHANGED <<entete, valeur, k, commande, isInit, consigneDir, ocr1a, temp, canal, defautVu>>

(* var.commande(): initvar() first if the throttle was locked. *)
VarTest ==
    /\ pc = "varTest"
    /\ pc' = IF isInit THEN "varPwm" ELSE "initvar"
    /\ UNCHANGED <<locales, commande, isInit, sorties, defautVu>>

VarInitvar ==
    /\ pc = "initvar"
    /\ EcrireListe(EcrituresInitvar) \/ FinListe(EcrituresInitvar, TRUE, "varPwm")

VarPwm ==
    /\ pc = "varPwm"
    /\ pc' = "cmdVar1"
    /\ pin' = Ecrit(pin, vacc_pin, CommandeVariateur(Consigne("variateur")))
    /\ UNCHANGED <<locales, commande, isInit, consigneDir, ocr1a, temp, canal, defautVu>>

(* commande_a = value: two byte stores, in the order the compiler chose.   *)
(* After the last one of the case, inputString = "" ends parseMessage().   *)
Range1(a) ==
    /\ pc = Rangement1[a]
    /\ pc' = Rangement2[a]
    /\ \E x \in {Melange(commande[a], Consigne(a)), Melange(Consigne(a), commande[a])} :
          commande' = [commande EXCEPT ![a] = x]
    /\ UNCHANGED <<locales, isInit, sorties, defautVu>>

Range2(a) ==
    /\ pc = Rangement2[a]
    /\ pc' = Suite(a)
    /\ commande' = [commande EXCEPT ![a] = Consigne(a)]
    /\ valeur' = IF Suite(a) = "loop" THEN 0 ELSE valeur
    /\ UNCHANGED <<entete, k, speed, isInit, sorties, defautVu>>

(* What the interrupt leaves on the pins, the servo of the brake having    *)
(* given s: fr.commande, then var.commande.                                *)
PinsISRSansSens(s) ==   \* variant: the brake's direction pin is not written
    LET var == IF isInit THEN pin ELSE Initvar(pin)
    IN  Ecrit(IF Uno THEN var ELSE Ecrit(var, M1PWM, PwmM1(s)),
              vacc_pin, CommandeVariateur(commande["variateur"]))
PinsISR(s) ==
    LET fr  == Ecrit(IF Uno THEN pin ELSE Ecrit(pin, M1PWM, PwmM1(s)), M1DIR, Reverse(s))
        var == IF isInit THEN fr ELSE Initvar(fr)
    IN  Ecrit(var, vacc_pin, CommandeVariateur(commande["variateur"]))

(* What it leaves in temp: the high byte of the last 16-bit register it    *)
(* writes, OCR1B, since dir.commande comes after fr.commande.              *)
TempISRFreinEnDernier(s) == Hi(Vitesse(s))   \* variant: fr.commande comes last
TempISR(s) == 0

(* What fr.commande may read in the interrupt: its analogRead waits for a  *)
(* conversion of A4 that the main program has started and takes its result.*)
MesuresISR ==
    IF pc \in {"dirConv", "dirImp"} THEN Pressions \cup Potars ELSE Pressions

(* ISR(TIMER1_COMPA_vect): fr.commande, dir.commande, var.commande. *)
ISR ==
    /\ pc # "reset"
    /\ \E p \in MesuresISR :
          LET s == CommandeFrein(commande["frein"], p)
          IN /\ pin' = PinsISR(s)
             /\ ocr1a' = IF Uno THEN Vitesse(s) ELSE ocr1a
             /\ temp' = TempISR(s)
    /\ isInit' = TRUE
    /\ consigneDir' = commande["direction"]
    /\ canal' = "A4"
    /\ UNCHANGED <<pc, locales, commande, defautVu>>

(* The statements of the main program, once it has something to do. *)
Main ==
    \/ Setup \/ Lock \/ Dir \/ DirPwm \/ DirFin \/ FrAdc \/ FrCalc \/ FrHi \/ FrLo \/ FrPwm \/ FrSens
    \/ VarTest \/ VarInitvar \/ VarPwm
    \/ \E a \in Acteurs : Range1(a) \/ Range2(a)

Next ==
    /\ \/ Main
       \/ ISR
       \/ \E e \in Entetes, v \in Valeurs : Recoit(e, v)
    /\ UNCHANGED Uno

Spec == Init /\ [][Next]_vars

(* The processor always runs, and between two interrupts it executes at    *)
(* least one instruction of the main program; the timer is never stopped.  *)
FairSpec == Spec /\ WF_vars(Main /\ UNCHANGED Uno) /\ WF_vars(ISR /\ UNCHANGED Uno)

-----------------------------------------------------------------------------
(* Every variable has its type; what is stored in an int fits in an int.   *)
TypeEtat ==
    /\ pc \in Etiquettes
    /\ entete \in Entetes \cup {"aucun"}
    /\ valeur \in Valeurs \cup {0}
    /\ k \in 1..8
    /\ speed \in Speeds
    /\ commande \in [Acteurs -> Int16]
    /\ isInit \in BOOLEAN
    /\ consigneDir \in Int16 \cup {Aucune}
    /\ pin \in [Pins -> UChar]
    /\ ocr1a \in UInt16
    /\ temp \in UChar
    /\ canal \in {"A4", "A5"}
    /\ defautVu \in BOOLEAN

(* The board is one of the two, and every variable has its type.           *)
TypeOK == Uno \in BOOLEAN /\ TypeEtat

(* setM1Speed limits the duty cycle to 400, but OCR1A is stored in two     *)
(* bytes and the interrupt may come between them.  Whatever the            *)
(* interleaving, OCR1A holds the value of initTimer1 or at most 400: the   *)
(* interrupt leaves 0 in temp because it writes OCR1B after OCR1A.         *)
DutyMax == pc # "reset" => ocr1a \in 0..SPEED_MAX \cup {31250}

(* If the values received are the non-negative chars, the throttle output  *)
(* is always 0 or a value that some message commanded, never the mixture   *)
(* of an old and a new one that the interrupt could read during a store    *)
(* of commande_variateur; and it is never above the limit of 155.          *)
VariateurCommande ==
    /\ pin[vacc_pin] \in 0..155
    /\ (\A v \in Valeurs : v >= 0) => pin[vacc_pin] \in Valeurs \cup {0}

(* setup() leaves the motor shield of the brake enabled (nD2 high), and it *)
(* stays so as long as no message reached the default case, although the   *)
(* throttle's mass_pin is the same pin.                                    *)
CarteFreinAlimentee == pc # "reset" /\ ~defautVu => pin[nD2] = HIGH

(* Once a message has reached the default case and been handled, the motor *)
(* shield of the brake is disabled for good: initvar() left pin 4 low and  *)
(* nothing of the sketch raises it again.                                  *)
CarteFreinCoupee == pc = "loop" /\ defautVu => pin[nD2] = LOW

(* After parseMessage() has returned from a stop, no step raises the       *)
(* throttle until another message is handled.                              *)
SansReprise ==
    [][pc = "loop" /\ pc' = "loop" /\ entete \in Arrets
         => pin'[vacc_pin] <= pin[vacc_pin]]_vars

(* If from some time on every message is a stop (or none comes), then from *)
(* some time on the throttle is at 0 and the brake order is 100.           *)
ArretDefinitif ==
    <>[](entete \in Arrets) =>
        <>[](pin[vacc_pin] = 0 /\ commande["variateur"] = 0 /\ commande["frein"] = 100)

(* If messages stop coming, the outputs settle on the last orders: the     *)
(* interrupt applies what the main program stored, and gives the brake a   *)
(* duty cycle and a direction that belong together.                        *)
Convergence ==
    <>[](pc = "loop") =>
        <>[](/\ consigneDir = commande["direction"]
             /\ pin[vacc_pin] = CommandeVariateur(commande["variateur"])
             /\ \E p \in Pressions :
                  LET s == CommandeFrein(commande["frein"], p)
                  IN /\ pin[M1DIR] = Reverse(s)
                     /\ IF Uno THEN ocr1a = Vitesse(s) ELSE pin[M1PWM] = PwmM1(s))
-----------------------------------------------------------------------------
(* What a comment of the source says, and is false of the code.            *)

(* A message that is not understood puts the car "en arret d'urgence et en *)
(* défaut": when it has been handled, the throttle is still locked.        *)
DefautMaintenu == pc = "loop" /\ entete = "autre" => ~isInit
=============================================================================
