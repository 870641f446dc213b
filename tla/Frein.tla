------------------------------- MODULE Frein -------------------------------
(***************************************************************************)
(* The brake actuator: frein::commande, frein::asservissement and the      *)
(* setM1Speed of the DualMC33926 motor shield it drives.  ki and kd are 0, *)
(* so erreur_sommeP and erreur_precP are written and never reach the       *)
(* output: the servo is a function of the set-point and of the pressure.   *)
(***************************************************************************)
EXTENDS Avr

kp == 25

(* The largest duty cycle of the shield, and the range of its set-points.  *)
SPEED_MAX == 400
Speeds    == (-SPEED_MAX)..SPEED_MAX

(* asservissement: the error and the float product, converted to int.      *)
AsservissementFrein(pression_consigne, pression_reel) ==
    Wrap16(kp * Wrap16(-(pression_reel - pression_consigne)))

(* Variant: commande does not limit the servo output. *)
CommandeFreinSansLimite(consigne, pression) ==
    AsservissementFrein(consigne, pression)

(* commande: the servo output limited to what the shield supports.         *)
CommandeFrein(consigne, pression) ==
    Borne(AsservissementFrein(consigne, pression), -SPEED_MAX, SPEED_MAX)

(* setM1Speed: the magnitude, limited to the duty cycle maximum, and the   *)
(* level of the direction pin.                                             *)
Vitesse(speed) == IF Abs(speed) > SPEED_MAX THEN SPEED_MAX ELSE Abs(speed)
Reverse(speed) == IF speed < 0 THEN HIGH ELSE LOW

(* The duty cycle given to analogWrite on boards without the shield's      *)
(* timer 1 code: 400 is mapped to 255.                                     *)
PwmM1(speed) == (Vitesse(speed) * 51) \div 80

(* init, and the init of the shield it calls: pin 4 supplies the pressure  *)
(* sensor and enables the shield.                                          *)
InitFrein(p) == Ecrit(Ecrit(p, Pos_vcc, HIGH), nD2, HIGH)
=============================================================================
