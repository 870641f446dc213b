----------------------------- MODULE Variateur -----------------------------
(***************************************************************************)
(* The throttle actuator: the pin writes of variateur::init, ::initvar,    *)
(* ::lock, in the order of the source, and the limits of ::commande.  Its  *)
(* asservissement is never called.                                         *)
(***************************************************************************)
EXTENDS Avr, Sequences

(* Variant: initvar ends its pulse of mass_pin at the high level. *)
EcrituresInitvarMasseHaute ==
    << <<FS_pin, LOW>>, <<embrayage_plus, HIGH>>, <<mass_pin, HIGH>>,
       <<mass_pin, LOW>>, <<mass_pin, HIGH>>, <<mass_pin, HIGH>>, <<FS_pin, LOW>> >>

(* initvar pulses mass_pin; lock cuts the throttle and blocks FS.  Both    *)
(* end with an assignment of isInit, made by the action that runs them.    *)
EcrituresInitvar ==
    << <<FS_pin, LOW>>, <<embrayage_plus, HIGH>>, <<mass_pin, LOW>>,
       <<mass_pin, HIGH>>, <<mass_pin, LOW>>, <<mass_pin, LOW>>, <<FS_pin, LOW>> >>
EcrituresLock ==
    << <<vacc_pin, 0>>, <<FS_pin, LOW>> >>

(* initvar run without interruption: what the seven writes leave. *)
Initvar(p) ==
    Ecrit(Ecrit(Ecrit(p, FS_pin, LOW), embrayage_plus, HIGH), mass_pin, LOW)

(* init: the outputs it sets, then initvar. *)
InitVariateur(p) ==
    Initvar(Ecrit(Ecrit(Ecrit(Ecrit(p, embrayage_plus, HIGH), mass_pin, LOW),
                        FS_pin, LOW), vacc_pin, 0))

(* Variant: the limits of the steering card instead of the throttle's. *)
CommandeVariateurBornesDirection(value) == Borne(value, 65, 245)

(* commande: no servo, only the speed limiter. *)
CommandeVariateur(value) == Borne(value, 0, 155)
=============================================================================
