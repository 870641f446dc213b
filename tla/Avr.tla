-------------------------------- MODULE Avr --------------------------------
(***************************************************************************)
(* The parts of the AVR target that the sketch Actionneurs/Centralisé      *)
(* relies on: 16-bit int, 8-bit stores, and the board's pins.  The pin     *)
(* numbers are the ones of the three actuator classes; several classes     *)
(* use the same physical pin, so the pins are numbers here too and an      *)
(* alias in the source is an equality in the model.                        *)
(***************************************************************************)
EXTENDS Integers

LOW  == 0
HIGH == 1

(* The integer types of the target and their limits. *)
INT_MIN   == -32768
INT_MAX   == 32767
UINT_MAX  == 65535
CHAR_MIN  == -128
CHAR_MAX  == 127
UCHAR_MAX == 255
Int16  == INT_MIN..INT_MAX
UInt16 == 0..UINT_MAX
Char   == CHAR_MIN..CHAR_MAX
UChar  == 0..UCHAR_MAX

(* The value an int keeps of the mathematical result x (16 bits, two's     *)
(* complement, wrap-around).  A float converted to int is truncated to 32  *)
(* bits and then to 16, which wraps in the same way.                       *)
Wrap16(x) == ((x + 32768) % 65536) - 32768

(* The two bytes of an int, and the int made of the high byte of h and the *)
(* low byte of l: what another context sees between the two byte stores    *)
(* of an int, or gets from a 16-bit timer register.                        *)
Lo(x) == x % 256
Hi(x) == x \div 256
Melange(h, l) == 256 * Hi(h) + Lo(l)

(* The pattern  if (x < a) x = a; else if (x > b) x = b;                   *)
Borne(x, a, b) == IF x < a THEN a ELSE IF x > b THEN b ELSE x

(* |x|, and n/10 truncated toward zero as a float to int conversion does.  *)
Abs(x)     == IF x < 0 THEN -x ELSE x
Dixieme(n) == IF n < 0 THEN -((-n) \div 10) ELSE n \div 10

(***************************************************************************)
(* Pins.  mass_pin of variateur, _nD2 of the motor shield and Pos_vcc of   *)
(* frein are all pin 4; FS_pin of variateur and _M1DIR of the shield are   *)
(* both pin 7; embrayage_plus and _M2DIR are both pin 8.                   *)
(***************************************************************************)
mass_pin       == 4
nD2            == 4
Pos_vcc        == 4
vacc_pin       == 5
FS_pin         == 7
M1DIR          == 7
embrayage_plus == 8
M1PWM          == 9
Pins == {mass_pin, nD2, Pos_vcc, vacc_pin, FS_pin, M1DIR, embrayage_plus, M1PWM}

(* digitalWrite / analogWrite of one pin. *)
Ecrit(p, broche, niveau) == [p EXCEPT ![broche] = niveau]
=============================================================================
