------------------------- MODULE ActionneursPreuves -------------------------
(***************************************************************************)
(* Proofs about the central sketch, for every set of values and of sensor  *)
(* readings and for both kinds of board.                                   *)
(***************************************************************************)
EXTENDS Actionneurs, TLAPS

-----------------------------------------------------------------------------
(* The target's arithmetic, and what the actuators compute with it, for    *)
(* every int.  The solver is given bounds as inequalities: it would        *)
(* enumerate a large interval of literals.                                 *)

(* The limits of the types, as numbers. *)
LEMMA Limites ==
    /\ INT_MIN = -32768 /\ INT_MAX = 32767 /\ UINT_MAX = 65535
    /\ CHAR_MIN = -128 /\ CHAR_MAX = 127 /\ UCHAR_MAX = 255
    /\ SPEED_MAX = 400
  BY DEF INT_MIN, INT_MAX, UINT_MAX, CHAR_MIN, CHAR_MAX, UCHAR_MAX, SPEED_MAX

LEMMA Int16Bornes == \A x : x \in Int16 <=> x \in Int /\ x >= -32768 /\ x <= 32767
<1>1. INT_MIN \in Int /\ INT_MAX \in Int
    BY Limites
<1>2. \A x : x \in Int16 <=> x \in Int /\ x >= INT_MIN /\ x <= INT_MAX
    BY <1>1 DEF Int16
<1> QED BY <1>2, Limites

LEMMA UInt16Bornes == \A x : x \in UInt16 <=> x \in Int /\ x >= 0 /\ x <= 65535
<1>1. UINT_MAX \in Int
    BY Limites
<1>2. \A x : x \in UInt16 <=> x \in Int /\ x >= 0 /\ x <= UINT_MAX
    BY <1>1 DEF UInt16
<1> QED BY <1>2, Limites

LEMMA CharBornes == \A x : x \in Char <=> x \in Int /\ x >= -128 /\ x <= 127
  BY Limites DEF Char

LEMMA UCharBornes == \A x : x \in UChar <=> x \in Int /\ x >= 0 /\ x <= 255
  BY Limites DEF UChar

LEMMA SpeedsBornes == \A x : x \in Speeds <=> x \in Int /\ x >= -400 /\ x <= 400
<1>1. SPEED_MAX \in Int /\ -SPEED_MAX \in Int
    BY Limites
<1>2. \A x : x \in Speeds <=> x \in Int /\ x >= -SPEED_MAX /\ x <= SPEED_MAX
    BY <1>1 DEF Speeds
<1> QED BY <1>2, Limites

LEMMA DutyBornes == \A x : x \in 0..SPEED_MAX <=> x \in Int /\ x >= 0 /\ x <= 400
<1>1. SPEED_MAX \in Int
    BY Limites
<1>2. \A x : x \in 0..SPEED_MAX <=> x \in Int /\ x >= 0 /\ x <= SPEED_MAX
    BY <1>1
<1> QED BY <1>2, Limites

-----------------------------------------------------------------------------
(* An int holds an int, whatever the mathematical result was. *)
LEMMA Wrap16Bornes ==
    \A x \in Int : Wrap16(x) \in Int /\ Wrap16(x) >= -32768 /\ Wrap16(x) <= 32767
  BY DEF Wrap16

LEMMA Wrap16Type == \A x \in Int : Wrap16(x) \in Int16
  BY Wrap16Bornes, Int16Bornes

(* What fits in an int is kept as it is. *)
LEMMA Wrap16Ident == \A x \in Int : x >= -32768 /\ x <= 32767 => Wrap16(x) = x
  BY DEF Wrap16

(* The limiter pattern of the actuators returns a value within its limits. *)
LEMMA BorneType ==
    \A x, a, b \in Int : a <= b => Borne(x, a, b) \in a..b
  BY DEF Borne

(* The two bytes of an int. *)
LEMMA HiBornes ==
    \A x \in Int : x >= -32768 /\ x <= 32767
                     => Hi(x) \in Int /\ Hi(x) >= -128 /\ Hi(x) <= 127
  BY DEF Hi

LEMMA LoBornes ==
    \A x \in Int : Lo(x) \in Int /\ Lo(x) >= 0 /\ Lo(x) <= 255
  BY DEF Lo

(* A store of both bytes of an int gives it back. *)
LEMMA Octets == \A x \in Int : 256 * Hi(x) + Lo(x) = x
  BY DEF Hi, Lo

(* A mixture of two ints is an int. *)
LEMMA MelangeType ==
    \A h, l \in Int16 : Melange(h, l) \in Int16
<1> TAKE h, l \in Int16
<1>1. Hi(h) \in Int /\ Hi(h) >= -128 /\ Hi(h) <= 127
    BY HiBornes, Int16Bornes
<1>2. Lo(l) \in Int /\ Lo(l) >= 0 /\ Lo(l) <= 255
    BY LoBornes, Int16Bornes
<1>3. \A a, b \in Int : a >= -128 /\ a <= 127 /\ b >= 0 /\ b <= 255
        => 256 * a + b \in Int /\ 256 * a + b >= -32768 /\ 256 * a + b <= 32767
    OBVIOUS
<1> QED BY <1>1, <1>2, <1>3, Int16Bornes DEF Melange

(* A mixture of two non-negative chars is the one whose low byte it has: a *)
(* torn store between two such values is not visible.                      *)
LEMMA MelangeChar ==
    \A h, l \in Int : h >= 0 /\ h <= 127 /\ l >= 0 /\ l <= 127 => Melange(h, l) = l
  BY DEF Melange, Hi, Lo

(* The two bytes of a duty cycle, and the one with the high byte cleared.  *)
LEMMA OctetsVitesse ==
    \A x \in Int : x >= 0 /\ x <= 400
      => /\ Hi(x) \in Int /\ Hi(x) >= 0 /\ Hi(x) <= 1
         /\ Lo(x) \in Int /\ Lo(x) >= 0 /\ Lo(x) <= x
  BY DEF Hi, Lo

-----------------------------------------------------------------------------
(* The brake servo's int arithmetic stays an int. *)
LEMMA AsservissementType == \A c, p \in Int : AsservissementFrein(c, p) \in Int
<1> TAKE c, p \in Int
<1>1. -(p - c) \in Int
    OBVIOUS
<1>2. PICK e \in Int : e = Wrap16(-(p - c))
    BY <1>1, Wrap16Bornes
<1>3. kp * e \in Int
    BY DEF kp
<1>4. Wrap16(kp * e) \in Int
    BY <1>3, Wrap16Bornes
<1> QED BY <1>2, <1>4 DEF AsservissementFrein

(* Whatever the set-point and the pressure, the motor shield is given a    *)
(* set-point that it supports.                                             *)
LEMMA FreinType == \A c, p \in Int : CommandeFrein(c, p) \in Speeds
<1> TAKE c, p \in Int
<1>1. PICK s \in Int : s = AsservissementFrein(c, p)
    BY AsservissementType
<1>2. -SPEED_MAX \in Int /\ SPEED_MAX \in Int /\ -SPEED_MAX <= SPEED_MAX
    BY Limites
<1> QED BY <1>1, <1>2, BorneType DEF CommandeFrein, Speeds

(* ... and setM1Speed a duty cycle and levels that fit their registers.    *)
LEMMA VitesseType ==
    \A s \in Speeds : Vitesse(s) \in Int /\ Vitesse(s) >= 0 /\ Vitesse(s) <= 400
<1> TAKE s \in Speeds
<1>1. s \in Int /\ s >= -400 /\ s <= 400
    BY SpeedsBornes
<1> QED BY <1>1, Limites DEF Vitesse, Abs

LEMMA ReverseType == \A s \in Speeds : Reverse(s) \in UChar
  BY UCharBornes DEF Reverse, HIGH, LOW

LEMMA Echelle255 ==
    \A v \in Int : v >= 0 /\ v <= 400
      => (v * 51) \div 80 \in Int /\ (v * 51) \div 80 >= 0 /\ (v * 51) \div 80 <= 255
  OBVIOUS

LEMMA PwmType == \A s \in Speeds : PwmM1(s) \in UChar
<1> TAKE s \in Speeds
<1>1. PICK v \in Int : v = Vitesse(s) /\ v >= 0 /\ v <= 400
    BY VitesseType
<1>2. PwmM1(s) = (v * 51) \div 80
    BY <1>1 DEF PwmM1
<1> QED BY <1>1, <1>2, Echelle255, UCharBornes

(* The speed limiter of the throttle, and its effect on a char. *)
LEMMA VariateurType ==
    \A x \in Int : CommandeVariateur(x) \in Int /\ CommandeVariateur(x) >= 0
                     /\ CommandeVariateur(x) <= 155
  BY DEF CommandeVariateur, Borne

LEMMA VariateurChar ==
    \A x \in Int : x >= 0 /\ x <= 127 => CommandeVariateur(x) = x
  BY DEF CommandeVariateur, Borne

(* The pins that the proofs distinguish, and the ones that are pin 4. *)
LEMMA Broches ==
    /\ nD2 \in Pins /\ vacc_pin \in Pins /\ FS_pin \in Pins
    /\ embrayage_plus \in Pins /\ M1PWM \in Pins /\ M1DIR \in Pins
    /\ vacc_pin # nD2
    /\ FS_pin # nD2 /\ FS_pin # vacc_pin
    /\ embrayage_plus # nD2 /\ embrayage_plus # vacc_pin
    /\ M1PWM # nD2 /\ M1PWM # vacc_pin
    /\ M1DIR # nD2 /\ M1DIR # vacc_pin
  BY DEF Pins, nD2, vacc_pin, FS_pin, M1DIR, embrayage_plus, M1PWM

LEMMA Alias == mass_pin = nD2 /\ Pos_vcc = nD2
  BY DEF mass_pin, Pos_vcc, nD2

LEMMA Niveaux == LOW \in UChar /\ HIGH \in UChar /\ 0 \in UChar /\ LOW = 0 /\ LOW # HIGH
  BY UCharBornes DEF LOW, HIGH

(* What a pin write does. *)
LEMMA EcritType ==
    \A p \in [Pins -> UChar], b \in Pins, n \in UChar :
        /\ Ecrit(p, b, n) \in [Pins -> UChar]
        /\ \A c \in Pins : Ecrit(p, b, n)[c] = IF c = b THEN n ELSE p[c]
  BY DEF Ecrit

LEMMA EcritAutre ==
    \A p \in [Pins -> UChar], b \in Pins, c \in Pins, n \in UChar :
        c # b => Ecrit(p, b, n)[c] = p[c]
  BY EcritType

(* initvar leaves pin 4 low and does not touch the throttle. *)
LEMMA InitvarType ==
    \A p \in [Pins -> UChar] :
        /\ Initvar(p) \in [Pins -> UChar]
        /\ Initvar(p)[nD2] = LOW
        /\ Initvar(p)[vacc_pin] = p[vacc_pin]
<1> TAKE p \in [Pins -> UChar]
<1> DEFINE p1 == Ecrit(p, FS_pin, LOW)
           p2 == Ecrit(p1, embrayage_plus, HIGH)
           p3 == Ecrit(p2, mass_pin, LOW)
<1>1. p1 \in [Pins -> UChar] /\ p1[vacc_pin] = p[vacc_pin]
    BY EcritType, Broches, Niveaux
<1>2. p2 \in [Pins -> UChar] /\ p2[vacc_pin] = p1[vacc_pin]
  <2> HIDE DEF p1
  <2> QED BY <1>1, EcritType, Broches, Niveaux
<1>3. p3 \in [Pins -> UChar] /\ p3[vacc_pin] = p2[vacc_pin] /\ p3[nD2] = LOW
  <2> HIDE DEF p2
  <2> QED BY <1>2, EcritType, Broches, Niveaux, Alias
<1>4. Initvar(p) = p3
    BY DEF Initvar
<1> HIDE DEF p1, p2, p3
<1> QED BY <1>1, <1>2, <1>3, <1>4

(* setup leaves pin 4 high and the throttle at 0. *)
LEMMA InitActionneursType ==
    \A p \in [Pins -> UChar] :
        /\ InitActionneurs(p) \in [Pins -> UChar]
        /\ InitActionneurs(p)[nD2] = HIGH
        /\ InitActionneurs(p)[vacc_pin] = 0
<1> TAKE p \in [Pins -> UChar]
<1> DEFINE p1 == Ecrit(p, embrayage_plus, HIGH)
           p2 == Ecrit(p1, mass_pin, LOW)
           p3 == Ecrit(p2, FS_pin, LOW)
           p4 == Ecrit(p3, vacc_pin, 0)
           p5 == Initvar(p4)
           p6 == Ecrit(p5, Pos_vcc, HIGH)
           p7 == Ecrit(p6, nD2, HIGH)
<1>0. InitActionneurs(p) = p7
    BY DEF InitActionneurs, InitFrein, InitVariateur
<1>1. p1 \in [Pins -> UChar]
    BY EcritType, Broches, Niveaux
<1> HIDE DEF p1
<1>2. p2 \in [Pins -> UChar]
    BY <1>1, EcritType, Broches, Niveaux, Alias
<1> HIDE DEF p2
<1>3. p3 \in [Pins -> UChar]
    BY <1>2, EcritType, Broches, Niveaux
<1> HIDE DEF p3
<1>4. p4 \in [Pins -> UChar] /\ p4[vacc_pin] = 0
    BY <1>3, EcritType, Broches, Niveaux
<1> HIDE DEF p4
<1>5. p5 \in [Pins -> UChar] /\ p5[vacc_pin] = 0
    BY <1>4, InitvarType
<1> HIDE DEF p5
<1>6. p6 \in [Pins -> UChar] /\ p6[vacc_pin] = 0
    BY <1>5, EcritType, Broches, Niveaux, Alias
<1> HIDE DEF p6
<1>7. p7 \in [Pins -> UChar] /\ p7[vacc_pin] = 0 /\ p7[nD2] = HIGH
    BY <1>6, EcritType, Broches, Niveaux
<1> HIDE DEF p7
<1> QED BY <1>0, <1>7

(* The pin writes of the throttle's initvar and lock. *)
LEMMA ListeInitvar ==
    /\ Len(EcrituresInitvar) = 7
    /\ \A i \in 1..7 : /\ EcrituresInitvar[i][1] \in Pins
                       /\ EcrituresInitvar[i][1] # vacc_pin
                       /\ EcrituresInitvar[i][2] \in UChar
    /\ \A i \in {1, 2, 7} : EcrituresInitvar[i][1] # nD2
    /\ \A i \in {3, 5, 6} : EcrituresInitvar[i] = <<nD2, LOW>>
    /\ EcrituresInitvar[4] = <<nD2, HIGH>>
  BY Broches, Niveaux, Alias DEF EcrituresInitvar

LEMMA ListeLock ==
    /\ Len(EcrituresLock) = 2
    /\ EcrituresLock[1] = <<vacc_pin, 0>>
    /\ EcrituresLock[2] = <<FS_pin, LOW>>
  BY DEF EcrituresLock

(* A set-point that parseMessage or arret computes is an int. *)
LEMMA EchelleType == \A v \in Char : EchelleDirection(v) \in Int16
<1> TAKE v \in Char
<1>1. v \in Int /\ v >= -128 /\ v <= 127
    BY CharBornes
<1>2. PICK n \in Int : n = 17 * v + 650 /\ n >= -1526 /\ n <= 2809
    BY <1>1
<1>3. \A m \in Int : m >= -1526 /\ m <= 2809
        => Dixieme(m) \in Int /\ Dixieme(m) >= -32768 /\ Dixieme(m) <= 32767
    BY DEF Dixieme
<1> QED BY <1>2, <1>3, Int16Bornes DEF EchelleDirection

LEMMA ConsigneType ==
    ASSUME TypeEtat, NEW a \in Acteurs
    PROVE  Consigne(a) \in Int16
<1>1. valeur \in Char
    BY ValeursAssumption, CharBornes DEF TypeEtat
<1>2. valeur \in Int16 /\ EchelleDirection(valeur) \in Int16
    BY <1>1, EchelleType, CharBornes, Int16Bornes
<1>3. 50 \in Int16 /\ 100 \in Int16 /\ 0 \in Int16 /\ -400 \in Int16
    BY Int16Bornes
<1>4. CASE a = "direction"
    BY <1>2, <1>3, <1>4 DEF Consigne
<1>5. CASE a = "frein"
    BY <1>2, <1>3, <1>5 DEF Consigne
<1>6. CASE a = "variateur"
    BY <1>2, <1>3, <1>6 DEF Consigne
<1> QED BY <1>4, <1>5, <1>6 DEF Acteurs

-----------------------------------------------------------------------------
(* The type invariant is inductive as it stands. *)
LEMMA TypeInit == Init => TypeEtat
<1> SUFFICES ASSUME Init PROVE TypeEtat
    OBVIOUS
<1>1. commande \in [Acteurs -> Int16]
    BY Int16Bornes DEF Init
<1>2. pin \in [Pins -> UChar]
    BY Niveaux DEF Init
<1>3. temp \in UChar /\ ocr1a \in UInt16 /\ speed \in Speeds
    BY UCharBornes, UInt16Bornes, SpeedsBornes DEF Init
<1>4. isInit \in BOOLEAN /\ defautVu \in BOOLEAN
    BY DEF Init
<1>5. k \in 1..8
    BY DEF Init
<1>6. pc \in Etiquettes /\ canal \in {"A4", "A5"} /\ consigneDir \in Int16 \cup {Aucune}
    BY DEF Init, Etiquettes
<1>7. entete \in Entetes \cup {"aucun"} /\ valeur \in Valeurs \cup {0}
    BY DEF Init
<1> QED BY <1>1, <1>2, <1>3, <1>4, <1>5, <1>6, <1>7 DEF TypeEtat

LEMMA TypeSetup == TypeEtat /\ Setup => TypeEtat'
<1> SUFFICES ASSUME TypeEtat, Setup PROVE TypeEtat'
    OBVIOUS
<1>1. 500 \in Int16 /\ 31250 \in UInt16
    BY Int16Bornes, UInt16Bornes
<1>2. commande' \in [Acteurs -> Int16]
  <2>1. PICK c \in Int16 : c = 500
      BY <1>1
  <2>2. commande' = [commande EXCEPT !["direction"] = c]
      BY <2>1 DEF Setup
  <2> QED BY <2>2 DEF TypeEtat
<1>3. Hi(31250) \in UChar
    BY UCharBornes DEF Hi
<1>4. pin' \in [Pins -> UChar]
    BY InitActionneursType DEF Setup, TypeEtat
<1>5. temp' \in UChar /\ ocr1a' \in UInt16
    BY <1>1, <1>3 DEF Setup
<1>6. isInit' \in BOOLEAN /\ pc' \in Etiquettes
    BY DEF Setup, Etiquettes
<1>7. UNCHANGED <<entete, valeur, k, speed, consigneDir, canal, defautVu>>
    BY DEF Setup, locales
<1> QED BY <1>2, <1>4, <1>5, <1>6, <1>7 DEF TypeEtat

LEMMA TypeRecoit ==
    ASSUME TypeEtat, NEW e \in Entetes, NEW v \in Valeurs, Recoit(e, v)
    PROVE  TypeEtat'
<1>1. Debut(e) \in Etiquettes
    BY DEF Debut, Etiquettes, Entetes
<1> QED BY <1>1 DEF Recoit, TypeEtat, sorties

LEMMA TypeListe ==
    ASSUME TypeEtat,
           \/ VarInitvar
           \/ Lock
    PROVE  TypeEtat'
<1>1. CASE pc = "lock" /\ EcrireListe(EcrituresLock)
  <2>1. k \in 1..2
      BY <1>1, ListeLock DEF EcrireListe, TypeEtat
  <2>2. EcrituresLock[k][1] \in Pins /\ EcrituresLock[k][2] \in UChar
      BY <2>1, ListeLock, Broches, Niveaux
  <2>3. pin' \in [Pins -> UChar]
      BY <1>1, <2>2, EcritType DEF EcrireListe, TypeEtat
  <2> QED BY <1>1, <2>1, <2>3 DEF EcrireListe, TypeEtat
<1>2. CASE pc = "lock" /\ FinListe(EcrituresLock, FALSE, "dir")
  <2>1. isInit' = FALSE /\ k' = 1 /\ pc' = "dir"
      BY <1>2 DEF FinListe
  <2>2. UNCHANGED <<entete, valeur, speed, commande, consigneDir, pin, ocr1a,
                    temp, canal, defautVu>>
      BY <1>2 DEF FinListe, sorties
  <2>3. isInit' \in BOOLEAN
      BY <2>1
  <2>4. k' \in 1..8 /\ pc' \in Etiquettes
      BY <2>1 DEF Etiquettes
  <2> QED BY <2>2, <2>3, <2>4 DEF TypeEtat
<1>3. CASE pc = "initvar" /\ EcrireListe(EcrituresInitvar)
  <2>1. k \in 1..7
      BY <1>3, ListeInitvar DEF EcrireListe, TypeEtat
  <2>2. EcrituresInitvar[k][1] \in Pins /\ EcrituresInitvar[k][2] \in UChar
      BY <2>1, ListeInitvar
  <2>3. pin' \in [Pins -> UChar]
      BY <1>3, <2>2, EcritType DEF EcrireListe, TypeEtat
  <2> QED BY <1>3, <2>1, <2>3 DEF EcrireListe, TypeEtat
<1>4. CASE pc = "initvar" /\ FinListe(EcrituresInitvar, TRUE, "varPwm")
  <2>1. isInit' = TRUE /\ k' = 1 /\ pc' = "varPwm"
      BY <1>4 DEF FinListe
  <2>2. UNCHANGED <<entete, valeur, speed, commande, consigneDir, pin, ocr1a,
                    temp, canal, defautVu>>
      BY <1>4 DEF FinListe, sorties
  <2>3. isInit' \in BOOLEAN
      BY <2>1
  <2>4. k' \in 1..8 /\ pc' \in Etiquettes
      BY <2>1 DEF Etiquettes
  <2> QED BY <2>2, <2>3, <2>4 DEF TypeEtat
<1> QED BY <1>1, <1>2, <1>3, <1>4 DEF Lock, VarInitvar

LEMMA TypeDir == TypeEtat /\ (Dir \/ DirPwm \/ DirFin \/ FrAdc \/ VarTest) => TypeEtat'
<1> SUFFICES ASSUME TypeEtat, Dir \/ DirPwm \/ DirFin \/ FrAdc \/ VarTest PROVE TypeEtat'
    OBVIOUS
<1>1. CASE DirPwm
  <2>1. Consigne("direction") \in Int16
      BY ConsigneType DEF Acteurs
  <2> QED BY <1>1, <2>1, Niveaux DEF DirPwm, TypeEtat, Etiquettes, locales
<1>4. CASE Dir \/ DirFin
    BY <1>4 DEF Dir, DirFin, TypeEtat, Etiquettes, locales, sorties
<1>2. CASE FrAdc
    BY <1>2 DEF FrAdc, TypeEtat, Etiquettes, locales
<1>3. CASE VarTest
    BY <1>3 DEF VarTest, TypeEtat, Etiquettes, locales, sorties
<1> QED BY <1>1, <1>2, <1>3, <1>4

(* A reading is an int, whichever conversion it comes from. *)
LEMMA MesuresType == Pressions \cup Potars \subseteq Int /\ MesuresISR \subseteq Int
<1>1. Pressions \cup Potars \subseteq Int
  <2>1. Adc \subseteq Int
    BY DEF Adc
  <2> QED BY <2>1, MesuresAssumption
<1> QED BY <1>1 DEF MesuresISR

(* The octets of frein::commande's stores. *)
LEMMA TypeFrein == TypeEtat /\ (FrCalc \/ FrHi \/ FrLo \/ FrPwm \/ FrSens) => TypeEtat'
<1> SUFFICES ASSUME TypeEtat, FrCalc \/ FrHi \/ FrLo \/ FrPwm \/ FrSens PROVE TypeEtat'
    OBVIOUS
<1> DEFINE w == Vitesse(speed)
<1>0. w \in Int /\ w >= 0 /\ w <= 400
    BY VitesseType DEF TypeEtat
<1>1. CASE FrCalc
  <2>1. Consigne("frein") \in Int
      BY ConsigneType, Int16Bornes DEF Acteurs
  <2>2. PICK p \in Pressions \cup Potars : speed' = CommandeFrein(Consigne("frein"), p)
      BY <1>1 DEF FrCalc
  <2>3. p \in Int
      BY MesuresType
  <2>4. speed' \in Speeds
      BY <2>1, <2>2, <2>3, FreinType
  <2> QED BY <1>1, <2>4 DEF FrCalc, TypeEtat, Etiquettes, sorties
<1>2. CASE FrHi
  <2>1. Hi(w) \in UChar
      BY <1>0, OctetsVitesse, UCharBornes
  <2> QED BY <1>2, <2>1 DEF FrHi, TypeEtat, Etiquettes, locales
<1>3. CASE FrLo
  <2>1. temp \in Int /\ temp >= 0 /\ temp <= 255
      BY UCharBornes DEF TypeEtat
  <2>2. Lo(w) \in Int /\ Lo(w) >= 0 /\ Lo(w) <= 255
      BY <1>0, LoBornes
  <2>3. 256 * temp + Lo(w) \in UInt16
      BY <2>1, <2>2, UInt16Bornes
  <2> QED BY <1>3, <2>3 DEF FrLo, TypeEtat, Etiquettes, locales
<1>4. CASE FrPwm
  <2>1. pin' \in [Pins -> UChar]
      BY <1>4, PwmType, EcritType, Broches DEF FrPwm, TypeEtat
  <2> QED BY <1>4, <2>1 DEF FrPwm, TypeEtat, Etiquettes, locales
<1>5. CASE FrSens
  <2>1. pin' \in [Pins -> UChar]
      BY <1>5, ReverseType, EcritType, Broches DEF FrSens, TypeEtat
  <2>2. 0 \in Speeds
      BY SpeedsBornes
  <2> QED BY <1>5, <2>1, <2>2 DEF FrSens, TypeEtat, Etiquettes
<1> QED BY <1>1, <1>2, <1>3, <1>4, <1>5

LEMMA VariateurUChar == \A x \in Int : CommandeVariateur(x) \in UChar
  BY VariateurType, UCharBornes

LEMMA TypeVarPwm == TypeEtat /\ VarPwm => TypeEtat'
<1> SUFFICES ASSUME TypeEtat, VarPwm PROVE TypeEtat'
    OBVIOUS
<1>1. Consigne("variateur") \in Int
    BY ConsigneType, Int16Bornes DEF Acteurs
<1>2. pin' \in [Pins -> UChar]
    BY <1>1, VariateurUChar, EcritType, Broches DEF VarPwm, TypeEtat
<1> QED BY <1>2 DEF VarPwm, TypeEtat, Etiquettes, locales

LEMMA TypeRange ==
    ASSUME TypeEtat, NEW a \in Acteurs, Range1(a) \/ Range2(a)
    PROVE  TypeEtat'
<1>1. Consigne(a) \in Int16 /\ commande[a] \in Int16
    BY ConsigneType DEF TypeEtat
<1>2. CASE Range1(a)
  <2>1. PICK x \in {Melange(commande[a], Consigne(a)), Melange(Consigne(a), commande[a])} :
           commande' = [commande EXCEPT ![a] = x]
      BY <1>2 DEF Range1
  <2>2. x \in Int16
      BY <1>1, <2>1, MelangeType
  <2>3. commande' \in [Acteurs -> Int16]
      BY <2>1, <2>2 DEF TypeEtat
  <2>4. Rangement2[a] \in Etiquettes
      BY DEF Rangement2, Etiquettes, Acteurs
  <2> QED BY <1>2, <2>3, <2>4 DEF Range1, TypeEtat, locales, sorties
<1>3. CASE Range2(a)
  <2>1. commande' \in [Acteurs -> Int16]
      BY <1>1, <1>3 DEF Range2, TypeEtat
  <2>2. Suite(a) \in Etiquettes
      BY DEF Suite, Etiquettes
  <2> QED BY <1>3, <2>1, <2>2 DEF Range2, TypeEtat, sorties
<1> QED BY <1>2, <1>3

(* What the interrupt writes on the pins. *)
LEMMA PinsISRType ==
    ASSUME TypeEtat, NEW s \in Speeds
    PROVE  /\ PinsISR(s) \in [Pins -> UChar]
           /\ PinsISR(s)[vacc_pin] = CommandeVariateur(commande["variateur"])
           /\ PinsISR(s)[nD2] = IF isInit THEN pin[nD2] ELSE LOW
<1>1. PICK duty \in UChar : duty = PwmM1(s)
    BY PwmType
<1>2. PICK sens \in UChar : sens = Reverse(s)
    BY ReverseType
<1>3. PICK v \in UChar : v = CommandeVariateur(commande["variateur"])
    BY VariateurUChar, Int16Bornes DEF TypeEtat, Acteurs
<1> DEFINE p1 == IF Uno THEN pin ELSE Ecrit(pin, M1PWM, duty)
           fr == Ecrit(p1, M1DIR, sens)
           var == IF isInit THEN fr ELSE Initvar(fr)
<1>4. PinsISR(s) = Ecrit(var, vacc_pin, v)
    BY <1>1, <1>2, <1>3 DEF PinsISR
<1>5. p1 \in [Pins -> UChar] /\ p1[nD2] = pin[nD2]
  <2>1. CASE Uno
      BY <2>1 DEF TypeEtat
  <2>2. CASE ~Uno
    <3>1. p1 = Ecrit(pin, M1PWM, duty) /\ pin \in [Pins -> UChar]
        BY <2>2 DEF TypeEtat
    <3> HIDE DEF p1
    <3>2. p1 \in [Pins -> UChar]
        BY <3>1, EcritType, Broches
    <3>3. p1[nD2] = pin[nD2]
        BY <3>1, EcritType, Broches
    <3> QED BY <3>2, <3>3
  <2> QED BY <2>1, <2>2
<1> HIDE DEF p1
<1>6. fr \in [Pins -> UChar]
    BY <1>5, EcritType, Broches
<1>7. fr[nD2] = pin[nD2]
    BY <1>5, EcritAutre, Broches
<1> HIDE DEF fr
<1>8. var \in [Pins -> UChar] /\ var[nD2] = IF isInit THEN pin[nD2] ELSE LOW
    BY <1>6, <1>7, InitvarType
<1> HIDE DEF var
<1>9. Ecrit(var, vacc_pin, v) \in [Pins -> UChar]
    BY <1>8, EcritType, Broches
<1>10. Ecrit(var, vacc_pin, v)[vacc_pin] = v
    BY <1>8, EcritType, Broches
<1>11. Ecrit(var, vacc_pin, v)[nD2] = var[nD2]
    BY <1>8, EcritAutre, Broches
<1> QED BY <1>3, <1>4, <1>8, <1>9, <1>10, <1>11

LEMMA TypeISR == TypeEtat /\ ISR => TypeEtat'
<1> SUFFICES ASSUME TypeEtat, ISR PROVE TypeEtat'
    OBVIOUS
<1>1. PICK p \in MesuresISR :
        LET s == CommandeFrein(commande["frein"], p)
        IN /\ pin' = PinsISR(s)
           /\ ocr1a' = IF Uno THEN Vitesse(s) ELSE ocr1a
           /\ temp' = TempISR(s)
    BY DEF ISR
<1>2. PICK s \in Speeds : s = CommandeFrein(commande["frein"], p)
  <2>1. commande["frein"] \in Int /\ p \in Int
      BY Int16Bornes, MesuresType DEF TypeEtat, Acteurs
  <2> QED BY <2>1, FreinType
<1>3. pin' \in [Pins -> UChar]
    BY <1>1, <1>2, PinsISRType
<1>4. ocr1a' \in UInt16
  <2>1. Vitesse(s) \in UInt16
      BY VitesseType, UInt16Bornes
  <2> QED BY <1>1, <1>2, <2>1 DEF TypeEtat
<1>5. temp' \in UChar
    BY <1>1, Niveaux DEF TempISR
<1>6. consigneDir' \in Int16
    BY DEF ISR, TypeEtat, Acteurs
<1>7. isInit' \in BOOLEAN /\ canal' \in {"A4", "A5"}
    BY DEF ISR
<1>8. UNCHANGED <<pc, entete, valeur, k, speed, commande, defautVu>>
    BY DEF ISR, locales
<1> QED BY <1>3, <1>4, <1>5, <1>6, <1>7, <1>8 DEF TypeEtat

LEMMA TypeSuite == TypeEtat /\ [Next]_vars => TypeEtat'
<1> SUFFICES ASSUME TypeEtat, [Next]_vars PROVE TypeEtat'
    OBVIOUS
<1>1. CASE Setup
    BY <1>1, TypeSetup
<1>2. CASE Lock \/ VarInitvar
    BY <1>2, TypeListe
<1>3. CASE Dir \/ DirPwm \/ DirFin \/ FrAdc \/ VarTest
    BY <1>3, TypeDir
<1>4. CASE FrCalc \/ FrHi \/ FrLo \/ FrPwm \/ FrSens
    BY <1>4, TypeFrein
<1>5. CASE VarPwm
    BY <1>5, TypeVarPwm
<1>6. CASE \E a \in Acteurs : Range1(a) \/ Range2(a)
    BY <1>6, TypeRange
<1>7. CASE ISR
    BY <1>7, TypeISR
<1>8. CASE \E e \in Entetes, v \in Valeurs : Recoit(e, v)
    BY <1>8, TypeRecoit
<1>9. CASE UNCHANGED vars
    BY <1>9 DEF vars, locales, sorties, TypeEtat
<1> QED BY <1>1, <1>2, <1>3, <1>4, <1>5, <1>6, <1>7, <1>8, <1>9 DEF Next, Main

(* Every variable keeps its type: what the sketch stores in an int, a byte *)
(* or a timer register fits in it, whatever the messages, the sensor       *)
(* readings and the moments of the interrupts.                             *)
THEOREM TypeCorrect == Spec => []TypeOK
<1>1. Init => TypeOK
    BY TypeInit DEF Init, TypeOK
<1>2. TypeOK /\ [Next]_vars => TypeOK'
    BY TypeSuite DEF TypeOK, Next, vars
<1> QED BY <1>1, <1>2, PTL DEF Spec

(* What the proofs below use of it. *)
LEMMA EtatCorrect == Spec => []TypeEtat
<1>1. TypeOK => TypeEtat
    BY DEF TypeOK
<1> QED BY <1>1, TypeCorrect, PTL

-----------------------------------------------------------------------------
(* The duty cycle.  DutyMax is not inductive: the low byte of OCR1A takes  *)
(* the high byte from temp, so what matters is which high bytes temp can   *)
(* hold at that moment: the one of the same value, or the 0 that the       *)
(* interrupt leaves.                                                       *)
OctetHaut == pc = "frLo" => temp = 0 \/ temp = Hi(Vitesse(speed))

LEMMA DutyFrLo ==
    ASSUME TypeEtat, OctetHaut, FrLo
    PROVE  ocr1a' \in 0..SPEED_MAX
<1> DEFINE w == Vitesse(speed)
<1>1. w \in Int /\ w >= 0 /\ w <= 400
    BY VitesseType DEF TypeEtat
<1>2. ocr1a' = 256 * temp + Lo(w) /\ (temp = 0 \/ temp = Hi(w))
    BY DEF FrLo, OctetHaut
<1> HIDE DEF w
<1>3. CASE temp = 0
  <2>1. Lo(w) \in Int /\ Lo(w) >= 0 /\ Lo(w) <= 400
      BY <1>1, OctetsVitesse
  <2> QED BY <1>2, <1>3, <2>1, DutyBornes
<1>4. CASE temp = Hi(w)
  <2>1. 256 * Hi(w) + Lo(w) = w
      BY <1>1, Octets
  <2> QED BY <1>1, <1>2, <1>4, <2>1, DutyBornes
<1> QED BY <1>2, <1>3, <1>4

LEMMA DutySuite ==
    TypeEtat /\ DutyMax /\ OctetHaut /\ [Next]_vars => DutyMax' /\ OctetHaut'
<1> SUFFICES ASSUME TypeEtat, DutyMax, OctetHaut, [Next]_vars
             PROVE  DutyMax' /\ OctetHaut'
    OBVIOUS
<1>1. CASE Setup
    BY <1>1 DEF Setup, DutyMax, OctetHaut
<1>2. CASE Lock \/ VarInitvar
    BY <1>2 DEF Lock, VarInitvar, EcrireListe, FinListe, sorties, DutyMax, OctetHaut
<1>3. CASE Dir \/ DirPwm \/ DirFin \/ FrAdc \/ VarTest \/ VarPwm
    BY <1>3 DEF Dir, DirPwm, DirFin, FrAdc, VarTest, VarPwm, locales, sorties, DutyMax, OctetHaut
<1>4. CASE FrCalc \/ FrPwm \/ FrSens
    BY <1>4 DEF FrCalc, FrPwm, FrSens, locales, sorties, DutyMax, OctetHaut
<1>5. CASE FrHi
    BY <1>5 DEF FrHi, locales, DutyMax, OctetHaut
<1>6. CASE FrLo
    BY <1>6, DutyFrLo DEF FrLo, DutyMax, OctetHaut
<1>7. CASE \E a \in Acteurs : Range1(a) \/ Range2(a)
  <2>1. PICK a \in Acteurs : Range1(a) \/ Range2(a)
      BY <1>7
  <2>2. pc # "reset" /\ pc' # "frLo" /\ ocr1a' = ocr1a
      BY <2>1 DEF Range1, Range2, Rangement1, Rangement2, Suite, Acteurs, sorties
  <2> QED BY <2>2 DEF DutyMax, OctetHaut
<1>8. CASE ISR
  <2>1. PICK p \in MesuresISR :
          LET s == CommandeFrein(commande["frein"], p)
          IN ocr1a' = (IF Uno THEN Vitesse(s) ELSE ocr1a) /\ temp' = TempISR(s)
      BY <1>8 DEF ISR
  <2>2. commande["frein"] \in Int /\ p \in Int
      BY Int16Bornes, MesuresType DEF TypeEtat, Acteurs
  <2>3. PICK s \in Speeds : s = CommandeFrein(commande["frein"], p)
      BY <2>2, FreinType
  <2>4. Vitesse(s) \in 0..SPEED_MAX
      BY VitesseType, DutyBornes
  <2>5. pc # "reset" /\ pc' = pc
      BY <1>8 DEF ISR
  <2>6. ocr1a' \in 0..SPEED_MAX \/ ocr1a' = ocr1a
      BY <2>1, <2>3, <2>4
  <2>7. temp' = 0
      BY <2>1 DEF TempISR
  <2> QED BY <2>5, <2>6, <2>7 DEF DutyMax, OctetHaut
<1>9. CASE \E e \in Entetes, v \in Valeurs : Recoit(e, v)
  <2>1. PICK e \in Entetes, v \in Valeurs : Recoit(e, v)
      BY <1>9
  <2>2. pc # "reset" /\ pc' # "frLo" /\ ocr1a' = ocr1a
      BY <2>1 DEF Recoit, Debut, sorties
  <2> QED BY <2>2 DEF DutyMax, OctetHaut
<1>10. CASE UNCHANGED vars
    BY <1>10 DEF vars, locales, sorties, DutyMax, OctetHaut
<1> QED BY <1>1, <1>2, <1>3, <1>4, <1>5, <1>6, <1>7, <1>8, <1>9, <1>10 DEF Next, Main

(* OCR1A never leaves the range of setM1Speed, although the interrupt may  *)
(* fall between the two byte stores of the main program and writes the     *)
(* same register and the same temp.                                        *)
THEOREM DutyCorrect == Spec => []DutyMax
<1>1. Init => DutyMax /\ OctetHaut
    BY DEF Init, DutyMax, OctetHaut
<1>2. TypeEtat /\ DutyMax /\ OctetHaut /\ [Next]_vars => DutyMax' /\ OctetHaut'
    BY DutySuite
<1> QED BY <1>1, <1>2, EtatCorrect, PTL DEF Spec

-----------------------------------------------------------------------------
(* The power of the brake's motor shield.  Before the first default case   *)
(* the throttle is never locked, so nothing runs initvar, whose last write *)
(* of pin 4 disables the shield.                                           *)
NonVerrouille ==
    pc # "reset" /\ ~defautVu =>
        isInit /\ pin[nD2] = HIGH /\ pc \notin {"lock", "initvar"}

LEMMA BrochesMain ==
    ASSUME TypeEtat, FrPwm \/ FrSens \/ VarPwm
    PROVE  pin'[nD2] = pin[nD2]
<1>0. pin \in [Pins -> UChar]
    BY DEF TypeEtat
<1>1. CASE FrPwm
  <2>1. PICK n \in UChar : n = PwmM1(speed)
      BY PwmType DEF TypeEtat
  <2> QED BY <1>0, <1>1, <2>1, EcritAutre, Broches DEF FrPwm
<1>2. CASE FrSens
  <2>1. PICK n \in UChar : n = Reverse(speed)
      BY ReverseType DEF TypeEtat
  <2> QED BY <1>0, <1>2, <2>1, EcritAutre, Broches DEF FrSens
<1>3. CASE VarPwm
  <2>1. Consigne("variateur") \in Int
      BY ConsigneType, Int16Bornes DEF Acteurs
  <2>2. PICK n \in UChar : n = CommandeVariateur(Consigne("variateur"))
      BY <2>1, VariateurUChar
  <2> QED BY <1>0, <1>3, <2>2, EcritAutre, Broches DEF VarPwm
<1> QED BY <1>1, <1>2, <1>3

LEMMA BrochesISR ==
    ASSUME TypeEtat, ISR
    PROVE  /\ pin'[vacc_pin] = CommandeVariateur(commande["variateur"])
           /\ pin'[nD2] = IF isInit THEN pin[nD2] ELSE LOW
<1>1. PICK p \in MesuresISR : pin' = PinsISR(CommandeFrein(commande["frein"], p))
    BY DEF ISR
<1>2. commande["frein"] \in Int /\ p \in Int
    BY Int16Bornes, MesuresType DEF TypeEtat, Acteurs
<1>3. PICK s \in Speeds : s = CommandeFrein(commande["frein"], p)
    BY <1>2, FreinType
<1> QED BY <1>1, <1>3, PinsISRType

LEMMA AlimenteeSuite == TypeEtat /\ NonVerrouille /\ [Next]_vars => NonVerrouille'
<1> SUFFICES ASSUME TypeEtat, NonVerrouille, [Next]_vars PROVE NonVerrouille'
    OBVIOUS
<1>1. CASE Setup
  <2>1. pin'[nD2] = HIGH
      BY <1>1, InitActionneursType DEF Setup, TypeEtat
  <2>2. isInit' /\ pc' = "loop"
      BY <1>1 DEF Setup
  <2> QED BY <2>1, <2>2 DEF NonVerrouille
<1>2. CASE Lock \/ VarInitvar
    BY <1>2 DEF Lock, VarInitvar, EcrireListe, FinListe, NonVerrouille
<1>3. CASE Dir \/ DirPwm \/ DirFin \/ FrAdc \/ FrCalc \/ FrHi \/ FrLo \/ VarTest
    BY <1>3 DEF Dir, DirPwm, DirFin, FrAdc, FrCalc, FrHi, FrLo, VarTest, sorties, NonVerrouille
<1>4. CASE FrPwm \/ FrSens \/ VarPwm
    BY <1>4, BrochesMain DEF FrPwm, FrSens, VarPwm, NonVerrouille
<1>5. CASE \E a \in Acteurs : Range1(a) \/ Range2(a)
  <2>1. PICK a \in Acteurs : Range1(a) \/ Range2(a)
      BY <1>5
  <2>2. /\ pc # "reset" /\ pc' \notin {"lock", "initvar"}
        /\ UNCHANGED <<isInit, pin, defautVu>>
      BY <2>1 DEF Range1, Range2, Rangement1, Rangement2, Suite, Acteurs, sorties
  <2> QED BY <2>2 DEF NonVerrouille
<1>6. CASE ISR
  <2>1. pin'[nD2] = IF isInit THEN pin[nD2] ELSE LOW
      BY <1>6, BrochesISR
  <2>2. pc # "reset" /\ isInit' /\ UNCHANGED <<pc, defautVu>>
      BY <1>6 DEF ISR
  <2> QED BY <2>1, <2>2 DEF NonVerrouille
<1>7. CASE \E e \in Entetes, v \in Valeurs : Recoit(e, v)
  <2>1. PICK e \in Entetes, v \in Valeurs : Recoit(e, v)
      BY <1>7
  <2>2. e # "autre" => Debut(e) \notin {"lock", "initvar"}
      BY DEF Debut, Entetes
  <2> QED BY <2>1, <2>2 DEF Recoit, sorties, NonVerrouille
<1>8. CASE UNCHANGED vars
    BY <1>8 DEF vars, locales, sorties, NonVerrouille
<1> QED BY <1>1, <1>2, <1>3, <1>4, <1>5, <1>6, <1>7, <1>8 DEF Next, Main

(* The brake has a powered motor as long as no message reached the default *)
(* case, although the throttle and the shield share pin 4.                 *)
THEOREM AlimenteeCorrect == Spec => []CarteFreinAlimentee
<1>1. Init => NonVerrouille
    BY DEF Init, NonVerrouille
<1>2. TypeEtat /\ NonVerrouille /\ [Next]_vars => NonVerrouille'
    BY AlimenteeSuite
<1>3. NonVerrouille => CarteFreinAlimentee
    BY DEF NonVerrouille, CarteFreinAlimentee
<1> QED BY <1>1, <1>2, <1>3, EtatCorrect, PTL DEF Spec

-----------------------------------------------------------------------------
(* The throttle.  When every value is a non-negative char, the high bytes  *)
(* of an old and of a new commande_variateur are both 0, so what the       *)
(* interrupt reads between the two stores is one of the two.               *)
Positives == \A v \in Valeurs : v >= 0
Recues    == Valeurs \cup {0}

VariateurRecu ==
    /\ pin[vacc_pin] \in Int /\ pin[vacc_pin] >= 0 /\ pin[vacc_pin] <= 155
    /\ Positives => pin[vacc_pin] \in Recues /\ commande["variateur"] \in Recues

LEMMA RecuesChar ==
    Positives => \A x \in Recues : x \in Int /\ x >= 0 /\ x <= 127
  BY ValeursAssumption, CharBornes DEF Positives, Recues

LEMMA ConsigneVariateur == TypeEtat => Consigne("variateur") \in Recues
  BY DEF TypeEtat, Consigne, Recues

(* What var.commande writes, given an order that was received. *)
LEMMA VaccRecu ==
    ASSUME NEW x \in Int, Positives => x \in Recues
    PROVE  /\ CommandeVariateur(x) \in Int
           /\ CommandeVariateur(x) >= 0 /\ CommandeVariateur(x) <= 155
           /\ Positives => CommandeVariateur(x) \in Recues
<1>1. /\ CommandeVariateur(x) \in Int
      /\ CommandeVariateur(x) >= 0 /\ CommandeVariateur(x) <= 155
    BY VariateurType
<1>2. ASSUME Positives PROVE CommandeVariateur(x) \in Recues
  <2>1. x >= 0 /\ x <= 127 /\ x \in Recues
      BY <1>2, RecuesChar
  <2>2. CommandeVariateur(x) = x
      BY <2>1, VariateurChar
  <2> QED BY <2>1, <2>2
<1> QED BY <1>1, <1>2

(* The steps of the main program that leave the throttle's pin alone. *)
LEMMA VaccInchange ==
    ASSUME TypeEtat, FrPwm \/ FrSens \/ VarInitvar
    PROVE  pin'[vacc_pin] = pin[vacc_pin]
<1>0. pin \in [Pins -> UChar]
    BY DEF TypeEtat
<1>1. CASE FrPwm
  <2>1. PICK n \in UChar : n = PwmM1(speed)
      BY PwmType DEF TypeEtat
  <2> QED BY <1>0, <1>1, <2>1, EcritAutre, Broches DEF FrPwm
<1>2. CASE FrSens
  <2>1. PICK n \in UChar : n = Reverse(speed)
      BY ReverseType DEF TypeEtat
  <2> QED BY <1>0, <1>2, <2>1, EcritAutre, Broches DEF FrSens
<1>3. CASE VarInitvar
  <2>1. CASE EcrireListe(EcrituresInitvar)
    <3>1. k \in 1..7
        BY <2>1, ListeInitvar DEF EcrireListe, TypeEtat
    <3>2. PICK b \in Pins, n \in UChar :
             b = EcrituresInitvar[k][1] /\ n = EcrituresInitvar[k][2] /\ b # vacc_pin
        BY <3>1, ListeInitvar
    <3> QED BY <1>0, <2>1, <3>2, EcritAutre, Broches DEF EcrireListe
  <2>2. CASE FinListe(EcrituresInitvar, TRUE, "varPwm")
      BY <2>2 DEF FinListe, sorties
  <2> QED BY <1>3, <2>1, <2>2 DEF VarInitvar
<1> QED BY <1>1, <1>2, <1>3

(* var.lock cuts the throttle, then blocks it. *)
LEMMA VaccLock ==
    ASSUME TypeEtat, Lock
    PROVE  pin'[vacc_pin] \in {0, pin[vacc_pin]}
<1>0. pin \in [Pins -> UChar]
    BY DEF TypeEtat
<1>1. CASE EcrireListe(EcrituresLock)
  <2>1. k = 1 \/ k = 2
      BY <1>1, ListeLock DEF EcrireListe, TypeEtat
  <2>2. CASE k = 1
    <3>1. pin' = Ecrit(pin, vacc_pin, 0)
        BY <1>1, <2>2, ListeLock DEF EcrireListe
    <3>2. pin'[vacc_pin] = 0
        BY <1>0, <3>1, EcritType, Broches, Niveaux
    <3> QED BY <3>2
  <2>3. CASE k = 2
    <3>1. pin' = Ecrit(pin, FS_pin, LOW)
        BY <1>1, <2>3, ListeLock DEF EcrireListe
    <3>2. pin'[vacc_pin] = pin[vacc_pin]
        BY <1>0, <3>1, EcritAutre, Broches, Niveaux
    <3> QED BY <3>2
  <2> QED BY <2>1, <2>2, <2>3
<1>2. CASE FinListe(EcrituresLock, FALSE, "dir")
    BY <1>2 DEF FinListe, sorties
<1> QED BY <1>1, <1>2 DEF Lock

(* The two byte stores of commande_variateur. *)
LEMMA RangeRecu ==
    ASSUME TypeEtat, VariateurRecu, NEW a \in Acteurs, Range1(a) \/ Range2(a)
    PROVE  Positives => commande'["variateur"] \in Recues
<1> SUFFICES ASSUME Positives PROVE commande'["variateur"] \in Recues
    OBVIOUS
<1> DEFINE x == commande["variateur"]
           y == Consigne("variateur")
<1>1. x \in Recues /\ y \in Recues
    BY ConsigneVariateur DEF VariateurRecu
<1>2. CASE a # "variateur"
  <2>1. commande'["variateur"] = commande["variateur"]
      BY <1>2 DEF Range1, Range2, TypeEtat, Acteurs
  <2> QED BY <1>1, <2>1
<1>3. CASE a = "variateur" /\ Range1(a)
  <2>1. commande'["variateur"] \in {Melange(x, y), Melange(y, x)}
      BY <1>3 DEF Range1, TypeEtat
  <2>2. x \in Int /\ x >= 0 /\ x <= 127 /\ y \in Int /\ y >= 0 /\ y <= 127
      BY <1>1, RecuesChar
  <2> HIDE DEF x, y
  <2>3. Melange(x, y) = y /\ Melange(y, x) = x
      BY <2>2, MelangeChar
  <2> QED BY <1>1, <2>1, <2>3
<1>4. CASE a = "variateur" /\ Range2(a)
  <2>1. commande'["variateur"] = y
      BY <1>4 DEF Range2, TypeEtat
  <2> QED BY <1>1, <2>1
<1> QED BY <1>2, <1>3, <1>4

LEMMA VariateurSuite == TypeEtat /\ VariateurRecu /\ [Next]_vars => VariateurRecu'
<1> SUFFICES ASSUME TypeEtat, VariateurRecu, [Next]_vars PROVE VariateurRecu'
    OBVIOUS
<1>0. 0 \in Recues
    BY DEF Recues
<1>1. CASE Setup
  <2>1. pin'[vacc_pin] = 0
      BY <1>1, InitActionneursType DEF Setup, TypeEtat
  <2>2. commande'["variateur"] = commande["variateur"]
      BY <1>1 DEF Setup, TypeEtat, Acteurs
  <2> QED BY <1>0, <2>1, <2>2 DEF VariateurRecu
<1>2. CASE Lock
  <2>1. commande' = commande
      BY <1>2 DEF Lock, EcrireListe, FinListe
  <2> QED BY <1>0, <1>2, <2>1, VaccLock DEF VariateurRecu
<1>3. CASE FrPwm \/ FrSens \/ VarInitvar
  <2>1. commande' = commande
      BY <1>3 DEF FrPwm, FrSens, VarInitvar, EcrireListe, FinListe, locales
  <2> QED BY <1>3, <2>1, VaccInchange DEF VariateurRecu
<1>4. CASE Dir \/ DirPwm \/ DirFin \/ FrAdc \/ FrCalc \/ FrHi \/ FrLo \/ VarTest
  <2>1. commande' = commande /\ pin' = pin
      BY <1>4 DEF Dir, DirPwm, DirFin, FrAdc, FrCalc, FrHi, FrLo, VarTest, sorties
  <2> QED BY <2>1 DEF VariateurRecu
<1>5. CASE VarPwm
  <2>1. PICK y \in Int : y = Consigne("variateur") /\ y \in Recues
      BY ConsigneType, ConsigneVariateur, Int16Bornes DEF Acteurs
  <2>2. PICK n \in UChar : n = CommandeVariateur(y)
      BY VariateurUChar
  <2>3. pin' = Ecrit(pin, vacc_pin, n) /\ pin \in [Pins -> UChar] /\ commande' = commande
      BY <1>5, <2>1, <2>2 DEF VarPwm, TypeEtat
  <2>4. pin'[vacc_pin] = n
      BY <2>3, EcritType, Broches
  <2> QED BY <2>1, <2>2, <2>3, <2>4, VaccRecu DEF VariateurRecu
<1>6. CASE \E a \in Acteurs : Range1(a) \/ Range2(a)
  <2>1. PICK a \in Acteurs : Range1(a) \/ Range2(a)
      BY <1>6
  <2>2. pin' = pin
      BY <2>1 DEF Range1, Range2, sorties
  <2> QED BY <2>1, <2>2, RangeRecu DEF VariateurRecu
<1>7. CASE ISR
  <2>1. PICK y \in Int : y = commande["variateur"]
      BY Int16Bornes DEF TypeEtat, Acteurs
  <2>2. pin'[vacc_pin] = CommandeVariateur(y)
      BY <1>7, <2>1, BrochesISR
  <2>3. commande' = commande
      BY <1>7 DEF ISR
  <2> QED BY <2>1, <2>2, <2>3, VaccRecu DEF VariateurRecu
<1>8. CASE \E e \in Entetes, v \in Valeurs : Recoit(e, v)
    BY <1>8 DEF Recoit, sorties, VariateurRecu
<1>9. CASE UNCHANGED vars
    BY <1>9 DEF vars, sorties, VariateurRecu
<1> QED BY <1>1, <1>2, <1>3, <1>4, <1>5, <1>6, <1>7, <1>8, <1>9 DEF Next, Main

(* The throttle is driven within its limit, and with non-negative values   *)
(* only by orders that were received, torn stores included.                *)
THEOREM VariateurCorrect == Spec => []VariateurCommande
<1>1. Init => VariateurRecu
  <2> SUFFICES ASSUME Init PROVE VariateurRecu
      OBVIOUS
  <2>1. pin[vacc_pin] = 0 /\ commande["variateur"] = 0
      BY Broches DEF Init, Acteurs
  <2> QED BY <2>1 DEF VariateurRecu, Recues
<1>2. TypeEtat /\ VariateurRecu /\ [Next]_vars => VariateurRecu'
    BY VariateurSuite
<1>3. VariateurRecu => VariateurCommande
    BY DEF VariateurRecu, VariateurCommande, Positives, Recues
<1> QED BY <1>1, <1>2, <1>3, EtatCorrect, PTL DEF Spec

-----------------------------------------------------------------------------
(* The shield after a default case.  Pin 4 may be high while the message   *)
(* is being handled: until lock() has run, and between the two writes of   *)
(* initvar's pulse, which are the third (low) and the fourth (high, k = 5  *)
(* then) of its list.  What the last part says of the throttle locked by   *)
(* the default case is that somebody ran initvar once it is unlocked.      *)
Pulse == pc = "initvar" /\ k = 5
ApresVarTest == {"varPwm", "cmdVar1", "cmdVar2"}
AvantVarTest ==
    {"dir", "dirConv", "dirImp", "cmdDir1", "cmdDir2", "frAdc", "frCalc", "frPwm", "frHi", "frLo",
     "frSens", "cmdFr1", "cmdFr2", "varTest"}

Coupee ==
    /\ pc = "reset" => ~defautVu
    /\ pc \notin {"lock", "initvar"} => k = 1
    /\ pc = "lock" => entete = "autre"
    /\ defautVu =>
         /\ pc = "loop" => pin[nD2] = LOW
         /\ entete # "autre" => pin[nD2] = LOW \/ Pulse
         /\ pc \in AvantVarTest /\ isInit => pin[nD2] = LOW
         /\ pc = "initvar" /\ k >= 6 => pin[nD2] = LOW
         /\ pc \in ApresVarTest => pin[nD2] = LOW

LEMMA CoupeeListe ==
    ASSUME TypeEtat, Coupee, Lock \/ VarInitvar
    PROVE  Coupee'
<1>0. pin \in [Pins -> UChar]
    BY DEF TypeEtat
<1>1. CASE Lock
  <2>1. entete' = "autre" /\ UNCHANGED defautVu /\ pc = "lock"
      BY <1>1 DEF Lock, EcrireListe, FinListe, Coupee
  <2>2. CASE EcrireListe(EcrituresLock)
      BY <1>1, <2>1, <2>2 DEF EcrireListe, Coupee, AvantVarTest, ApresVarTest
  <2>3. CASE FinListe(EcrituresLock, FALSE, "dir")
    <3>1. pc' = "dir" /\ k' = 1 /\ isInit' = FALSE
        BY <2>3 DEF FinListe
    <3> QED BY <2>1, <3>1 DEF Coupee, ApresVarTest
  <2> QED BY <1>1, <2>2, <2>3 DEF Lock
<1>2. CASE VarInitvar
  <2>1. CASE EcrireListe(EcrituresInitvar)
    <3>1. k \in 1..7 /\ k' = k + 1 /\ pc' = "initvar" /\ UNCHANGED <<entete, isInit, defautVu>>
        BY <1>2, <2>1, ListeInitvar DEF VarInitvar, EcrireListe, FinListe, TypeEtat
    <3>2. PICK b \in Pins, n \in UChar :
             b = EcrituresInitvar[k][1] /\ n = EcrituresInitvar[k][2]
        BY <3>1, ListeInitvar
    <3>3. pin' = Ecrit(pin, b, n)
        BY <2>1, <3>2 DEF EcrireListe
    <3>4. CASE k \in {1, 2, 7}
      <4>1. b # nD2
          BY <3>2, <3>4, ListeInitvar
      <4>2. pin'[nD2] = pin[nD2]
          BY <1>0, <3>3, <4>1, EcritAutre, Broches
      <4> QED BY <1>2, <3>1, <3>4, <4>2
          DEF VarInitvar, Coupee, Pulse, AvantVarTest, ApresVarTest
    <3>5. CASE k \in {3, 5, 6}
      <4>1. b = nD2 /\ n = LOW
          BY <3>2, <3>5, ListeInitvar
      <4>2. pin'[nD2] = LOW
          BY <1>0, <3>3, <4>1, EcritType, Broches
      <4> QED BY <3>1, <4>2 DEF Coupee, Pulse, AvantVarTest, ApresVarTest
    <3>6. CASE k = 4
        BY <3>1, <3>6 DEF Coupee, Pulse, AvantVarTest, ApresVarTest
    <3> QED BY <3>1, <3>4, <3>5, <3>6
  <2>2. CASE FinListe(EcrituresInitvar, TRUE, "varPwm")
    <3>1. /\ k = 8 /\ k' = 1 /\ pc = "initvar" /\ pc' = "varPwm"
          /\ UNCHANGED <<entete, pin, defautVu>>
        BY <1>2, <2>2, ListeInitvar DEF VarInitvar, FinListe, sorties
    <3> QED BY <3>1 DEF Coupee, Pulse, AvantVarTest, ApresVarTest
  <2> QED BY <1>2, <2>1, <2>2 DEF VarInitvar
<1> QED BY <1>1, <1>2

LEMMA CoupeeSuite == TypeEtat /\ Coupee /\ [Next]_vars => Coupee'
<1> SUFFICES ASSUME TypeEtat, Coupee, [Next]_vars PROVE Coupee'
    OBVIOUS
<1>1. CASE Setup
    BY <1>1 DEF Setup, locales, Coupee, Pulse, AvantVarTest, ApresVarTest, TypeEtat
<1>2. CASE Lock \/ VarInitvar
    BY <1>2, CoupeeListe
<1>3. CASE Dir \/ DirPwm \/ DirFin \/ FrAdc \/ FrCalc \/ FrHi \/ FrLo
    BY <1>3 DEF Dir, DirPwm, DirFin, FrAdc, FrCalc, FrHi, FrLo, locales, sorties,
                Coupee, Pulse, AvantVarTest, ApresVarTest
<1>4. CASE VarTest
    BY <1>4 DEF VarTest, locales, sorties, Coupee, Pulse, AvantVarTest, ApresVarTest
<1>5. CASE FrPwm \/ FrSens \/ VarPwm
  <2>1. pin'[nD2] = pin[nD2]
      BY <1>5, BrochesMain
  <2> QED BY <1>5, <2>1 DEF FrPwm, FrSens, VarPwm, locales,
                            Coupee, Pulse, AvantVarTest, ApresVarTest
<1>6. CASE \E a \in Acteurs : Range1(a) \/ Range2(a)
  <2>1. PICK a \in Acteurs : Range1(a) \/ Range2(a)
      BY <1>6
  <2>2. UNCHANGED <<pin, isInit, entete, k, defautVu>>
      BY <2>1 DEF Range1, Range2, locales, sorties
  <2>3. CASE Range1(a)
    <3>1. \/ pc \in AvantVarTest /\ pc' \in AvantVarTest
          \/ pc \in ApresVarTest /\ pc' \in ApresVarTest
        BY <2>3 DEF Range1, Rangement1, Rangement2, Acteurs, AvantVarTest, ApresVarTest
    <3> QED BY <2>2, <3>1 DEF Coupee, Pulse, AvantVarTest, ApresVarTest
  <2>4. CASE Range2(a)
    <3>1. \/ pc \in AvantVarTest /\ pc' \in AvantVarTest
          \/ pc \in AvantVarTest /\ pc' = "loop" /\ entete # "autre"
          \/ pc \in ApresVarTest /\ pc' = "loop"
        BY <2>4 DEF Range2, Rangement2, Suite, Acteurs, Arrets, AvantVarTest, ApresVarTest
    <3> QED BY <2>2, <3>1 DEF Coupee, Pulse, AvantVarTest, ApresVarTest
  <2> QED BY <2>1, <2>3, <2>4
<1>7. CASE ISR
  <2>1. pin'[nD2] = IF isInit THEN pin[nD2] ELSE LOW
      BY <1>7, BrochesISR
  <2>2. isInit' /\ UNCHANGED <<pc, entete, k, defautVu>>
      BY <1>7 DEF ISR, locales
  <2>3. CASE isInit
      BY <2>1, <2>2, <2>3 DEF Coupee, Pulse
  <2>4. CASE ~isInit
      BY <2>1, <2>2, <2>4 DEF Coupee, Pulse
  <2> QED BY <2>3, <2>4
<1>8. CASE \E e \in Entetes, v \in Valeurs : Recoit(e, v)
  <2>1. PICK e \in Entetes, v \in Valeurs : Recoit(e, v)
      BY <1>8
  <2>2. /\ pc = "loop" /\ pc' = Debut(e) /\ entete' = e
        /\ defautVu' = (defautVu \/ e = "autre") /\ UNCHANGED <<k, pin, isInit>>
      BY <2>1 DEF Recoit, sorties
  <2>3. CASE e = "autre"
    <3>1. pc' = "lock"
        BY <2>2, <2>3 DEF Debut
    <3> QED BY <2>2, <2>3, <3>1 DEF Coupee, AvantVarTest, ApresVarTest
  <2>4. CASE e # "autre"
    <3>1. pc' \in AvantVarTest
        BY <2>2, <2>4 DEF Debut, Entetes, AvantVarTest
    <3> QED BY <2>2, <2>4, <3>1 DEF Coupee, AvantVarTest, ApresVarTest
  <2> QED BY <2>3, <2>4
<1>9. CASE UNCHANGED vars
    BY <1>9 DEF vars, locales, sorties, Coupee, Pulse
<1> QED BY <1>1, <1>2, <1>3, <1>4, <1>5, <1>6, <1>7, <1>8, <1>9 DEF Next, Main

(* Once a default case has been handled, the motor shield of the brake     *)
(* stays disabled whenever the main program is idle, on every board and    *)
(* whatever is received afterwards.                                        *)
THEOREM CoupeeCorrect == Spec => []CarteFreinCoupee
<1>1. Init => Coupee
    BY DEF Init, Coupee, AvantVarTest, ApresVarTest
<1>2. TypeEtat /\ Coupee /\ [Next]_vars => Coupee'
    BY CoupeeSuite
<1>3. Coupee => CarteFreinCoupee
    BY DEF Coupee, CarteFreinCoupee
<1> QED BY <1>1, <1>2, <1>3, EtatCorrect, PTL DEF Spec

-----------------------------------------------------------------------------
(* When a stop has been handled the throttle's order is 0, so what the     *)
(* interrupt still writes cannot raise the throttle.                       *)
OrdreNul ==
    /\ pc = "reset" => entete \notin Arrets
    /\ pc = "loop" /\ entete \in Arrets => commande["variateur"] = 0

LEMMA OrdreNulSuite == TypeEtat /\ OrdreNul /\ [Next]_vars => OrdreNul'
<1> SUFFICES ASSUME TypeEtat, OrdreNul, [Next]_vars PROVE OrdreNul'
    OBVIOUS
<1>1. CASE Setup
    BY <1>1 DEF Setup, locales, OrdreNul
<1>2. CASE Lock \/ VarInitvar
    BY <1>2 DEF Lock, VarInitvar, EcrireListe, FinListe, OrdreNul
<1>3. CASE Dir \/ DirPwm \/ DirFin \/ FrAdc \/ FrCalc \/ FrHi \/ FrLo
    BY <1>3 DEF Dir, DirPwm, DirFin, FrAdc, FrCalc, FrHi, FrLo, OrdreNul
<1>4. CASE FrPwm \/ FrSens \/ VarTest \/ VarPwm
    BY <1>4 DEF FrPwm, FrSens, VarTest, VarPwm, OrdreNul
<1>5. CASE \E a \in Acteurs : Range1(a) \/ Range2(a)
  <2>1. PICK a \in Acteurs : Range1(a) \/ Range2(a)
      BY <1>5
  <2>2. CASE Range1(a)
    <3>1. pc' # "loop" /\ pc' # "reset"
        BY <2>2 DEF Range1, Rangement2, Acteurs
    <3> QED BY <3>1 DEF OrdreNul
  <2>3. CASE Range2(a) /\ pc' # "loop"
    <3>1. pc' # "reset"
        BY <2>3 DEF Range2, Suite
    <3> QED BY <2>3, <3>1 DEF OrdreNul
  <2>4. CASE Range2(a) /\ pc' = "loop" /\ entete' \notin Arrets
      BY <2>4 DEF OrdreNul
  <2>5. CASE Range2(a) /\ pc' = "loop" /\ entete' \in Arrets
    <3>1. a = "variateur" /\ entete \in Arrets
        BY <2>5 DEF Range2, Suite, Acteurs
    <3>2. Consigne("variateur") = 0
        BY <3>1 DEF Consigne, Arrets
    <3>3. commande'["variateur"] = 0
        BY <2>5, <3>1, <3>2 DEF Range2, TypeEtat
    <3> QED BY <2>5, <3>3 DEF OrdreNul
  <2> QED BY <2>1, <2>2, <2>3, <2>4, <2>5
<1>6. CASE ISR
    BY <1>6 DEF ISR, locales, OrdreNul
<1>7. CASE \E e \in Entetes, v \in Valeurs : Recoit(e, v)
  <2>1. pc' # "loop" /\ pc' # "reset"
      BY <1>7 DEF Recoit, Debut
  <2> QED BY <2>1 DEF OrdreNul
<1>8. CASE UNCHANGED vars
    BY <1>8 DEF vars, locales, OrdreNul
<1> QED BY <1>1, <1>2, <1>3, <1>4, <1>5, <1>6, <1>7, <1>8 DEF Next, Main

LEMMA SansRepriseEtape ==
    TypeEtat /\ OrdreNul /\ [Next]_vars =>
        [pc = "loop" /\ pc' = "loop" /\ entete \in Arrets
           => pin'[vacc_pin] <= pin[vacc_pin]]_vars
<1> SUFFICES ASSUME TypeEtat, OrdreNul, Next, pc = "loop", pc' = "loop", entete \in Arrets
             PROVE  pin'[vacc_pin] <= pin[vacc_pin]
    OBVIOUS
<1>1. pin[vacc_pin] \in Int /\ pin[vacc_pin] >= 0
    BY UCharBornes, Broches DEF TypeEtat
<1>2. ~Main
    BY DEF Main, Setup, Lock, Dir, DirPwm, DirFin, FrAdc, FrCalc, FrHi, FrLo, FrPwm, FrSens, VarTest,
           VarInitvar, VarPwm, Range1, Range2, Rangement1, Rangement2, Acteurs
<1>3. ASSUME NEW e \in Entetes, NEW v \in Valeurs, Recoit(e, v) PROVE FALSE
    BY <1>3 DEF Recoit, Debut
<1>4. CASE ISR
  <2>1. CommandeVariateur(0) = 0
      BY VariateurChar
  <2>2. pin'[vacc_pin] = 0
      BY <1>4, <2>1, BrochesISR DEF OrdreNul
  <2> QED BY <1>1, <2>2
<1> QED BY <1>2, <1>3, <1>4 DEF Next

(* After a stop has been handled, no interrupt raises the throttle until   *)
(* another message is handled, on every board.                             *)
THEOREM SansRepriseCorrect == Spec => SansReprise
<1>1. Init => OrdreNul
    BY DEF Init, OrdreNul, Arrets
<1>2. TypeEtat /\ OrdreNul /\ [Next]_vars => OrdreNul'
    BY OrdreNulSuite
<1>3. TypeEtat /\ OrdreNul /\ [Next]_vars =>
        [pc = "loop" /\ pc' = "loop" /\ entete \in Arrets
           => pin'[vacc_pin] <= pin[vacc_pin]]_vars
    BY SansRepriseEtape
<1> QED BY <1>1, <1>2, <1>3, EtatCorrect, PTL DEF Spec, SansReprise
=============================================================================
