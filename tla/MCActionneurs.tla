--------------------------- MODULE MCActionneurs ---------------------------
(* The instances of Actionneurs that TLC checks. *)
EXTENDS Actionneurs

\* Two values of the documented range.  10 is what inputString[1] holds for a
\* header followed at once by '\n'.
ValeursDoc == {10, 38}
\* 37 and 120 are the extremes noted in frein.cpp; 30 gives a servo output
\* of two bytes that is not saturated.
ValeurSeule == {38}
PressionSeule == {30}
PressionsMC == {30, 120}
PotarsMC    == {650}
=============================================================================
