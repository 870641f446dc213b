---------------------------- MODULE MCDirection ----------------------------
(* The instance of Direction that TLC checks. *)
EXTENDS Direction

\* 65 is the set-point of the value 0, 1000 an end of the potentiometer noted
\* in the older sketch: the largest distance.
Consigne65 == {65}
Potar1000  == {1000}
=============================================================================
