------------------------------- MODULE MCICar -------------------------------
(* The instances of ICar that TLC checks. *)
EXTENDS ICar

\* 10 is the newline, 68 is D, if they are ever taken for characters.
IdentifiantsMC == {2}
ProgressionsMC == {68}
=============================================================================
