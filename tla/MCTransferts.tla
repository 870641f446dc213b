---------------------------- MODULE MCTransferts ----------------------------
(* The instances of Transferts that TLC checks: the transfer borne always  *)
(* has a timeout, libre has one or not.                                    *)
EXTENDS Transferts

CONSTANTS borne, libre

DelaisMC == [t \in T |-> IF t = borne THEN {1} ELSE {0, 1}]
DeuxTransferts == {borne, libre}
UnTransfert    == {borne}
=============================================================================
