---------------------------- MODULE MCEvenements ----------------------------
(* The instance of Evenements that TLC checks: two threads that wait and    *)
(* one that opens and closes a device; one that waits, a client and a       *)
(* device that is unplugged; one that waits, a registration, and a device   *)
(* that comes and goes.                                                     *)
EXTENDS Evenements

CONSTANTS a1, a2, c1, r1, d1

Attentes == {a1, a2}
Clients  == {c1}
Rappels  == {r1}
Devs     == {d1}
EquipesMC == {{a1, a2, c1}, {a1, c1, "moniteur"}, {a1, r1, "moniteur"}}
=============================================================================
