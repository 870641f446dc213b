-------------------------------- MODULE Hachage --------------------------------
(***************************************************************************)
(* The table from which libusb takes the session ids of devices on         *)
(* Windows: the index of a device's path in a hash table that only grows.  *)
(* A path is modelled by its main hash value, r.  The calls come one after *)
(* another.                                                                *)
(***************************************************************************)
EXTENDS Naturals, FiniteSets

CONSTANTS
    HTAB_SIZE,   \* what htab_create is asked for
    Chemins,     \* paths: different ones have different r
    Rien

VARIABLES
    htab_size, htab_filled,
    htab_table,     \* index 0 is never used; Rien where used is 0
    donnes,         \* the ids that each path was given since the table was made
    perdus          \* a string could not be copied: an index is used by no path

vars == <<htab_size, htab_filled, htab_table, donnes, perdus>>

(* What the constants must satisfy: 3 is not taken for a prime. *)
Hypotheses == HTAB_SIZE \in Nat \ (0..3) /\ Chemins \subseteq Nat

(* The trial division stops at the root, or at a divider. *)
isprime(n) ==
    LET arrets == {d \in 3..n : d % 2 = 1 /\ (d * d >= n \/ n % d = 0)}
    IN  n % (CHOOSE d \in arrets : \A e \in arrets : d <= e) # 0

Impairs(nel) == {n \in nel..(2 * nel) : n % 2 = 1 /\ isprime(n)}
Taille(nel) == CHOOSE n \in Impairs(nel) : \A m \in Impairs(nel) : n <= m

htab_create ==
    /\ htab_size = 0
    /\ htab_size' = Taille(HTAB_SIZE) /\ htab_filled' = 0
    /\ htab_table' = [i \in 0..htab_size' |-> [used |-> 0, str |-> Rien]]
    /\ donnes' = [c \in Chemins |-> {}] /\ perdus' = FALSE

htab_destroy ==
    /\ htab_size # 0
    /\ htab_size' = 0 /\ htab_table' = <<>>
    /\ htab_filled' = 0 /\ donnes' = [c \in Chemins |-> {}] /\ perdus' = FALSE

Init ==
    /\ htab_size = 0 /\ htab_filled = 0 /\ htab_table = <<>>
    /\ donnes = [c \in Chemins |-> {}] /\ perdus = FALSE

-----------------------------------------------------------------------------
Hval(c) ==
    LET r == IF c = 0 THEN 1 ELSE c IN
    IF r % htab_size = 0 THEN 1 ELSE r % htab_size
Hval2(c) == 1 + (Hval(c) % (htab_size - 2))

(* The double hashing goes down by Hval2 from index Hval, around the table  *)
(* but for index 0, and visits every other index.                          *)
Sonde(c, k) ==
    LET i == (Hval(c) + (k * (htab_size - Hval2(c)))) % htab_size
    IN  IF i = 0 THEN htab_size ELSE i

SansComparer(c, idx) == htab_table[idx].used = Hval(c)   \* variant: the strings are not compared
Meme(c, idx) == htab_table[idx].used = Hval(c) /\ htab_table[idx].str = c

(* The search stops at the path, at an index that is not used, or when it  *)
(* is back.                                                                *)
Arrete(c, k) ==
    LET idx == Sonde(c, k) IN
    Meme(c, idx) \/ htab_table[idx].used = 0 \/ (k > 0 /\ idx = Hval(c))
Place(c) ==
    LET S == {k \in 0..htab_size : Arrete(c, k)}
    IN  Sonde(c, CHOOSE k \in S : \A l \in S : k <= l)

(* Without memory for the string the index stays used; this happens once.  *)
htab_hash(c) ==
    LET idx == Place(c)
        Rend(n) == donnes' = [donnes EXCEPT ![c] = @ \cup {n}]
    IN  /\ htab_size # 0
        /\ IF Meme(c, idx) THEN Rend(idx) /\ UNCHANGED <<htab_filled, htab_table, perdus>>
           ELSE IF htab_filled >= htab_size THEN Rend(0) /\ UNCHANGED <<htab_filled, htab_table, perdus>>
           ELSE \/ /\ htab_table' = [htab_table EXCEPT ![idx] = [used |-> Hval(c), str |-> c]]
                   /\ htab_filled' = htab_filled + 1
                   /\ Rend(idx) /\ UNCHANGED perdus
                \/ /\ ~perdus /\ perdus' = TRUE
                   /\ htab_table' = [htab_table EXCEPT ![idx] = [used |-> Hval(c), str |-> Rien]]
                   /\ Rend(0) /\ UNCHANGED htab_filled
        /\ UNCHANGED htab_size

Next == htab_create \/ htab_destroy \/ \E c \in Chemins : htab_hash(c)

Spec == Init /\ [][Next]_vars

-----------------------------------------------------------------------------
(* A path always has the same id and no other path has it, as long as the  *)
(* table does not fill up with indexes that a lack of memory has lost: the *)
(* next path would then take that of another.  Without such a lack the id  *)
(* 0 means that the table is full.                                         *)
Pleine == htab_size # 0 /\ \A i \in 1..htab_size : htab_table[i].used # 0
HachageFidele ==
    /\ ~(perdus /\ Pleine) =>
        \A c \in Chemins :
            /\ Cardinality(donnes[c] \ {0}) <= 1
            /\ \A d \in Chemins \ {c} : donnes[c] \cap donnes[d] \subseteq {0}
    /\ ~perdus => \A c \in Chemins : 0 \in donnes[c] => htab_filled = htab_size /\ Pleine
=============================================================================
