-------------------------- MODULE DirectionPreuves --------------------------
(***************************************************************************)
(* Proofs about the position servo of the steering, for every set of       *)
(* set-points and readings, for both orders of the byte stores and for any *)
(* number of calls and of interrupts.                                      *)
(***************************************************************************)
EXTENDS Direction, TLAPS

-----------------------------------------------------------------------------
(* The target's arithmetic.                                                *)

(* The limits of the types, as numbers. *)
LEMMA Limites ==
    /\ INT_MIN = -32768 /\ INT_MAX = 32767 /\ UINT_MAX = 65535
    /\ CHAR_MIN = -128 /\ CHAR_MAX = 127 /\ UCHAR_MAX = 255
  BY DEF INT_MIN, INT_MAX, UINT_MAX, CHAR_MIN, CHAR_MAX, UCHAR_MAX

LEMMA Int16Bornes == \A x : x \in Int16 <=> x \in Int /\ x >= -32768 /\ x <= 32767
<1>1. INT_MIN \in Int /\ INT_MAX \in Int
    BY Limites
<1>2. \A x : x \in Int16 <=> x \in Int /\ x >= INT_MIN /\ x <= INT_MAX
    BY <1>1 DEF Int16
<1> QED BY <1>2, Limites

LEMMA UCharBornes == \A x : x \in UChar <=> x \in Int /\ x >= 0 /\ x <= 255
  BY Limites DEF UChar

(* An int holds an int, whatever the mathematical result was. *)
LEMMA Wrap16Bornes ==
    \A x \in Int : Wrap16(x) \in Int /\ Wrap16(x) >= -32768 /\ Wrap16(x) <= 32767
  BY DEF Wrap16

LEMMA Wrap16Type == \A x \in Int : Wrap16(x) \in Int16
  BY Wrap16Bornes, Int16Bornes

(* What fits in an int is kept as it is. *)
LEMMA Wrap16Ident == \A x \in Int : x >= -32768 /\ x <= 32767 => Wrap16(x) = x
  BY DEF Wrap16

(* The two bytes of an int. *)
LEMMA HiBornes ==
    \A x \in Int : x >= -32768 /\ x <= 32767
                     => Hi(x) \in Int /\ Hi(x) >= -128 /\ Hi(x) <= 127
  BY DEF Hi

LEMMA LoBornes ==
    \A x \in Int : Lo(x) \in Int /\ Lo(x) >= 0 /\ Lo(x) <= 255
  BY DEF Lo

(* A store of both bytes of an int gives it back. *)
LEMMA Octets == \A x \in Int : 256 * Hi(x) + Lo(x) = x
  BY DEF Hi, Lo

(* A mixture of two ints is an int. *)
LEMMA MelangeType ==
    \A h, l \in Int16 : Melange(h, l) \in Int16
<1> TAKE h, l \in Int16
<1>1. Hi(h) \in Int /\ Hi(h) >= -128 /\ Hi(h) <= 127
    BY HiBornes, Int16Bornes
<1>2. Lo(l) \in Int /\ Lo(l) >= 0 /\ Lo(l) <= 255
    BY LoBornes, Int16Bornes
<1>3. \A a, b \in Int : a >= -128 /\ a <= 127 /\ b >= 0 /\ b <= 255
        => 256 * a + b \in Int /\ 256 * a + b >= -32768 /\ 256 * a + b <= 32767
    OBVIOUS
<1> QED BY <1>1, <1>2, <1>3, Int16Bornes DEF Melange

-----------------------------------------------------------------------------
(* Mixtures of bytes. *)
LEMMA OctetsMelange ==
    \A h, l \in Int : /\ Melange(h, l) \in Int
                      /\ Hi(Melange(h, l)) = Hi(h)
                      /\ Lo(Melange(h, l)) = Lo(l)
  BY DEF Melange, Hi, Lo

LEMMA MelangeIdem == \A x \in Int : Melange(x, x) = x
  BY Octets DEF Melange

(* A mixture is less than one byte away from the int whose high byte it has. *)
LEMMA MelangeEcart ==
    \A h, l \in Int : h - 255 <= Melange(h, l) /\ Melange(h, l) <= h + 255
<1> TAKE h, l \in Int
<1>1. Lo(h) \in Int /\ Lo(h) >= 0 /\ Lo(h) <= 255 /\ Lo(l) \in Int /\ Lo(l) >= 0 /\ Lo(l) <= 255
    BY LoBornes
<1>2. Hi(h) \in Int
    BY DEF Hi
<1>3. 256 * Hi(h) = h - Lo(h)
    BY <1>1, <1>2, Octets
<1>4. Melange(h, l) = h - Lo(h) + Lo(l)
    BY <1>3 DEF Melange
<1> QED BY <1>1, <1>4

(* A byte is its own low byte. *)
LEMMA LoOctet == \A x \in Int : Lo(Lo(x)) = Lo(x) /\ Melange(x, Lo(x)) = x
<1> TAKE x \in Int
<1>1. Lo(Lo(x)) = Lo(x)
    BY DEF Lo
<1> QED BY <1>1, Octets DEF Melange

LEMMA UnDePlus == \A n, m \in Int : (n + 1) * m = n * m + m /\ n * m \in Int
  OBVIOUS

-----------------------------------------------------------------------------
(* The error of a call, and the limits of the output. *)
LEMMA EcartType == EcartMax \in Int /\ EcartMax >= 0 /\ EcartMax <= 32767
<1>1. EcartMax \in 0..INT_MAX
    BY EcartAssumption
<1>2. INT_MAX \in Int
    BY Limites
<1>3. EcartMax \in Int /\ EcartMax >= 0 /\ EcartMax <= INT_MAX
    BY <1>1, <1>2
<1>4. INT_MAX = 32767
    BY Limites
<1> QED BY <1>3, <1>4

LEMMA ErreurBornes ==
    ASSUME NEW v \in Consignes \cup {ConsigneInit}, NEW p \in Potars
    PROVE  /\ Erreur(v, p) \in Int
           /\ Erreur(v, p) >= -EcartMax /\ Erreur(v, p) <= EcartMax
<1>1. v \in Int /\ p \in Int
    BY EcartAssumption, Int16Bornes DEF ConsigneInit
<1>2. v - p <= EcartMax /\ p - v <= EcartMax
    BY EcartAssumption
<1>3. Erreur(v, p) = Wrap16(v - p)
    BY <1>1 DEF Erreur
<1>4. v - p \in Int /\ v - p >= -32768 /\ v - p <= 32767
    BY <1>1, <1>2, EcartType
<1>5. Erreur(v, p) = v - p
    BY <1>3, <1>4, Wrap16Ident
<1> QED BY <1>1, <1>2, <1>5, EcartType

LEMMA CommandeType == \A e, s \in Int : CommandeDirection(e, s) \in 65..245
<1> TAKE e, s \in Int
<1>1. \A n \in Int : Dixieme(n) \in Int
    BY DEF Dixieme
<1>2. Sortie(e, s) \in Int
    BY <1>1, Wrap16Bornes DEF Sortie
<1>3. PICK x \in Int : x = Sortie(e, s)
    BY <1>2
<1>4. Borne(x, 65, 245) \in 65..245
    BY DEF Borne
<1> QED BY <1>3, <1>4 DEF CommandeDirection

-----------------------------------------------------------------------------
(* The type invariant, and the set-point of a call in progress. *)
TypeAppel ==
    /\ TypeOK
    /\ etape # "repos" => value \in Consignes

LEMMA TypeInit == Init => TypeAppel
  BY Int16Bornes, UCharBornes DEF Init, TypeAppel, TypeOK, Etapes

LEMMA TypeSuite == TypeAppel /\ [Next]_vars => TypeAppel'
<1> SUFFICES ASSUME TypeAppel, [Next]_vars PROVE TypeAppel'
    OBVIOUS
<1> USE DEF Etapes, historique, appelMain
<1>0. /\ erreur \in Int /\ reg \in Int /\ erreur_sommeP \in Int /\ bas \in Int
      /\ reg \in Int16 /\ erreur_sommeP \in Int16
    BY Int16Bornes, UCharBornes DEF TypeAppel, TypeOK
<1>1. CASE \E v \in Consignes, p \in Potars : Appel(v, p)
  <2>1. PICK v \in Consignes, p \in Potars : Appel(v, p)
      BY <1>1
  <2>2. Erreur(v, p) \in Int /\ Erreur(v, p) \in Int16
      BY ErreurBornes, EcartType, Int16Bornes
  <2> QED BY <2>1, <2>2 DEF Appel, TypeAppel, TypeOK
<1>2. CASE ChargeBas
  <2>1. Lo(erreur_sommeP) \in UChar
      BY <1>0, LoBornes, UCharBornes
  <2> QED BY <1>2, <2>1 DEF ChargeBas, TypeAppel, TypeOK
<1>3. CASE ChargeHaut
  <2>1. Melange(erreur_sommeP, bas) \in Int
      BY <1>0, OctetsMelange
  <2>2. reg' \in Int16
      BY <1>0, <1>3, <2>1, Wrap16Type DEF ChargeHaut
  <2> QED BY <1>3, <2>2 DEF ChargeHaut, TypeAppel, TypeOK
<1>4. CASE Range1 \/ Range2
  <2>1. erreur_sommeP' \in Int16
      BY <1>0, <1>4, MelangeType DEF Range1, Range2
  <2> QED BY <1>4, <2>1 DEF Range1, Range2, TypeAppel, TypeOK
<1>5. CASE SortieMain
  <2>1. duty' \in 65..245
      BY <1>0, <1>5, CommandeType DEF SortieMain
  <2>2. 0 \in Int16 /\ 0 \in UChar
      BY Int16Bornes, UCharBornes
  <2> QED BY <1>5, <2>1, <2>2 DEF SortieMain, TypeAppel, TypeOK
<1>6. CASE \E p \in Potars : ISR(p)
  <2>1. PICK p \in Potars : ISR(p)
      BY <1>6
  <2>2. commande_direction \in Consignes \cup {ConsigneInit}
      BY DEF TypeAppel, TypeOK
  <2>3. PICK e \in Int : e = Erreur(commande_direction, p)
      BY <2>2, ErreurBornes
  <2>4. PICK s \in Int16 : s = Wrap16(erreur_sommeP + e)
    <3>1. erreur_sommeP + e \in Int
        BY <1>0
    <3> QED BY <3>1, Wrap16Type
  <2>5. s \in Int
      BY Int16Bornes
  <2>6. erreur_sommeP' = s /\ duty' = CommandeDirection(e, s) /\ total' = total + e
      BY <2>1, <2>3, <2>4 DEF ISR
  <2>7. duty' \in 65..245
      BY <2>3, <2>5, <2>6, CommandeType
  <2>8. appels' \in Nat /\ conflits' \in Nat /\ total' \in Int
      BY <2>1, <2>6 DEF ISR, TypeAppel, TypeOK
  <2>9. UNCHANGED <<appelMain, commande_direction>>
      BY <2>1 DEF ISR
  <2> QED BY <2>6, <2>7, <2>8, <2>9 DEF TypeAppel, TypeOK
<1>7. CASE UNCHANGED vars
    BY <1>7 DEF vars, TypeAppel, TypeOK
<1> QED BY <1>1, <1>2, <1>3, <1>4, <1>5, <1>6, <1>7 DEF Next

LEMMA TypeToujours == Spec => []TypeAppel
  BY TypeInit, TypeSuite, PTL DEF Spec

(* The servo's int variables hold ints, and the command of the power card  *)
(* is within 65..245 for every set-point, reading and interleaving.        *)
THEOREM TypeCorrect == Spec => []TypeOK
<1>1. TypeAppel => TypeOK
    BY DEF TypeAppel
<1> QED BY <1>1, TypeToujours, PTL

-----------------------------------------------------------------------------
(* The integral term without a conflict.  The sum of the errors of the     *)
(* calls that have added theirs is within (appels - 1) * EcartMax while    *)
(* the main program has still to add its own, so no sum wraps.             *)
TotalBorne ==
    LET n == appels * EcartMax
    IN  /\ total <= n /\ -total <= n
        /\ erreur <= EcartMax /\ -erreur <= EcartMax
        /\ etape = "chargeBas" =>
              total - erreur <= n - EcartMax /\ erreur - total <= n - EcartMax

(* Where the sum is between two accesses of the main program: in memory    *)
(* without its error, in the registers, or half stored.                    *)
SommeEtape ==
    /\ etape \in {"repos", "sortie"} => erreur_sommeP = total
    /\ etape \in {"chargeBas", "chargeHaut"} => erreur_sommeP + erreur = total
    /\ etape = "chargeHaut" => bas = Lo(erreur_sommeP)
    /\ etape \in {"range1", "range2"} => reg = total
    /\ etape = "range2" => IF HautDabord THEN Hi(erreur_sommeP) = Hi(reg)
                                         ELSE Lo(erreur_sommeP) = Lo(reg)

SansConflit == conflits = 0 /\ appels * EcartMax <= INT_MAX

InvIntegrale == TotalBorne /\ (SansConflit => SommeEtape)

LEMMA TotalInit == Init => TotalBorne /\ SommeEtape
<1> SUFFICES ASSUME Init PROVE TotalBorne /\ SommeEtape
    OBVIOUS
<1>1. appels = 0 /\ total = 0 /\ erreur = 0 /\ etape = "repos" /\ erreur_sommeP = 0
    BY DEF Init
<1>2. 0 * EcartMax = 0
    BY EcartType
<1> QED BY <1>1, <1>2, EcartType DEF TotalBorne, SommeEtape

LEMMA TotalSuite == TypeAppel /\ TotalBorne /\ [Next]_vars => TotalBorne'
<1> SUFFICES ASSUME TypeAppel, TotalBorne, [Next]_vars PROVE TotalBorne'
    OBVIOUS
<1>0. appels \in Int /\ total \in Int /\ erreur \in Int
    BY Int16Bornes DEF TypeAppel, TypeOK
<1>1. PICK n \in Int : n = appels * EcartMax
    BY <1>0, EcartType
<1>2. (appels + 1) * EcartMax = n + EcartMax
    BY <1>0, <1>1, EcartType, UnDePlus
<1>3. /\ total <= n /\ -total <= n
      /\ erreur <= EcartMax /\ -erreur <= EcartMax
      /\ etape = "chargeBas" =>
            total - erreur <= n - EcartMax /\ erreur - total <= n - EcartMax
    BY <1>1 DEF TotalBorne
<1>4. CASE \E v \in Consignes, p \in Potars : Appel(v, p)
  <2>1. PICK v \in Consignes, p \in Potars : Appel(v, p)
      BY <1>4
  <2>2. PICK e \in Int : e = Erreur(v, p) /\ e >= -EcartMax /\ e <= EcartMax
      BY ErreurBornes
  <2>3. /\ appels' = appels + 1 /\ total' = total + e /\ erreur' = e
      BY <2>1, <2>2 DEF Appel
  <2>4. appels' * EcartMax = n + EcartMax
      BY <1>2, <2>3
  <2> QED BY <1>0, <1>3, <2>2, <2>3, <2>4, EcartType DEF TotalBorne
<1>5. CASE ChargeBas \/ ChargeHaut \/ Range1 \/ Range2
  <2>1. UNCHANGED <<appels, total, erreur>> /\ etape' # "chargeBas"
      BY <1>5 DEF ChargeBas, ChargeHaut, Range1, Range2, historique
  <2> QED BY <1>1, <1>3, <2>1 DEF TotalBorne
<1>6. CASE SortieMain
  <2>1. UNCHANGED <<appels, total>> /\ erreur' = 0 /\ etape' = "repos"
      BY <1>6 DEF SortieMain, historique
  <2> QED BY <1>1, <1>3, <2>1, EcartType DEF TotalBorne
<1>7. CASE \E p \in Potars : ISR(p)
  <2>1. PICK p \in Potars : ISR(p)
      BY <1>7
  <2>2. commande_direction \in Consignes \cup {ConsigneInit}
      BY DEF TypeAppel, TypeOK
  <2>3. PICK e \in Int : /\ e = Erreur(commande_direction, p)
                         /\ e >= -EcartMax /\ e <= EcartMax
      BY <2>2, ErreurBornes
  <2>4. /\ appels' = appels + 1 /\ total' = total + e
        /\ erreur' = erreur /\ etape' = etape
      BY <2>1, <2>3 DEF ISR, appelMain
  <2>5. appels' * EcartMax = n + EcartMax
      BY <1>2, <2>4
  <2> QED BY <1>0, <1>1, <1>3, <2>3, <2>4, <2>5, EcartType DEF TotalBorne
<1>8. CASE UNCHANGED vars
    BY <1>8 DEF vars, appelMain, historique, TotalBorne
<1> QED BY <1>4, <1>5, <1>6, <1>7, <1>8 DEF Next

LEMMA SommeSuite ==
    TypeAppel /\ InvIntegrale /\ [Next]_vars => (SansConflit => SommeEtape)'
<1> SUFFICES ASSUME TypeAppel, InvIntegrale, [Next]_vars, SansConflit'
             PROVE  SommeEtape'
    OBVIOUS
<1>0. /\ appels \in Int /\ total \in Int /\ erreur \in Int /\ conflits \in Nat
      /\ erreur_sommeP \in Int /\ reg \in Int /\ bas \in Int
    BY Int16Bornes, UCharBornes DEF TypeAppel, TypeOK
<1>1. PICK n \in Int : n = appels * EcartMax
    BY <1>0, EcartType
<1>2. (appels + 1) * EcartMax = n + EcartMax
    BY <1>0, <1>1, EcartType, UnDePlus
<1>3. /\ total <= n /\ -total <= n
      /\ erreur <= EcartMax /\ -erreur <= EcartMax
      /\ etape = "chargeBas" =>
            total - erreur <= n - EcartMax /\ erreur - total <= n - EcartMax
    BY <1>1 DEF InvIntegrale, TotalBorne
<1>4. conflits' = 0 /\ appels' * EcartMax <= 32767
    BY Limites DEF SansConflit
<1>5. conflits = 0 /\ n <= 32767 => SommeEtape
    BY <1>1, Limites DEF InvIntegrale, SansConflit
<1>6. CASE \E v \in Consignes, p \in Potars : Appel(v, p)
  <2>1. PICK v \in Consignes, p \in Potars : Appel(v, p)
      BY <1>6
  <2>2. PICK e \in Int : e = Erreur(v, p)
      BY ErreurBornes
  <2>3. /\ appels' = appels + 1 /\ total' = total + e /\ erreur' = e
        /\ etape = "repos" /\ etape' = "chargeBas" /\ conflits' = conflits
        /\ erreur_sommeP' = erreur_sommeP
      BY <2>1, <2>2 DEF Appel
  <2>4. erreur_sommeP = total
      BY <1>2, <1>4, <1>5, <2>3, EcartType DEF SommeEtape
  <2> QED BY <1>0, <2>2, <2>3, <2>4 DEF SommeEtape
<1>7. ASSUME UNCHANGED <<appels, conflits>> PROVE SommeEtape
    BY <1>1, <1>4, <1>5, <1>7
<1>8. CASE ChargeBas
  <2>1. SommeEtape
      BY <1>7, <1>8 DEF ChargeBas, historique
  <2> QED BY <1>8, <2>1 DEF ChargeBas, historique, SommeEtape
<1>9. CASE ChargeHaut
  <2>1. UNCHANGED <<appels, conflits, total>> /\ etape = "chargeHaut" /\ etape' = "range1"
        /\ reg' = Wrap16(Melange(erreur_sommeP, bas) + erreur)
      BY <1>9 DEF ChargeHaut, historique
  <2>2. erreur_sommeP + erreur = total /\ bas = Lo(erreur_sommeP)
      BY <1>7, <2>1 DEF SommeEtape
  <2>3. Melange(erreur_sommeP, bas) = erreur_sommeP
      BY <1>0, <2>2, LoOctet
  <2>4. reg' = Wrap16(total)
      BY <2>1, <2>2, <2>3
  <2>5. n <= 32767
      BY <1>1, <1>4, <2>1
  <2>6. total >= -32768 /\ total <= 32767
      BY <1>0, <1>3, <2>5
  <2>7. reg' = total'
      BY <1>0, <2>1, <2>4, <2>6, Wrap16Ident
  <2> QED BY <2>1, <2>7 DEF SommeEtape
<1>10. CASE Range1
  <2>1. /\ UNCHANGED <<appels, conflits, total, reg>>
        /\ etape = "range1" /\ etape' = "range2"
        /\ erreur_sommeP' = IF HautDabord THEN Melange(reg, erreur_sommeP)
                                          ELSE Melange(erreur_sommeP, reg)
      BY <1>10 DEF Range1, historique
  <2>2. reg = total
      BY <1>7, <2>1 DEF SommeEtape
  <2>3. IF HautDabord THEN Hi(erreur_sommeP') = Hi(reg) ELSE Lo(erreur_sommeP') = Lo(reg)
      BY <1>0, <2>1, OctetsMelange
  <2> QED BY <2>1, <2>2, <2>3 DEF SommeEtape
<1>11. CASE Range2
  <2>1. /\ UNCHANGED <<appels, conflits, total, reg>>
        /\ etape = "range2" /\ etape' = "sortie"
        /\ erreur_sommeP' = IF HautDabord THEN Melange(erreur_sommeP, reg)
                                          ELSE Melange(reg, erreur_sommeP)
      BY <1>11 DEF Range2, historique
  <2>2. /\ reg = total
        /\ IF HautDabord THEN Hi(erreur_sommeP) = Hi(reg) ELSE Lo(erreur_sommeP) = Lo(reg)
      BY <1>7, <2>1 DEF SommeEtape
  <2>3. erreur_sommeP' = 256 * Hi(reg) + Lo(reg)
      BY <2>1, <2>2 DEF Melange
  <2>4. erreur_sommeP' = total'
      BY <1>0, <2>1, <2>2, <2>3, Octets
  <2> QED BY <2>1, <2>4 DEF SommeEtape
<1>12. CASE SortieMain
  <2>1. UNCHANGED <<appels, conflits, total, erreur_sommeP>>
        /\ etape = "sortie" /\ etape' = "repos"
      BY <1>12 DEF SortieMain, historique
  <2>2. erreur_sommeP = total
      BY <1>7, <2>1 DEF SommeEtape
  <2> QED BY <2>1, <2>2 DEF SommeEtape
<1>13. CASE \E p \in Potars : ISR(p)
  <2>1. PICK p \in Potars : ISR(p)
      BY <1>13
  <2>2. commande_direction \in Consignes \cup {ConsigneInit}
      BY DEF TypeAppel, TypeOK
  <2>3. PICK e \in Int : /\ e = Erreur(commande_direction, p)
                         /\ e >= -EcartMax /\ e <= EcartMax
      BY <2>2, ErreurBornes
  <2>4. /\ appels' = appels + 1 /\ total' = total + e
        /\ erreur' = erreur /\ etape' = etape
        /\ erreur_sommeP' = Wrap16(erreur_sommeP + e)
        /\ conflits' = IF etape \in Fenetre THEN conflits + 1 ELSE conflits
      BY <2>1, <2>3 DEF ISR, appelMain
  <2>5. etape \notin Fenetre /\ conflits = 0
      BY <1>0, <1>4, <2>4
  <2>6. n + EcartMax <= 32767
      BY <1>2, <1>4, <2>4
  <2>7. SommeEtape
      BY <1>5, <2>5, <2>6, EcartType
  <2>8. etape \in {"repos", "chargeBas", "sortie"}
      BY <2>5 DEF Fenetre, TypeAppel, TypeOK, Etapes
  <2>9. CASE etape \in {"repos", "sortie"}
    <3>1. erreur_sommeP = total
        BY <2>7, <2>9 DEF SommeEtape
    <3>2. total + e >= -32768 /\ total + e <= 32767 /\ total + e \in Int
        BY <1>0, <1>3, <2>3, <2>6, EcartType
    <3>3. erreur_sommeP' = total'
        BY <2>4, <3>1, <3>2, Wrap16Ident
    <3> QED BY <2>4, <2>9, <3>3 DEF SommeEtape
  <2>10. CASE etape = "chargeBas"
    <3>1. erreur_sommeP + erreur = total
        BY <2>7, <2>10 DEF SommeEtape
    <3>2. erreur_sommeP + e >= -32768 /\ erreur_sommeP + e <= 32767 /\ erreur_sommeP + e \in Int
        BY <1>0, <1>3, <2>3, <2>6, <2>10, <3>1, EcartType
    <3>3. erreur_sommeP' + erreur' = total'
        BY <1>0, <2>3, <2>4, <3>1, <3>2, Wrap16Ident
    <3> QED BY <2>4, <2>10, <3>3 DEF SommeEtape
  <2> QED BY <2>8, <2>9, <2>10
<1>14. CASE UNCHANGED vars
  <2>1. SommeEtape
      BY <1>7, <1>14 DEF vars, historique
  <2> QED BY <1>14, <2>1 DEF vars, appelMain, historique, SommeEtape
<1> QED BY <1>6, <1>8, <1>9, <1>10, <1>11, <1>12, <1>13, <1>14 DEF Next

(* With no interrupt between a load and a store, the integral term is the  *)
(* sum of the errors of the calls of both contexts, for any number of      *)
(* calls that cannot overflow it.                                          *)
THEOREM IntegraleCorrecte == Spec => []IntegraleExacte
<1>1. Init => InvIntegrale
    BY TotalInit DEF InvIntegrale
<1>2. TypeAppel /\ InvIntegrale /\ [Next]_vars => InvIntegrale'
    BY TotalSuite, SommeSuite DEF InvIntegrale
<1>3. InvIntegrale => IntegraleExacte
    BY DEF InvIntegrale, SansConflit, SommeEtape, IntegraleExacte
<1> QED BY <1>1, <1>2, <1>3, TypeToujours, PTL DEF Spec

-----------------------------------------------------------------------------
(* The integral term with conflicts.  Each torn access costs at most 255:  *)
(* the bounds of the sum in memory and of the one in registers, at each    *)
(* step of the main program's access.  They are inductive for every number *)
(* of interrupts, wherever these come.                                     *)
Pas == EcartMax + 765

Entre(x, m) == x <= m /\ -x <= m

DeriveEtape ==
    LET n == appels * Pas
    IN  /\ Entre(erreur, EcartMax)
        /\ etape \in {"repos", "sortie"} => Entre(erreur_sommeP, n)
        /\ etape \in {"chargeBas", "chargeHaut", "range1"} => Entre(erreur_sommeP, n - Pas)
        /\ etape = "range1" => Entre(reg, n - Pas + 255 + EcartMax)
        /\ etape = "range2" => /\ Entre(reg, n - Pas + 255 + EcartMax)
                               /\ Entre(erreur_sommeP, n - Pas + 510 + EcartMax)

(* Once the sum could overflow, the bounds say nothing any more.           *)
InvDerive == appels * Pas <= INT_MAX => DeriveEtape

LEMMA PasType == Pas \in Int /\ Pas = EcartMax + 765 /\ EcartMax \in Int /\ EcartMax >= 0
  BY EcartType DEF Pas

LEMMA DeriveInit == Init => InvDerive
<1> SUFFICES ASSUME Init PROVE InvDerive
    OBVIOUS
<1>1. appels = 0 /\ erreur = 0 /\ etape = "repos" /\ erreur_sommeP = 0
    BY DEF Init
<1>2. 0 * Pas = 0
    BY PasType
<1> QED BY <1>1, <1>2, PasType DEF InvDerive, DeriveEtape, Entre

LEMMA DeriveSuite == TypeAppel /\ InvDerive /\ [Next]_vars => InvDerive'
<1> SUFFICES ASSUME TypeAppel, InvDerive, [Next]_vars, appels' * Pas <= 32767
             PROVE  DeriveEtape'
    BY Limites DEF InvDerive, Pas
<1>0. /\ appels \in Int /\ erreur \in Int /\ erreur_sommeP \in Int /\ reg \in Int
      /\ bas \in Int
    BY Int16Bornes, UCharBornes DEF TypeAppel, TypeOK
<1>1. PICK n \in Int : n = appels * Pas
    BY <1>0, PasType
<1>2. (appels + 1) * Pas = n + Pas
    BY <1>0, <1>1, PasType, UnDePlus
<1>3. n <= 32767 =>
        /\ Entre(erreur, EcartMax)
        /\ etape \in {"repos", "sortie"} => Entre(erreur_sommeP, n)
        /\ etape \in {"chargeBas", "chargeHaut", "range1"} => Entre(erreur_sommeP, n - Pas)
        /\ etape = "range1" => Entre(reg, n - Pas + 255 + EcartMax)
        /\ etape = "range2" => /\ Entre(reg, n - Pas + 255 + EcartMax)
                               /\ Entre(erreur_sommeP, n - Pas + 510 + EcartMax)
    BY <1>1, Limites DEF InvDerive, DeriveEtape
<1>4. ASSUME appels' = appels PROVE n <= 32767 /\ appels' * Pas = n
    BY <1>1, <1>4
<1>5. ASSUME appels' = appels + 1 PROVE n + Pas <= 32767 /\ appels' * Pas = n + Pas
    BY <1>2, <1>5
<1>6. \A h, l \in Int, m \in Int :
        Entre(h, m) => Melange(h, l) \in Int /\ Entre(Melange(h, l), m + 255)
  <2> TAKE h, l \in Int, m \in Int
  <2>1. Melange(h, l) \in Int
      BY OctetsMelange
  <2>2. h - 255 <= Melange(h, l) /\ Melange(h, l) <= h + 255
      BY MelangeEcart
  <2> QED BY <2>1, <2>2 DEF Entre
<1>6a. ASSUME NEW m \in Int, appels' * Pas = m,
              Entre(erreur', EcartMax),
              etape' \in {"repos", "sortie"} => Entre(erreur_sommeP', m),
              etape' \in {"chargeBas", "chargeHaut", "range1"}
                 => Entre(erreur_sommeP', m - Pas),
              etape' \in {"range1", "range2"} => Entre(reg', m - Pas + 255 + EcartMax),
              etape' = "range2" => Entre(erreur_sommeP', m - Pas + 510 + EcartMax)
       PROVE  DeriveEtape'
    BY <1>6a DEF DeriveEtape, Pas
<1>7. CASE \E v \in Consignes, p \in Potars : Appel(v, p)
  <2>1. PICK v \in Consignes, p \in Potars : Appel(v, p)
      BY <1>7
  <2>2. PICK e \in Int : e = Erreur(v, p) /\ e >= -EcartMax /\ e <= EcartMax
      BY ErreurBornes
  <2>3. /\ appels' = appels + 1 /\ erreur' = e /\ etape = "repos"
        /\ etape' = "chargeBas" /\ erreur_sommeP' = erreur_sommeP
      BY <2>1, <2>2 DEF Appel
  <2>4. n + Pas <= 32767 /\ appels' * Pas = n + Pas
      BY <1>5, <2>3
  <2>5. Entre(erreur_sommeP, n) /\ Entre(e, EcartMax)
      BY <1>3, <2>2, <2>3, <2>4, PasType DEF Entre
  <2>6. PICK m \in Int : m = n + Pas /\ m - Pas = n
      BY PasType
  <2> QED BY <1>6a, <2>3, <2>4, <2>5, <2>6
<1>8. CASE ChargeBas
  <2>1. UNCHANGED <<appels, erreur, erreur_sommeP>> /\ etape = "chargeBas"
        /\ etape' = "chargeHaut"
      BY <1>8 DEF ChargeBas, historique
  <2> QED BY <1>3, <1>4, <2>1 DEF DeriveEtape, Pas
<1>9. CASE ChargeHaut
  <2>1. /\ UNCHANGED <<appels, erreur, erreur_sommeP>> /\ etape = "chargeHaut"
        /\ etape' = "range1" /\ reg' = Wrap16(Melange(erreur_sommeP, bas) + erreur)
      BY <1>9 DEF ChargeHaut, historique
  <2>2. n <= 32767 /\ appels' * Pas = n
      BY <1>4, <2>1
  <2>3. Entre(erreur_sommeP, n - Pas) /\ Entre(erreur, EcartMax)
      BY <1>3, <2>1, <2>2
  <2>4. PICK x \in Int : x = Melange(erreur_sommeP, bas) /\ Entre(x, n - Pas + 255)
      BY <1>0, <1>6, <2>3, PasType
  <2>5. Entre(x + erreur, n - Pas + 255 + EcartMax) /\ x + erreur \in Int
      BY <1>0, <2>3, <2>4, PasType DEF Entre
  <2>6. x + erreur >= -32768 /\ x + erreur <= 32767
      BY <2>2, <2>5, PasType DEF Entre
  <2>7. reg' = x + erreur
      BY <2>1, <2>4, <2>5, <2>6, Wrap16Ident
  <2> QED BY <2>1, <2>2, <2>3, <2>5, <2>7 DEF DeriveEtape, Pas
<1>10. CASE Range1
  <2>1. /\ UNCHANGED <<appels, erreur, reg>> /\ etape = "range1" /\ etape' = "range2"
        /\ \/ erreur_sommeP' = Melange(reg, erreur_sommeP)
           \/ erreur_sommeP' = Melange(erreur_sommeP, reg)
      BY <1>10 DEF Range1, historique
  <2>2. n <= 32767 /\ appels' * Pas = n
      BY <1>4, <2>1
  <2>3. /\ Entre(erreur_sommeP, n - Pas) /\ Entre(reg, n - Pas + 255 + EcartMax)
        /\ Entre(erreur, EcartMax)
      BY <1>3, <2>1, <2>2
  <2>4. Entre(erreur_sommeP, n - Pas + 255 + EcartMax)
      BY <1>0, <2>3, PasType DEF Entre
  <2>5. Entre(erreur_sommeP', n - Pas + 255 + EcartMax + 255)
      BY <1>0, <1>6, <2>1, <2>3, <2>4, PasType
  <2>6. n - Pas + 255 + EcartMax + 255 = n - Pas + 510 + EcartMax
      BY PasType
  <2> QED BY <2>1, <2>2, <2>3, <2>5, <2>6 DEF DeriveEtape, Pas
<1>11. CASE Range2
  <2>1. /\ UNCHANGED <<appels, erreur>> /\ etape = "range2" /\ etape' = "sortie"
        /\ \/ erreur_sommeP' = Melange(reg, erreur_sommeP)
           \/ erreur_sommeP' = Melange(erreur_sommeP, reg)
      BY <1>11 DEF Range2, historique
  <2>2. n <= 32767 /\ appels' * Pas = n
      BY <1>4, <2>1
  <2>3. /\ Entre(erreur_sommeP, n - Pas + 510 + EcartMax)
        /\ Entre(reg, n - Pas + 255 + EcartMax) /\ Entre(erreur, EcartMax)
      BY <1>3, <2>1, <2>2
  <2>4. Entre(reg, n - Pas + 510 + EcartMax)
      BY <1>0, <2>3, PasType DEF Entre
  <2>5. Entre(erreur_sommeP', n - Pas + 510 + EcartMax + 255)
      BY <1>0, <1>6, <2>1, <2>3, <2>4, PasType
  <2>6. n - Pas + 510 + EcartMax + 255 = n
      BY PasType
  <2> QED BY <2>1, <2>2, <2>3, <2>5, <2>6 DEF DeriveEtape, Pas
<1>12. CASE SortieMain
  <2>1. UNCHANGED <<appels, erreur_sommeP>> /\ etape = "sortie" /\ etape' = "repos"
        /\ erreur' = 0
      BY <1>12 DEF SortieMain, historique
  <2>2. Entre(0, EcartMax)
      BY PasType DEF Entre
  <2> QED BY <1>3, <1>4, <2>1, <2>2 DEF DeriveEtape, Pas
<1>13. CASE \E p \in Potars : ISR(p)
  <2>1. PICK p \in Potars : ISR(p)
      BY <1>13
  <2>2. commande_direction \in Consignes \cup {ConsigneInit}
      BY DEF TypeAppel, TypeOK
  <2>3. PICK e \in Int : /\ e = Erreur(commande_direction, p)
                         /\ e >= -EcartMax /\ e <= EcartMax
      BY <2>2, ErreurBornes
  <2>4. /\ appels' = appels + 1 /\ UNCHANGED <<erreur, etape, reg>>
        /\ erreur_sommeP' = Wrap16(erreur_sommeP + e)
      BY <2>1, <2>3 DEF ISR, appelMain
  <2>5. n + Pas <= 32767 /\ appels' * Pas = n + Pas
      BY <1>5, <2>4
  <2>6. n <= 32767
      BY <2>5, PasType
  <2>7. etape \in Etapes
      BY DEF TypeAppel, TypeOK
  <2>8. Entre(erreur_sommeP, n - Pas + 510 + EcartMax) \/ Entre(erreur_sommeP, n)
      BY <1>0, <1>3, <2>6, <2>7, PasType DEF Entre, Etapes
  <2>9. PICK s \in Int : s = erreur_sommeP + e
      BY <1>0
  <2>10. s >= -32768 /\ s <= 32767
      BY <1>0, <2>3, <2>5, <2>8, <2>9, PasType DEF Entre
  <2>11. erreur_sommeP' = s
      BY <2>4, <2>9, <2>10, Wrap16Ident
  <2>12. \A m \in Int : Entre(erreur_sommeP, m) => Entre(s, m + Pas)
      BY <1>0, <2>3, <2>9, PasType DEF Entre
  <2>13. \A m \in Int : Entre(reg, m) => Entre(reg, m + Pas)
      BY <1>0, PasType DEF Entre
  <2>14. PICK m \in Int : m = n + Pas
      BY PasType
  <2>15. /\ appels' * Pas = m
         /\ n - Pas + Pas = m - Pas /\ n - Pas \in Int
      BY <2>5, <2>14, PasType
  <2>16. n - Pas + 255 + EcartMax + Pas = m - Pas + 255 + EcartMax
         /\ n - Pas + 255 + EcartMax \in Int
      BY <2>14, PasType
  <2>17. n - Pas + 510 + EcartMax + Pas = m - Pas + 510 + EcartMax
         /\ n - Pas + 510 + EcartMax \in Int
      BY <2>14, PasType
  <2>18. Entre(erreur', EcartMax)
      BY <1>3, <2>4, <2>6
  <2>19. etape' \in {"repos", "sortie"} => Entre(erreur_sommeP', m)
      BY <1>3, <2>4, <2>6, <2>11, <2>12, <2>14
  <2>20. etape' \in {"chargeBas", "chargeHaut", "range1"}
            => Entre(erreur_sommeP', m - Pas)
    <3>1. etape' \in {"chargeBas", "chargeHaut", "range1"} => Entre(erreur_sommeP, n - Pas)
        BY <1>3, <2>4, <2>6
    <3>2. Entre(erreur_sommeP, n - Pas) => Entre(s, n - Pas + Pas)
        BY <2>12, <2>15
    <3> QED BY <2>11, <2>15, <3>1, <3>2
  <2>21. etape' \in {"range1", "range2"} => Entre(reg', m - Pas + 255 + EcartMax)
    <3>1. etape' \in {"range1", "range2"} => Entre(reg, n - Pas + 255 + EcartMax)
        BY <1>3, <2>4, <2>6
    <3>2. Entre(reg, n - Pas + 255 + EcartMax) => Entre(reg, n - Pas + 255 + EcartMax + Pas)
        BY <2>13, <2>16
    <3> QED BY <2>4, <2>16, <3>1, <3>2
  <2>22. etape' = "range2" => Entre(erreur_sommeP', m - Pas + 510 + EcartMax)
    <3>1. etape' = "range2" => Entre(erreur_sommeP, n - Pas + 510 + EcartMax)
        BY <1>3, <2>4, <2>6
    <3>2. Entre(erreur_sommeP, n - Pas + 510 + EcartMax)
             => Entre(s, n - Pas + 510 + EcartMax + Pas)
        BY <2>12, <2>17
    <3> QED BY <2>11, <2>17, <3>1, <3>2
  <2> QED BY <1>6a, <2>15, <2>18, <2>19, <2>20, <2>21, <2>22
<1>14. CASE UNCHANGED vars
    BY <1>3, <1>4, <1>14 DEF vars, appelMain, historique, DeriveEtape, Pas
<1> QED BY <1>7, <1>8, <1>9, <1>10, <1>11, <1>12, <1>13, <1>14 DEF Next

LEMMA DeriveImplique == TypeAppel /\ InvDerive => DeriveBornee
<1> SUFFICES ASSUME TypeAppel, InvDerive, appels * Pas <= INT_MAX
             PROVE  Entre(erreur_sommeP, appels * Pas)
    BY DEF DeriveBornee, Entre, Pas
<1>1. appels \in Int /\ erreur_sommeP \in Int /\ etape \in Etapes
    BY Int16Bornes DEF TypeAppel, TypeOK
<1>2. PICK n \in Int : n = appels * Pas
    BY <1>1, PasType
<1>3. CASE etape \in {"repos", "sortie"}
    BY <1>3 DEF InvDerive, DeriveEtape
<1>4. CASE etape \in {"chargeBas", "chargeHaut", "range1"}
  <2>1. Entre(erreur_sommeP, n - Pas)
      BY <1>2, <1>4 DEF InvDerive, DeriveEtape
  <2> QED BY <1>1, <1>2, <2>1, PasType DEF Entre
<1>5. CASE etape = "range2"
  <2>1. Entre(erreur_sommeP, n - Pas + 510 + EcartMax)
      BY <1>2, <1>5 DEF InvDerive, DeriveEtape
  <2> QED BY <1>1, <1>2, <2>1, PasType DEF Entre
<1> QED BY <1>1, <1>3, <1>4, <1>5 DEF Etapes

(* Whatever the interleaving, each call moves the integral term by at most *)
(* EcartMax + 765, until there are enough calls to overflow it.            *)
THEOREM DeriveCorrecte == Spec => []DeriveBornee
  BY DeriveInit, DeriveSuite, DeriveImplique, TypeToujours, PTL DEF Spec
=============================================================================
