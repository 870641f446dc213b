---------------------------- MODULE ICarPreuves ----------------------------
(***************************************************************************)
(* Proofs about the whole chain, for every number of sessions and of       *)
(* gestures, every seek bar and position, and all sizes of the buffers.    *)
(* The inductive invariant has three layers:                               *)
(*   TypeICar     the types; what is on the serial line are digits and     *)
(*                newlines;                                                *)
(*   Couples      what a session has sent and nobody has read are pairs of *)
(*                its own gestures, and an 'S' at the end once STOP has    *)
(*                been pressed, unless a recv was short;                   *)
(*   Lignees      while nothing is lost, what the sketch has not executed  *)
(*                is cut into whole lines.                                 *)
(***************************************************************************)
EXTENDS ICar, FiniteSetTheorems, FunctionTheorems, SequenceTheorems, TLAPS

Chiffres == 48..57
Caracteres == Chiffres \cup {Lf}

TypeTelecommande ==
    /\ ecran \in Sessions \cup {0}
    /\ socket \in [Sessions -> {"null", "ouvert", "ferme"}]
    /\ stop \subseteq Sessions
    /\ flux \in [Sessions -> Seq(Octets)]
    /\ faits \in [Sessions -> SUBSET (Octets \X Octets)]

TypeServeur ==
    /\ serveur \in {"accept", "recv", "commande", "fini"}
    /\ entrantes \in Seq(Sessions)
    /\ csock \in Sessions \cup {0}
    /\ serveur \in {"recv", "commande"} => csock \in Sessions
    /\ serveur = "accept" => csock = 0
    /\ csock = 0 => buff = <<0, 0>> /\ ~court
    /\ buff = <<buff[1], buff[2]>> /\ buff[1] \in Octets /\ buff[2] \in Octets
    /\ court \in BOOLEAN

TypeTrame ==
    /\ fil \in Seq(Caracteres) /\ tampon \in Seq(Caracteres) /\ inputString \in Seq(Caracteres)
    /\ enMessage \in BOOLEAN
    /\ enMessage => inputString # <<>>
    /\ pertes \in Nat /\ coupe \in BOOLEAN
    /\ ordres \in {OrdresInit, OrdresArret}

TypeICar == TypeTelecommande /\ TypeServeur /\ TypeTrame

-----------------------------------------------------------------------------
(* The line that the PC writes for a pair of bytes: digits, then '\n'. *)
EstLigne(l) ==
    /\ l \in Seq(Caracteres) /\ Len(l) > 0
    /\ l[Len(l)] = Lf
    /\ \A i \in 1..(Len(l) - 1) : l[i] \in Chiffres

LEMMA OctetsBornes == Octets \subseteq 0..100 /\ 0 \in Octets /\ S \in Octets /\ S = 83
BY GestesAssumption DEF Octets, S

LEMMA DecimalChiffres ==
    ASSUME NEW n \in 0..100
    PROVE  Decimal(n) \in Seq(Chiffres) /\ Len(Decimal(n)) > 0
<1> DEFINE chiffre(d) == 48 + (d % 10)
<1>1. \A d \in Nat : chiffre(d) \in Chiffres
  BY DEF Chiffres
<1>2. n \in Nat /\ n \div 10 \in Nat /\ n \div 100 \in Nat
  OBVIOUS
<1>3. chiffre(n) \in Chiffres /\ chiffre(n \div 10) \in Chiffres /\ chiffre(n \div 100) \in Chiffres
  BY <1>1, <1>2
<1>4. Decimal(n) = IF n < 10 THEN <<chiffre(n)>>
                   ELSE IF n < 100 THEN <<chiffre(n \div 10), chiffre(n)>>
                   ELSE <<chiffre(n \div 100), chiffre(n \div 10), chiffre(n)>>
  BY DEF Decimal
<1> HIDE DEF chiffre
<1>5. /\ <<chiffre(n)>> \in Seq(Chiffres)
      /\ <<chiffre(n \div 10), chiffre(n)>> \in Seq(Chiffres)
      /\ <<chiffre(n \div 100), chiffre(n \div 10), chiffre(n)>> \in Seq(Chiffres)
  BY <1>3
<1> QED BY <1>4, <1>5

LEMMA LigneEstLigne ==
    ASSUME NEW h \in 0..100, NEW v \in 0..100
    PROVE  EstLigne(LigneCommande(h, v))
<1>1. Decimal(h) \in Seq(Chiffres) /\ Decimal(v) \in Seq(Chiffres) /\ Len(Decimal(h)) > 0
  BY DecimalChiffres
<1> DEFINE d == Decimal(h) \o Decimal(v)
<1>2. d \in Seq(Chiffres) /\ Len(d) \in Nat /\ Len(d) > 0
  BY <1>1, ConcatProperties
<1> HIDE DEF d
<1>3. d \in Seq(Caracteres) /\ <<Lf>> \in Seq(Caracteres) /\ Len(<<Lf>>) = 1
  BY <1>2, SeqMonotonic DEF Caracteres
<1>4. /\ d \o <<Lf>> \in Seq(Caracteres)
      /\ Len(d \o <<Lf>>) = Len(d) + 1
      /\ \A i \in 1..(Len(d) + 1) : (d \o <<Lf>>)[i] = IF i <= Len(d) THEN d[i] ELSE <<Lf>>[i - Len(d)]
  BY <1>3, ConcatProperties
<1>5. LigneCommande(h, v) = d \o <<Lf>>
  BY DEF LigneCommande, d
<1>6. \A i \in 1..Len(d) : d[i] \in Chiffres
  BY <1>2
<1> QED BY <1>2, <1>4, <1>5, <1>6 DEF EstLigne

(* A line that starts with a digit or a '\n' is an emergency stop. *)
LEMMA LigneArrete ==
    ASSUME NEW o, NEW l \in Seq(Caracteres), l # <<>>
    PROVE  ApresMessage(o, l) = OrdresArret
<1>1. Head(l) \in Caracteres
  OBVIOUS
<1>2. Head(l) \notin {68, 70, 82, 86}
  BY <1>1 DEF Caracteres, Chiffres, Lf
<1> QED BY <1>2 DEF ApresMessage

-----------------------------------------------------------------------------
(* The layers, one action at a time. *)
LEMMA TypeTelecommandePas ==
    ASSUME TypeICar, [Next]_vars
    PROVE  TypeTelecommande'
<1> USE DEF TypeTelecommande
<1>0. TypeTelecommande /\ TypeServeur
  BY DEF TypeICar
<1>s. Sessions \subseteq Nat
  BY GestesAssumption DEF Sessions
<1>p. ASSUME Plante PROVE socket' \in [Sessions -> {"null", "ouvert", "ferme"}] /\ ecran' \in Sessions \cup {0}
  BY <1>0, <1>p DEF Plante
<1>m. \A id \in Identifiants, p \in Progressions : <<id, p>> \in Seq(Octets) /\ <<id, p>> \in Octets \X Octets
  BY DEF Octets
<1>1. CASE \E n \in Sessions : startActivity(n)
  BY <1>0, <1>1 DEF startActivity
<1>2. ASSUME NEW id \in Identifiants, NEW p \in Progressions, Geste(id, p) PROVE TypeTelecommande'
  <2>1. CASE socket[ecran] = "ouvert"
    <3>1. ecran \in Sessions
      BY <1>0, <1>2 DEF Geste
    <3>2. flux[ecran] \o <<id, p>> \in Seq(Octets)
      BY <1>0, <1>m, <3>1, ConcatProperties
    <3>3. faits[ecran] \cup {<<id, p>>} \in SUBSET (Octets \X Octets)
      BY <1>0, <1>m, <3>1
    <3>4. flux' = [flux EXCEPT ![ecran] = flux[ecran] \o <<id, p>>] /\ faits' = [faits EXCEPT ![ecran] = faits[ecran] \cup {<<id, p>>}]
      BY <1>2, <2>1 DEF Geste, Message
    <3>5. flux' \in [Sessions -> Seq(Octets)]
      BY <1>0, <3>1, <3>2, <3>4
    <3>6. faits' \in [Sessions -> SUBSET (Octets \X Octets)]
      BY <1>0, <3>1, <3>3, <3>4
    <3> QED BY <1>0, <1>2, <2>1, <3>5, <3>6 DEF Geste
  <2>2. CASE socket[ecran] # "ouvert"
    BY <1>0, <1>2, <1>p, <2>2 DEF Geste, Plante
  <2> QED BY <2>1, <2>2
<1>3. CASE Stop
  <2>1. CASE socket[ecran] = "ouvert"
    <3>1. ecran \in Sessions
      BY <1>0, <1>3 DEF Stop
    <3>2. Append(flux[ecran], S) \in Seq(Octets)
      BY <1>0, <3>1, OctetsBornes
    <3>3. flux' = [flux EXCEPT ![ecran] = Append(flux[ecran], S)]
      BY <1>3, <2>1 DEF Stop
    <3>4. flux' \in [Sessions -> Seq(Octets)]
      BY <1>0, <3>1, <3>2, <3>3
    <3> QED BY <1>0, <1>3, <2>1, <3>1, <3>4 DEF Stop
  <2>2. CASE socket[ecran] # "ouvert"
    BY <1>0, <1>3, <1>p, <2>2 DEF Stop, Plante
  <2> QED BY <2>1, <2>2
<1>4. CASE QuitteEcran
  BY <1>0, <1>4 DEF QuitteEcran
<1>5. CASE \E n \in Sessions : Connexion(n) \/ SocketRefuse(n) \/ SocketRamasse(n)
  BY <1>0, <1>5 DEF Connexion, SocketCree, SocketRefuse, SocketRamasse
<1>6. ASSUME NEW k \in {1, 2}, Recv(k) PROVE TypeTelecommande'
  <2>1. csock \in Sessions
    BY <1>0, <1>6 DEF Recv, TypeServeur
  <2>2. SubSeq(flux[csock], k + 1, Len(flux[csock])) \in Seq(Octets)
    <3>1. flux[csock] \in Seq(Octets)
      BY <1>0, <2>1
    <3> QED BY <3>1
  <2>3. flux' = [flux EXCEPT ![csock] = SubSeq(flux[csock], k + 1, Len(flux[csock]))]
    BY <1>6 DEF Recv
  <2>4. flux' \in [Sessions -> Seq(Octets)]
    BY <1>0, <2>1, <2>2, <2>3
  <2> QED BY <1>0, <1>6, <2>4 DEF Recv
<1>7. CASE Accept \/ RecvFerme \/ commandeActionneur \/ Sketch \/ UNCHANGED vars
  BY <1>0, <1>7 DEF Accept, RecvFerme, commandeActionneur, Sketch, vars, telecommandeVars
<1> QED BY <1>1, <1>2, <1>3, <1>4, <1>5, <1>6, <1>7 DEF Next, Utilisateur, Reseau, Serveur

LEMMA TypeServeurPas ==
    ASSUME TypeICar, [Next]_vars
    PROVE  TypeServeur'
<1> USE DEF TypeServeur
<1>0. TypeTelecommande /\ TypeServeur
  BY DEF TypeICar
<1>1. CASE UNCHANGED serveurVars
  BY <1>0, <1>1 DEF serveurVars
<1>2. ASSUME NEW n \in Sessions, Connexion(n) PROVE TypeServeur'
  BY <1>0, <1>2 DEF Connexion
<1>3. CASE Accept
  <2>1. Head(entrantes) \in Sessions /\ Tail(entrantes) \in Seq(Sessions)
    BY <1>0, <1>3, HeadTailProperties DEF Accept
  <2>2. 0 \notin Sessions
    BY GestesAssumption DEF Sessions
  <2> QED BY <1>0, <1>3, <2>1, <2>2 DEF Accept
<1>4. ASSUME NEW k \in {1, 2}, Recv(k) PROVE TypeServeur'
  <2>1. csock \in Sessions /\ csock # 0 /\ flux[csock] \in Seq(Octets) /\ k <= Len(flux[csock])
    BY <1>0, <1>4, GestesAssumption DEF Recv, Sessions, TypeTelecommande
  <2>2. buff' = [i \in 1..2 |-> IF i <= k THEN flux[csock][i] ELSE buff[i]]
    BY <1>4 DEF Recv
  <2>3. buff'[1] \in Octets /\ buff'[2] \in Octets /\ buff' = <<buff'[1], buff'[2]>>
    <3>1. buff'[1] = flux[csock][1] /\ buff'[2] = (IF k = 2 THEN flux[csock][2] ELSE buff[2])
      BY <2>2
    <3>2. buff' = <<buff'[1], buff'[2]>>
      BY <2>2
    <3> QED BY <1>0, <2>1, <3>1, <3>2
  <2> QED BY <1>0, <1>4, <2>1, <2>3 DEF Recv, Suivant
<1>5. CASE RecvFerme
  BY <1>0, <1>5 DEF RecvFerme, Suivant
<1>6. CASE commandeActionneur
  BY <1>0, <1>6 DEF commandeActionneur
<1> QED BY <1>1, <1>2, <1>3, <1>4, <1>5, <1>6 DEF Next, Utilisateur, Reseau, Serveur, Sketch, vars, serveurVars

LEMMA TypeTramePas ==
    ASSUME TypeICar, [Next]_vars
    PROVE  TypeTrame'
<1> USE DEF TypeTrame
<1>0. TypeTrame /\ TypeServeur
  BY DEF TypeICar
<1>1. CASE UNCHANGED trameVars
  BY <1>0, <1>1 DEF trameVars
<1>2. CASE commandeActionneur
  <2>1. buff[1] \in 0..100 /\ buff[2] \in 0..100
    BY <1>0, OctetsBornes DEF TypeServeur
  <2>2. LigneCommande(buff[1], buff[2]) \in Seq(Caracteres)
    BY <2>1, LigneEstLigne DEF EstLigne
  <2>3. fil' \in Seq(Caracteres)
    BY <1>0, <1>2, <2>2, ConcatProperties DEF commandeActionneur
  <2> QED BY <1>0, <1>2, <2>3 DEF commandeActionneur
<1>3. CASE ReceptionInterrupt
  <2>1. Head(fil) \in Caracteres /\ Tail(fil) \in Seq(Caracteres)
    BY <1>0, <1>3, HeadTailProperties DEF ReceptionInterrupt
  <2>2. tampon' \in Seq(Caracteres)
    <3>1. Append(tampon, Head(fil)) \in Seq(Caracteres)
      BY <1>0, <2>1, AppendProperties
    <3>2. tampon' = tampon \/ tampon' = Append(tampon, Head(fil))
      BY <1>3 DEF ReceptionInterrupt
    <3> QED BY <1>0, <3>1, <3>2
  <2> QED BY <1>0, <1>3, <2>1, <2>2 DEF ReceptionInterrupt
<1>4. CASE serialEvent
  <2>1. Head(tampon) \in Caracteres /\ Tail(tampon) \in Seq(Caracteres)
    BY <1>0, <1>4, HeadTailProperties DEF serialEvent
  <2>2. Ajoute(inputString, Head(tampon)) \in Seq(Caracteres)
    BY <1>0, <2>1 DEF Ajoute
  <2>3. Ajoute(inputString, Head(tampon)) # <<>>
    <3>1. CASE Len(inputString) < MaxLigne
      BY <1>0, <2>1, <3>1, AppendProperties DEF Ajoute
    <3>2. CASE ~(Len(inputString) < MaxLigne)
      BY <1>0, <2>1, <3>2, CapaciteAssumption DEF Ajoute
    <3> QED BY <3>1, <3>2
  <2>4. enMessage' \in BOOLEAN /\ coupe' \in BOOLEAN
    BY <1>0, <1>4 DEF serialEvent
  <2> QED BY <1>0, <1>4, <2>1, <2>2, <2>3, <2>4 DEF serialEvent
<1>5. CASE parseMessage
  <2>1. ordres' = OrdresArret
    BY <1>0, <1>5, LigneArrete DEF parseMessage
  <2>2. inputString' = <<>> /\ <<>> \in Seq(Caracteres) /\ ~enMessage'
    BY <1>5, EmptySeq DEF parseMessage, LigneApresMessage
  <2> QED BY <1>0, <1>5, <2>1, <2>2 DEF parseMessage
<1> QED BY <1>1, <1>2, <1>3, <1>4, <1>5 DEF Next, Utilisateur, Reseau, Serveur, Sketch, Trame, vars,
      Connexion, Accept, Recv, RecvFerme

LEMMA TypeDepart == ASSUME Init PROVE TypeICar
<1>1. TypeTelecommande
  BY OctetsBornes DEF Init, TelecommandeInit, TypeTelecommande
<1>2. TypeServeur
  <2>1. entrantes \in Seq(Sessions)
    BY EmptySeq DEF Init, ServeurInit
  <2>2. buff = <<0, 0>>
    BY DEF Init, ServeurInit
  <2>3. buff[1] = 0 /\ buff[2] = 0
    BY <2>2
  <2> QED BY <2>1, <2>2, <2>3, OctetsBornes DEF Init, ServeurInit, TypeServeur
<1>3. TypeTrame
  <2>1. fil \in Seq(Caracteres) /\ tampon \in Seq(Caracteres) /\ inputString \in Seq(Caracteres)
    BY EmptySeq DEF Init, TrameInit
  <2> QED BY <2>1 DEF Init, TrameInit, TypeTrame
<1> QED BY <1>1, <1>2, <1>3 DEF TypeICar

-----------------------------------------------------------------------------
(* The pairs of a stream: what happens to them when a pair is added, when  *)
(* the 'S' is, and when two bytes are read.                                *)
Paires(f, E) == \A k \in Nat : 2 * k + 2 <= Len(f) => <<f[2 * k + 1], f[2 * k + 2]>> \in E
Pair(f) == \E k \in Nat : Len(f) = 2 * k
Impair(f) == \E k \in Nat : Len(f) = 2 * k + 1

LEMMA PaireAjoutee ==
    ASSUME NEW f \in Seq(Octets), NEW E, Paires(f, E), Pair(f), NEW a \in Octets, NEW b \in Octets
    PROVE  Paires(f \o <<a, b>>, E \cup {<<a, b>>}) /\ Pair(f \o <<a, b>>)
<1> DEFINE g == f \o <<a, b>>
<1>1. PICK j \in Nat : Len(f) = 2 * j
  BY DEF Pair
<1>2. <<a, b>> \in Seq(Octets) /\ Len(<<a, b>>) = 2
  OBVIOUS
<1>3. /\ Len(g) = 2 * j + 2
      /\ \A i \in 1..(2 * j) : g[i] = f[i]
      /\ g[2 * j + 1] = a /\ g[2 * j + 2] = b
  <2>1. /\ Len(g) = Len(f) + 2
        /\ \A i \in 1..(Len(f) + 2) : g[i] = IF i <= Len(f) THEN f[i] ELSE <<a, b>>[i - Len(f)]
    BY <1>2, ConcatProperties
  <2> HIDE DEF g
  <2>2. \A i \in 1..(2 * j) : g[i] = f[i]
    BY <1>1, <2>1
  <2>3. g[2 * j + 1] = <<a, b>>[1] /\ g[2 * j + 2] = <<a, b>>[2]
    BY <1>1, <2>1
  <2> QED BY <1>1, <2>1, <2>2, <2>3
<1> HIDE DEF g
<1>4. ASSUME NEW k \in Nat, 2 * k + 2 <= Len(g)
      PROVE  <<g[2 * k + 1], g[2 * k + 2]>> \in E \cup {<<a, b>>}
  <2>1. CASE k = j
    BY <1>3, <2>1
  <2>2. CASE k # j
    <3>1. 2 * k + 2 <= 2 * j
      BY <1>3, <1>4, <2>2
    <3>2. g[2 * k + 1] = f[2 * k + 1] /\ g[2 * k + 2] = f[2 * k + 2]
      BY <1>3, <3>1
    <3> QED BY <1>1, <3>1, <3>2 DEF Paires
  <2> QED BY <2>1, <2>2
<1>5. Len(g) = 2 * (j + 1) /\ j + 1 \in Nat
  BY <1>3
<1> QED BY <1>4, <1>5 DEF Paires, Pair, g

LEMMA ArretAjoute ==
    ASSUME NEW f \in Seq(Octets), NEW E, Paires(f, E), Pair(f), NEW a \in Octets
    PROVE  Paires(Append(f, a), E) /\ Impair(Append(f, a))
<1> DEFINE g == Append(f, a)
<1>1. PICK j \in Nat : Len(f) = 2 * j
  BY DEF Pair
<1>2. Len(g) = 2 * j + 1 /\ \A i \in 1..(2 * j) : g[i] = f[i]
  BY <1>1, AppendProperties
<1> HIDE DEF g
<1>3. ASSUME NEW k \in Nat, 2 * k + 2 <= Len(g)
      PROVE  <<g[2 * k + 1], g[2 * k + 2]>> \in E
  <2>1. 2 * k + 2 <= 2 * j
    BY <1>2, <1>3
  <2>2. g[2 * k + 1] = f[2 * k + 1] /\ g[2 * k + 2] = f[2 * k + 2]
    BY <1>2, <2>1
  <2> QED BY <1>1, <2>1, <2>2 DEF Paires
<1> QED BY <1>2, <1>3 DEF Paires, Impair, g

LEMMA PaireLue ==
    ASSUME NEW f \in Seq(Octets), NEW E, Paires(f, E), 2 <= Len(f)
    PROVE  /\ <<f[1], f[2]>> \in E
           /\ Paires(SubSeq(f, 3, Len(f)), E)
           /\ Pair(f) => Pair(SubSeq(f, 3, Len(f)))
           /\ Impair(f) => Impair(SubSeq(f, 3, Len(f)))
<1> DEFINE g == SubSeq(f, 3, Len(f))
<1>1. Len(g) = Len(f) - 2 /\ \A i \in 1..(Len(f) - 2) : g[i] = f[i + 2]
  <2>0. Len(f) \in Nat /\ Len(f) \geq 2
    OBVIOUS
  <2>1. Len(f) \in Nat /\ 3 \in Int /\ \A i \in 3..Len(f) : f[i] \in Octets
    OBVIOUS
  <2>2. /\ Len(g) = IF 3 <= Len(f) THEN Len(f) - 3 + 1 ELSE 0
        /\ \A i \in 1..(Len(f) - 3 + 1) : g[i] = f[3 + i - 1]
    BY <2>1, SubSeqProperties
  <2> HIDE DEF g
  <2>3. Len(g) = Len(f) - 2
    <3>1. Len(g) = IF 3 <= Len(f) THEN Len(f) - 3 + 1 ELSE 0
      BY <2>2
    <3>2. CASE 3 <= Len(f)
      BY <2>1, <3>1, <3>2
    <3>3. CASE ~(3 <= Len(f))
      <4>0. \A m \in Nat : m \geq 2 /\ ~(3 <= m) => m = 2
        OBVIOUS
      <4>1. Len(f) = 2
        BY <2>0, <3>3, <4>0
      <4> QED BY <3>1, <3>3, <4>1
    <3> QED BY <3>2, <3>3
  <2>4. ASSUME NEW i \in 1..(Len(f) - 2) PROVE g[i] = f[i + 2]
    <3>1. i \in 1..(Len(f) - 3 + 1) /\ 3 + i - 1 = i + 2
      BY <2>1
    <3>2. g[i] = f[3 + i - 1]
      BY <2>2, <3>1
    <3> QED BY <3>1, <3>2
  <2> QED BY <2>3, <2>4
<1> HIDE DEF g
<1>2. <<f[1], f[2]>> \in E
  <2>1. 2 * 0 + 2 <= Len(f) /\ 2 * 0 + 1 = 1 /\ 2 * 0 + 2 = 2 /\ 0 \in Nat
    OBVIOUS
  <2> QED BY <2>1 DEF Paires
<1>3. ASSUME NEW k \in Nat, 2 * k + 2 <= Len(g)
      PROVE  <<g[2 * k + 1], g[2 * k + 2]>> \in E
  <2>1. k + 1 \in Nat /\ 2 * (k + 1) + 2 <= Len(f)
    BY <1>1, <1>3
  <2>2. <<f[2 * (k + 1) + 1], f[2 * (k + 1) + 2]>> \in E
    BY <2>1 DEF Paires
  <2>3. g[2 * k + 1] = f[2 * (k + 1) + 1] /\ g[2 * k + 2] = f[2 * (k + 1) + 2]
    BY <1>1, <1>3
  <2> QED BY <2>2, <2>3
<1>4. ASSUME NEW k \in Nat, Len(f) = 2 * k PROVE Pair(g)
  <2>1. k - 1 \in Nat /\ Len(g) = 2 * (k - 1)
    BY <1>1, <1>4
  <2> QED BY <2>1 DEF Pair
<1>5. ASSUME NEW k \in Nat, Len(f) = 2 * k + 1 PROVE Impair(g)
  <2>1. k - 1 \in Nat /\ Len(g) = 2 * (k - 1) + 1
    BY <1>1, <1>5
  <2> QED BY <2>1 DEF Impair
<1> QED BY <1>2, <1>3, <1>4, <1>5 DEF Paires, Pair, Impair, g

-----------------------------------------------------------------------------
(* A session has no socket until its thread has ended, and none that is    *)
(* open once STOP has been pressed; its stream is made of pairs.           *)
Session(n) ==
    /\ thread[n] # "fini" => socket[n] = "null"
    /\ n \in stop => socket[n] = "ferme"

Apparies(n) ==
    /\ Paires(flux[n], faits[n])
    /\ n \in stop => Impair(flux[n])
    /\ n \notin stop => Pair(flux[n])

Couples ==
    /\ thread \in [Sessions -> {"aucun", "encours", "fini"}]
    /\ \A n \in Sessions : Session(n)
    /\ \A n \in Sessions : (n = csock /\ court) \/ Apparies(n)
    /\ csock # 0 /\ ~court => buff \in faits[csock] \cup {<<0, 0>>}

LEMMA CouplesPas ==
    ASSUME TypeICar, Couples, [Next]_vars
    PROVE  Couples'
<1> USE DEF Couples
<1>0. TypeTelecommande /\ TypeServeur
  BY DEF TypeICar
<1>b. /\ thread \in [Sessions -> {"aucun", "encours", "fini"}]
      /\ socket \in [Sessions -> {"null", "ouvert", "ferme"}] /\ stop \subseteq Sessions
      /\ flux \in [Sessions -> Seq(Octets)] /\ faits \in [Sessions -> SUBSET (Octets \X Octets)]
      /\ 0 \notin Sessions /\ csock \in Sessions \cup {0}
      /\ csock = 0 => ~court
  BY <1>0, GestesAssumption DEF TypeTelecommande, TypeServeur, Sessions
<1>1. ASSUME UNCHANGED <<stop, flux, faits>>, csock' = csock, court' = court, buff' = buff,
             thread' \in [Sessions -> {"aucun", "encours", "fini"}],
             \A n \in Sessions : Session(n)'
      PROVE  Couples'
  BY <1>1, <1>b DEF Apparies
<1>2. ASSUME Plante, csock' = csock, court' = court, buff' = buff PROVE Couples'
  <2>1. \A n \in Sessions : Session(n)'
    BY <1>2, <1>b DEF Plante, Session
  <2> QED BY <1>1, <1>2, <1>b, <2>1 DEF Plante
<1>3. ASSUME NEW n \in Sessions, startActivity(n), UNCHANGED serveurVars PROVE Couples'
  BY <1>1, <1>3, <1>b DEF startActivity, Session, serveurVars
<1>4. CASE QuitteEcran /\ UNCHANGED serveurVars
  BY <1>1, <1>4, <1>b DEF QuitteEcran, Session, serveurVars
<1>5. ASSUME NEW n \in Sessions, Connexion(n) PROVE Couples'
  <2>1. \A m \in Sessions : Session(m)'
    BY <1>5, <1>b DEF Connexion, SocketCree, Session
  <2> QED BY <1>1, <1>5, <1>b, <2>1 DEF Connexion, SocketCree
<1>6. ASSUME NEW n \in Sessions, SocketRefuse(n) \/ SocketRamasse(n), UNCHANGED serveurVars PROVE Couples'
  <2>1. \A m \in Sessions : Session(m)'
    BY <1>6, <1>b DEF SocketRefuse, SocketRamasse, Session
  <2> QED BY <1>1, <1>6, <1>b, <2>1 DEF SocketRefuse, SocketRamasse, serveurVars
<1>7. ASSUME NEW id \in Identifiants, NEW p \in Progressions, Geste(id, p), UNCHANGED serveurVars PROVE Couples'
  <2>1. CASE socket[ecran] # "ouvert"
    BY <1>2, <1>7, <2>1 DEF Geste, serveurVars
  <2>2. CASE socket[ecran] = "ouvert"
    <3>1. ecran \in Sessions /\ ecran \notin stop
      BY <1>0, <1>7, <1>b, <2>2 DEF Geste, TypeTelecommande, Session
    <3>2. /\ flux' = [flux EXCEPT ![ecran] = flux[ecran] \o <<id, p>>]
          /\ faits' = [faits EXCEPT ![ecran] = faits[ecran] \cup {<<id, p>>}]
          /\ UNCHANGED <<thread, socket, stop, csock, court, buff>>
      BY <1>7, <2>2 DEF Geste, Message, serveurVars
    <3>3. ASSUME NEW n \in Sessions, Apparies(n) PROVE Apparies(n)'
      <4>1. CASE n = ecran
        <5>1. Paires(flux[n], faits[n]) /\ Pair(flux[n]) /\ n \notin stop
          BY <3>1, <3>3, <4>1 DEF Apparies
        <5>2. id \in Octets /\ p \in Octets
          BY DEF Octets
        <5>3. /\ Paires(flux[n] \o <<id, p>>, faits[n] \cup {<<id, p>>})
              /\ Pair(flux[n] \o <<id, p>>)
          BY <1>b, <5>1, <5>2, PaireAjoutee
        <5>4. flux'[n] = flux[n] \o <<id, p>> /\ faits'[n] = faits[n] \cup {<<id, p>>} /\ n \notin stop'
          BY <1>b, <3>1, <3>2, <4>1
        <5> QED BY <5>3, <5>4 DEF Apparies
      <4>2. CASE n # ecran
        BY <1>b, <3>2, <3>3, <4>2 DEF Apparies
      <4> QED BY <4>1, <4>2
    <3>4. \A n \in Sessions : faits[n] \subseteq faits'[n] /\ Session(n)'
      BY <1>b, <3>2 DEF Session
    <3> QED BY <1>b, <3>2, <3>3, <3>4
  <2> QED BY <2>1, <2>2
<1>8. CASE Stop /\ UNCHANGED serveurVars
  <2>1. CASE socket[ecran] # "ouvert"
    BY <1>2, <1>8, <2>1 DEF Stop, serveurVars
  <2>2. CASE socket[ecran] = "ouvert"
    <3>1. ecran \in Sessions /\ ecran \notin stop
      BY <1>0, <1>8 DEF Stop, TypeTelecommande
    <3>2. /\ flux' = [flux EXCEPT ![ecran] = Append(flux[ecran], S)]
          /\ socket' = [socket EXCEPT ![ecran] = "ferme"]
          /\ stop' = stop \cup {ecran}
          /\ UNCHANGED <<thread, faits, csock, court, buff>>
      BY <1>8, <2>2 DEF Stop, serveurVars
    <3>3. ASSUME NEW n \in Sessions, Apparies(n) PROVE Apparies(n)'
      <4>1. CASE n = ecran
        <5>1. Paires(flux[n], faits[n]) /\ Pair(flux[n])
          BY <3>1, <3>3, <4>1 DEF Apparies
        <5>2. Paires(Append(flux[n], S), faits[n]) /\ Impair(Append(flux[n], S))
          BY <1>b, <5>1, OctetsBornes, ArretAjoute
        <5>3. flux'[n] = Append(flux[n], S) /\ faits'[n] = faits[n] /\ n \in stop'
          BY <1>b, <3>1, <3>2, <4>1
        <5> QED BY <5>2, <5>3 DEF Apparies
      <4>2. CASE n # ecran
        BY <1>b, <3>2, <3>3, <4>2 DEF Apparies
      <4> QED BY <4>1, <4>2
    <3>4. \A n \in Sessions : Session(n)'
      BY <1>b, <2>2, <3>1, <3>2 DEF Session
    <3> QED BY <1>b, <3>2, <3>3, <3>4
  <2> QED BY <2>1, <2>2
<1>9. CASE Accept
  <2>1. csock = 0 /\ csock' \in Sessions /\ buff' = <<0, 0>> /\ ~court'
    <3>1. csock = 0 /\ entrantes \in Seq(Sessions) /\ entrantes # <<>> /\ csock' = Head(entrantes)
      BY <1>0, <1>9 DEF Accept, TypeServeur
    <3>2. csock' \in Sessions
      BY <3>1, HeadTailProperties
    <3> QED BY <1>0, <1>9, <3>1, <3>2 DEF Accept, TypeServeur
  <2>2. UNCHANGED <<thread, socket, stop, flux, faits>>
    BY <1>9 DEF Accept, telecommandeVars
  <2>3. \A n \in Sessions : Session(n)' /\ (Apparies(n) => Apparies(n)')
    BY <2>2 DEF Session, Apparies
  <2>4. thread' \in [Sessions -> {"aucun", "encours", "fini"}]
    BY <2>2
  <2> QED BY <1>b, <2>1, <2>3, <2>4
<1>10. CASE RecvFerme \/ commandeActionneur \/ UNCHANGED <<telecommandeVars, serveurVars>>
  <2>1. UNCHANGED <<thread, socket, stop, flux, faits, csock, court, buff>>
    BY <1>10 DEF RecvFerme, commandeActionneur, telecommandeVars, serveurVars
  <2>2. \A n \in Sessions : Session(n)'
    BY <2>1 DEF Session
  <2> QED BY <1>1, <1>b, <2>1, <2>2
<1>11. ASSUME NEW k \in {1, 2}, Recv(k) PROVE Couples'
  <2>1. /\ csock \in Sessions /\ flux[csock] \in Seq(Octets) /\ k <= Len(flux[csock])
        /\ UNCHANGED <<thread, socket, stop, faits, csock>>
        /\ court' = (court \/ k = 1)
        /\ flux' = [flux EXCEPT ![csock] = SubSeq(flux[csock], k + 1, Len(flux[csock]))]
    BY <1>0, <1>11, <1>b DEF Recv, TypeServeur
  <2>2. \A n \in Sessions : Session(n)'
    BY <2>1 DEF Session
  <2>3. ASSUME NEW n \in Sessions, n # csock, Apparies(n) PROVE Apparies(n)'
    BY <1>b, <2>1, <2>3 DEF Apparies
  <2>4. CASE court'
    BY <1>b, <2>1, <2>2, <2>3, <2>4
  <2>5. CASE ~court'
    <3>1. k = 2 /\ ~court /\ Apparies(csock)
      BY <2>1, <2>5
    <3>2. /\ <<flux[csock][1], flux[csock][2]>> \in faits[csock]
          /\ Paires(SubSeq(flux[csock], 3, Len(flux[csock])), faits[csock])
          /\ Pair(flux[csock]) => Pair(SubSeq(flux[csock], 3, Len(flux[csock])))
          /\ Impair(flux[csock]) => Impair(SubSeq(flux[csock], 3, Len(flux[csock])))
      BY <2>1, <3>1, PaireLue DEF Apparies
    <3>3. flux'[csock] = SubSeq(flux[csock], 3, Len(flux[csock]))
      BY <1>b, <2>1, <3>1
    <3>4. Apparies(csock)'
      BY <2>1, <3>1, <3>2, <3>3 DEF Apparies
    <3>5. buff' = <<flux[csock][1], flux[csock][2]>>
      <4>1. buff' = [i \in 1..2 |-> IF i <= 2 THEN flux[csock][i] ELSE buff[i]]
        BY <1>11, <3>1 DEF Recv
      <4> QED BY <4>1
    <3> QED BY <1>b, <2>1, <2>2, <2>3, <3>2, <3>4, <3>5
  <2> QED BY <2>1, <2>4, <2>5
<1> QED BY <1>3, <1>4, <1>5, <1>6, <1>7, <1>8, <1>9, <1>10, <1>11
        DEF Next, Utilisateur, Reseau, Serveur, Sketch, vars

-----------------------------------------------------------------------------
(* How a text is cut into lines: the places of the '\n', and how many      *)
(* there are up to one of them.                                            *)
Fins(t) == {p \in DOMAIN t : t[p] = Lf}
Rang(t, p) == Cardinality({q \in Fins(t) : q <= p})
Fin(t, k) == IF k = 0 THEN 0 ELSE CHOOSE p \in Fins(t) : Rang(t, p) = k

LEMMA DecoupeFins ==
    ASSUME NEW t
    PROVE  Decoupe(t) = [k \in 1..Cardinality(Fins(t)) |-> SubSeq(t, Fin(t, k - 1) + 1, Fin(t, k))]
BY DEF Decoupe, Fin, Rang, Fins

(* A text of whole lines, in which each '\n' has its rank. *)
Entier(t) ==
    /\ t \in Seq(Caracteres)
    /\ t = <<>> \/ t[Len(t)] = Lf
    /\ \A k \in 1..Cardinality(Fins(t)) : \E p \in Fins(t) : Rang(t, p) = k

LEMMA FinsFinies ==
    ASSUME NEW t \in Seq(Caracteres)
    PROVE  /\ IsFiniteSet(Fins(t)) /\ Cardinality(Fins(t)) \in Nat
           /\ Fins(t) \subseteq 1..Len(t)
           /\ \A p \in Nat : IsFiniteSet({q \in Fins(t) : q <= p}) /\ Rang(t, p) \in Nat
<1>1. Len(t) \in Nat /\ DOMAIN t = 1..Len(t)
  OBVIOUS
<1>2. Fins(t) \subseteq 1..Len(t)
  BY <1>1 DEF Fins
<1>3. IsFiniteSet(1..Len(t))
  BY <1>1, FS_Interval
<1>4. IsFiniteSet(Fins(t)) /\ Cardinality(Fins(t)) \in Nat
  BY <1>2, <1>3, FS_Subset, FS_CardinalityType
<1>5. ASSUME NEW p \in Nat
      PROVE  IsFiniteSet({q \in Fins(t) : q <= p}) /\ Rang(t, p) \in Nat
  <2>1. {q \in Fins(t) : q <= p} \in SUBSET Fins(t)
    OBVIOUS
  <2> QED BY <1>4, <2>1, FS_Subset, FS_CardinalityType DEF Rang
<1> QED BY <1>2, <1>4, <1>5

LEMMA RangStrict ==
    ASSUME NEW t \in Seq(Caracteres), NEW p \in Fins(t), NEW q \in Fins(t), p < q
    PROVE  Rang(t, p) < Rang(t, q)
<1> DEFINE P == {x \in Fins(t) : x <= p}
           Q == {x \in Fins(t) : x <= q}
<1>1. p \in Nat /\ q \in Nat /\ Fins(t) \subseteq Nat
  BY FinsFinies
<1>2. IsFiniteSet(Q) /\ Cardinality(Q) \in Nat /\ Cardinality(P) \in Nat
  BY <1>1, FinsFinies DEF Rang
<1>3. P \in SUBSET (Q \ {q}) /\ q \in Q
  BY <1>1
<1> HIDE DEF P, Q
<1>4. IsFiniteSet(Q \ {q}) /\ Cardinality(Q \ {q}) = Cardinality(Q) - 1
  BY <1>2, <1>3, FS_RemoveElement
<1>5. Cardinality(P) <= Cardinality(Q \ {q})
  BY <1>3, <1>4, FS_Subset
<1>6. Cardinality(P) < Cardinality(Q)
  BY <1>2, <1>4, <1>5
<1> QED BY <1>6 DEF Rang, P, Q

LEMMA RangUn ==
    ASSUME NEW t \in Seq(Caracteres), NEW p \in Fins(t)
    PROVE  Rang(t, p) \in Nat /\ Rang(t, p) > 0
<1>1. p \in Nat /\ Fins(t) \subseteq Nat
  BY FinsFinies
<1> DEFINE P == {x \in Fins(t) : x <= p}
<1>2. IsFiniteSet(P) /\ P # {} /\ Cardinality(P) \in Nat
  <2>1. IsFiniteSet(P) /\ Cardinality(P) \in Nat
    BY <1>1, FinsFinies DEF Rang
  <2>2. p \in P
    BY <1>1
  <2> QED BY <2>1, <2>2
<1>3. Rang(t, p) = Cardinality(P)
  BY DEF Rang
<1> HIDE DEF P
<1>4. Cardinality(P) # 0
  BY <1>2, FS_EmptySet
<1> QED BY <1>2, <1>3, <1>4

LEMMA FinDe ==
    ASSUME NEW t \in Seq(Caracteres), NEW p \in Fins(t)
    PROVE  Fin(t, Rang(t, p)) = p
<1>1. Rang(t, p) # 0
  BY RangUn
<1> DEFINE c == CHOOSE x \in Fins(t) : Rang(t, x) = Rang(t, p)
<1>2. c \in Fins(t) /\ Rang(t, c) = Rang(t, p)
  OBVIOUS
<1>3. Fin(t, Rang(t, p)) = c
  BY <1>1 DEF Fin
<1> HIDE DEF c
<1>4. c \in Nat /\ p \in Nat
  BY <1>2, FinsFinies
<1>5. ~(c < p) /\ ~(p < c)
  <2>1. c < p => Rang(t, c) < Rang(t, p)
    BY <1>2, RangStrict
  <2>2. p < c => Rang(t, p) < Rang(t, c)
    BY <1>2, RangStrict
  <2> QED BY <1>2, <2>1, <2>2, RangUn
<1> QED BY <1>3, <1>4, <1>5

(* The last '\n' has the last rank. *)
LEMMA RangDernier ==
    ASSUME NEW t \in Seq(Caracteres), t # <<>>, t[Len(t)] = Lf
    PROVE  Len(t) \in Fins(t) /\ Rang(t, Len(t)) = Cardinality(Fins(t))
<1>1. Len(t) \in DOMAIN t
  OBVIOUS
<1>2. \A q \in Fins(t) : q <= Len(t)
  BY FinsFinies
<1>3. {q \in Fins(t) : q <= Len(t)} = Fins(t)
  BY <1>2
<1> QED BY <1>1, <1>3 DEF Fins, Rang

(* The places of the lines in a text of whole lines. *)
LEMMA FinsEntier ==
    ASSUME NEW t, Entier(t)
    PROVE  /\ \A k \in 1..Cardinality(Fins(t)) : Fin(t, k) \in Fins(t) /\ Rang(t, Fin(t, k)) = k
           /\ \A k \in 1..Cardinality(Fins(t)) : Fin(t, k - 1) \in Nat /\ Fin(t, k - 1) < Fin(t, k)
           /\ Fin(t, 0) = 0
           /\ Fin(t, Cardinality(Fins(t))) = Len(t)
<1>t. t \in Seq(Caracteres)
  BY DEF Entier
<1>1. ASSUME NEW k \in 1..Cardinality(Fins(t))
      PROVE  Fin(t, k) \in Fins(t) /\ Rang(t, Fin(t, k)) = k
  <2>1. PICK p \in Fins(t) : Rang(t, p) = k
    BY DEF Entier
  <2> QED BY <1>t, <2>1, FinDe
<1>2. Fin(t, 0) = 0
  BY DEF Fin
<1>3. ASSUME NEW k \in 1..Cardinality(Fins(t))
      PROVE  Fin(t, k - 1) \in Nat /\ Fin(t, k - 1) < Fin(t, k)
  <2>0. Fin(t, k) \in Nat /\ Fin(t, k) > 0 /\ Cardinality(Fins(t)) \in Nat
    BY <1>t, <1>1, FinsFinies
  <2>1. CASE k = 1
    BY <1>2, <2>0, <2>1
  <2>2. CASE k # 1
    <3>1. k - 1 \in 1..Cardinality(Fins(t))
      BY <2>0, <2>2
    <3>2. Fin(t, k - 1) \in Fins(t) /\ Rang(t, Fin(t, k - 1)) = k - 1 /\ Fin(t, k) \in Fins(t) /\ Rang(t, Fin(t, k)) = k
      BY <1>1, <3>1
    <3>3. Fin(t, k - 1) \in Nat
      BY <1>t, <3>2, FinsFinies
    <3>4. ~(Fin(t, k) < Fin(t, k - 1))
      BY <1>t, <3>2, RangStrict
    <3>5. Fin(t, k) # Fin(t, k - 1)
      BY <3>2
    <3> QED BY <2>0, <3>3, <3>4, <3>5
  <2> QED BY <2>1, <2>2
<1>4. Fin(t, Cardinality(Fins(t))) = Len(t)
  <2>1. CASE t = <<>>
    <3>1. Fins(t) = {} /\ Len(t) = 0
      BY <2>1 DEF Fins
    <3> QED BY <1>2, <3>1, FS_EmptySet
  <2>2. CASE t # <<>>
    <3>1. Len(t) \in Fins(t) /\ Rang(t, Len(t)) = Cardinality(Fins(t))
      BY <1>t, <2>2, RangDernier DEF Entier
    <3> QED BY <1>t, <3>1, FinDe
  <2> QED BY <2>1, <2>2
<1> QED BY <1>1, <1>2, <1>3, <1>4

(* A line is added to the text. *)
LEMMA LigneAjoutee ==
    ASSUME NEW t, Entier(t), NEW l, EstLigne(l)
    PROVE  Entier(t \o l) /\ Decoupe(t \o l) = Append(Decoupe(t), l)
<1> DEFINE u == t \o l
           N == Cardinality(Fins(t))
<1>t. /\ t \in Seq(Caracteres) /\ l \in Seq(Caracteres) /\ N \in Nat
      /\ Len(t) \in Nat /\ Len(l) \in Nat /\ Len(l) > 0
  BY FinsFinies DEF Entier, EstLigne
<1>u. /\ u \in Seq(Caracteres) /\ Len(u) = Len(t) + Len(l)
      /\ \A i \in 1..(Len(t) + Len(l)) : u[i] = IF i <= Len(t) THEN t[i] ELSE l[i - Len(t)]
  BY <1>t, ConcatProperties
<1> HIDE DEF u
<1>1. Fins(u) = Fins(t) \cup {Len(u)} /\ Len(u) \notin Fins(t)
  <2>0. DOMAIN u = 1..Len(u) /\ DOMAIN t = 1..Len(t)
    BY <1>t, <1>u
  <2>1. ASSUME NEW p \in 1..Len(u), u[p] = Lf PROVE p \in Fins(t) \/ p = Len(u)
    <3>1. CASE p <= Len(t)
      BY <1>t, <1>u, <2>0, <2>1, <3>1 DEF Fins
    <3>2. CASE p > Len(t)
      <4>1. u[p] = l[p - Len(t)] /\ p - Len(t) \in 1..Len(l)
        BY <1>t, <1>u, <3>2
      <4>2. p - Len(t) \notin 1..(Len(l) - 1)
        <5>1. \A i \in 1..(Len(l) - 1) : l[i] \in Chiffres
          BY DEF EstLigne
        <5>2. l[p - Len(t)] \notin Chiffres
          BY <2>1, <4>1 DEF Chiffres, Lf
        <5> QED BY <5>1, <5>2
      <4> QED BY <1>t, <1>u, <4>1, <4>2
    <3> QED BY <1>t, <3>1, <3>2
  <2>2. u[Len(u)] = Lf /\ Len(u) \in 1..Len(u)
    <3>1. u[Len(u)] = l[Len(u) - Len(t)] /\ Len(u) - Len(t) = Len(l)
      BY <1>t, <1>u
    <3> QED BY <1>t, <1>u, <3>1 DEF EstLigne
  <2>3. ASSUME NEW p \in Fins(t) PROVE p \in 1..Len(u) /\ u[p] = Lf /\ p # Len(u)
    <3>1. p \in 1..Len(t) /\ t[p] = Lf
      BY <2>0 DEF Fins
    <3> QED BY <1>t, <1>u, <3>1
  <2>4. Fins(u) \subseteq Fins(t) \cup {Len(u)}
    BY <2>0, <2>1 DEF Fins
  <2>5. Fins(t) \cup {Len(u)} \subseteq Fins(u)
    <3>1. Len(u) \in Fins(u)
      BY <2>0, <2>2 DEF Fins
    <3>2. \A p \in Fins(t) : p \in Fins(u)
      BY <2>0, <2>3 DEF Fins
    <3> QED BY <3>1, <3>2
  <2> QED BY <2>3, <2>4, <2>5
<1>2. Cardinality(Fins(u)) = N + 1
  BY <1>t, <1>1, FinsFinies, FS_AddElement
<1>3. ASSUME NEW p \in Fins(t) PROVE p \in Fins(u) /\ Rang(u, p) = Rang(t, p)
  <2>1. p \in Nat /\ p < Len(u) /\ Len(u) \in Nat
    BY <1>t, <1>u, FinsFinies
  <2>2. {q \in Fins(u) : q <= p} = {q \in Fins(t) : q <= p}
    BY <1>1, <2>1
  <2> QED BY <1>1, <2>2 DEF Rang
<1>4. u # <<>> /\ u[Len(u)] = Lf
  BY <1>1, <1>t, <1>u DEF Fins
<1>5. Len(u) \in Fins(u) /\ Rang(u, Len(u)) = N + 1
  BY <1>2, <1>4, <1>u, RangDernier
<1>6. Entier(u)
  <2>1. ASSUME NEW k \in 1..(N + 1) PROVE \E p \in Fins(u) : Rang(u, p) = k
    <3>1. CASE k = N + 1
      BY <1>5, <3>1
    <3>2. CASE k # N + 1
      <4>1. k \in 1..N
        BY <1>t, <3>2
      <4>2. Fin(t, k) \in Fins(t) /\ Rang(t, Fin(t, k)) = k
        BY <4>1, FinsEntier
      <4> QED BY <1>3, <4>2
    <3> QED BY <3>1, <3>2
  <2> QED BY <1>2, <1>4, <1>u, <2>1 DEF Entier
<1>7. \A k \in 0..N : Fin(u, k) = Fin(t, k)
  <2>1. Fin(u, 0) = Fin(t, 0)
    BY DEF Fin
  <2>2. ASSUME NEW k \in 1..N PROVE Fin(u, k) = Fin(t, k)
    <3>1. Fin(t, k) \in Fins(t) /\ Rang(t, Fin(t, k)) = k
      BY FinsEntier
    <3>2. Fin(t, k) \in Fins(u) /\ Rang(u, Fin(t, k)) = k
      BY <1>3, <3>1
    <3> QED BY <1>u, <3>2, FinDe
  <2> QED BY <1>t, <2>1, <2>2
<1>8. Fin(u, N + 1) = Len(u) /\ Fin(u, N) = Len(t)
  <2>1. Fin(u, N + 1) = Len(u)
    BY <1>5, <1>u, FinDe
  <2> QED BY <1>t, <1>7, <2>1, FinsEntier
<1>9. ASSUME NEW k \in 1..N PROVE SubSeq(u, Fin(u, k - 1) + 1, Fin(u, k)) = SubSeq(t, Fin(t, k - 1) + 1, Fin(t, k))
  <2>1. Fin(u, k - 1) = Fin(t, k - 1) /\ Fin(u, k) = Fin(t, k)
    BY <1>t, <1>7
  <2>2. Fin(t, k) \in 1..Len(t) /\ Fin(t, k - 1) \in Nat /\ Fin(t, k - 1) < Fin(t, k)
    BY <1>t, FinsEntier, FinsFinies
  <2>3. Fin(t, k - 1) + 1 \in 1..Len(t)
    BY <1>t, <2>2
  <2> QED BY SMTT(20), <1>t, <2>1, <2>2, <2>3, SubSeqOfConcat1 DEF u
<1>10. SubSeq(u, Fin(u, N) + 1, Fin(u, N + 1)) = l
  <2>1. SubSeq(u, Len(t) + 1, Len(t) + Len(l)) = SubSeq(l, Len(t) + 1 - Len(t), Len(t) + Len(l) - Len(t))
    <3>1. Len(t) + 1 \in Len(t) + 1 .. Len(t) + Len(l) /\ Len(t) + Len(l) \in Len(t) + 1 .. Len(t) + Len(l)
      BY <1>t
    <3> QED BY <1>t, <3>1, SubSeqOfConcat2 DEF u
  <2>2. Len(t) + 1 - Len(t) = 1 /\ Len(t) + Len(l) - Len(t) = Len(l)
    BY <1>t
  <2>3. SubSeq(l, 1, Len(l)) = l
    BY <1>t, SubSeqFull
  <2> QED BY <1>8, <1>u, <2>1, <2>2, <2>3
<1>11. Decoupe(u) = Append(Decoupe(t), l)
  <2> DEFINE A == Decoupe(t)
             B == Decoupe(u)
  <2>1. A = [k \in 1..N |-> SubSeq(t, Fin(t, k - 1) + 1, Fin(t, k))]
    BY DecoupeFins
  <2>2. B = [k \in 1..(N + 1) |-> SubSeq(u, Fin(u, k - 1) + 1, Fin(u, k))]
    BY <1>2, DecoupeFins
  <2> HIDE DEF A, B, N
  <2> DEFINE E == {A[k] : k \in 1..N} \cup {l}
  <2>3. A \in Seq(E) /\ Len(A) = N /\ l \in E
    <3>1. \A k \in 1..N : A[k] \in E
      OBVIOUS
    <3>2. l \in E
      OBVIOUS
    <3> HIDE DEF E
    <3> QED BY <1>t, <2>1, <3>1, <3>2
  <2>4. /\ Append(A, l) \in Seq(E) /\ Len(Append(A, l)) = N + 1
        /\ \A k \in 1..N : Append(A, l)[k] = A[k]
        /\ Append(A, l)[N + 1] = l
    BY <2>3, AppendProperties
  <2>5. ASSUME NEW k \in 1..(N + 1) PROVE B[k] = Append(A, l)[k]
    <3>0. B[k] = SubSeq(u, Fin(u, k - 1) + 1, Fin(u, k))
      BY <2>2
    <3>1. CASE k = N + 1
      <4>1. k - 1 = N
        BY <1>t, <3>1
      <4> QED BY <1>10, <2>4, <3>0, <3>1, <4>1
    <3>2. CASE k # N + 1
      <4>1. k \in 1..N
        BY <1>t, <3>2
      <4>2. A[k] = SubSeq(t, Fin(t, k - 1) + 1, Fin(t, k))
        BY <2>1, <4>1
      <4> QED BY <1>9, <2>4, <3>0, <4>1, <4>2
    <3> QED BY <3>1, <3>2
  <2>6. B = Append(A, l)
    <3>1. \A k \in 1..(N + 1) : B[k] \in E
      <4>1. \A k \in 1..N : A[k] \in E
        OBVIOUS
      <4>2. \A k \in 1..(N + 1) : k \in 1..N \/ k = N + 1
        BY <1>t
      <4> HIDE DEF E
      <4> QED BY <2>3, <2>4, <2>5, <4>1, <4>2
    <3>2. B \in Seq(E) /\ Len(B) = N + 1
      <4> HIDE DEF E
      <4> QED BY <1>t, <2>2, <3>1
    <3> HIDE DEF E
    <3> QED BY <2>4, <2>5, <3>2, SeqEqual
  <2> QED BY <2>6 DEF A, B
<1> QED BY <1>6, <1>11 DEF u

(* As many elements, further. *)
LEMMA Decale ==
    ASSUME NEW X \in SUBSET Nat, IsFiniteSet(X), NEW n \in Nat
    PROVE  IsFiniteSet({x + n : x \in X}) /\ Cardinality({x + n : x \in X}) = Cardinality(X)
<1> DEFINE Y == {x + n : x \in X}
           f == [x \in X |-> x + n]
<1>1. f \in [X -> Y]
  OBVIOUS
<1>2. \A a, b \in X : f[a] = f[b] => a = b
  OBVIOUS
<1>3. \A y \in Y : \E x \in X : f[x] = y
  OBVIOUS
<1> HIDE DEF f, Y
<1>4. f \in Bijection(X, Y)
  BY <1>1, <1>2, <1>3, Fun_IsBij
<1>5. ExistsBijection(X, Y)
  BY <1>4 DEF ExistsBijection
<1>6. IsFiniteSet(Y) /\ Cardinality(Y) = Cardinality(X)
  BY <1>5, FS_Bijection
<1> QED BY <1>6 DEF Y

(* The first line is taken from the text. *)
LEMMA LigneOtee ==
    ASSUME NEW l, EstLigne(l), NEW u \in Seq(Caracteres), Entier(l \o u)
    PROVE  /\ Entier(u)
           /\ Decoupe(l \o u) # <<>> /\ Head(Decoupe(l \o u)) = l /\ Tail(Decoupe(l \o u)) = Decoupe(u)
<1> DEFINE t == l \o u
           N == Cardinality(Fins(u))
           L == Len(l)
<1>t. /\ l \in Seq(Caracteres) /\ N \in Nat
      /\ Len(u) \in Nat /\ L \in Nat /\ L > 0
  BY FinsFinies DEF EstLigne
<1>u. /\ t \in Seq(Caracteres) /\ Len(t) = L + Len(u)
      /\ \A i \in 1..(L + Len(u)) : t[i] = IF i <= L THEN l[i] ELSE u[i - L]
  BY <1>t, ConcatProperties
<1>e. Entier(t)
  OBVIOUS
<1> HIDE DEF t
<1>d. DOMAIN u = 1..Len(u) /\ DOMAIN t = 1..Len(t)
  BY <1>t, <1>u
<1>1. L \in Fins(t) /\ \A p \in Fins(t) : p = L \/ (p > L /\ p - L \in Fins(u))
  <2>1. t[L] = l[L] /\ l[L] = Lf
    BY <1>t, <1>u DEF EstLigne
  <2>2. ASSUME NEW p \in 1..Len(t), t[p] = Lf PROVE p = L \/ (p > L /\ p - L \in Fins(u))
    <3>1. CASE p < L
      <4>1. t[p] = l[p] /\ p \in 1..(L - 1)
        BY <1>t, <1>u, <3>1
      <4>2. l[p] \in Chiffres
        BY <4>1 DEF EstLigne
      <4> QED BY <2>2, <4>1, <4>2 DEF Chiffres, Lf
    <3>2. CASE p > L
      <4>1. t[p] = u[p - L] /\ p - L \in 1..Len(u)
        BY <1>t, <1>u, <3>2
      <4> QED BY <1>d, <2>2, <3>2, <4>1 DEF Fins
    <3> QED BY <1>t, <3>1, <3>2
  <2> QED BY <1>t, <1>u, <1>d, <2>1, <2>2 DEF Fins
<1>2. \A q \in Fins(u) : q \in 1..Len(u) /\ q + L \in Fins(t)
  BY <1>t, <1>u, <1>d DEF Fins
<1>3. Fins(t) = {L} \cup {q + L : q \in Fins(u)} /\ L \notin {q + L : q \in Fins(u)}
  <2>1. \A p \in Fins(t) : p = L \/ \E q \in Fins(u) : p = q + L
    <3> SUFFICES ASSUME NEW p \in Fins(t), p # L PROVE \E q \in Fins(u) : p = q + L
      OBVIOUS
    <3>1. p - L \in Fins(u) /\ p = (p - L) + L
      BY <1>1, <1>t, <1>u, FinsFinies
    <3> QED BY <3>1
  <2>2. \A q \in Fins(u) : q + L # L
    BY <1>2, <1>t
  <2> QED BY <1>1, <1>2, <2>1, <2>2
<1>4. ASSUME NEW q \in Fins(u) PROVE q + L \in Fins(t) /\ Rang(t, q + L) = Rang(u, q) + 1
  <2> DEFINE X == {x \in Fins(u) : x <= q}
             Y == {x + L : x \in X}
  <2>0. q \in Nat /\ Fins(u) \subseteq Nat
    BY FinsFinies
  <2>1. X \in SUBSET Nat /\ IsFiniteSet(X) /\ Cardinality(X) = Rang(u, q) /\ Cardinality(X) \in Nat
    BY <2>0, FinsFinies DEF Rang
  <2>2. {x \in Fins(t) : x <= q + L} = Y \cup {L} /\ L \notin Y
    <3>1. \A x \in Fins(t) : x <= q + L <=> x = L \/ \E z \in X : x = z + L
      BY <1>3, <1>t, <2>0
    <3>2. \A x \in Y : x \in Fins(t)
      BY <1>2
    <3> QED BY <1>1, <1>3, <3>1, <3>2
  <2> HIDE DEF X
  <2>3. IsFiniteSet(Y) /\ Cardinality(Y) = Cardinality(X)
    BY <1>t, <2>1, Decale
  <2> HIDE DEF Y
  <2>4. Cardinality(Y \cup {L}) = Cardinality(X) + 1
    BY <2>1, <2>2, <2>3, FS_AddElement
  <2> QED BY <1>2, <2>1, <2>2, <2>4 DEF Rang
<1>5. Rang(t, L) = 1
  <2>0. \A x \in Fins(t) : x \in Nat /\ (x <= L <=> x = L)
    BY <1>1, <1>t, <1>u, FinsFinies
  <2>1. {x \in Fins(t) : x <= L} = {L}
    BY <1>1, <2>0
  <2> QED BY <2>1, FS_Singleton DEF Rang
<1>6. Cardinality(Fins(t)) = N + 1
  <2>1. IsFiniteSet(Fins(u)) /\ Fins(u) \in SUBSET Nat
    BY FinsFinies
  <2>2. IsFiniteSet({q + L : q \in Fins(u)}) /\ Cardinality({q + L : q \in Fins(u)}) = N
    BY <1>t, <2>1, Decale
  <2>3. Cardinality({q + L : q \in Fins(u)} \cup {L}) = N + 1
    BY <1>t, <1>3, <2>2, FS_AddElement
  <2> QED BY <1>3, <2>3
<1>7. Entier(u)
  <2>1. u = <<>> \/ u[Len(u)] = Lf
    <3>1. CASE u # <<>>
      <4>1. Len(u) > 0 /\ t # <<>> /\ t[Len(t)] = u[Len(t) - L] /\ Len(t) - L = Len(u)
        BY <1>t, <1>u, <3>1
      <4> QED BY <1>e, <4>1 DEF Entier
    <3> QED BY <3>1
  <2>2. ASSUME NEW k \in 1..N PROVE \E p \in Fins(u) : Rang(u, p) = k
    <3>1. k + 1 \in 1..Cardinality(Fins(t))
      BY <1>t, <1>6
    <3>2. PICK p \in Fins(t) : Rang(t, p) = k + 1
      BY <1>e, <3>1 DEF Entier
    <3>3. p # L
      BY <1>5, <3>2
    <3>4. PICK q \in Fins(u) : p = q + L
      BY <1>3, <3>3
    <3>5. Rang(t, p) = Rang(u, q) + 1 /\ Rang(u, q) \in Nat
      BY <1>4, <3>4, RangUn
    <3> QED BY <3>2, <3>5
  <2> QED BY <2>1, <2>2 DEF Entier
<1>8. Fin(t, 1) = L /\ Fin(t, 0) = 0
  BY <1>1, <1>5, <1>u, FinDe DEF Fin
<1>9. \A k \in 0..N : Fin(t, k + 1) = Fin(u, k) + L /\ Fin(u, k) \in Nat
  <2>1. Fin(t, 0 + 1) = Fin(u, 0) + L /\ Fin(u, 0) \in Nat
    BY <1>8, <1>t DEF Fin
  <2>2. ASSUME NEW k \in 1..N PROVE Fin(t, k + 1) = Fin(u, k) + L /\ Fin(u, k) \in Nat
    <3>1. Fin(u, k) \in Fins(u) /\ Rang(u, Fin(u, k)) = k
      BY <1>7, FinsEntier
    <3>2. Fin(u, k) + L \in Fins(t) /\ Rang(t, Fin(u, k) + L) = k + 1
      BY <1>4, <3>1
    <3> QED BY <1>u, <3>1, <3>2, FinDe, FinsFinies
  <2> QED BY <1>t, <2>1, <2>2
<1>10. SubSeq(t, Fin(t, 0) + 1, Fin(t, 1)) = l
  <2>1. SubSeq(t, 1, L) = SubSeq(l, 1, L)
    <3>1. 1 \in 1..Len(l) /\ L \in 1..Len(l)
      BY <1>t
    <3> QED BY <1>t, <3>1, SubSeqOfConcat1 DEF t
  <2>2. SubSeq(l, 1, L) = l
    BY <1>t, SubSeqFull
  <2> QED BY <1>8, <2>1, <2>2
<1>11. ASSUME NEW k \in 1..N
       PROVE  SubSeq(t, Fin(t, k) + 1, Fin(t, k + 1)) = SubSeq(u, Fin(u, k - 1) + 1, Fin(u, k))
  <2>1. Fin(t, k) = Fin(u, k - 1) + L /\ Fin(t, k + 1) = Fin(u, k) + L
    <3>1. k - 1 \in 0..N /\ k \in 0..N /\ (k - 1) + 1 = k
      BY <1>t
    <3>2. Fin(t, (k - 1) + 1) = Fin(u, k - 1) + L /\ Fin(t, k + 1) = Fin(u, k) + L
      BY <1>9, <3>1
    <3> QED BY <3>1, <3>2
  <2>2. Fin(u, k) \in 1..Len(u) /\ Fin(u, k - 1) \in Nat /\ Fin(u, k - 1) < Fin(u, k)
    BY <1>t, <1>7, FinsEntier, FinsFinies
  <2> DEFINE m == Fin(t, k) + 1
             n == Fin(t, k + 1)
  <2>3. /\ m \in L + 1 .. L + Len(u) /\ n \in L + 1 .. L + Len(u)
        /\ m - L = Fin(u, k - 1) + 1 /\ n - L = Fin(u, k)
    BY SMTT(40), <1>t, <2>1, <2>2
  <2>4. SubSeq(t, m, n) = SubSeq(u, m - L, n - L)
    <3>1. \A x, y \in L + 1 .. L + Len(u) : SubSeq(l \o u, x, y) = SubSeq(u, x - L, y - L)
      BY <1>t, SubSeqOfConcat2
    <3>2. \A x, y \in L + 1 .. L + Len(u) : SubSeq(t, x, y) = SubSeq(u, x - L, y - L)
      BY <3>1 DEF t
    <3> HIDE DEF L, m, n
    <3> QED BY <2>3, <3>2
  <2> QED BY <2>3, <2>4
<1>12. /\ Decoupe(t) # <<>> /\ Head(Decoupe(t)) = l /\ Tail(Decoupe(t)) = Decoupe(u)
  <2> DEFINE A == Decoupe(u)
             B == Decoupe(t)
  <2>1. A = [k \in 1..N |-> SubSeq(u, Fin(u, k - 1) + 1, Fin(u, k))]
    BY DecoupeFins
  <2>2. B = [k \in 1..(N + 1) |-> SubSeq(t, Fin(t, k - 1) + 1, Fin(t, k))]
    BY <1>6, DecoupeFins
  <2> HIDE DEF A, B, N
  <2>3. B[1] = l
    <3>1. 1 \in 1..(N + 1) /\ 1 - 1 = 0
      BY <1>t
    <3>2. B[1] = SubSeq(t, Fin(t, 1 - 1) + 1, Fin(t, 1))
      BY <2>2, <3>1
    <3> QED BY <1>10, <3>1, <3>2
  <2>4. \A k \in 1..N : B[k + 1] = A[k]
    <3> SUFFICES ASSUME NEW k \in 1..N PROVE B[k + 1] = A[k]
      OBVIOUS
    <3>1. k + 1 \in 1..(N + 1) /\ (k + 1) - 1 = k
      BY <1>t
    <3>2. B[k + 1] = SubSeq(t, Fin(t, (k + 1) - 1) + 1, Fin(t, k + 1))
      BY <2>2, <3>1
    <3> QED BY <1>11, <2>1, <3>1, <3>2
  <2> DEFINE E == {B[k] : k \in 1..(N + 1)}
  <2>5. B \in Seq(E) /\ Len(B) = N + 1
    <3>1. \A k \in 1..(N + 1) : B[k] \in E
      OBVIOUS
    <3> HIDE DEF E
    <3> QED BY <1>t, <2>2, <3>1
  <2>6. A \in Seq(E) /\ Len(A) = N
    <3>1. \A k \in 1..N : A[k] \in E
      <4>1. \A k \in 1..N : k + 1 \in 1..(N + 1)
        BY <1>t
      <4>2. \A k \in 1..(N + 1) : B[k] \in E
        OBVIOUS
      <4> HIDE DEF E
      <4> QED BY <2>4, <4>1, <4>2
    <3> HIDE DEF E
    <3> QED BY <1>t, <2>1, <3>1
  <2> HIDE DEF E
  <2>7. B # <<>> /\ Head(B) = l
    BY <1>t, <2>3, <2>5
  <2>8. /\ Tail(B) \in Seq(E) /\ Len(Tail(B)) = N
        /\ \A k \in 1..N : Tail(B)[k] = B[k + 1]
    BY <1>t, <2>5, <2>7, HeadTailProperties
  <2>9. Tail(B) = A
    BY <2>4, <2>6, <2>8, SeqEqual
  <2> QED BY <2>7, <2>9 DEF A, B
<1> QED BY <1>7, <1>12 DEF t

-----------------------------------------------------------------------------
(* What the sketch has not executed. *)
Texte == inputString \o tampon \o fil

Lignees ==
    pertes = 0 /\ ~coupe =>
        /\ Entier(Texte)
        /\ enMessage => EstLigne(inputString)
        /\ ~enMessage => \A i \in DOMAIN inputString : inputString[i] \in Chiffres

(* A character goes from the head of a sequence to the end of the one      *)
(* before it.                                                              *)
LEMMA Deplace ==
    ASSUME NEW E, NEW s \in Seq(E), NEW t \in Seq(E), t # <<>>
    PROVE  Append(s, Head(t)) \o Tail(t) = s \o t
<1>1. /\ Head(t) \in E /\ Tail(t) \in Seq(E) /\ Len(Tail(t)) = Len(t) - 1
      /\ \A i \in 1..(Len(t) - 1) : Tail(t)[i] = t[i + 1]
      /\ Head(t) = t[1]
  BY HeadTailProperties
<1> DEFINE a == Append(s, Head(t))
<1>2. /\ a \in Seq(E) /\ Len(a) = Len(s) + 1
      /\ \A i \in 1..Len(s) : a[i] = s[i]
      /\ a[Len(s) + 1] = Head(t)
  BY <1>1, AppendProperties
<1> HIDE DEF a
<1>3. /\ a \o Tail(t) \in Seq(E) /\ Len(a \o Tail(t)) = Len(a) + Len(Tail(t))
      /\ \A i \in 1..(Len(a) + Len(Tail(t))) : (a \o Tail(t))[i] = IF i <= Len(a) THEN a[i] ELSE Tail(t)[i - Len(a)]
  BY <1>1, <1>2, ConcatProperties
<1>4. /\ s \o t \in Seq(E) /\ Len(s \o t) = Len(s) + Len(t)
      /\ \A i \in 1..(Len(s) + Len(t)) : (s \o t)[i] = IF i <= Len(s) THEN s[i] ELSE t[i - Len(s)]
  BY ConcatProperties
<1>l. Len(s) \in Nat /\ Len(t) \in Nat /\ Len(t) > 0
  OBVIOUS
<1>5. ASSUME NEW i \in 1..(Len(s) + Len(t)) PROVE (a \o Tail(t))[i] = (s \o t)[i]
  <2>0. i \in 1..(Len(a) + Len(Tail(t)))
    BY <1>1, <1>2, <1>l
  <2>1. CASE i <= Len(s)
    BY <1>2, <1>3, <1>4, <1>l, <2>0, <2>1
  <2>2. CASE i = Len(s) + 1
    <3>1. (a \o Tail(t))[i] = a[i] /\ (s \o t)[i] = t[i - Len(s)] /\ i - Len(s) = 1
      BY <1>2, <1>3, <1>4, <1>l, <2>0, <2>2
    <3> QED BY <1>1, <1>2, <2>2, <3>1
  <2>3. CASE i > Len(s) + 1
    <3>1. /\ (a \o Tail(t))[i] = Tail(t)[i - Len(a)] /\ (s \o t)[i] = t[i - Len(s)]
          /\ i - Len(a) \in 1..(Len(t) - 1) /\ (i - Len(a)) + 1 = i - Len(s)
      BY <1>2, <1>3, <1>4, <1>l, <2>0, <2>3
    <3> QED BY <1>1, <3>1
  <2>4. i <= Len(s) \/ i = Len(s) + 1 \/ i > Len(s) + 1
    BY <1>l
  <2> QED BY <2>1, <2>2, <2>3, <2>4
<1>6. Len(a \o Tail(t)) = Len(s \o t)
  BY <1>1, <1>2, <1>3, <1>4, <1>l
<1>7. a \o Tail(t) = s \o t
  BY <1>3, <1>4, <1>5, <1>6, SeqEqual
<1> QED BY <1>7 DEF a

(* Concatenation, three sequences at a time. *)
LEMMA Assemble ==
    ASSUME NEW E, NEW a \in Seq(E), NEW b \in Seq(E), NEW c \in Seq(E)
    PROVE  (a \o b) \o c = a \o (b \o c)
BY ConcatAssociative

(* The text, step by step: a line is written, characters move, a line is   *)
(* executed.                                                               *)
LEMMA TexteEcrit ==
    ASSUME TypeICar, commandeActionneur
    PROVE  EstLigne(LigneCommande(buff[1], buff[2])) /\ Texte' = Texte \o LigneCommande(buff[1], buff[2])
<1> DEFINE l == LigneCommande(buff[1], buff[2])
<1>1. EstLigne(l)
  BY OctetsBornes, LigneEstLigne DEF TypeICar, TypeServeur
<1>2. l \in Seq(Caracteres) /\ fil \in Seq(Caracteres) /\ tampon \in Seq(Caracteres) /\ inputString \in Seq(Caracteres)
  BY <1>1 DEF EstLigne, TypeICar, TypeTrame
<1>3. fil' = fil \o l /\ tampon' = tampon /\ inputString' = inputString
  BY DEF commandeActionneur
<1> HIDE DEF l
<1>4. inputString \o tampon \in Seq(Caracteres)
  BY <1>2, ConcatProperties
<1>5. (inputString \o tampon) \o (fil \o l) = ((inputString \o tampon) \o fil) \o l
  <2> DEFINE a == inputString \o tampon
  <2>1. a \in Seq(Caracteres)
    BY <1>4
  <2> HIDE DEF a
  <2>2. (a \o fil) \o l = a \o (fil \o l)
    <3>1. \A b, c \in Seq(Caracteres) : (a \o b) \o c = a \o (b \o c)
      BY <2>1, Assemble
    <3> QED BY <1>2, <3>1
  <2> QED BY <2>2 DEF a
<1> QED BY <1>1, <1>3, <1>5 DEF Texte, l

LEMMA TexteRecu ==
    ASSUME TypeICar, ReceptionInterrupt, pertes' = pertes
    PROVE  Texte' = Texte
<1>2. fil \in Seq(Caracteres) /\ tampon \in Seq(Caracteres) /\ inputString \in Seq(Caracteres) /\ pertes \in Nat
  BY DEF TypeICar, TypeTrame
<1>3. fil # <<>> /\ fil' = Tail(fil) /\ tampon' = Append(tampon, Head(fil)) /\ inputString' = inputString
  BY <1>2 DEF ReceptionInterrupt
<1>4. Append(tampon, Head(fil)) \o Tail(fil) = tampon \o fil
  BY <1>2, <1>3, Deplace
<1>5. Tail(fil) \in Seq(Caracteres) /\ Append(tampon, Head(fil)) \in Seq(Caracteres)
  BY <1>2, <1>3, HeadTailProperties, AppendProperties
<1>6. (inputString \o Append(tampon, Head(fil))) \o Tail(fil) = inputString \o (Append(tampon, Head(fil)) \o Tail(fil))
  <2> DEFINE b == Append(tampon, Head(fil))
             c == Tail(fil)
  <2>1. b \in Seq(Caracteres) /\ c \in Seq(Caracteres)
    BY <1>5
  <2> HIDE DEF b, c
  <2>2. (inputString \o b) \o c = inputString \o (b \o c)
    BY SMTT(20), <1>2, <2>1, Assemble
  <2> QED BY <2>2 DEF b, c
<1>7. (inputString \o tampon) \o fil = inputString \o (tampon \o fil)
  BY <1>2, Assemble
<1>8. Texte' = (inputString \o Append(tampon, Head(fil))) \o Tail(fil)
  BY <1>3 DEF Texte
<1> QED BY <1>4, <1>6, <1>7, <1>8 DEF Texte

LEMMA TexteCollecte ==
    ASSUME TypeICar, serialEvent, Len(inputString) < MaxLigne
    PROVE  Texte' = Texte
<1>1. fil \in Seq(Caracteres) /\ tampon \in Seq(Caracteres) /\ inputString \in Seq(Caracteres)
  BY DEF TypeICar, TypeTrame
<1>2. tampon # <<>> /\ tampon' = Tail(tampon) /\ inputString' = Append(inputString, Head(tampon)) /\ fil' = fil
  BY DEF serialEvent, Ajoute
<1>3. Append(inputString, Head(tampon)) \o Tail(tampon) = inputString \o tampon
  BY <1>1, <1>2, Deplace
<1> QED BY <1>2, <1>3 DEF Texte

LEMMA TexteExecute ==
    ASSUME TypeICar, parseMessage
    PROVE  /\ Texte' = tampon \o fil /\ tampon \o fil \in Seq(Caracteres)
           /\ Texte = inputString \o (tampon \o fil)
<1>1. fil \in Seq(Caracteres) /\ tampon \in Seq(Caracteres) /\ inputString \in Seq(Caracteres)
  BY DEF TypeICar, TypeTrame
<1>2. inputString' = <<>> /\ tampon' = tampon /\ fil' = fil
  BY DEF parseMessage, LigneApresMessage
<1>3. <<>> \o tampon = tampon
  BY <1>1, ConcatEmptySeq
<1>4. (inputString \o tampon) \o fil = inputString \o (tampon \o fil)
  BY <1>1, ConcatAssociative
<1>5. tampon \o fil \in Seq(Caracteres)
  BY <1>1, ConcatProperties
<1> QED BY <1>2, <1>3, <1>4, <1>5 DEF Texte

(* Entier is about its argument alone. *)
LEMMA EntierApres ==
    ASSUME NEW x, Entier(x), Texte' = x
    PROVE  Entier(Texte)'
<1>1. Entier(x) => (Texte' = x => Entier(Texte'))
  BY DEF Entier, Fins, Rang
<1> QED BY <1>1 DEF Entier, Fins, Rang

LEMMA LigneesPas ==
    ASSUME TypeICar, Lignees, [Next]_vars
    PROVE  Lignees'
<1>0. TypeTrame
  BY DEF TypeICar
<1>1. CASE UNCHANGED trameVars
  BY <1>1 DEF trameVars, Lignees, Texte
<1>2. CASE commandeActionneur
  <2>1. EstLigne(LigneCommande(buff[1], buff[2])) /\ Texte' = Texte \o LigneCommande(buff[1], buff[2])
    BY <1>2, TexteEcrit
  <2>2. Entier(Texte) => Entier(Texte)'
    <3>1. Entier(Texte) => Entier(Texte \o LigneCommande(buff[1], buff[2]))
      BY <2>1, LigneAjoutee
    <3> QED BY <2>1, <3>1, EntierApres
  <2>3. UNCHANGED <<inputString, enMessage, pertes, coupe>>
    BY <1>2 DEF commandeActionneur
  <2> QED BY <2>2, <2>3 DEF Lignees
<1>3. CASE ReceptionInterrupt
  <2>1. UNCHANGED <<inputString, enMessage, coupe>> /\ (pertes' = 0 => pertes = 0 /\ pertes' = pertes)
    BY <1>0, <1>3 DEF ReceptionInterrupt, TypeTrame
  <2>2. pertes' = 0 => Texte' = Texte
    BY <1>3, <2>1, TexteRecu
  <2> QED BY <2>1, <2>2 DEF Lignees, Entier, Fins, Rang
<1>4. CASE serialEvent
  <2>1. /\ tampon # <<>> /\ Head(tampon) \in Caracteres /\ inputString \in Seq(Caracteres)
        /\ ~enMessage /\ UNCHANGED pertes
        /\ ~coupe' => ~coupe /\ Len(inputString) < MaxLigne /\ inputString' = Append(inputString, Head(tampon))
        /\ enMessage' = (Head(tampon) = Lf)
    <3>1. tampon \in Seq(Caracteres) /\ inputString \in Seq(Caracteres) /\ MaxLigne \in Nat
      BY <1>0, CapaciteAssumption DEF TypeTrame
    <3>2. ~enMessage /\ tampon # <<>> /\ UNCHANGED pertes /\ inputString' = Ajoute(inputString, Head(tampon))
      BY <1>4 DEF serialEvent
    <3>3. enMessage' = (Head(tampon) = Lf)
      BY <1>4 DEF serialEvent
    <3>4. coupe' = (coupe \/ Len(inputString) >= MaxLigne)
      BY <1>4 DEF serialEvent
    <3>5. Head(tampon) \in Caracteres
      BY <3>1, <3>2
    <3>6. ~coupe' => ~coupe
      BY <3>4
    <3>7. ~coupe' => Len(inputString) < MaxLigne
      <4>1. ~coupe' => ~(Len(inputString) >= MaxLigne)
        BY <3>4
      <4>2. ~(Len(inputString) >= MaxLigne) => Len(inputString) < MaxLigne
        BY <3>1
      <4> QED BY <4>1, <4>2
    <3>8. Len(inputString) < MaxLigne => inputString' = Append(inputString, Head(tampon))
      BY <3>2 DEF Ajoute
    <3> QED BY <3>1, <3>2, <3>3, <3>5, <3>6, <3>7, <3>8
  <2> SUFFICES ASSUME pertes' = 0, ~coupe'
               PROVE  /\ Entier(Texte)'
                      /\ enMessage' => EstLigne(inputString)'
                      /\ ~enMessage' => \A i \in DOMAIN inputString' : inputString'[i] \in Chiffres
    BY DEF Lignees
  <2>2. Texte' = Texte /\ Entier(Texte)
    BY <1>4, <2>1, TexteCollecte DEF Lignees
  <2>3. Entier(Texte)'
    BY ZenonT(60), <2>2 DEF Entier, Fins, Rang
  <2>4. /\ inputString' \in Seq(Caracteres) /\ Len(inputString') = Len(inputString) + 1 /\ Len(inputString) \in Nat
        /\ \A i \in 1..Len(inputString) : inputString'[i] = inputString[i] /\ inputString[i] \in Chiffres
        /\ inputString'[Len(inputString) + 1] = Head(tampon)
        /\ DOMAIN inputString' = 1..(Len(inputString) + 1)
    <3>1. \A i \in 1..Len(inputString) : inputString[i] \in Chiffres
      BY <2>1 DEF Lignees
    <3>2. /\ inputString' \in Seq(Caracteres) /\ Len(inputString') = Len(inputString) + 1 /\ Len(inputString) \in Nat
          /\ \A i \in 1..Len(inputString) : inputString'[i] = inputString[i]
          /\ inputString'[Len(inputString) + 1] = Head(tampon)
      BY <2>1, AppendProperties
    <3> QED BY <3>1, <3>2
  <2>5. enMessage' => EstLigne(inputString)'
    <3>1. enMessage' => Head(tampon) = Lf
      BY <2>1
    <3>2. Len(inputString') > 0 /\ Len(inputString') - 1 = Len(inputString)
      BY <2>4
    <3>3. \A i \in 1..(Len(inputString') - 1) : inputString'[i] \in Chiffres
      BY <2>4, <3>2
    <3>4. enMessage' => inputString'[Len(inputString')] = Lf
      BY <2>4, <3>1
    <3> QED BY <2>4, <3>2, <3>3, <3>4 DEF EstLigne
  <2>6. ~enMessage' => \A i \in DOMAIN inputString' : inputString'[i] \in Chiffres
    <3>1. ~enMessage' => Head(tampon) \in Chiffres
      <4>1. ~enMessage' => Head(tampon) # Lf
        BY <2>1
      <4> QED BY <2>1, <4>1 DEF Caracteres
    <3>2. \A i \in DOMAIN inputString' : i \in 1..Len(inputString) \/ i = Len(inputString) + 1
      BY <2>4
    <3> QED BY <2>4, <3>1, <3>2
  <2> QED BY <2>3, <2>5, <2>6
<1>5. CASE parseMessage
  <2>1. /\ Texte' = tampon \o fil /\ tampon \o fil \in Seq(Caracteres) /\ Texte = inputString \o (tampon \o fil)
    BY <1>5, TexteExecute
  <2>2. enMessage /\ ~enMessage' /\ inputString' = <<>> /\ UNCHANGED <<pertes, coupe>>
    BY <1>5 DEF parseMessage, LigneApresMessage
  <2>3. EstLigne(inputString) /\ Entier(Texte) => Entier(Texte)'
    <3>1. EstLigne(inputString) /\ Entier(Texte) => Entier(tampon \o fil)
      BY <2>1, LigneOtee
    <3> QED BY <2>1, <3>1, EntierApres
  <2> QED BY <2>2, <2>3 DEF Lignees
<1> QED BY <1>1, <1>2, <1>3, <1>4, <1>5 DEF Next, Utilisateur, Reseau, Serveur, Sketch, Trame, vars,
      Connexion, Accept, Recv, RecvFerme

-----------------------------------------------------------------------------
(* The start: no stream, no pair, no text. *)
LEMMA CouplesDepart == ASSUME Init PROVE Couples
<1>1. /\ thread \in [Sessions -> {"aucun", "encours", "fini"}] /\ stop = {} /\ csock = 0
      /\ \A n \in Sessions : socket[n] = "null"
  BY DEF Init, TelecommandeInit, ServeurInit
<1>2. ASSUME NEW n \in Sessions PROVE Apparies(n)
  <2>1. flux[n] = <<>> /\ n \notin stop
    BY DEF Init, TelecommandeInit
  <2>2. Len(flux[n]) = 2 * 0 /\ 0 \in Nat
    BY <2>1
  <2>3. \A k \in Nat : ~(2 * k + 2 <= 0)
    OBVIOUS
  <2> QED BY <2>1, <2>2, <2>3 DEF Apparies, Paires, Pair
<1> QED BY <1>1, <1>2 DEF Couples, Session

LEMMA DecoupeVide == Decoupe(<<>>) = <<>> /\ Entier(<<>>)
<1>1. Fins(<<>>) = {}
  BY DEF Fins
<1>2. Cardinality(Fins(<<>>)) = 0
  BY <1>1, FS_EmptySet
<1>3. <<>> \in Seq(Caracteres)
  BY EmptySeq
<1>4. 1..0 = {}
  OBVIOUS
<1>5. Decoupe(<<>>) = [k \in 1..0 |-> SubSeq(<<>>, Fin(<<>>, k - 1) + 1, Fin(<<>>, k))]
  BY <1>2, DecoupeFins
<1>6. Decoupe(<<>>) = <<>>
  <2> DEFINE f == [k \in 1..0 |-> SubSeq(<<>>, Fin(<<>>, k - 1) + 1, Fin(<<>>, k))]
  <2>1. \A k \in 1..0 : f[k] \in Caracteres
    BY <1>4
  <2>2. f \in Seq(Caracteres) /\ Len(f) = 0
    <3>1. f = [k \in 1..0 |-> f[k]] /\ DOMAIN f = 1..0
      OBVIOUS
    <3> HIDE DEF f
    <3> QED BY <2>1, <3>1
  <2> HIDE DEF f
  <2>3. f = <<>>
    BY <2>2
  <2> QED BY <1>5, <2>3 DEF f
<1> QED BY <1>2, <1>3, <1>4, <1>6 DEF Entier

LEMMA LigneesDepart == ASSUME Init PROVE Lignees /\ Texte = <<>>
<1>1. inputString = <<>> /\ tampon = <<>> /\ fil = <<>> /\ ~enMessage
  BY DEF Init, TrameInit
<1>2. Texte = <<>>
  <2>1. <<>> \in Seq(Caracteres)
    BY EmptySeq
  <2>2. <<>> \o <<>> = <<>>
    BY <2>1, ConcatEmptySeq
  <2> QED BY <1>1, <2>2 DEF Texte
<1> QED BY <1>1, <1>2, DecoupeVide DEF Lignees

Inductif == TypeICar /\ Couples /\ Lignees

(* The inductive invariant: what is on its way is digits and newlines, the *)
(* streams are pairs, and the text is cut into whole lines.                *)
THEOREM InvariantICar == Spec => []Inductif
<1>1. Init => Inductif
  BY TypeDepart, CouplesDepart, LigneesDepart DEF Inductif
<1>2. ASSUME Inductif, [Next]_vars PROVE Inductif'
  <2>1. TypeICar /\ Couples /\ Lignees
    BY <1>2 DEF Inductif
  <2>2. TypeICar'
    BY <1>2, <2>1, TypeTelecommandePas, TypeServeurPas, TypeTramePas DEF TypeICar
  <2>3. Couples'
    BY <1>2, <2>1, CouplesPas
  <2>4. Lignees'
    BY <1>2, <2>1, LigneesPas
  <2> QED BY <2>2, <2>3, <2>4 DEF Inductif
<1>3. Inductif /\ [Next]_vars => Inductif'
  BY <1>2
<1> QED BY <1>1, <1>3, PTL DEF Spec

(* The sketch only ever has its initial orders or those of an emergency    *)
(* stop: what parseMessage() takes for a header is never one of its cases. *)
THEOREM RienQueLArretCorrect == Spec => []RienQueLArret
<1>1. Inductif => RienQueLArret
  BY DEF Inductif, TypeICar, TypeTrame, RienQueLArret
<1> QED BY <1>1, InvariantICar, PTL

(* As long as no recv was short, what main() forwards is a pair that the   *)
(* user of the accepted session made, or the initial buffer.               *)
THEOREM CouplesFidelesCorrect == Spec => []CouplesFideles
<1>1. Inductif => CouplesFideles
  <2> SUFFICES ASSUME TypeICar, Couples, ~court, serveur = "commande"
               PROVE  buff \in faits[csock] \cup {<<0, 0>>}
    BY DEF Inductif, CouplesFideles
  <2>1. csock \in Sessions /\ 0 \notin Sessions
    BY GestesAssumption DEF TypeICar, TypeServeur, Sessions
  <2> QED BY <2>1 DEF Couples
<1> QED BY <1>1, InvariantICar, PTL

(* The same of Decoupe. *)
LEMMA DecoupeApres ==
    ASSUME NEW x, Texte' = x
    PROVE  Decoupe(Texte)' = Decoupe(x)
BY DEF Decoupe

(* While no character is lost, the serial line, its receive buffer,        *)
(* serialEvent() and parseMessage() implement a queue of lines.            *)
THEOREM LiaisonFideleCorrecte == Spec => LiaisonFidele
<1> DEFINE fiable == pertes = 0 /\ ~coupe
           Lignes == {LigneCommande(h, v) : h, v \in Octets}
           Pas == LiaisonSerie!Next \/ UNCHANGED LiaisonSerie!vars
<1>1. Init => LiaisonSerie!Init
  <2> SUFFICES ASSUME Init PROVE LiaisonSerie!Init
    OBVIOUS
  <2>1. Texte = <<>> /\ Decoupe(<<>>) = <<>>
    BY LigneesDepart, DecoupeVide
  <2>2. ordres = OrdresInit /\ pertes = 0 /\ coupe = FALSE
    BY DEF Init, TrameInit
  <2> QED BY <2>1, <2>2 DEF LiaisonSerie!Init, Texte
<1>2. ASSUME Inductif, [Next]_vars PROVE [LiaisonSerie!Next]_(LiaisonSerie!vars)
  <2>0. TypeICar /\ Lignees /\ TypeTrame /\ TypeServeur
    BY <1>2 DEF Inductif, TypeICar
  <2>1. CASE ~fiable'
    BY <2>1 DEF LiaisonSerie!Next, LiaisonSerie!Perd
  <2>2. CASE fiable'
    <3>1. CASE UNCHANGED trameVars
      BY <3>1 DEF LiaisonSerie!vars, trameVars
    <3>2. CASE commandeActionneur
      <4>1. UNCHANGED <<inputString, enMessage, ordres, pertes, coupe>>
        BY <3>2 DEF commandeActionneur
      <4>2. Entier(Texte)
        BY <2>0, <2>2, <4>1 DEF Lignees
      <4>3. buff[1] \in Octets /\ buff[2] \in Octets
        BY <2>0 DEF TypeServeur
      <4> DEFINE l == LigneCommande(buff[1], buff[2])
      <4>4. l \in Lignes
        BY <4>3
      <4>5. EstLigne(l) /\ Texte' = Texte \o l
        BY <2>0, <3>2, TexteEcrit
      <4>6. Decoupe(Texte \o l) = Append(Decoupe(Texte), l)
        BY <4>2, <4>5, LigneAjoutee
      <4> HIDE DEF l
      <4>7. Decoupe(inputString \o tampon \o fil)' = Append(Decoupe(inputString \o tampon \o fil), l)
        <5>1. Decoupe(Texte)' = Decoupe(Texte \o l)
          BY <4>5, DecoupeApres DEF l
        <5> QED BY <4>6, <5>1 DEF Texte
      <4>8. LiaisonSerie!Ecrit
        BY <2>2, <4>1, <4>4, <4>7 DEF LiaisonSerie!Ecrit
      <4> QED BY <4>8 DEF LiaisonSerie!Next
    <3>3. CASE ReceptionInterrupt
      <4>1. UNCHANGED <<ordres, coupe>> /\ pertes' = pertes
        BY <2>0, <2>2, <3>3 DEF ReceptionInterrupt, TypeTrame
      <4>2. Texte' = Texte
        BY <2>0, <3>3, <4>1, TexteRecu
      <4> QED BY <4>1, <4>2 DEF Texte, LiaisonSerie!vars, Decoupe
    <3>4. CASE serialEvent
      <4>1. UNCHANGED <<ordres, pertes>> /\ coupe' = (coupe \/ Len(inputString) >= MaxLigne)
        BY <3>4 DEF serialEvent
      <4>2. coupe' = coupe /\ Len(inputString) < MaxLigne
        <5>1. Len(inputString) \in Nat /\ MaxLigne \in Nat /\ coupe \in BOOLEAN
          BY <2>0, CapaciteAssumption DEF TypeTrame
        <5>2. ~coupe /\ ~coupe' /\ ~(Len(inputString) >= MaxLigne)
          BY <2>2, <4>1
        <5>3. coupe = FALSE
          BY <5>1, <5>2
        <5>4. (coupe \/ Len(inputString) >= MaxLigne) = FALSE
          BY <5>2
        <5>5. coupe' = coupe
          BY <4>1, <5>3, <5>4
        <5> QED BY <5>1, <5>2, <5>5
      <4>3. Texte' = Texte
        BY <2>0, <3>4, <4>2, TexteCollecte
      <4> QED BY <4>1, <4>2, <4>3 DEF Texte, LiaisonSerie!vars, Decoupe
    <3>5. CASE parseMessage
      <4>1. enMessage /\ ordres' = ApresMessage(ordres, inputString) /\ UNCHANGED <<pertes, coupe>>
        BY <3>5 DEF parseMessage
      <4>2. EstLigne(inputString) /\ Entier(Texte)
        BY <2>0, <2>2, <4>1 DEF Lignees
      <4>3. /\ Texte' = tampon \o fil /\ tampon \o fil \in Seq(Caracteres)
            /\ Texte = inputString \o (tampon \o fil)
        BY <2>0, <3>5, TexteExecute
      <4>4. /\ Decoupe(Texte) # <<>> /\ Head(Decoupe(Texte)) = inputString
            /\ Tail(Decoupe(Texte)) = Decoupe(tampon \o fil)
        <5>1. Entier(inputString \o (tampon \o fil))
          BY <4>2, <4>3
        <5> QED BY <4>2, <4>3, <5>1, LigneOtee
      <4>5. Decoupe(inputString \o tampon \o fil)' = Tail(Decoupe(inputString \o tampon \o fil))
        <5>1. Decoupe(Texte)' = Decoupe(tampon \o fil)
          BY <4>3, DecoupeApres
        <5> QED BY <4>4, <5>1 DEF Texte
      <4>6. LiaisonSerie!Execute
        BY <2>2, <4>1, <4>4, <4>5 DEF LiaisonSerie!Execute, Texte
      <4> QED BY <4>6 DEF LiaisonSerie!Next
    <3> QED BY <1>2, <3>1, <3>2, <3>3, <3>4, <3>5 DEF Next, Utilisateur, Reseau, Serveur, Sketch, Trame, vars,
          Connexion, Accept, Recv, RecvFerme
  <2> QED BY <2>1, <2>2
<1>3. Inductif /\ [Next]_vars => [LiaisonSerie!Next]_(LiaisonSerie!vars)
  BY <1>2
<1> QED BY <1>1, <1>3, InvariantICar, PTL DEF Spec, LiaisonFidele, LiaisonSerie!Spec

=============================================================================
