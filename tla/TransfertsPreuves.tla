-------------------------- MODULE TransfertsPreuves --------------------------
(***************************************************************************)
(* Proofs about the life of a transfer, for every set of transfers and     *)
(* every number of submissions: the event thread finds what it must        *)
(* answer, says why it ended, and answers each submission once.            *)
(***************************************************************************)
EXTENDS Transferts, FiniteSetsExt, SequenceTheorems, WellFoundedInduction, TLAPS

Drapeaux == {"SUBMITTING", "IN_FLIGHT", "COMPLETED", "CANCELLING", "DEVICE_DISAPPEARED",
             "TIMEOUT_HANDLED", "TIMED_OUT"}
EtapesSoumission == {"repos", "liste", "noyau", "soumis", "echec", "retire"}
EtapesListe      == {"cherche", "traite", "annule", "marque"}
EtapesReponse    == {"fini", "cause", "sortie", "rappel", "prive"}

TypeTransferts ==
    /\ flags \in [T -> SUBSET Drapeaux] /\ lock \in [T -> BOOLEAN]
    /\ timeout \in [T -> Nat]
    /\ status \in {"aucun", "COMPLETED", "TIMED_OUT", "CANCELLED", "NO_DEVICE"}
    /\ flying \in Seq(T) /\ volLock \in Minuteurs \cup {Personne}
    /\ urbs \in [T -> BOOLEAN] /\ annule \in [T -> BOOLEAN]
    /\ noyau \in [T -> {"rien", "cours", "fini", "annule"}]
    /\ branche \in BOOLEAN /\ surveille \in BOOLEAN
    /\ horloge \in Nat /\ rang \in Nat
    /\ pc \in [Fils -> EtapesSoumission \cup EtapesListe \cup EtapesReponse \cup {"parti"}]
    /\ \A t \in T : pc[t] \in EtapesSoumission
    /\ pc["autre"] \in EtapesListe \cup {"repos"}
    /\ pc["ev"] \in EtapesListe \cup EtapesReponse \cup {"repos", "parti"}
    /\ cur \in [Minuteurs -> T \cup {Personne}] /\ lu \in [Minuteurs -> SUBSET Drapeaux]
    /\ demande \in [T -> BOOLEAN] /\ ecrases \subseteq T
    /\ acceptees \in [T -> Nat] /\ reponses \in [T -> Nat]

-----------------------------------------------------------------------------
(* The inductive invariant. *)

EnListe(t) == Contains(flying, t)
Attendue(t) == acceptees[t] = reponses[t] + 1      \* the submission is to be answered
EnMain(t) == pc["ev"] \in EtapesReponse /\ cur["ev"] = t

(* A transfer is in the list once at most. *)
SansDouble == IsInjective(flying)

(* A transfer that is being submitted is not yet to be answered, and only   *)
(* the disappearance of its device and the handling of its deadline have    *)
(* been noted in its flags.                                                 *)
EnSoumission(t) ==
    /\ lock[t] <=> pc[t] # "repos"
    /\ acceptees[t] = reponses[t] \/ Attendue(t)
    /\ lock[t] =>
        acceptees[t] = reponses[t] /\ flags[t] \subseteq {"SUBMITTING", "DEVICE_DISAPPEARED", "TIMEOUT_HANDLED"}

(* The list holds what was submitted until the event thread takes it out.   *)
(* What is to be answered is in flight, unless that was written over by who *)
(* handled its deadline.                                                    *)
EnVol(t) ==
    /\ EnListe(t) <=> \/ pc[t] \in {"noyau", "soumis", "echec", "retire"}
                      \/ Attendue(t) /\ ~(pc["ev"] = "rappel" /\ cur["ev"] = t)
    /\ Attendue(t) => "IN_FLIGHT" \in flags[t] \/ t \in ecrases
    /\ t \in ecrases => Attendue(t) /\ Echu(t) /\ "TIMEOUT_HANDLED" \in flags[t]

(* The kernel holds only what the event thread has not reaped, on a device  *)
(* that is there.                                                           *)
AuNoyau(t) ==
    /\ noyau[t] # "rien" => branche /\ (pc[t] = "soumis" \/ Attendue(t)) /\ ~EnMain(t)
    /\ "DEVICE_DISAPPEARED" \in flags[t] => ~branche

(* A URB is discarded for the user, or because of a deadline that the flags *)
(* tell or are about to.                                                    *)
Annulation(t) ==
    /\ pc[t] = "soumis" => ~annule[t]
    /\ annule[t] /\ Attendue(t) =>
        \/ demande[t] \/ "TIMED_OUT" \in flags[t]
        \/ \E f \in Minuteurs : pc[f] = "marque" /\ cur[f] = t

(* The event thread answers what is to be answered, or will be: then the    *)
(* submission cannot fail any more.                                         *)
EnReponse ==
    /\ pc["ev"] \in EtapesReponse =>
        /\ cur["ev"] \in T
        /\ \/ Attendue(cur["ev"])
           \/ pc["ev"] = "fini" /\ pc[cur["ev"]] = "soumis" /\ "DEVICE_DISAPPEARED" \notin flags[cur["ev"]]
    /\ pc["ev"] = "cause" => annule[cur["ev"]]
    /\ pc["ev"] \in {"parti", "prive"} \/ status = "NO_DEVICE" => ~branche

(* Who looks for deadlines holds the list, so that the transfer it works on *)
(* stays there; what it has read of the flags is still there, SUBMITTING    *)
(* excepted, and TIMED_OUT is not set behind its back.                      *)
EnMinuterie(f) ==
    /\ volLock = f <=> pc[f] \in EtapesListe
    /\ pc[f] \in {"traite", "annule", "marque"} => cur[f] \in T /\ EnListe(cur[f]) /\ Echu(cur[f])
    /\ pc[f] = "traite" =>
        /\ lu[f] \subseteq flags[cur[f]] \cup {"SUBMITTING"}
        /\ "TIMED_OUT" \in flags[cur[f]] => "TIMED_OUT" \in lu[f]
    /\ pc[f] = "marque" => Attendue(cur[f])

ParTransfert(t) == EnSoumission(t) /\ EnVol(t) /\ AuNoyau(t) /\ Annulation(t)

Inductif ==
    /\ TypeTransferts /\ horloge <= rang
    /\ SansDouble
    /\ \A t \in T : ParTransfert(t)
    /\ EnReponse
    /\ \A f \in Minuteurs : EnMinuterie(f)

-----------------------------------------------------------------------------
(* Facts about numbers and sequences. *)

(* A set of positions that is not empty has a first one. *)
LEMMA PlusPetit ==
    ASSUME NEW I, I \subseteq Nat, I # {}
    PROVE  Min(I) \in I /\ \A j \in I : Min(I) <= j
<1> DEFINE Avant == {p \in Nat \X Nat : p[1] < p[2]}
<1>1. IsWellFoundedOn(Avant, Nat)
    BY NatLessThanWellFounded DEF OpToRel
<1> HIDE DEF Avant
<1>2. PICK i \in I : \A j \in I : ~(<<j, i>> \in Avant)
    BY <1>1, WFMin
<1>3. ASSUME NEW j \in I, j < i PROVE FALSE
  <2>1. <<j, i>> \in Nat \X Nat /\ <<j, i>>[1] < <<j, i>>[2]
      BY <1>3
  <2> QED BY <1>2, <2>1 DEF Avant
<1>4. \A j \in I : i <= j
    BY <1>3
<1> QED BY <1>4 DEF Min

(* InsertAt puts an element in. *)
LEMMA Insertion ==
    ASSUME NEW D, NEW s \in Seq(D), NEW k \in 1..(Len(s) + 1), NEW e \in D,
           IsInjective(s), ~Contains(s, e)
    PROVE  /\ InsertAt(s, k, e) \in Seq(D) /\ IsInjective(InsertAt(s, k, e))
           /\ \A x : Contains(InsertAt(s, k, e), x) <=> Contains(s, x) \/ x = e
<1> DEFINE a == SubSeq(s, 1, k - 1)
           b == SubSeq(s, k, Len(s))
           r == InsertAt(s, k, e)
           n == Len(s)
<1>0. n \in Nat /\ DOMAIN s = 1..n /\ k \in Nat /\ k >= 1 /\ k <= n + 1
    OBVIOUS
<1>1. a \in Seq(D) /\ Len(a) = k - 1 /\ \A i \in 1..(k - 1) : a[i] = s[i]
    BY <1>0, SubSeqProperties
<1>2. b \in Seq(D) /\ Len(b) = n - k + 1 /\ \A i \in 1..(n - k + 1) : b[i] = s[k + i - 1]
    BY <1>0, SubSeqProperties
<1>3. <<e>> \in Seq(D) /\ Len(<<e>>) = 1 /\ <<e>>[1] = e
    OBVIOUS
<1>4. r = (a \o <<e>>) \o b
    BY DEF InsertAt
<1> HIDE DEF a, b, r, n
<1>5. /\ a \o <<e>> \in Seq(D) /\ Len(a \o <<e>>) = k
      /\ \A i \in 1..k : (a \o <<e>>)[i] = IF i < k THEN s[i] ELSE e
    BY <1>0, <1>1, <1>3, ConcatProperties
<1>6. /\ r \in Seq(D) /\ Len(r) = n + 1 /\ DOMAIN r = 1..(n + 1)
      /\ \A i \in 1..(n + 1) : r[i] = IF i < k THEN s[i] ELSE IF i = k THEN e ELSE s[i - 1]
  <2>1. r \in Seq(D) /\ Len(r) = n + 1
      BY <1>0, <1>2, <1>4, <1>5, ConcatProperties
  <2>2. \A i \in 1..(n + 1) : r[i] = IF i <= k THEN (a \o <<e>>)[i] ELSE b[i - k]
      BY SMTT(20), <1>0, <1>2, <1>4, <1>5, ConcatProperties
  <2>3. \A i \in 1..(n + 1) : i > k => b[i - k] = s[i - 1]
      BY <1>0, <1>2
  <2>4. \A i \in 1..(n + 1) : i <= k => r[i] = IF i < k THEN s[i] ELSE e
      BY <1>0, <1>5, <2>2
  <2>5. \A i \in 1..(n + 1) : i > k => r[i] = s[i - 1]
      BY <1>0, <2>2, <2>3
  <2> QED BY <1>0, <2>1, <2>4, <2>5
<1>7. \A i \in 1..n : s[i] # e
    BY DEF Contains, n
<1>8. IsInjective(r)
  <2>1. \A i, j \in 1..n : s[i] = s[j] => i = j
      BY <1>0 DEF IsInjective
  <2>2. ASSUME NEW i \in 1..(n + 1), NEW j \in 1..(n + 1), r[i] = r[j], i < j PROVE FALSE
    <3>1. CASE j < k
        BY <1>0, <1>6, <2>1, <2>2, <3>1
    <3>2. CASE j = k
        BY <1>0, <1>6, <1>7, <2>2, <3>2
    <3>3. CASE j > k /\ i < k
      <4>1. r[i] = s[i] /\ r[j] = s[j - 1] /\ i \in 1..n /\ j - 1 \in 1..n /\ i # j - 1
          BY <1>0, <1>6, <2>2, <3>3
      <4> QED BY <2>1, <2>2, <4>1
    <3>4. CASE j > k /\ i = k
      <4>1. r[j] = s[j - 1] /\ j - 1 \in 1..n /\ r[i] = e
          BY <1>0, <1>6, <2>2, <3>4
      <4> QED BY <1>7, <2>2, <4>1
    <3>5. CASE j > k /\ i > k
      <4>1. r[i] = s[i - 1] /\ r[j] = s[j - 1] /\ i - 1 \in 1..n /\ j - 1 \in 1..n /\ i - 1 # j - 1
          BY <1>0, <1>6, <2>2, <3>5
      <4> QED BY <2>1, <2>2, <4>1
    <3> QED BY <1>0, <3>1, <3>2, <3>3, <3>4, <3>5
  <2>3. \A i, j \in 1..(n + 1) : r[i] = r[j] => i = j
      BY <1>0, <2>2
  <2> QED BY <1>6, <2>3 DEF IsInjective
<1>9. ASSUME NEW x PROVE Contains(r, x) <=> Contains(s, x) \/ x = e
  <2>1. ASSUME Contains(r, x) PROVE Contains(s, x) \/ x = e
      BY <1>0, <1>6, <2>1 DEF Contains, n
  <2>2. ASSUME Contains(s, x) PROVE Contains(r, x)
    <3>1. PICK i \in 1..n : s[i] = x
        BY <2>2 DEF Contains, n
    <3>2. CASE i < k
        BY <1>0, <1>6, <3>1, <3>2 DEF Contains
    <3>3. CASE ~(i < k)
      <4>1. r[i + 1] = x
          BY <1>0, <1>6, <3>1, <3>3
      <4> QED BY <1>0, <1>6, <4>1 DEF Contains
    <3> QED BY <3>2, <3>3
  <2>3. ASSUME x = e PROVE Contains(r, x)
      BY <1>0, <1>6, <2>3 DEF Contains
  <2> QED BY <2>1, <2>2, <2>3
<1> QED BY <1>6, <1>8, <1>9 DEF r

(* RemoveFirst takes an element out, as list_del does. *)
LEMMA Retrait ==
    ASSUME NEW D, NEW s \in Seq(D), NEW e, IsInjective(s)
    PROVE  /\ RemoveFirst(s, e) \in Seq(D) /\ IsInjective(RemoveFirst(s, e))
           /\ \A x : Contains(RemoveFirst(s, e), x) <=> Contains(s, x) /\ x # e
<1> DEFINE n == Len(s)
           I == {i \in 1..n : s[i] = e}
           k == Min(I)
           a == SubSeq(s, 1, k - 1)
           b == SubSeq(s, k + 1, n)
           r == RemoveFirst(s, e)
<1>0. n \in Nat /\ DOMAIN s = 1..n
    OBVIOUS
<1>1. CASE I = {}
  <2>1. r = s /\ ~Contains(s, e)
      BY <1>1 DEF RemoveFirst, Contains
  <2> QED BY <2>1
<1>2. CASE I # {}
  <2>1. k \in 1..n /\ s[k] = e
    <3>1. I \subseteq Nat
        BY <1>0
    <3>2. k \in I
      <4> HIDE DEF I
      <4> QED BY <1>2, <3>1, PlusPetit
    <3> QED BY <3>2
  <2>2. r = a \o b
      BY <1>2 DEF RemoveFirst, RemoveAt, SelectInSeq
  <2>3. a \in Seq(D) /\ Len(a) = k - 1 /\ \A i \in 1..(k - 1) : a[i] = s[i]
    <3> HIDE DEF k
    <3> QED BY <1>0, <2>1, SubSeqProperties
  <2>4. b \in Seq(D) /\ Len(b) = n - k /\ \A i \in 1..(n - k) : b[i] = s[k + i]
    <3> HIDE DEF k, n
    <3>1. \A i \in (k + 1)..n : s[i] \in D
        BY <1>0, <2>1
    <3>2. /\ b \in Seq(D) /\ Len(b) = IF k + 1 <= n THEN n - (k + 1) + 1 ELSE 0
          /\ \A i \in 1..(n - (k + 1) + 1) : b[i] = s[(k + 1) + i - 1]
        BY <1>0, <2>1, <3>1, SubSeqProperties
    <3> HIDE DEF b
    <3>3. \A i \in 1..(n - k) : b[i] = s[k + i]
      <4> TAKE i \in 1..(n - k)
      <4>1. i \in 1..(n - (k + 1) + 1) /\ (k + 1) + i - 1 = k + i
          BY <1>0, <2>1
      <4> QED BY <3>2, <4>1
    <3> QED BY <1>0, <2>1, <3>2, <3>3
  <2> HIDE DEF n, I, k, a, b, r
  <2>5. /\ r \in Seq(D) /\ Len(r) = n - 1 /\ DOMAIN r = 1..(n - 1)
        /\ \A i \in 1..(n - 1) : r[i] = IF i < k THEN s[i] ELSE s[i + 1]
      BY <1>0, <2>1, <2>2, <2>3, <2>4, ConcatProperties
  <2>6. \A i \in 1..n : s[i] = e => i = k
      BY <1>0, <2>1 DEF IsInjective
  <2>7. IsInjective(r)
    <3>1. \A i, j \in 1..n : s[i] = s[j] => i = j
        BY <1>0 DEF IsInjective
    <3>2. ASSUME NEW i \in 1..(n - 1), NEW j \in 1..(n - 1), r[i] = r[j], i < j PROVE FALSE
      <4>1. r[i] = s[i] \/ (r[i] = s[i + 1] /\ i >= k)
          BY <1>0, <2>1, <2>5
      <4>2. (r[j] = s[j] /\ j < k) \/ r[j] = s[j + 1]
          BY <1>0, <2>1, <2>5
      <4>3. i \in 1..n /\ i + 1 \in 1..n /\ j \in 1..n /\ j + 1 \in 1..n
            /\ i # j /\ i # j + 1 /\ i + 1 # j + 1
          BY <1>0, <3>2
      <4> QED BY <1>0, <2>1, <3>1, <3>2, <4>1, <4>2, <4>3
    <3>3. \A i, j \in 1..(n - 1) : r[i] = r[j] => i = j
        BY <1>0, <3>2
    <3> QED BY <2>5, <3>3 DEF IsInjective
  <2>8. ASSUME NEW x PROVE Contains(r, x) <=> Contains(s, x) /\ x # e
    <3>1. ASSUME Contains(r, x) PROVE Contains(s, x) /\ x # e
        BY <1>0, <2>1, <2>5, <2>6, <3>1 DEF Contains, n
    <3>2. ASSUME Contains(s, x), x # e PROVE Contains(r, x)
      <4>1. PICK i \in 1..n : s[i] = x
          BY <3>2 DEF Contains, n
      <4>2. CASE i < k
          BY <1>0, <2>1, <2>5, <4>1, <4>2 DEF Contains
      <4>3. CASE i > k
        <5>1. r[i - 1] = x
            BY <1>0, <2>1, <2>5, <4>1, <4>3
        <5> QED BY <1>0, <2>1, <2>5, <4>3, <5>1 DEF Contains
      <4> QED BY <1>0, <2>1, <3>2, <4>1, <4>2, <4>3
    <3> QED BY <3>1, <3>2
  <2> QED BY <2>5, <2>7, <2>8 DEF r
<1> QED BY <1>1, <1>2

-----------------------------------------------------------------------------
(* Each step keeps the invariant. *)

LEMMA Distincts == \A t \in T : t # "ev" /\ t # "autre" /\ t # Personne
  BY TransfertsAssumption

(* Where a transfer is put is a place of the list. *)
LEMMA PlaceType ==
    ASSUME TypeTransferts, NEW t \in T
    PROVE  Place(t) \in 1..(Len(flying) + 1)
<1> DEFINE apres == {i \in DOMAIN flying : timeout[flying[i]] = 0 \/ timeout[flying[i]] > timeout[t]}
<1>0. Len(flying) \in Nat /\ DOMAIN flying = 1..Len(flying)
    BY DEF TypeTransferts
<1>1. apres # {} => Min(apres) \in apres
  <2>1. apres \subseteq Nat
      BY <1>0
  <2> HIDE DEF apres
  <2> QED BY <2>1, PlusPetit
<1>2. Place(t) = IF timeout[t] = 0 \/ apres = {} THEN Len(flying) + 1 ELSE Min(apres)
    BY DEF Place, Min
<1>3. apres \subseteq 1..Len(flying)
    BY <1>0
<1> HIDE DEF apres
<1>4. CASE timeout[t] = 0 \/ apres = {}
  <2>1. Place(t) = Len(flying) + 1
      BY <1>2, <1>4
  <2> QED BY <1>0, <2>1
<1>5. CASE ~(timeout[t] = 0 \/ apres = {})
  <2>1. Place(t) \in 1..Len(flying)
      BY <1>1, <1>2, <1>3, <1>5
  <2> QED BY <1>0, <2>1
<1> QED BY <1>4, <1>5

(* A submission that has not returned is not yet to be answered. *)
LEMMA PasAttendue ==
    ASSUME Inductif, NEW t \in T, pc[t] # "repos"
    PROVE  ~Attendue(t)
<1>1. acceptees[t] = reponses[t] /\ reponses[t] \in Nat
    BY DEF Inductif, TypeTransferts, ParTransfert, EnSoumission
<1> QED BY <1>1 DEF Attendue

(* What is in flight in the list is to be answered, and then its submission *)
(* has returned.                                                            *)
LEMMA EnVolAttendue ==
    ASSUME Inductif, NEW t \in T
    PROVE  /\ EnListe(t) /\ "IN_FLIGHT" \in flags[t] => Attendue(t)
           /\ Attendue(t) => ~lock[t] /\ pc[t] = "repos"
<1>1. Attendue(t) => ~lock[t] /\ pc[t] = "repos"
    BY DEF Inductif, TypeTransferts, ParTransfert, EnSoumission, Attendue
<1>2. ASSUME EnListe(t), "IN_FLIGHT" \in flags[t] PROVE Attendue(t)
  <2>1. ~lock[t]
      BY <1>2 DEF Inductif, ParTransfert, EnSoumission
  <2> QED BY <1>2, <2>1 DEF Inductif, ParTransfert, EnSoumission, EnVol
<1> QED BY <1>1, <1>2

LEMMA EtapeSoumet ==
    ASSUME Inductif, NEW t \in T, NEW d \in Delais[t], Soumet(t, d)
    PROVE  Inductif'
<1> USE DEF Soumet, calculate_timeout, FlagsSoumis, backend, histoire
<1>0. t \notin ecrases /\ ~EnListe(t)
  <2>1. acceptees[t] = reponses[t] /\ reponses[t] \in Nat
      BY DEF Inductif, TypeTransferts
  <2>2. ~Attendue(t)
      BY <2>1 DEF Attendue
  <2> QED BY <2>2 DEF Inductif, ParTransfert, EnVol
<1>01. \A g \in Minuteurs : pc[g] \in {"traite", "annule", "marque"} => cur[g] # t
    BY <1>0 DEF Inductif, EnMinuterie
<1>1. TypeTransferts'
    BY SMTT(20), Distincts DEF Inductif, TypeTransferts, Fils, Minuteurs, Drapeaux, EtapesSoumission, EtapesListe, EtapesReponse
<1>2. (horloge <= rang)'
    BY DEF Inductif, TypeTransferts
<1>3. SansDouble'
    BY DEF Inductif, SansDouble
<1>4. ASSUME NEW u \in T PROVE EnSoumission(u)'
  <2>1. flags'[u] \subseteq flags[u] \/ flags'[u] = {"SUBMITTING"}
      BY DEF Inductif, TypeTransferts
  <2> QED BY <2>1, Distincts DEF Inductif, TypeTransferts, Fils, ParTransfert, EnSoumission, Attendue
<1>5. ASSUME NEW u \in T PROVE EnVol(u)'
    BY SMTT(40), Distincts DEF Echu, Inductif, TypeTransferts, Fils, Minuteurs, ParTransfert, EnSoumission, EnVol, EnListe, Attendue, EnReponse, EtapesReponse
<1>6. ASSUME NEW u \in T PROVE AuNoyau(u)'
    BY Distincts DEF Inductif, TypeTransferts, Fils, Minuteurs, ParTransfert, EnSoumission, EnVol, AuNoyau, Attendue, EnMain, EnReponse, EtapesReponse
<1>7. ASSUME NEW u \in T PROVE Annulation(u)'
    BY Distincts DEF Inductif, TypeTransferts, Fils, Minuteurs, ParTransfert, EnSoumission, EnVol, Annulation, Attendue
<1>8. EnReponse'
    BY Distincts DEF Inductif, TypeTransferts, Fils, Minuteurs, ParTransfert, EnSoumission, EnVol, Annulation, AuNoyau, Attendue, EnReponse, EtapesReponse, EnMain
<1>9. ASSUME NEW g \in Minuteurs PROVE EnMinuterie(g)'
  <2>1. pc'[g] = pc[g] /\ (pc[g] = "marque" => (Attendue(cur[g])' <=> Attendue(cur[g])))
      BY Distincts DEF Inductif, TypeTransferts, Fils, Minuteurs, Attendue
  <2>2. pc[g] \in {"traite", "annule", "marque"} =>
          /\ cur[g] \in T /\ flags'[cur[g]] = flags[cur[g]]
          /\ (Echu(cur[g])' <=> Echu(cur[g])) /\ (EnListe(cur[g])' <=> EnListe(cur[g]))
      BY <1>01 DEF Echu, EnListe, Inductif, TypeTransferts, EnMinuterie
  <2> QED BY <2>1, <2>2 DEF Inductif, EnMinuterie
<1> QED BY <1>1, <1>2, <1>3, <1>4, <1>5, <1>6, <1>7, <1>8, <1>9 DEF Inductif, ParTransfert

LEMMA EtapeAjoute ==
    ASSUME Inductif, NEW t \in T, add_to_flying_list(t)
    PROVE  Inductif'
<1> USE DEF add_to_flying_list, backend, histoire
<1>0. /\ flying' \in Seq(T) /\ IsInjective(flying')
      /\ \A x : Contains(flying', x) <=> Contains(flying, x) \/ x = t
  <2>1. flying \in Seq(T) /\ IsInjective(flying) /\ ~Contains(flying, t)
    <3>1. ~Attendue(t)
        BY PasAttendue
    <3> QED BY <3>1 DEF Inductif, TypeTransferts, SansDouble, ParTransfert, EnVol, EnListe
  <2>2. Place(t) \in 1..(Len(flying) + 1)
      BY PlaceType DEF Inductif
  <2> QED BY <2>1, <2>2, Insertion
<1>1. TypeTransferts'
    BY <1>0, Distincts DEF Inductif, TypeTransferts, Fils, Minuteurs, Drapeaux, EtapesSoumission, EtapesListe, EtapesReponse
<1>2. (horloge <= rang)'
    BY DEF Inductif, TypeTransferts
<1>3. SansDouble'
    BY <1>0 DEF SansDouble
<1>4. ASSUME NEW u \in T PROVE EnSoumission(u)'
    BY Distincts DEF Inductif, TypeTransferts, Fils, Minuteurs, ParTransfert, EnSoumission, Attendue
<1>5. ASSUME NEW u \in T PROVE EnVol(u)'
    BY <1>0, Distincts DEF Echu, Inductif, TypeTransferts, Fils, Minuteurs, ParTransfert, EnSoumission, EnVol, EnListe, Attendue, EnReponse, EtapesReponse
<1>6. ASSUME NEW u \in T PROVE AuNoyau(u)'
    BY Distincts DEF Inductif, TypeTransferts, Fils, Minuteurs, ParTransfert, EnSoumission, EnVol, AuNoyau, Attendue, EnMain, EnReponse, EtapesReponse
<1>7. ASSUME NEW u \in T PROVE Annulation(u)'
    BY Distincts DEF Inductif, TypeTransferts, Fils, Minuteurs, ParTransfert, EnSoumission, EnVol, Annulation, Attendue
<1>8. EnReponse'
    BY Distincts DEF Inductif, TypeTransferts, Fils, Minuteurs, ParTransfert, EnSoumission, EnVol, Annulation, AuNoyau, Attendue, EnReponse, EtapesReponse, EnMain
<1>9. ASSUME NEW g \in Minuteurs PROVE EnMinuterie(g)'
    BY <1>0, Distincts DEF Echu, Inductif, TypeTransferts, Fils, Minuteurs, ParTransfert, EnSoumission, EnVol, EnListe, Attendue, EnMinuterie, EtapesListe
<1> QED BY <1>1, <1>2, <1>3, <1>4, <1>5, <1>6, <1>7, <1>8, <1>9 DEF Inductif, ParTransfert

LEMMA EtapeOpSoumet ==
    ASSUME Inductif, NEW t \in T, op_submit_transfer(t)
    PROVE  Inductif'
<1> USE DEF op_submit_transfer, backend, histoire
<1>0. /\ pc'[t] \in {"soumis", "echec"} /\ \A u \in T : u # t => pc'[u] = pc[u]
      /\ pc'["ev"] = pc["ev"] /\ pc'["autre"] = pc["autre"]
    BY Distincts DEF Inductif, TypeTransferts, Fils, Minuteurs
<1>01. \A u \in T : (Attendue(u)' <=> Attendue(u)) /\ (EnListe(u)' <=> EnListe(u))
    BY DEF Attendue, EnListe
<1>02. ~Attendue(t)
    BY PasAttendue
<1>1. TypeTransferts'
  <2>1. CASE branche /\ noyau' = [noyau EXCEPT ![t] = "cours"] /\ pc' = [pc EXCEPT ![t] = "soumis"]
             /\ urbs' = [urbs EXCEPT ![t] = TRUE] /\ annule' = [annule EXCEPT ![t] = FALSE]
      BY <2>1, Distincts DEF Inductif, TypeTransferts, Fils, Minuteurs, Drapeaux, EtapesSoumission, EtapesListe, EtapesReponse
  <2>2. CASE pc' = [pc EXCEPT ![t] = "echec"] /\ UNCHANGED <<urbs, annule, noyau>>
      BY <2>2, Distincts DEF Inductif, TypeTransferts, Fils, Minuteurs, Drapeaux, EtapesSoumission, EtapesListe, EtapesReponse
  <2> QED BY <2>1, <2>2
<1>2. (horloge <= rang)'
    BY DEF Inductif, TypeTransferts
<1>3. SansDouble'
    BY DEF Inductif, SansDouble
<1>4. ASSUME NEW u \in T PROVE EnSoumission(u)'
    BY Distincts DEF Inductif, TypeTransferts, Fils, Minuteurs, ParTransfert, EnSoumission, Attendue
<1>5. ASSUME NEW u \in T PROVE EnVol(u)'
    BY <1>0, <1>01 DEF Echu, Inductif, ParTransfert, EnVol
<1>6. ASSUME NEW u \in T PROVE AuNoyau(u)'
  <2>1. pc["ev"] \in EtapesReponse => cur["ev"] # t
      BY <1>02 DEF Inductif, EnReponse
  <2>2. EnMain(u)' <=> EnMain(u)
      BY <1>0 DEF EnMain
  <2>3. CASE u # t
    <3>1. noyau'[u] = noyau[u] /\ pc'[u] = pc[u]
        BY <1>0, <2>3 DEF Inductif, TypeTransferts
    <3> QED BY <1>01, <2>2, <3>1 DEF Inductif, ParTransfert, AuNoyau
  <2>4. CASE u = t
    <3>1. noyau'[t] # "rien" => branche /\ pc'[t] = "soumis"
        BY <1>02, Distincts DEF Inductif, TypeTransferts, ParTransfert, AuNoyau, Fils
    <3> QED BY <2>1, <2>2, <2>4, <3>1 DEF Inductif, ParTransfert, AuNoyau, EnMain
  <2> QED BY <2>3, <2>4
<1>7. ASSUME NEW u \in T PROVE Annulation(u)'
  <2>1. CASE branche /\ noyau' = [noyau EXCEPT ![t] = "cours"] /\ pc' = [pc EXCEPT ![t] = "soumis"]
             /\ urbs' = [urbs EXCEPT ![t] = TRUE] /\ annule' = [annule EXCEPT ![t] = FALSE]
      BY <2>1, Distincts DEF Inductif, TypeTransferts, Fils, Minuteurs, ParTransfert, EnSoumission, EnVol, Annulation, Attendue
  <2>2. CASE pc' = [pc EXCEPT ![t] = "echec"] /\ UNCHANGED <<urbs, annule, noyau>>
      BY <2>2, Distincts DEF Inductif, TypeTransferts, Fils, Minuteurs, ParTransfert, EnSoumission, EnVol, Annulation, Attendue
  <2> QED BY <2>1, <2>2
<1>8. EnReponse'
    BY <1>0, <1>01, <1>02 DEF Inductif, TypeTransferts, EnReponse, EtapesReponse
<1>9. ASSUME NEW g \in Minuteurs PROVE EnMinuterie(g)'
    BY Distincts DEF Echu, Inductif, TypeTransferts, Fils, Minuteurs, ParTransfert, EnSoumission, EnVol, EnListe, Attendue, EnMinuterie, EtapesListe
<1> QED BY <1>1, <1>2, <1>3, <1>4, <1>5, <1>6, <1>7, <1>8, <1>9 DEF Inductif, ParTransfert

LEMMA EtapeAccepte ==
    ASSUME Inductif, NEW t \in T, Accepte(t)
    PROVE  Inductif'
<1> USE DEF Accepte, Disparu, backend, histoire
<1>0. /\ ~Attendue(t) /\ lock[t] /\ flags[t] \subseteq {"SUBMITTING", "TIMEOUT_HANDLED"} /\ Contains(flying, t)
      /\ flags' = [flags EXCEPT ![t] = (@ \ {"SUBMITTING"}) \cup {"IN_FLIGHT"}]
  <2>1. flags[t] \subseteq {"SUBMITTING", "TIMEOUT_HANDLED"} /\ lock[t] /\ acceptees[t] = reponses[t]
      BY DEF Inductif, ParTransfert, EnSoumission
  <2>2. "COMPLETED" \notin flags[t]
      BY <2>1
  <2>3. Contains(flying, t)
      BY DEF Inductif, ParTransfert, EnVol, EnListe
  <2>4. ~Attendue(t)
      BY <2>1 DEF Attendue, Inductif, TypeTransferts
  <2> QED BY <2>1, <2>2, <2>3, <2>4 DEF Inductif, TypeTransferts
<1>01. Attendue(t)' /\ \A u \in T : u # t => (Attendue(u)' <=> Attendue(u))
  <2>1. acceptees[t] = reponses[t]
      BY DEF Inductif, ParTransfert, EnSoumission
  <2> QED BY <2>1 DEF Inductif, TypeTransferts, Attendue
<1>1. TypeTransferts'
  <2>1. pc' \in [Fils -> EtapesSoumission \cup EtapesListe \cup EtapesReponse \cup {"parti"}]
      BY <1>0, Distincts DEF Inductif, TypeTransferts, Fils, Minuteurs, EtapesSoumission, EtapesListe, EtapesReponse
  <2>2. /\ \A u \in T : pc'[u] \in EtapesSoumission
        /\ pc'["autre"] \in EtapesListe \cup {"repos"}
        /\ pc'["ev"] \in EtapesListe \cup EtapesReponse \cup {"repos", "parti"}
      BY <1>0, Distincts DEF Inductif, TypeTransferts, Fils, Minuteurs, EtapesSoumission, EtapesListe, EtapesReponse
  <2>3. flags' \in [T -> SUBSET Drapeaux]
      BY <1>0, Distincts DEF Inductif, TypeTransferts, Fils, Minuteurs, Drapeaux
  <2>4. acceptees' \in [T -> Nat] /\ lock' \in [T -> BOOLEAN]
      BY DEF Inductif, TypeTransferts
  <2> QED BY <2>1, <2>2, <2>3, <2>4 DEF Inductif, TypeTransferts
<1>2. (horloge <= rang)'
    BY DEF Inductif, TypeTransferts
<1>3. SansDouble'
    BY DEF Inductif, SansDouble
<1>4. ASSUME NEW u \in T PROVE EnSoumission(u)'
    BY ZenonT(60), Distincts DEF Inductif, TypeTransferts, Fils, Minuteurs, ParTransfert, EnSoumission, Attendue
<1>5. ASSUME NEW u \in T PROVE EnVol(u)'
    BY <1>0, <1>01, Distincts DEF Echu, Inductif, TypeTransferts, Fils, Minuteurs, ParTransfert, EnSoumission, EnVol, EnListe, EnReponse, EtapesReponse
<1>6. ASSUME NEW u \in T PROVE AuNoyau(u)'
    BY SMTT(40), <1>0, <1>01, Distincts DEF Inductif, TypeTransferts, Fils, Minuteurs, ParTransfert, EnSoumission, AuNoyau, EnMain
<1>7. ASSUME NEW u \in T PROVE Annulation(u)'
    BY SMTT(20), Distincts DEF Inductif, TypeTransferts, Fils, Minuteurs, ParTransfert, EnSoumission, EnVol, Annulation, Attendue
<1>8. EnReponse'
    BY Distincts DEF Inductif, TypeTransferts, Fils, Minuteurs, ParTransfert, EnSoumission, EnVol, Annulation, AuNoyau, Attendue, EnReponse, EtapesReponse, EnMain
<1>9. ASSUME NEW g \in Minuteurs PROVE EnMinuterie(g)'
    BY ZenonT(60), Distincts DEF Echu, Inductif, TypeTransferts, Fils, Minuteurs, ParTransfert, EnSoumission, EnVol, EnListe, Attendue, EnMinuterie, EtapesListe
<1> QED BY <1>1, <1>2, <1>3, <1>4, <1>5, <1>6, <1>7, <1>8, <1>9 DEF Inductif, ParTransfert

LEMMA EtapeRefuse ==
    ASSUME Inductif, NEW t \in T, Refuse(t)
    PROVE  Inductif'
<1> USE DEF Refuse, Disparu, backend, histoire
<1>01. ~Attendue(t)
    BY PasAttendue
<1>02. \A u \in T : Attendue(u)' <=> Attendue(u)
    BY DEF Attendue
<1>1. TypeTransferts'
    BY Distincts DEF Inductif, TypeTransferts, Fils, Minuteurs, Drapeaux, EtapesSoumission, EtapesListe, EtapesReponse
<1>2. (horloge <= rang)'
    BY DEF Inductif, TypeTransferts
<1>3. SansDouble'
    BY DEF Inductif, SansDouble
<1>4. ASSUME NEW u \in T PROVE EnSoumission(u)'
    BY Distincts DEF Inductif, TypeTransferts, Fils, Minuteurs, ParTransfert, EnSoumission, Attendue
<1>5. ASSUME NEW u \in T PROVE EnVol(u)'
    BY Distincts DEF Echu, Inductif, TypeTransferts, Fils, Minuteurs, ParTransfert, EnSoumission, EnVol, EnListe, Attendue, EnReponse, EtapesReponse
<1>6. ASSUME NEW u \in T PROVE AuNoyau(u)'
    BY Distincts DEF Inductif, TypeTransferts, Fils, Minuteurs, ParTransfert, EnSoumission, EnVol, AuNoyau, Attendue, EnMain, EnReponse, EtapesReponse
<1>7. ASSUME NEW u \in T PROVE Annulation(u)'
    BY Distincts DEF Inductif, TypeTransferts, Fils, Minuteurs, ParTransfert, EnSoumission, EnVol, Annulation, Attendue
<1>8. EnReponse'
    BY Distincts DEF Inductif, TypeTransferts, Fils, Minuteurs, ParTransfert, EnSoumission, EnVol, Annulation, AuNoyau, Attendue, EnReponse, EtapesReponse, EnMain
<1>9. ASSUME NEW g \in Minuteurs PROVE EnMinuterie(g)'
    BY <1>01, <1>02, Distincts DEF Echu, Inductif, TypeTransferts, Fils, Minuteurs, EnListe, EnMinuterie
<1> QED BY <1>1, <1>2, <1>3, <1>4, <1>5, <1>6, <1>7, <1>8, <1>9 DEF Inductif, ParTransfert

LEMMA EtapeRetire ==
    ASSUME Inductif, NEW t \in T, Retire(t)
    PROVE  Inductif'
<1> USE DEF Retire, backend, histoire
<1>0. /\ flying' \in Seq(T) /\ IsInjective(flying')
      /\ \A x : Contains(flying', x) <=> Contains(flying, x) /\ x # t
    BY Retrait DEF Inductif, TypeTransferts, SansDouble
<1>01. ~Attendue(t)
    BY PasAttendue
<1>02. \A u \in T : Attendue(u)' <=> Attendue(u)
    BY DEF Attendue
<1>1. TypeTransferts'
    BY <1>0, Distincts DEF Inductif, TypeTransferts, Fils, Minuteurs, Drapeaux, EtapesSoumission, EtapesListe, EtapesReponse
<1>2. (horloge <= rang)'
    BY DEF Inductif, TypeTransferts
<1>3. SansDouble'
    BY <1>0 DEF SansDouble
<1>4. ASSUME NEW u \in T PROVE EnSoumission(u)'
    BY Distincts DEF Inductif, TypeTransferts, Fils, Minuteurs, ParTransfert, EnSoumission, Attendue
<1>5. ASSUME NEW u \in T PROVE EnVol(u)'
    BY <1>0, <1>01, <1>02, Distincts DEF Echu, Inductif, TypeTransferts, Fils, Minuteurs, ParTransfert, EnVol, EnListe
<1>6. ASSUME NEW u \in T PROVE AuNoyau(u)'
    BY Distincts DEF Inductif, TypeTransferts, Fils, Minuteurs, ParTransfert, EnSoumission, EnVol, AuNoyau, Attendue, EnMain, EnReponse, EtapesReponse
<1>7. ASSUME NEW u \in T PROVE Annulation(u)'
    BY Distincts DEF Inductif, TypeTransferts, Fils, Minuteurs, ParTransfert, EnSoumission, EnVol, Annulation, Attendue
<1>8. EnReponse'
    BY Distincts DEF Inductif, TypeTransferts, Fils, Minuteurs, ParTransfert, EnSoumission, EnVol, Annulation, AuNoyau, Attendue, EnReponse, EtapesReponse, EnMain
<1>9. ASSUME NEW g \in Minuteurs PROVE EnMinuterie(g)'
  <2>1. pc[g] \notin EtapesListe /\ pc'[g] = pc[g]
      BY Distincts, TransfertsAssumption DEF Inductif, TypeTransferts, Fils, Minuteurs, EnMinuterie
  <2> QED BY <2>1, Distincts, TransfertsAssumption DEF Minuteurs, EnMinuterie, EtapesListe
<1> QED BY <1>1, <1>2, <1>3, <1>4, <1>5, <1>6, <1>7, <1>8, <1>9 DEF Inductif, ParTransfert

LEMMA EtapeAnnule ==
    ASSUME Inductif, NEW t \in T, Annule(t)
    PROVE  Inductif'
<1> USE DEF Annule, libusb_cancel_transfer, Annulable, Discard, backend, histoire
<1>1. TypeTransferts'
    BY ZenonT(60), Distincts DEF Inductif, TypeTransferts, Fils, Minuteurs, Drapeaux, EtapesSoumission, EtapesListe, EtapesReponse
<1>2. (horloge <= rang)'
    BY DEF Inductif, TypeTransferts
<1>3. SansDouble'
    BY DEF Inductif, SansDouble
<1>4. ASSUME NEW u \in T PROVE EnSoumission(u)'
    BY ZenonT(60), Distincts DEF Inductif, TypeTransferts, Fils, Minuteurs, ParTransfert, EnSoumission, Attendue
<1>5. ASSUME NEW u \in T PROVE EnVol(u)'
    BY Distincts DEF Echu, Inductif, TypeTransferts, Fils, Minuteurs, ParTransfert, EnSoumission, EnVol, EnListe, Attendue, EnReponse, EtapesReponse
<1>6. ASSUME NEW u \in T PROVE AuNoyau(u)'
    BY Distincts DEF Inductif, TypeTransferts, Fils, Minuteurs, ParTransfert, EnSoumission, EnVol, AuNoyau, Attendue, EnMain, EnReponse, EtapesReponse
<1>7. ASSUME NEW u \in T PROVE Annulation(u)'
    BY Distincts DEF Inductif, TypeTransferts, Fils, Minuteurs, ParTransfert, EnSoumission, EnVol, Annulation, Attendue
<1>8. EnReponse'
    BY Distincts DEF Inductif, TypeTransferts, Fils, Minuteurs, ParTransfert, EnSoumission, EnVol, Annulation, AuNoyau, Attendue, EnReponse, EtapesReponse, EnMain
<1>9. ASSUME NEW g \in Minuteurs PROVE EnMinuterie(g)'
    BY Distincts DEF Echu, Inductif, TypeTransferts, Fils, Minuteurs, ParTransfert, EnSoumission, EnVol, EnListe, Attendue, EnMinuterie, EtapesListe
<1> QED BY <1>1, <1>2, <1>3, <1>4, <1>5, <1>6, <1>7, <1>8, <1>9 DEF Inductif, ParTransfert

LEMMA EtapeHandleTimeouts ==
    ASSUME Inductif, NEW f \in Minuteurs, handle_timeouts(f)
    PROVE  Inductif'
<1> USE DEF handle_timeouts, backend, histoire
<1>0. /\ \A g \in Minuteurs : pc[g] \notin EtapesListe
      /\ \A g \in Minuteurs : pc'[g] = IF g = f THEN "cherche" ELSE pc[g]
    BY TransfertsAssumption DEF Inductif, TypeTransferts, Fils, Minuteurs, EnMinuterie
<1>1. TypeTransferts'
  <2>1. pc' \in [Fils -> EtapesSoumission \cup EtapesListe \cup EtapesReponse \cup {"parti"}]
      BY Distincts DEF Inductif, TypeTransferts, Fils, Minuteurs, EtapesSoumission, EtapesListe, EtapesReponse
  <2>2. /\ \A u \in T : pc'[u] \in EtapesSoumission
        /\ pc'["autre"] \in EtapesListe \cup {"repos"}
        /\ pc'["ev"] \in EtapesListe \cup EtapesReponse \cup {"repos", "parti"}
      BY Distincts DEF Inductif, TypeTransferts, Fils, Minuteurs, EtapesSoumission, EtapesListe, EtapesReponse
  <2> QED BY <2>1, <2>2 DEF Inductif, TypeTransferts, Fils, Minuteurs
<1>2. (horloge <= rang)'
    BY DEF Inductif, TypeTransferts
<1>3. SansDouble'
    BY DEF Inductif, SansDouble
<1>4. ASSUME NEW u \in T PROVE EnSoumission(u)'
    BY Distincts DEF Inductif, TypeTransferts, Fils, Minuteurs, ParTransfert, EnSoumission, Attendue
<1>5. ASSUME NEW u \in T PROVE EnVol(u)'
    BY Distincts DEF Echu, Inductif, TypeTransferts, Fils, Minuteurs, ParTransfert, EnSoumission, EnVol, EnListe, Attendue, EnReponse, EtapesReponse
<1>6. ASSUME NEW u \in T PROVE AuNoyau(u)'
    BY Distincts DEF Inductif, TypeTransferts, Fils, Minuteurs, ParTransfert, EnSoumission, EnVol, AuNoyau, Attendue, EnMain, EnReponse, EtapesReponse
<1>7. ASSUME NEW u \in T PROVE Annulation(u)'
    BY Distincts DEF Inductif, TypeTransferts, Fils, Minuteurs, ParTransfert, EnSoumission, EnVol, Annulation, Attendue
<1>8. EnReponse'
    BY Distincts DEF Inductif, TypeTransferts, Fils, Minuteurs, ParTransfert, EnSoumission, EnVol, Annulation, AuNoyau, Attendue, EnReponse, EtapesReponse, EnMain
<1>9. ASSUME NEW g \in Minuteurs PROVE EnMinuterie(g)'
  <2>1. volLock' = g <=> pc'[g] \in EtapesListe
      BY <1>0, TransfertsAssumption DEF Minuteurs, EtapesListe
  <2> QED BY <1>0, <2>1 DEF EnMinuterie, EtapesListe
<1> QED BY <1>1, <1>2, <1>3, <1>4, <1>5, <1>6, <1>7, <1>8, <1>9 DEF Inductif, ParTransfert

LEMMA EtapeCherche ==
    ASSUME Inductif, NEW f \in Minuteurs, Cherche(f)
    PROVE  Inductif'
<1> USE DEF Cherche, backend, histoire
<1>0. f \in Fils /\ volLock = f /\ \A g \in Minuteurs : g # f => pc[g] \notin EtapesListe
    BY DEF Inductif, Fils, EnMinuterie, EtapesListe
<1>01. \/ pc' = [pc EXCEPT ![f] = "repos"] /\ volLock' = Personne /\ cur' = [cur EXCEPT ![f] = Personne] /\ UNCHANGED lu
       \/ /\ pc' = [pc EXCEPT ![f] = "traite"] /\ volLock' = f
          /\ cur'[f] \in T /\ EnListe(cur'[f]) /\ Echu(cur'[f]) /\ lu'[f] = flags[cur'[f]]
          /\ cur' \in [Minuteurs -> T \cup {Personne}] /\ lu' \in [Minuteurs -> SUBSET Drapeaux]
          /\ \A g \in Minuteurs : g # f => cur'[g] = cur[g]
  <2>1. CASE Expires(f) = {}
      BY <2>1
  <2>2. CASE Expires(f) # {}
    <3> DEFINE i == CHOOSE k \in Expires(f) : \A j \in Expires(f) : k <= j
    <3>1. DOMAIN flying = 1..Len(flying) /\ Len(flying) \in Nat
        BY DEF Inductif, TypeTransferts
    <3>2. i \in Expires(f)
      <4>1. Expires(f) \subseteq Nat
          BY <3>1 DEF Expires
      <4>2. i = Min(Expires(f))
          BY DEF Min
      <4> HIDE DEF i
      <4> QED BY <2>2, <4>1, <4>2, PlusPetit
    <3>3. /\ pc' = [pc EXCEPT ![f] = "traite"] /\ volLock' = f
          /\ cur' = [cur EXCEPT ![f] = flying[i]] /\ lu' = [lu EXCEPT ![f] = flags[flying[i]]]
        BY <1>0, <2>2
    <3> HIDE DEF i, Cherche
    <3>4. flying[i] \in T /\ EnListe(flying[i]) /\ Echu(flying[i])
        BY <3>1, <3>2 DEF Expires, EnListe, Contains, Inductif, TypeTransferts
    <3> QED BY <3>3, <3>4 DEF Inductif, TypeTransferts, Minuteurs
  <2> QED BY <2>1, <2>2
<1>02. /\ \A u \in T : pc'[u] = pc[u] /\ (Attendue(u)' <=> Attendue(u)) /\ (EnListe(u)' <=> EnListe(u))
       /\ \A g \in Minuteurs : g # f => pc'[g] = pc[g]
       /\ pc'[f] \in {"repos", "traite"}
    BY <1>0, <1>01, Distincts DEF Inductif, TypeTransferts, Fils, Minuteurs, Attendue, EnListe
<1>03. UNCHANGED <<flags, lock, timeout, status, flying, urbs, annule, noyau, branche, surveille, horloge,
                   rang, acceptees, reponses, demande, ecrases>>
    OBVIOUS
<1>04. pc[f] = "cherche"
    OBVIOUS
<1>05. pc["ev"] \in EtapesReponse \cup {"parti"} \/ pc'["ev"] \in EtapesReponse \cup {"parti"}
         => pc'["ev"] = pc["ev"] /\ cur'["ev"] = cur["ev"]
    BY <1>01, <1>02, <1>04 DEF Minuteurs, EtapesReponse, Inductif, TypeTransferts
<1> HIDE DEF Cherche
<1>1. TypeTransferts'
  <2>1. pc' \in [Fils -> EtapesSoumission \cup EtapesListe \cup EtapesReponse \cup {"parti"}]
      BY ZenonT(60), <1>01 DEF Inductif, TypeTransferts, EtapesSoumission, EtapesListe
  <2>2. pc'["autre"] \in EtapesListe \cup {"repos"} /\ pc'["ev"] \in EtapesListe \cup EtapesReponse \cup {"repos", "parti"}
      BY <1>02 DEF Inductif, TypeTransferts, Minuteurs, EtapesListe
  <2>3. volLock' \in Minuteurs \cup {Personne} /\ cur' \in [Minuteurs -> T \cup {Personne}] /\ lu' \in [Minuteurs -> SUBSET Drapeaux]
      BY <1>01 DEF Inductif, TypeTransferts
  <2> QED BY <1>02, <1>03, <2>1, <2>2, <2>3 DEF Inductif, TypeTransferts
<1>2. (horloge <= rang)'
    BY <1>03 DEF Inductif
<1>3. SansDouble'
    BY <1>03 DEF Inductif, SansDouble
<1>4. ASSUME NEW u \in T PROVE EnSoumission(u)'
    BY <1>02, <1>03 DEF Inductif, ParTransfert, EnSoumission, Attendue
<1>5. ASSUME NEW u \in T PROVE EnVol(u)'
    BY <1>02, <1>03, <1>05 DEF Echu, Inductif, ParTransfert, EnVol, EtapesReponse
<1>6. ASSUME NEW u \in T PROVE AuNoyau(u)'
    BY <1>02, <1>03, <1>05 DEF Inductif, ParTransfert, AuNoyau, EnMain
<1>7. ASSUME NEW u \in T PROVE Annulation(u)'
  <2>1. \A g \in Minuteurs : pc[g] # "marque" /\ pc'[g] # "marque"
      BY <1>0, <1>02, <1>04 DEF EtapesListe
  <2> QED BY <1>02, <1>03, <2>1 DEF Inductif, ParTransfert, Annulation
<1>8. EnReponse'
    BY <1>02, <1>03, <1>05 DEF Inductif, TypeTransferts, EnReponse, EtapesReponse
<1>9. ASSUME NEW g \in Minuteurs PROVE EnMinuterie(g)'
  <2>1. CASE g = f
      BY <1>01, <1>02, <1>03, <2>1, TransfertsAssumption DEF Echu, Inductif, ParTransfert, EnVol, TypeTransferts, Fils, Minuteurs, EnMinuterie, EtapesListe
  <2>2. CASE g # f
      BY <1>0, <1>01, <1>02, <2>2, TransfertsAssumption DEF Echu, EnMinuterie, EtapesListe, Minuteurs
  <2> QED BY <2>1, <2>2
<1> QED BY <1>1, <1>2, <1>3, <1>4, <1>5, <1>6, <1>7, <1>8, <1>9 DEF Inductif, ParTransfert

LEMMA EtapeTraite ==
    ASSUME Inductif, NEW f \in Minuteurs, Traite(f)
    PROVE  Inductif'
<1> USE DEF Traite, backend, histoire
<1>0. /\ f \in Fils /\ cur[f] \in T /\ EnListe(cur[f]) /\ Echu(cur[f])
      /\ "IN_FLIGHT" \in flags[cur[f]] => Attendue(cur[f])
      /\ Attendue(cur[f]) => ~lock[cur[f]]
      /\ \A g \in Minuteurs : pc[g] \in EtapesListe => g = f
  <2>1. /\ f \in Fils /\ cur[f] \in T /\ EnListe(cur[f]) /\ Echu(cur[f])
        /\ \A g \in Minuteurs : pc[g] \in EtapesListe => g = f
      BY DEF Inductif, TypeTransferts, Fils, EnMinuterie, EtapesListe
  <2> QED BY <2>1, EnVolAttendue
<1>01. /\ flags' \in [T -> SUBSET Drapeaux] /\ \A u \in T : u # cur[f] => flags'[u] = flags[u]
       /\ flags'[cur[f]] \subseteq flags[cur[f]] \cup {"SUBMITTING", "TIMEOUT_HANDLED"}
       /\ "TIMED_OUT" \in flags[cur[f]] => "TIMED_OUT" \in flags'[cur[f]]
       /\ ecrases \subseteq ecrases' /\ ecrases' \subseteq ecrases \cup {cur[f]}
       /\ cur[f] \in ecrases' \ ecrases => Attendue(cur[f])
       /\ cur[f] \in ecrases' => "TIMEOUT_HANDLED" \in flags'[cur[f]]
       /\ "IN_FLIGHT" \in flags[cur[f]] => "IN_FLIGHT" \in flags'[cur[f]] \/ cur[f] \in ecrases'
  <2>1. CASE UNCHANGED <<flags, ecrases>>
      BY <1>0, <2>1 DEF Inductif, TypeTransferts, ParTransfert, EnVol
  <2>2. CASE /\ flags' = [flags EXCEPT ![cur[f]] = lu[f] \cup {"TIMEOUT_HANDLED"}]
             /\ ecrases' = ecrases \cup ({cur[f]} \cap {t \in T : "IN_FLIGHT" \in flags[t] \ lu[f]})
    <3>1. /\ lu[f] \subseteq flags[cur[f]] \cup {"SUBMITTING"}
          /\ "TIMED_OUT" \in flags[cur[f]] => "TIMED_OUT" \in lu[f]
        BY DEF Inductif, EnMinuterie
    <3>2. lu[f] \cup {"TIMEOUT_HANDLED"} \in SUBSET Drapeaux
        BY DEF Inductif, TypeTransferts, Drapeaux
    <3>3. flags'[cur[f]] = lu[f] \cup {"TIMEOUT_HANDLED"} /\ \A u \in T : u # cur[f] => flags'[u] = flags[u]
        BY <1>0, <2>2 DEF Inductif, TypeTransferts
    <3>4. flags' \in [T -> SUBSET Drapeaux]
        BY <2>2, <3>2 DEF Inductif, TypeTransferts
    <3> QED BY <1>0, <2>2, <3>1, <3>3, <3>4
  <2> QED BY <2>1, <2>2
<1>02. \A u \in T : pc'[u] = pc[u] /\ (Attendue(u)' <=> Attendue(u)) /\ (EnListe(u)' <=> EnListe(u))
    BY Distincts DEF Inductif, TypeTransferts, Fils, Minuteurs, Attendue, EnListe
<1>03. \A g \in Minuteurs : pc'[g] = IF g = f THEN "annule" ELSE pc[g]
    BY DEF Inductif, TypeTransferts, Fils
<1>1. TypeTransferts'
  <2>1. pc' \in [Fils -> EtapesSoumission \cup EtapesListe \cup EtapesReponse \cup {"parti"}]
      BY DEF Inductif, TypeTransferts, EtapesListe
  <2>2. pc'["autre"] \in EtapesListe \cup {"repos"} /\ pc'["ev"] \in EtapesListe \cup EtapesReponse \cup {"repos", "parti"}
      BY <1>03 DEF Inductif, TypeTransferts, Minuteurs, EtapesListe
  <2> QED BY <1>01, <1>02, <2>1, <2>2 DEF Inductif, TypeTransferts
<1>2. (horloge <= rang)'
    BY DEF Inductif, TypeTransferts
<1>3. SansDouble'
    BY DEF Inductif, SansDouble
<1>4. ASSUME NEW u \in T PROVE EnSoumission(u)'
    BY <1>0, <1>01, <1>02 DEF Inductif, ParTransfert, EnSoumission, Attendue
<1>5. ASSUME NEW u \in T PROVE EnVol(u)'
    BY <1>0, <1>01, <1>02, <1>03 DEF Echu, Inductif, ParTransfert, EnVol, Minuteurs
<1>6. ASSUME NEW u \in T PROVE AuNoyau(u)'
    BY <1>0, <1>01, <1>02, <1>03 DEF Inductif, ParTransfert, AuNoyau, EnMain, EtapesReponse, Minuteurs
<1>7. ASSUME NEW u \in T PROVE Annulation(u)'
    BY <1>0, <1>01, <1>02, <1>03 DEF Inductif, ParTransfert, Annulation
<1>8. EnReponse'
  <2>1. pc'["ev"] \in EtapesReponse \cup {"parti"} => pc'["ev"] = pc["ev"]
      BY <1>03 DEF Minuteurs, EtapesReponse
  <2>2. \A u \in T : "DEVICE_DISAPPEARED" \in flags'[u] => "DEVICE_DISAPPEARED" \in flags[u]
      BY <1>0, <1>01
  <2>3. UNCHANGED <<cur, annule, branche, status>>
      OBVIOUS
  <2> HIDE DEF Traite
  <2> QED BY <1>02, <2>1, <2>2, <2>3 DEF Inductif, EnReponse, EtapesReponse
<1>9. ASSUME NEW g \in Minuteurs PROVE EnMinuterie(g)'
    BY Distincts DEF Echu, Inductif, TypeTransferts, Fils, Minuteurs, ParTransfert, EnSoumission, EnVol, EnListe, Attendue, EnMinuterie, EtapesListe
<1> QED BY <1>1, <1>2, <1>3, <1>4, <1>5, <1>6, <1>7, <1>8, <1>9 DEF Inductif, ParTransfert

LEMMA EtapeAnnuleEchu ==
    ASSUME Inductif, NEW f \in Minuteurs, AnnuleEchu(f)
    PROVE  Inductif'
<1> USE DEF AnnuleEchu, libusb_cancel_transfer, Annulable, Discard, backend, histoire
<1>0. /\ f \in Fils /\ cur[f] \in T /\ EnListe(cur[f]) /\ ~lock[cur[f]] /\ Attendue(cur[f])
      /\ \A g \in Minuteurs : pc[g] \in EtapesListe => g = f
    BY DEF Inductif, TypeTransferts, Fils, EnMinuterie, EtapesListe, ParTransfert, EnSoumission, EnVol
<1>1. TypeTransferts'
    BY ZenonT(60), Distincts DEF Inductif, TypeTransferts, Fils, Minuteurs, Drapeaux, EtapesSoumission, EtapesListe, EtapesReponse
<1>2. (horloge <= rang)'
    BY DEF Inductif, TypeTransferts
<1>3. SansDouble'
    BY DEF Inductif, SansDouble
<1>4. ASSUME NEW u \in T PROVE EnSoumission(u)'
    BY ZenonT(60), <1>0, Distincts DEF Inductif, TypeTransferts, Fils, Minuteurs, ParTransfert, EnSoumission, Attendue
<1>5. ASSUME NEW u \in T PROVE EnVol(u)'
    BY Distincts DEF Echu, Inductif, TypeTransferts, Fils, Minuteurs, ParTransfert, EnSoumission, EnVol, EnListe, Attendue, EnReponse, EtapesReponse
<1>6. ASSUME NEW u \in T PROVE AuNoyau(u)'
    BY Distincts DEF Inductif, TypeTransferts, Fils, Minuteurs, ParTransfert, EnSoumission, EnVol, AuNoyau, Attendue, EnMain, EnReponse, EtapesReponse
<1>7. ASSUME NEW u \in T PROVE Annulation(u)'
    BY Distincts DEF Inductif, TypeTransferts, Fils, Minuteurs, ParTransfert, EnSoumission, EnVol, Annulation, Attendue
<1>8. EnReponse'
    BY Distincts DEF Inductif, TypeTransferts, Fils, Minuteurs, ParTransfert, EnSoumission, EnVol, Annulation, AuNoyau, Attendue, EnReponse, EtapesReponse, EnMain
<1>9. ASSUME NEW g \in Minuteurs PROVE EnMinuterie(g)'
    BY Distincts DEF Echu, Inductif, TypeTransferts, Fils, Minuteurs, ParTransfert, EnSoumission, EnVol, EnListe, Attendue, EnMinuterie, EtapesListe
<1> QED BY <1>1, <1>2, <1>3, <1>4, <1>5, <1>6, <1>7, <1>8, <1>9 DEF Inductif, ParTransfert

LEMMA EtapeMarque ==
    ASSUME Inductif, NEW f \in Minuteurs, Marque(f)
    PROVE  Inductif'
<1> USE DEF Marque, backend, histoire
<1>0. /\ f \in Fils /\ cur[f] \in T /\ EnListe(cur[f]) /\ ~lock[cur[f]] /\ Attendue(cur[f])
      /\ \A g \in Minuteurs : pc[g] \in EtapesListe => g = f
    BY DEF Inductif, TypeTransferts, Fils, EnMinuterie, EtapesListe, ParTransfert, EnSoumission, Attendue
<1>1. TypeTransferts'
    BY Distincts DEF Inductif, TypeTransferts, Fils, Minuteurs, Drapeaux, EtapesSoumission, EtapesListe, EtapesReponse
<1>2. (horloge <= rang)'
    BY DEF Inductif, TypeTransferts
<1>3. SansDouble'
    BY DEF Inductif, SansDouble
<1>4. ASSUME NEW u \in T PROVE EnSoumission(u)'
    BY <1>0, Distincts DEF Inductif, TypeTransferts, Fils, Minuteurs, ParTransfert, EnSoumission, Attendue
<1>5. ASSUME NEW u \in T PROVE EnVol(u)'
    BY Distincts DEF Echu, Inductif, TypeTransferts, Fils, Minuteurs, ParTransfert, EnSoumission, EnVol, EnListe, Attendue, EnReponse, EtapesReponse
<1>6. ASSUME NEW u \in T PROVE AuNoyau(u)'
    BY Distincts DEF Inductif, TypeTransferts, Fils, Minuteurs, ParTransfert, EnSoumission, EnVol, AuNoyau, Attendue, EnMain, EnReponse, EtapesReponse
<1>7. ASSUME NEW u \in T PROVE Annulation(u)'
    BY Distincts DEF Inductif, TypeTransferts, Fils, Minuteurs, ParTransfert, EnSoumission, EnVol, Annulation, Attendue
<1>8. EnReponse'
    BY Distincts DEF Inductif, TypeTransferts, Fils, Minuteurs, ParTransfert, EnSoumission, EnVol, Annulation, AuNoyau, Attendue, EnReponse, EtapesReponse, EnMain
<1>9. ASSUME NEW g \in Minuteurs PROVE EnMinuterie(g)'
    BY Distincts DEF Echu, Inductif, TypeTransferts, Fils, Minuteurs, ParTransfert, EnSoumission, EnVol, EnListe, Attendue, EnMinuterie, EtapesListe
<1> QED BY <1>1, <1>2, <1>3, <1>4, <1>5, <1>6, <1>7, <1>8, <1>9 DEF Inductif, ParTransfert

LEMMA EtapeReap ==
    ASSUME Inductif, NEW t \in T, Reap(t)
    PROVE  Inductif'
<1> USE DEF Reap, backend, histoire
<1>1. TypeTransferts'
    BY Distincts DEF Inductif, TypeTransferts, Fils, Minuteurs, Drapeaux, EtapesSoumission, EtapesListe, EtapesReponse
<1>2. (horloge <= rang)'
    BY DEF Inductif, TypeTransferts
<1>3. SansDouble'
    BY DEF Inductif, SansDouble
<1>4. ASSUME NEW u \in T PROVE EnSoumission(u)'
    BY Distincts DEF Inductif, TypeTransferts, Fils, Minuteurs, ParTransfert, EnSoumission, Attendue
<1>5. ASSUME NEW u \in T PROVE EnVol(u)'
    BY Distincts DEF Echu, Inductif, TypeTransferts, Fils, Minuteurs, ParTransfert, EnSoumission, EnVol, EnListe, Attendue, EnReponse, EtapesReponse
<1>6. ASSUME NEW u \in T PROVE AuNoyau(u)'
    BY Distincts DEF Inductif, TypeTransferts, Fils, Minuteurs, ParTransfert, EnSoumission, EnVol, AuNoyau, Attendue, EnMain, EnReponse, EtapesReponse
<1>7. ASSUME NEW u \in T PROVE Annulation(u)'
    BY Distincts DEF Inductif, TypeTransferts, Fils, Minuteurs, ParTransfert, EnSoumission, EnVol, Annulation, Attendue
<1>8. EnReponse'
    BY Distincts DEF Inductif, TypeTransferts, Fils, Minuteurs, ParTransfert, EnSoumission, EnVol, Annulation, AuNoyau, Attendue, EnReponse, EtapesReponse, EnMain
<1>9. ASSUME NEW g \in Minuteurs PROVE EnMinuterie(g)'
    BY Distincts DEF Echu, Inductif, TypeTransferts, Fils, Minuteurs, ParTransfert, EnSoumission, EnVol, EnListe, Attendue, EnMinuterie, EtapesListe
<1> QED BY <1>1, <1>2, <1>3, <1>4, <1>5, <1>6, <1>7, <1>8, <1>9 DEF Inductif, ParTransfert

LEMMA EtapeHandleCompletion ==
    ASSUME Inductif, handle_completion
    PROVE  Inductif'
<1> USE DEF handle_completion, Pret, backend, histoire
<1>0. cur["ev"] \in T /\ ~lock[cur["ev"]] /\ Attendue(cur["ev"]) /\ pc[cur["ev"]] = "repos"
    BY DEF Inductif, TypeTransferts, EnReponse, EtapesReponse, ParTransfert, EnSoumission, Attendue
<1>01. \A u \in T : pc'[u] = pc[u]
  <2>1. \/ pc' = [pc EXCEPT !["ev"] = "cause"]
        \/ pc' = [pc EXCEPT !["ev"] = "sortie"]
      OBVIOUS
  <2> QED BY <2>1, Distincts DEF Inductif, TypeTransferts, Fils
<1>1. TypeTransferts'
  <2>1. pc' \in [Fils -> EtapesSoumission \cup EtapesListe \cup EtapesReponse \cup {"parti"}]
      BY <1>0, Distincts DEF Inductif, TypeTransferts, Fils, Minuteurs, EtapesSoumission, EtapesListe, EtapesReponse
  <2>2. /\ \A u \in T : pc'[u] \in EtapesSoumission
        /\ pc'["autre"] \in EtapesListe \cup {"repos"}
        /\ pc'["ev"] \in EtapesListe \cup EtapesReponse \cup {"repos", "parti"}
      BY <1>0, Distincts DEF Inductif, TypeTransferts, Fils, Minuteurs, EtapesSoumission, EtapesListe, EtapesReponse
  <2> QED BY ZenonT(60), <1>0, <2>1, <2>2 DEF Inductif, TypeTransferts, Fils, Minuteurs
<1>2. (horloge <= rang)'
    BY DEF Inductif, TypeTransferts
<1>3. SansDouble'
    BY DEF Inductif, SansDouble
<1>4. ASSUME NEW u \in T PROVE EnSoumission(u)'
    BY <1>01 DEF Inductif, ParTransfert, EnSoumission, Attendue
<1>5. ASSUME NEW u \in T PROVE EnVol(u)'
    BY Distincts DEF Echu, Inductif, TypeTransferts, Fils, Minuteurs, ParTransfert, EnSoumission, EnVol, EnListe, Attendue, EnReponse, EtapesReponse
<1>6. ASSUME NEW u \in T PROVE AuNoyau(u)'
    BY Distincts DEF Inductif, TypeTransferts, Fils, Minuteurs, ParTransfert, EnSoumission, EnVol, AuNoyau, Attendue, EnMain, EnReponse, EtapesReponse
<1>7. ASSUME NEW u \in T PROVE Annulation(u)'
    BY Distincts DEF Inductif, TypeTransferts, Fils, Minuteurs, ParTransfert, EnSoumission, EnVol, Annulation, Attendue
<1>8. EnReponse'
    BY Distincts DEF Inductif, TypeTransferts, Fils, Minuteurs, ParTransfert, EnSoumission, EnVol, Annulation, AuNoyau, Attendue, EnReponse, EtapesReponse, EnMain
<1>9. ASSUME NEW g \in Minuteurs PROVE EnMinuterie(g)'
    BY Distincts DEF Echu, Inductif, TypeTransferts, Fils, Minuteurs, ParTransfert, EnSoumission, EnVol, EnListe, Attendue, EnMinuterie, EtapesListe
<1> QED BY <1>1, <1>2, <1>3, <1>4, <1>5, <1>6, <1>7, <1>8, <1>9 DEF Inductif, ParTransfert

LEMMA EtapeCause ==
    ASSUME Inductif, usbi_handle_transfer_cancellation
    PROVE  Inductif'
<1> USE DEF usbi_handle_transfer_cancellation, backend, histoire
<1>1. TypeTransferts'
    BY Distincts DEF Inductif, TypeTransferts, Fils, Minuteurs, Drapeaux, EtapesSoumission, EtapesListe, EtapesReponse
<1>2. (horloge <= rang)'
    BY DEF Inductif, TypeTransferts
<1>3. SansDouble'
    BY DEF Inductif, SansDouble
<1>4. ASSUME NEW u \in T PROVE EnSoumission(u)'
    BY Distincts DEF Inductif, TypeTransferts, Fils, Minuteurs, ParTransfert, EnSoumission, Attendue
<1>5. ASSUME NEW u \in T PROVE EnVol(u)'
    BY Distincts DEF Echu, Inductif, TypeTransferts, Fils, Minuteurs, ParTransfert, EnSoumission, EnVol, EnListe, Attendue, EnReponse, EtapesReponse
<1>6. ASSUME NEW u \in T PROVE AuNoyau(u)'
    BY Distincts DEF Inductif, TypeTransferts, Fils, Minuteurs, ParTransfert, EnSoumission, EnVol, AuNoyau, Attendue, EnMain, EnReponse, EtapesReponse
<1>7. ASSUME NEW u \in T PROVE Annulation(u)'
    BY Distincts DEF Inductif, TypeTransferts, Fils, Minuteurs, ParTransfert, EnSoumission, EnVol, Annulation, Attendue
<1>8. EnReponse'
    BY Distincts DEF Inductif, TypeTransferts, Fils, Minuteurs, ParTransfert, EnSoumission, EnVol, Annulation, AuNoyau, Attendue, EnReponse, EtapesReponse, EnMain
<1>9. ASSUME NEW g \in Minuteurs PROVE EnMinuterie(g)'
    BY Distincts DEF Echu, Inductif, TypeTransferts, Fils, Minuteurs, ParTransfert, EnSoumission, EnVol, EnListe, Attendue, EnMinuterie, EtapesListe
<1> QED BY <1>1, <1>2, <1>3, <1>4, <1>5, <1>6, <1>7, <1>8, <1>9 DEF Inductif, ParTransfert

LEMMA EtapeSortie ==
    ASSUME Inductif, Sortie
    PROVE  Inductif'
<1> USE DEF Sortie, backend, histoire
<1>0. /\ flying' \in Seq(T) /\ IsInjective(flying')
      /\ \A x : Contains(flying', x) <=> Contains(flying, x) /\ x # cur["ev"]
    BY Retrait DEF Inductif, TypeTransferts, SansDouble
<1>01. \A g \in Minuteurs : pc[g] \notin EtapesListe /\ pc'[g] \notin EtapesListe
  <2>1. \A g \in Minuteurs : pc[g] \notin EtapesListe
      BY TransfertsAssumption DEF Inductif, Minuteurs, EnMinuterie
  <2> QED BY <2>1 DEF Inductif, TypeTransferts, Fils, Minuteurs, EtapesListe
<1>1. TypeTransferts'
    BY <1>0, Distincts DEF Inductif, TypeTransferts, Fils, Minuteurs, Drapeaux, EtapesSoumission, EtapesListe, EtapesReponse
<1>2. (horloge <= rang)'
    BY DEF Inductif, TypeTransferts
<1>3. SansDouble'
    BY <1>0 DEF SansDouble
<1>4. ASSUME NEW u \in T PROVE EnSoumission(u)'
    BY Distincts DEF Inductif, TypeTransferts, Fils, Minuteurs, ParTransfert, EnSoumission, Attendue
<1>5. ASSUME NEW u \in T PROVE EnVol(u)'
  <2>1. /\ (EnListe(u)' <=> EnListe(u) /\ u # cur["ev"]) /\ (Attendue(u)' <=> Attendue(u))
        /\ (Echu(u)' <=> Echu(u)) /\ pc'[u] = pc[u] /\ pc'["ev"] = "rappel"
      BY <1>0, Distincts DEF EnListe, Attendue, Echu, Inductif, TypeTransferts, Fils, Minuteurs
  <2>2. pc[u] # "repos" => u # cur["ev"]
      BY EnVolAttendue DEF Inductif, EnReponse, EtapesReponse
  <2> QED BY <2>1, <2>2 DEF Inductif, ParTransfert, EnVol
<1>6. ASSUME NEW u \in T PROVE AuNoyau(u)'
    BY Distincts DEF Inductif, TypeTransferts, Fils, Minuteurs, ParTransfert, EnSoumission, EnVol, AuNoyau, Attendue, EnMain, EnReponse, EtapesReponse
<1>7. ASSUME NEW u \in T PROVE Annulation(u)'
    BY Distincts DEF Inductif, TypeTransferts, Fils, Minuteurs, ParTransfert, EnSoumission, EnVol, Annulation, Attendue
<1>8. EnReponse'
    BY Distincts DEF Inductif, TypeTransferts, Fils, Minuteurs, ParTransfert, EnSoumission, EnVol, Annulation, AuNoyau, Attendue, EnReponse, EtapesReponse, EnMain
<1>9. ASSUME NEW g \in Minuteurs PROVE EnMinuterie(g)'
    BY <1>01 DEF Echu, Inductif, EnMinuterie, EtapesListe
<1> QED BY <1>1, <1>2, <1>3, <1>4, <1>5, <1>6, <1>7, <1>8, <1>9 DEF Inductif, ParTransfert

LEMMA EtapeRappel ==
    ASSUME Inductif, Rappel
    PROVE  Inductif'
<1> USE DEF Rappel, backend, histoire
<1>0. cur["ev"] \in T /\ ~lock[cur["ev"]] /\ Attendue(cur["ev"]) /\ pc[cur["ev"]] = "repos"
    BY DEF Inductif, TypeTransferts, EnReponse, EtapesReponse, ParTransfert, EnSoumission, Attendue
<1>01. ~EnListe(cur["ev"])
    BY <1>0 DEF Inductif, ParTransfert, EnVol
<1>02. /\ \A u \in T : pc'[u] = pc[u] /\ (u # cur["ev"] => (Attendue(u)' <=> Attendue(u)))
       /\ acceptees[cur["ev"]] = reponses'[cur["ev"]]
    BY <1>0, Distincts DEF Inductif, TypeTransferts, Attendue
<1>03. pc'["ev"] \in {"repos", "parti"} /\ pc'["autre"] = pc["autre"]
    BY DEF Inductif, TypeTransferts, Fils, Minuteurs
<1>1. TypeTransferts'
  <2>1. flags' \in [T -> SUBSET Drapeaux] /\ reponses' \in [T -> Nat]
      BY <1>0 DEF Inductif, TypeTransferts, Drapeaux
  <2>2. pc' \in [Fils -> EtapesSoumission \cup EtapesListe \cup EtapesReponse \cup {"parti"}]
      BY DEF Inductif, TypeTransferts, EtapesSoumission
  <2> QED BY <1>02, <1>03, <2>1, <2>2 DEF Inductif, TypeTransferts
<1>2. (horloge <= rang)'
    BY DEF Inductif, TypeTransferts
<1>3. SansDouble'
    BY DEF Inductif, SansDouble
<1>4. ASSUME NEW u \in T PROVE EnSoumission(u)'
    BY ZenonT(60), <1>0, <1>02 DEF Inductif, TypeTransferts, ParTransfert, EnSoumission, Attendue
<1>5. ASSUME NEW u \in T PROVE EnVol(u)'
    BY Distincts DEF Echu, Inductif, TypeTransferts, Fils, Minuteurs, ParTransfert, EnSoumission, EnVol, EnListe, Attendue, EnReponse, EtapesReponse
<1>6. ASSUME NEW u \in T PROVE AuNoyau(u)'
    BY Distincts DEF Inductif, TypeTransferts, Fils, Minuteurs, ParTransfert, EnSoumission, EnVol, AuNoyau, Attendue, EnMain, EnReponse, EtapesReponse
<1>7. ASSUME NEW u \in T PROVE Annulation(u)'
    BY Distincts DEF Inductif, TypeTransferts, Fils, Minuteurs, ParTransfert, EnSoumission, EnVol, Annulation, Attendue
<1>8. EnReponse'
    BY Distincts DEF Inductif, TypeTransferts, Fils, Minuteurs, ParTransfert, EnSoumission, EnVol, Annulation, AuNoyau, Attendue, EnReponse, EtapesReponse, EnMain
<1>9. ASSUME NEW g \in Minuteurs PROVE EnMinuterie(g)'
  <2>1. CASE g = "ev"
      BY <1>03, <2>1 DEF Echu, Inductif, EnMinuterie, EtapesListe
  <2>2. CASE g = "autre"
    <3>1. pc[g] \in {"traite", "annule", "marque"} => cur[g] # cur["ev"]
        BY <1>01 DEF Echu, Inductif, EnMinuterie
    <3>2. cur'[g] = cur[g]
        BY <2>2 DEF Inductif, TypeTransferts, Minuteurs
    <3>3. \A u \in T : (Echu(u)' <=> Echu(u)) /\ (EnListe(u)' <=> EnListe(u)) /\ (u # cur["ev"] => flags'[u] = flags[u])
        BY DEF Echu, EnListe, Inductif, TypeTransferts
    <3>4. EnMinuterie(g)
        BY DEF Inductif
    <3> HIDE DEF Rappel
    <3>5. UNCHANGED <<volLock, lu>>
        BY DEF Rappel
    <3> QED BY <1>02, <1>03, <2>2, <3>1, <3>2, <3>3, <3>4, <3>5 DEF EnMinuterie
  <2> QED BY <2>1, <2>2 DEF Minuteurs
<1> QED BY <1>1, <1>2, <1>3, <1>4, <1>5, <1>6, <1>7, <1>8, <1>9 DEF Inductif, ParTransfert

LEMMA EtapeHandleDisconnect ==
    ASSUME Inductif, handle_disconnect
    PROVE  Inductif'
<1> USE DEF handle_disconnect, backend, histoire
<1>1. TypeTransferts'
    BY Distincts DEF Inductif, TypeTransferts, Fils, Minuteurs, Drapeaux, EtapesSoumission, EtapesListe, EtapesReponse
<1>2. (horloge <= rang)'
    BY DEF Inductif, TypeTransferts
<1>3. SansDouble'
    BY DEF Inductif, SansDouble
<1>4. ASSUME NEW u \in T PROVE EnSoumission(u)'
    BY Distincts DEF Inductif, TypeTransferts, Fils, Minuteurs, ParTransfert, EnSoumission, Attendue
<1>5. ASSUME NEW u \in T PROVE EnVol(u)'
    BY Distincts DEF Echu, Inductif, TypeTransferts, Fils, Minuteurs, ParTransfert, EnSoumission, EnVol, EnListe, Attendue, EnReponse, EtapesReponse
<1>6. ASSUME NEW u \in T PROVE AuNoyau(u)'
    BY Distincts DEF Inductif, TypeTransferts, Fils, Minuteurs, ParTransfert, EnSoumission, EnVol, AuNoyau, Attendue, EnMain, EnReponse, EtapesReponse
<1>7. ASSUME NEW u \in T PROVE Annulation(u)'
    BY Distincts DEF Inductif, TypeTransferts, Fils, Minuteurs, ParTransfert, EnSoumission, EnVol, Annulation, Attendue
<1>8. EnReponse'
    BY Distincts DEF Inductif, TypeTransferts, Fils, Minuteurs, ParTransfert, EnSoumission, EnVol, Annulation, AuNoyau, Attendue, EnReponse, EtapesReponse, EnMain
<1>9. ASSUME NEW g \in Minuteurs PROVE EnMinuterie(g)'
    BY Distincts DEF Echu, Inductif, TypeTransferts, Fils, Minuteurs, ParTransfert, EnSoumission, EnVol, EnListe, Attendue, EnMinuterie, EtapesListe
<1> QED BY <1>1, <1>2, <1>3, <1>4, <1>5, <1>6, <1>7, <1>8, <1>9 DEF Inductif, ParTransfert

LEMMA EtapeParti ==
    ASSUME Inductif, Parti
    PROVE  Inductif'
<1> USE DEF Parti, MarqueDisparu, backend, histoire
<1> DEFINE vol == {j \in DOMAIN flying : "IN_FLIGHT" \in flags[flying[j]]}
           i == IF vol = {} THEN Len(flying) + 1 ELSE CHOOSE k \in vol : \A j \in vol : k <= j
<1>0. vol # {} => /\ flying[i] \in T /\ "IN_FLIGHT" \in flags[flying[i]] /\ EnListe(flying[i])
  <2>1. DOMAIN flying = 1..Len(flying) /\ Len(flying) \in Nat
      BY DEF Inductif, TypeTransferts
  <2>2. vol # {} => i \in vol
    <3>1. vol \subseteq Nat
        BY <2>1
    <3>2. vol # {} => i = Min(vol)
        BY DEF Min
    <3> HIDE DEF vol, i
    <3> QED BY <3>1, <3>2, PlusPetit
  <2> HIDE DEF i
  <2> QED BY <2>1, <2>2 DEF Inductif, TypeTransferts, EnListe, Contains
<1>01. /\ flags' \in [T -> SUBSET Drapeaux]
       /\ \A u \in T : flags[u] \subseteq flags'[u] /\ flags'[u] \subseteq flags[u] \cup {"DEVICE_DISAPPEARED"}
    BY DEF Inductif, TypeTransferts, Drapeaux
<1>02. /\ \A u \in T : pc'[u] = pc[u] /\ (Attendue(u)' <=> Attendue(u)) /\ (EnListe(u)' <=> EnListe(u))
       /\ pc'["autre"] = pc["autre"] /\ cur'["autre"] = cur["autre"]
    BY Distincts DEF Inductif, TypeTransferts, Fils, Minuteurs, Attendue, EnListe
<1>03. \/ pc'["ev"] = "repos" /\ UNCHANGED cur
       \/ pc'["ev"] = "prive" /\ vol # {} /\ cur'["ev"] = flying[i] /\ cur' \in [Minuteurs -> T \cup {Personne}]
  <2>1. CASE vol = {}
      BY <2>1 DEF Inductif, TypeTransferts, Fils, Minuteurs
  <2>2. CASE vol # {}
    <3>1. pc' = [pc EXCEPT !["ev"] = "prive"] /\ cur' = [cur EXCEPT !["ev"] = flying[i]]
        BY <2>2
    <3> HIDE DEF vol, i
    <3> QED BY <1>0, <2>2, <3>1 DEF Inductif, TypeTransferts, Fils, Minuteurs
  <2> QED BY <2>1, <2>2
<1>04. ~branche /\ volLock = Personne /\ volLock' = Personne /\ pc["ev"] = "parti"
    BY DEF Inductif, EnReponse
<1>05. pc' \in [Fils -> EtapesSoumission \cup EtapesListe \cup EtapesReponse \cup {"parti"}]
    BY ZenonT(60) DEF Inductif, TypeTransferts, EtapesSoumission, EtapesReponse
<1>06. UNCHANGED <<lock, timeout, status, flying, urbs, annule, noyau, branche, surveille, horloge, lu,
                   rang, acceptees, reponses, demande, ecrases>>
    OBVIOUS
<1> HIDE DEF vol, i, Parti
<1>1. TypeTransferts'
    BY <1>01, <1>02, <1>03, <1>04, <1>05, <1>06 DEF Inductif, TypeTransferts, EtapesReponse
<1>2. (horloge <= rang)'
    BY <1>06 DEF Inductif
<1>3. SansDouble'
    BY <1>06 DEF Inductif, SansDouble
<1>4. ASSUME NEW u \in T PROVE EnSoumission(u)'
    BY <1>01, <1>02, <1>04, <1>06 DEF Inductif, ParTransfert, EnSoumission, Attendue
<1>5. ASSUME NEW u \in T PROVE EnVol(u)'
    BY <1>01, <1>02, <1>03, <1>04, <1>06 DEF Echu, Inductif, ParTransfert, EnVol
<1>6. ASSUME NEW u \in T PROVE AuNoyau(u)'
    BY <1>01, <1>02, <1>04, <1>06 DEF Inductif, ParTransfert, AuNoyau
<1>7. ASSUME NEW u \in T PROVE Annulation(u)'
    BY <1>01, <1>02, <1>03, <1>04, <1>06 DEF Inductif, ParTransfert, Annulation, Minuteurs
<1>8. EnReponse'
  <2>1. CASE pc'["ev"] = "repos"
      BY <1>04, <1>06, <2>1 DEF EnReponse, EtapesReponse
  <2>2. CASE pc'["ev"] = "prive"
    <3>1. cur'["ev"] \in T /\ "IN_FLIGHT" \in flags[cur'["ev"]] /\ EnListe(cur'["ev"])
        BY <1>0, <1>03, <2>2
    <3>2. Attendue(cur'["ev"])
        BY <1>04, <3>1 DEF Inductif, ParTransfert, EnSoumission, EnVol
    <3> QED BY <1>02, <1>04, <1>06, <2>2, <3>1, <3>2 DEF EnReponse
  <2> QED BY <1>03, <2>1, <2>2
<1>9. ASSUME NEW g \in Minuteurs PROVE EnMinuterie(g)'
  <2>1. pc'[g] \notin EtapesListe
      BY <1>02, <1>03, <1>04, TransfertsAssumption DEF Echu, Inductif, EnMinuterie, Minuteurs, EtapesListe
  <2> QED BY <1>04, <2>1, TransfertsAssumption DEF EnMinuterie, EtapesListe, Minuteurs
<1> QED BY <1>1, <1>2, <1>3, <1>4, <1>5, <1>6, <1>7, <1>8, <1>9 DEF Inductif, ParTransfert

LEMMA EtapePrive ==
    ASSUME Inductif, clear_transfer_priv
    PROVE  Inductif'
<1> USE DEF clear_transfer_priv, backend, histoire
<1>1. TypeTransferts'
    BY Distincts DEF Inductif, TypeTransferts, Fils, Minuteurs, Drapeaux, EtapesSoumission, EtapesListe, EtapesReponse
<1>2. (horloge <= rang)'
    BY DEF Inductif, TypeTransferts
<1>3. SansDouble'
    BY DEF Inductif, SansDouble
<1>4. ASSUME NEW u \in T PROVE EnSoumission(u)'
    BY Distincts DEF Inductif, TypeTransferts, Fils, Minuteurs, ParTransfert, EnSoumission, Attendue
<1>5. ASSUME NEW u \in T PROVE EnVol(u)'
    BY Distincts DEF Echu, Inductif, TypeTransferts, Fils, Minuteurs, ParTransfert, EnSoumission, EnVol, EnListe, Attendue, EnReponse, EtapesReponse
<1>6. ASSUME NEW u \in T PROVE AuNoyau(u)'
    BY Distincts DEF Inductif, TypeTransferts, Fils, Minuteurs, ParTransfert, EnSoumission, EnVol, AuNoyau, Attendue, EnMain, EnReponse, EtapesReponse
<1>7. ASSUME NEW u \in T PROVE Annulation(u)'
    BY Distincts DEF Inductif, TypeTransferts, Fils, Minuteurs, ParTransfert, EnSoumission, EnVol, Annulation, Attendue
<1>8. EnReponse'
    BY Distincts DEF Inductif, TypeTransferts, Fils, Minuteurs, ParTransfert, EnSoumission, EnVol, Annulation, AuNoyau, Attendue, EnReponse, EtapesReponse, EnMain
<1>9. ASSUME NEW g \in Minuteurs PROVE EnMinuterie(g)'
    BY Distincts DEF Echu, Inductif, TypeTransferts, Fils, Minuteurs, ParTransfert, EnSoumission, EnVol, EnListe, Attendue, EnMinuterie, EtapesListe
<1> QED BY <1>1, <1>2, <1>3, <1>4, <1>5, <1>6, <1>7, <1>8, <1>9 DEF Inductif, ParTransfert

LEMMA EtapeFinit ==
    ASSUME Inductif, NEW t \in T, Finit(t)
    PROVE  Inductif'
<1> USE DEF Finit, backend, histoire
<1>1. TypeTransferts'
    BY Distincts DEF Inductif, TypeTransferts, Fils, Minuteurs, Drapeaux, EtapesSoumission, EtapesListe, EtapesReponse
<1>2. (horloge <= rang)'
    BY DEF Inductif, TypeTransferts
<1>3. SansDouble'
    BY DEF Inductif, SansDouble
<1>4. ASSUME NEW u \in T PROVE EnSoumission(u)'
    BY Distincts DEF Inductif, TypeTransferts, Fils, Minuteurs, ParTransfert, EnSoumission, Attendue
<1>5. ASSUME NEW u \in T PROVE EnVol(u)'
    BY Distincts DEF Echu, Inductif, TypeTransferts, Fils, Minuteurs, ParTransfert, EnSoumission, EnVol, EnListe, Attendue, EnReponse, EtapesReponse
<1>6. ASSUME NEW u \in T PROVE AuNoyau(u)'
    BY Distincts DEF Inductif, TypeTransferts, Fils, Minuteurs, ParTransfert, EnSoumission, EnVol, AuNoyau, Attendue, EnMain, EnReponse, EtapesReponse
<1>7. ASSUME NEW u \in T PROVE Annulation(u)'
    BY Distincts DEF Inductif, TypeTransferts, Fils, Minuteurs, ParTransfert, EnSoumission, EnVol, Annulation, Attendue
<1>8. EnReponse'
    BY Distincts DEF Inductif, TypeTransferts, Fils, Minuteurs, ParTransfert, EnSoumission, EnVol, Annulation, AuNoyau, Attendue, EnReponse, EtapesReponse, EnMain
<1>9. ASSUME NEW g \in Minuteurs PROVE EnMinuterie(g)'
    BY Distincts DEF Echu, Inductif, TypeTransferts, Fils, Minuteurs, ParTransfert, EnSoumission, EnVol, EnListe, Attendue, EnMinuterie, EtapesListe
<1> QED BY <1>1, <1>2, <1>3, <1>4, <1>5, <1>6, <1>7, <1>8, <1>9 DEF Inductif, ParTransfert

LEMMA EtapeDebranche ==
    ASSUME Inductif, Debranche
    PROVE  Inductif'
<1> USE DEF Debranche, backend, histoire
<1>1. TypeTransferts'
  <2>1. noyau' \in [T -> {"rien", "cours", "fini", "annule"}] /\ branche' \in BOOLEAN
      OBVIOUS
  <2> QED BY <2>1 DEF Inductif, TypeTransferts
<1>2. (horloge <= rang)'
    BY DEF Inductif, TypeTransferts
<1>3. SansDouble'
    BY DEF Inductif, SansDouble
<1>4. ASSUME NEW u \in T PROVE EnSoumission(u)'
    BY Distincts DEF Inductif, TypeTransferts, Fils, Minuteurs, ParTransfert, EnSoumission, Attendue
<1>5. ASSUME NEW u \in T PROVE EnVol(u)'
    BY Distincts DEF Echu, Inductif, TypeTransferts, Fils, Minuteurs, ParTransfert, EnSoumission, EnVol, EnListe, Attendue, EnReponse, EtapesReponse
<1>6. ASSUME NEW u \in T PROVE AuNoyau(u)'
    BY Distincts DEF Inductif, TypeTransferts, Fils, Minuteurs, ParTransfert, EnSoumission, EnVol, AuNoyau, Attendue, EnMain, EnReponse, EtapesReponse
<1>7. ASSUME NEW u \in T PROVE Annulation(u)'
    BY Distincts DEF Inductif, TypeTransferts, Fils, Minuteurs, ParTransfert, EnSoumission, EnVol, Annulation, Attendue
<1>8. EnReponse'
    BY Distincts DEF Inductif, TypeTransferts, Fils, Minuteurs, ParTransfert, EnSoumission, EnVol, Annulation, AuNoyau, Attendue, EnReponse, EtapesReponse, EnMain
<1>9. ASSUME NEW g \in Minuteurs PROVE EnMinuterie(g)'
    BY Distincts DEF Echu, Inductif, TypeTransferts, Fils, Minuteurs, ParTransfert, EnSoumission, EnVol, EnListe, Attendue, EnMinuterie, EtapesListe
<1> QED BY <1>1, <1>2, <1>3, <1>4, <1>5, <1>6, <1>7, <1>8, <1>9 DEF Inductif, ParTransfert

LEMMA EtapeTic ==
    ASSUME Inductif, Tic
    PROVE  Inductif'
<1> USE DEF Tic, backend, histoire
<1>1. TypeTransferts'
    BY Distincts DEF Inductif, TypeTransferts, Fils, Minuteurs, Drapeaux, EtapesSoumission, EtapesListe, EtapesReponse
<1>2. (horloge <= rang)'
    BY DEF Inductif, TypeTransferts
<1>3. SansDouble'
    BY DEF Inductif, SansDouble
<1>4. ASSUME NEW u \in T PROVE EnSoumission(u)'
    BY Distincts DEF Inductif, TypeTransferts, Fils, Minuteurs, ParTransfert, EnSoumission, Attendue
<1>5. ASSUME NEW u \in T PROVE EnVol(u)'
    BY Distincts DEF Echu, Inductif, TypeTransferts, Fils, Minuteurs, ParTransfert, EnSoumission, EnVol, EnListe, Attendue, EnReponse, EtapesReponse
<1>6. ASSUME NEW u \in T PROVE AuNoyau(u)'
    BY Distincts DEF Inductif, TypeTransferts, Fils, Minuteurs, ParTransfert, EnSoumission, EnVol, AuNoyau, Attendue, EnMain, EnReponse, EtapesReponse
<1>7. ASSUME NEW u \in T PROVE Annulation(u)'
    BY Distincts DEF Inductif, TypeTransferts, Fils, Minuteurs, ParTransfert, EnSoumission, EnVol, Annulation, Attendue
<1>8. EnReponse'
    BY Distincts DEF Inductif, TypeTransferts, Fils, Minuteurs, ParTransfert, EnSoumission, EnVol, Annulation, AuNoyau, Attendue, EnReponse, EtapesReponse, EnMain
<1>9. ASSUME NEW g \in Minuteurs PROVE EnMinuterie(g)'
    BY Distincts DEF Echu, Inductif, TypeTransferts, Fils, Minuteurs, ParTransfert, EnSoumission, EnVol, EnListe, Attendue, EnMinuterie, EtapesListe
<1> QED BY <1>1, <1>2, <1>3, <1>4, <1>5, <1>6, <1>7, <1>8, <1>9 DEF Inductif, ParTransfert

(* Every step of the program. *)
LEMMA Etape ==
    ASSUME Inductif, [Next]_vars
    PROVE  Inductif'
<1>1. ASSUME NEW t \in T, Soumission(t) PROVE Inductif'
    BY <1>1, EtapeSoumet, EtapeAjoute, EtapeOpSoumet, EtapeAccepte, EtapeRefuse, EtapeRetire DEF Soumission
<1>2. ASSUME NEW t \in T, Annule(t) \/ Reap(t) \/ Finit(t) PROVE Inductif'
    BY <1>2, EtapeAnnule, EtapeReap, EtapeFinit
<1>3. ASSUME NEW f \in Minuteurs, Minuterie(f) PROVE Inductif'
    BY <1>3, EtapeHandleTimeouts, EtapeCherche, EtapeTraite, EtapeAnnuleEchu, EtapeMarque DEF Minuterie
<1>4. ASSUME Completion PROVE Inductif'
    BY <1>4, EtapeHandleCompletion, EtapeCause, EtapeSortie, EtapeRappel, EtapeParti, EtapePrive DEF Completion
<1>5. ASSUME handle_disconnect \/ Debranche \/ Tic PROVE Inductif'
    BY <1>5, EtapeHandleDisconnect, EtapeDebranche, EtapeTic
<1>6. ASSUME UNCHANGED vars PROVE Inductif'
  <2> USE <1>6 DEF vars, backend, histoire
  <2>1. TypeTransferts' /\ SansDouble' /\ (horloge <= rang)'
      BY DEF Inductif, TypeTransferts, SansDouble
  <2>2. \A t \in T : ParTransfert(t)'
      BY DEF Echu, Inductif, ParTransfert, EnSoumission, EnVol, AuNoyau, Annulation, EnListe, Attendue, EnMain
  <2>3. EnReponse'
      BY DEF Inductif, EnReponse, Attendue
  <2>4. \A f \in Minuteurs : EnMinuterie(f)'
      BY DEF Echu, Inductif, EnMinuterie, EnListe, Attendue
  <2> QED BY <2>1, <2>2, <2>3, <2>4 DEF Inductif
<1> QED BY <1>1, <1>2, <1>3, <1>4, <1>5, <1>6 DEF Next

LEMMA Depart == Init => Inductif
<1> SUFFICES ASSUME Init PROVE Inductif
    OBVIOUS
<1>1. TypeTransferts
  <2>1. flying \in Seq(T) /\ volLock \in Minuteurs \cup {Personne}
      BY DEF Init
  <2>2. /\ pc \in [Fils -> EtapesSoumission \cup EtapesListe \cup EtapesReponse \cup {"parti"}]
        /\ \A t \in T : pc[t] \in EtapesSoumission
        /\ pc["autre"] = "repos" /\ pc["ev"] = "repos"
      BY DEF Init, Fils, Minuteurs, EtapesSoumission
  <2>3. /\ flags \in [T -> SUBSET Drapeaux] /\ lu \in [Minuteurs -> SUBSET Drapeaux]
        /\ cur \in [Minuteurs -> T \cup {Personne}]
      BY DEF Init
  <2> QED BY <2>1, <2>2, <2>3 DEF Init, TypeTransferts
<1>2. SansDouble /\ \A t \in T : ~EnListe(t)
    BY DEF Init, SansDouble, IsInjective, EnListe, Contains
<1>3. \A f \in Fils : pc[f] = "repos"
    BY DEF Init
<1>4. ASSUME NEW t \in T PROVE ParTransfert(t)
    BY <1>2, <1>3 DEF Init, Fils, ParTransfert, EnSoumission, EnVol, AuNoyau, Annulation, Attendue
<1>5. EnReponse
    BY <1>3 DEF Init, Fils, Minuteurs, EnReponse, EtapesReponse
<1>6. ASSUME NEW f \in Minuteurs PROVE EnMinuterie(f)
    BY <1>3, <1>6, TransfertsAssumption DEF Init, Fils, Minuteurs, EnMinuterie, EtapesListe
<1> QED BY <1>1, <1>2, <1>4, <1>5, <1>6 DEF Inductif, Init

-----------------------------------------------------------------------------
(* The invariant holds in every reachable state. *)
THEOREM InvariantTransferts ==
    Spec => []Inductif
<1>1. Inductif /\ [Next]_vars => Inductif'
    BY Etape
<1> QED BY <1>1, Depart, PTL DEF Spec

(* A transfer that was accepted and not answered is in the list until the   *)
(* event thread takes it, and in flight, but for one whose deadline has     *)
(* passed and whose IN_FLIGHT was written over (Retrouvable); a transfer    *)
(* that the user has not cancelled does not end as cancelled, but when the  *)
(* thread that has handled its deadline is about to say so                  *)
(* (ExpirationRapportee).                                                   *)
THEOREM ReponseJusteCorrecte ==
    Spec => []ReponseJuste
<1>1. Inductif => ReponseJuste
  <2> SUFFICES ASSUME Inductif PROVE ReponseJuste
      OBVIOUS
  <2>1. Retrouvable
    <3> SUFFICES ASSUME NEW t \in T, acceptees[t] > reponses[t]
                 PROVE  /\ \/ \E i \in DOMAIN flying : flying[i] = t
                           \/ pc["ev"] = "rappel" /\ cur["ev"] = t
                        /\ \/ "IN_FLIGHT" \in flags[t]
                           \/ t \in ecrases /\ Echu(t) /\ "TIMEOUT_HANDLED" \in flags[t]
        BY DEF Retrouvable
    <3>1. Attendue(t)
        BY DEF Inductif, TypeTransferts, ParTransfert, EnSoumission
    <3>2. /\ EnListe(t) \/ (pc["ev"] = "rappel" /\ cur["ev"] = t)
          /\ "IN_FLIGHT" \in flags[t] \/ (t \in ecrases /\ Echu(t) /\ "TIMEOUT_HANDLED" \in flags[t])
        BY <3>1 DEF Inductif, ParTransfert, EnVol
    <3>3. EnListe(t) => \E i \in DOMAIN flying : flying[i] = t
        BY DEF Inductif, TypeTransferts, EnListe, Contains
    <3> QED BY <3>2, <3>3
  <2>2. ExpirationRapportee
    <3> SUFFICES ASSUME pc["ev"] = "cause", "TIMED_OUT" \notin flags[cur["ev"]], ~demande[cur["ev"]]
                 PROVE  pc["autre"] = "marque" /\ cur["autre"] = cur["ev"]
        BY DEF ExpirationRapportee
    <3>1. cur["ev"] \in T /\ Attendue(cur["ev"]) /\ annule[cur["ev"]]
        BY DEF Inductif, EnReponse, EtapesReponse
    <3> QED BY <3>1 DEF Inductif, ParTransfert, Annulation, Minuteurs
  <2> QED BY <2>1, <2>2 DEF ReponseJuste
<1> QED BY <1>1, InvariantTransferts, PTL

(* The transfers implement Soumissions: a submission that is accepted is    *)
(* answered by one call of its callback, and only then is the transfer      *)
(* accepted again; one that fails is never answered.                        *)
THEOREM ReponseUniqueCorrecte ==
    Spec => ReponseUnique
<1>1. Init => Reponses!Init
    BY DEF Init, Reponses!Init
<1>2. ASSUME Inductif, [Next]_vars PROVE [Reponses!Next]_(Reponses!vars)
  <2>1. ASSUME NEW t \in T, Accepte(t) PROVE Reponses!Accepte(t)
    <3>1. acceptees[t] = reponses[t]
        BY <1>2, <2>1 DEF Accepte, Inductif, ParTransfert, EnSoumission
    <3> QED BY <2>1, <3>1 DEF Accepte, Reponses!Accepte
  <2>2. ASSUME Rappel PROVE cur["ev"] \in T /\ Reponses!Repond(cur["ev"])
    <3>1. pc["ev"] = "rappel" /\ reponses' = [reponses EXCEPT ![cur["ev"]] = @ + 1] /\ acceptees' = acceptees
        BY <2>2 DEF Rappel
    <3>2. cur["ev"] \in T /\ acceptees[cur["ev"]] = reponses[cur["ev"]] + 1
        BY <1>2, <3>1 DEF Inductif, EnReponse, EtapesReponse, Attendue
    <3>3. acceptees[cur["ev"]] > reponses[cur["ev"]]
        BY <1>2, <3>2 DEF Inductif, TypeTransferts
    <3> QED BY <3>1, <3>2, <3>3 DEF Reponses!Repond
  <2>3. ASSUME NEW t \in T, Soumission(t), ~Accepte(t) PROVE UNCHANGED Reponses!vars
      BY <2>3 DEF Soumission, Soumet, add_to_flying_list, op_submit_transfer, Refuse, Retire, histoire, Reponses!vars
  <2>4. ASSUME NEW t \in T, Annule(t) \/ Reap(t) \/ Finit(t) PROVE UNCHANGED Reponses!vars
      BY <2>4 DEF Annule, Reap, Finit, histoire, Reponses!vars
  <2>5. ASSUME NEW f \in Minuteurs, Minuterie(f) PROVE UNCHANGED Reponses!vars
      BY <2>5 DEF Minuterie, handle_timeouts, Cherche, Traite, AnnuleEchu, Marque, histoire, Reponses!vars
  <2>6. ASSUME Completion, ~Rappel PROVE UNCHANGED Reponses!vars
      BY <2>6 DEF Completion, handle_completion, usbi_handle_transfer_cancellation, Sortie, Parti, clear_transfer_priv,
          histoire, Reponses!vars
  <2>7. ASSUME handle_disconnect \/ Debranche \/ Tic PROVE UNCHANGED Reponses!vars
      BY <2>7 DEF handle_disconnect, Debranche, Tic, histoire, Reponses!vars
  <2>8. ASSUME UNCHANGED vars PROVE UNCHANGED Reponses!vars
      BY <2>8 DEF vars, histoire, Reponses!vars
  <2> QED BY <1>2, <2>1, <2>2, <2>3, <2>4, <2>5, <2>6, <2>7, <2>8 DEF Next, Soumission, Reponses!Next
<1> QED BY <1>1, <1>2, InvariantTransferts, PTL DEF Spec, ReponseUnique, Reponses!Spec
=============================================================================
