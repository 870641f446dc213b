---------------------------- MODULE PartiesPreuves ----------------------------
(***************************************************************************)
(* The inductive invariants of the parts of libusb that MCParties declares *)
(* hold at first, and each step of the part preserves them.                *)
(***************************************************************************)
EXTENDS MCParties, FiniteSetTheorems, WellFoundedInduction, SequenceTheorems, TLAPS

(* A set of naturals that is not empty has a smallest member.              *)
LEMMA Minimum ==
    ASSUME NEW S, S \subseteq Nat, S # {}
    PROVE  \E x \in S : \A y \in S : x <= y
<1> DEFINE Avant == {p \in Nat \X Nat : p[1] < p[2]}
<1>1. IsWellFoundedOn(Avant, Nat)
  BY NatLessThanWellFounded DEF OpToRel
<1> HIDE DEF Avant
<1>2. PICK i \in S : \A j \in S : ~(<<j, i>> \in Avant)
  BY <1>1, WFMin
<1>3. ASSUME NEW j \in S, j < i PROVE FALSE
  <2>1. <<j, i>> \in Nat \X Nat /\ <<j, i>>[1] < <<j, i>>[2]
    BY <1>3
  <2> QED BY <1>2, <2>1 DEF Avant
<1>4. \A j \in S : i <= j
  BY <1>3
<1> QED BY <1>4


-----------------------------------------------------------------------------
(* Synchrone: v1 is pc, v2 transfer, v3 buffer, v4 completed, v5 etat,     *)
(* v6 annule, v7 status, v8 actual, v9 r, v10 transferred.                 *)
LEMMA SynchroneDepart == ASSUME Sync!Init PROVE Sync!Inductif
BY DEF Sync!Init, Sync!Inductif, Sync!TypeSynchrone, Sync!Appel, Sync!Etapes, Sync!Retours, Sync!Statuts

(* Every step keeps the types of the synchronous transfers.                *)
LEMMA SynchroneType ==
    ASSUME Sync!TypeSynchrone, Sync!Next
    PROVE  Sync!TypeSynchrone'
<1> USE DEF Sync!TypeSynchrone, Sync!Va, Sync!Libere, Sync!Refuse, Sync!memoire, Sync!noyau, Sync!rendus,
            Sync!Etapes, Sync!Retours
<1>1. PICK a \in Appelants :
        \/ Sync!libusb_alloc_transfer(a) \/ Sync!libusb_control_transfer(a) \/ Sync!libusb_submit_transfer(a)
        \/ Sync!Noyau(a) \/ Sync!sync_transfer_wait_for_completion(a) \/ Sync!Sort(a)
        \/ Sync!do_sync_bulk_transfer(a) \/ Sync!Rappelle(a)
  BY DEF Sync!Next
<1>2. CASE Sync!libusb_alloc_transfer(a)
  BY <1>2 DEF Sync!libusb_alloc_transfer
<1>3. CASE Sync!libusb_control_transfer(a)
  BY <1>3 DEF Sync!libusb_control_transfer
<1>4. CASE Sync!libusb_submit_transfer(a)
  BY <1>4 DEF Sync!libusb_submit_transfer
<1>5. CASE Sync!Noyau(a)
  BY <1>5 DEF Sync!Noyau, Sync!Statuts
<1>6. CASE Sync!sync_transfer_wait_for_completion(a)
  <2>1. ASSUME NEW s \in SUBSET Appelants, Sync!sync_transfer_cb(s)
        PROVE  v4' \in [Appelants -> BOOLEAN] /\ v5' \in [Appelants -> {"libre", "noyau", "pret"}]
    BY <2>1 DEF Sync!sync_transfer_cb
  <2>2. CASE \E s \in SUBSET {b \in Appelants : v5[b] = "pret"} : s # {} /\ Sync!sync_transfer_cb(s)
    BY <1>6, <2>1, <2>2 DEF Sync!sync_transfer_wait_for_completion, Sync!Suite
  <2>3. CASE UNCHANGED <<v4, v5>>
    BY <1>6, <2>3 DEF Sync!sync_transfer_wait_for_completion, Sync!Suite
  <2> QED BY <1>6, <2>2, <2>3 DEF Sync!sync_transfer_wait_for_completion
<1>7. CASE Sync!Sort(a)
  BY <1>7 DEF Sync!Sort
<1>8. CASE Sync!do_sync_bulk_transfer(a)
  <2>1. \A x : Sync!Traduit(x) \in Sync!Retours
    BY DEF Sync!Traduit
  <2> QED BY <1>8, <2>1 DEF Sync!do_sync_bulk_transfer
<1>9. CASE Sync!Rappelle(a)
  BY <1>9 DEF Sync!Rappelle
<1> QED BY <1>1, <1>2, <1>3, <1>4, <1>5, <1>6, <1>7, <1>8, <1>9

(* A call whose thread and transfer are left alone. *)
LEMMA SynchroneAutre ==
    ASSUME NEW b \in Appelants, Sync!Appel(b),
           v1'[b] = v1[b], v2'[b] = v2[b], v3'[b] = v3[b], v4'[b] = v4[b], v5'[b] = v5[b],
           v7'[b] = v7[b], v8'[b] = v8[b], v9'[b] = v9[b], v10'[b] = v10[b]
    PROVE  Sync!Appel(b)'
BY DEF Sync!Appel

(* Every step keeps what is known of each call, its own and the others'.   *)
LEMMA SynchroneAppels ==
    ASSUME Sync!Inductif, Sync!Next, NEW b \in Appelants
    PROVE  Sync!Appel(b)'
<1> USE DEF Sync!Va, Sync!Libere, Sync!Refuse, Sync!memoire, Sync!noyau, Sync!rendus
<1>0. Sync!TypeSynchrone /\ Sync!Appel(b)
  BY DEF Sync!Inductif
<1>1. PICK a \in Appelants :
        \/ Sync!libusb_alloc_transfer(a) \/ Sync!libusb_control_transfer(a) \/ Sync!libusb_submit_transfer(a)
        \/ Sync!Noyau(a) \/ Sync!sync_transfer_wait_for_completion(a) \/ Sync!Sort(a)
        \/ Sync!do_sync_bulk_transfer(a) \/ Sync!Rappelle(a)
  BY DEF Sync!Next
<1>t. Sync!Appel(a)
  BY DEF Sync!Inductif
<1>2. CASE Sync!libusb_alloc_transfer(a)
  <2>1. CASE a = b
    BY <1>0, <1>2, <2>1 DEF Sync!libusb_alloc_transfer, Sync!Appel, Sync!TypeSynchrone
  <2>2. CASE a # b
    BY <1>0, <1>2, <2>2, SynchroneAutre DEF Sync!libusb_alloc_transfer, Sync!TypeSynchrone
  <2> QED BY <2>1, <2>2
<1>3. CASE Sync!libusb_control_transfer(a)
  <2>1. CASE a = b
    BY <1>0, <1>3, <2>1 DEF Sync!libusb_control_transfer, Sync!Appel, Sync!TypeSynchrone
  <2>2. CASE a # b
    BY <1>0, <1>3, <2>2, SynchroneAutre DEF Sync!libusb_control_transfer, Sync!TypeSynchrone
  <2> QED BY <2>1, <2>2
<1>4. CASE Sync!libusb_submit_transfer(a)
  <2>1. CASE a = b
    BY <1>0, <1>4, <2>1 DEF Sync!libusb_submit_transfer, Sync!Appel, Sync!TypeSynchrone
  <2>2. CASE a # b
    BY <1>0, <1>4, <2>2, SynchroneAutre DEF Sync!libusb_submit_transfer, Sync!TypeSynchrone
  <2> QED BY <2>1, <2>2
<1>5. CASE Sync!Noyau(a)
  <2>1. CASE a = b
    BY <1>0, <1>5, <2>1 DEF Sync!Noyau, Sync!Appel, Sync!TypeSynchrone, Sync!Statuts
  <2>2. CASE a # b
    BY <1>0, <1>5, <2>2, SynchroneAutre DEF Sync!Noyau, Sync!TypeSynchrone
  <2> QED BY <2>1, <2>2
<1>6. CASE Sync!sync_transfer_wait_for_completion(a)
  <2>1. /\ v1'[b] = v1[b] /\ v2'[b] = v2[b] /\ v3'[b] = v3[b]
        /\ v7'[b] = v7[b] /\ v8'[b] = v8[b] /\ v9'[b] = v9[b] /\ v10'[b] = v10[b]
    BY <1>0, <1>6 DEF Sync!sync_transfer_wait_for_completion, Sync!TypeSynchrone, Sync!Suite
  <2>2. CASE v4'[b] = v4[b] /\ v5'[b] = v5[b]
    BY <1>0, <2>1, <2>2, SynchroneAutre
  <2>3. CASE v4'[b] = TRUE /\ v5[b] = "pret" /\ v5'[b] = "libre"
    BY <1>0, <2>1, <2>3 DEF Sync!Appel
  <2>4. \/ v4'[b] = v4[b] /\ v5'[b] = v5[b]
        \/ v4'[b] = TRUE /\ v5[b] = "pret" /\ v5'[b] = "libre"
    <3>1. CASE v4' = v4 /\ v5' = v5
      <4>1. v4'[b] = v4[b] /\ v5'[b] = v5[b]
        BY <3>1
      <4> QED BY <4>1
    <3>2. ASSUME NEW s \in SUBSET {x \in Appelants : v5[x] = "pret"}, Sync!sync_transfer_cb(s)
          PROVE  \/ v4'[b] = v4[b] /\ v5'[b] = v5[b]
                 \/ v4'[b] = TRUE /\ v5[b] = "pret" /\ v5'[b] = "libre"
      <4>1. v5'[b] = (IF b \in s THEN "libre" ELSE v5[b]) /\ v4'[b] = (v4[b] \/ b \in s)
        BY <3>2 DEF Sync!sync_transfer_cb
      <4>2. CASE b \in s
        BY <4>1, <4>2
      <4>3. CASE b \notin s
        <5>1. v4[b] \in BOOLEAN
          BY <1>0 DEF Sync!TypeSynchrone
        <5>2. v5'[b] = v5[b]
          BY <4>1, <4>3
        <5>3. v4'[b] = v4[b]
          BY <4>1, <4>3, <5>1
        <5> QED BY <5>2, <5>3
      <4> QED BY <4>2, <4>3
    <3> QED BY <1>6, <3>1, <3>2 DEF Sync!sync_transfer_wait_for_completion
  <2> QED BY <2>2, <2>3, <2>4
<1>7. CASE Sync!Sort(a)
  <2>1. CASE a = b
    BY <1>0, <1>7, <2>1 DEF Sync!Sort, Sync!Appel, Sync!TypeSynchrone
  <2>2. CASE a # b
    BY <1>0, <1>7, <2>2, SynchroneAutre DEF Sync!Sort, Sync!TypeSynchrone
  <2> QED BY <2>1, <2>2
<1>8. CASE Sync!do_sync_bulk_transfer(a)
  <2>0. \A x \in Sync!Statuts \cup {"aucun"} : Sync!Traduit(x) = "succes" <=> x = "COMPLETED"
    BY DEF Sync!Traduit, Sync!Statuts
  <2>1. CASE a = b
    <3>1. v7[b] \in Sync!Statuts \cup {"aucun"}
      BY <1>0 DEF Sync!TypeSynchrone
    <3>2. /\ v1[b] = "lit" /\ v1'[b] = "rendu" /\ v2'[b] = "nul" /\ v3'[b] = "nul"
          /\ v4'[b] = v4[b] /\ v5'[b] = v5[b] /\ v7'[b] = v7[b] /\ v8'[b] = v8[b]
          /\ v9'[b] = Sync!Traduit(v7[b]) /\ v10'[b] = v8[b]
      BY <1>0, <1>8, <2>1 DEF Sync!do_sync_bulk_transfer, Sync!TypeSynchrone
    <3> QED BY <1>0, <2>0, <3>1, <3>2 DEF Sync!Appel
  <2>2. CASE a # b
    BY <1>0, <1>8, <2>2, SynchroneAutre DEF Sync!do_sync_bulk_transfer, Sync!TypeSynchrone
  <2> QED BY <2>1, <2>2
<1>9. CASE Sync!Rappelle(a)
  <2>1. CASE a = b
    BY <1>0, <1>9, <2>1 DEF Sync!Rappelle, Sync!Appel, Sync!TypeSynchrone
  <2>2. CASE a # b
    BY <1>0, <1>9, <2>2, SynchroneAutre DEF Sync!Rappelle, Sync!TypeSynchrone
  <2> QED BY <2>1, <2>2
<1> QED BY <1>1, <1>2, <1>3, <1>4, <1>5, <1>6, <1>7, <1>8, <1>9

-----------------------------------------------------------------------------
(* Conditions: v1 is mutex, v2 waiters, v3 not_waiting, v4 event,          *)
(* v5 timeout_ms, v6 r2, v7 pc.                                            *)
LEMMA ConditionsRien == Rien \notin Attendants
BY PartiesAssumption DEF Cond!Hypotheses

(* The condition variable starts in its invariant, as the abstract one     *)
(* does.                                                                   *)
LEMMA ConditionsDepart == ASSUME Cond!Init PROVE Cond!Inductif /\ Cond!Promesse!Init
BY ConditionsRien DEF Cond!Init, Cond!Inductif, Cond!TypeConditions, Cond!Promesse!Init, Cond!Etat

(* Every step keeps the invariant of the condition variable.               *)
LEMMA ConditionsInductif ==
    ASSUME Cond!Inductif, Cond!Next
    PROVE  Cond!Inductif'
<1> USE ConditionsRien DEF Cond!Inductif, Cond!TypeConditions, Cond!Va
<1>1. CASE Cond!usbi_cond_destroy
  BY <1>1 DEF Cond!usbi_cond_destroy
<1>2. ASSUME NEW p \in Attendants, Cond!usbi_mutex_lock(p) PROVE Cond!Inductif'
  BY <1>2 DEF Cond!usbi_mutex_lock
<1>3. ASSUME NEW p \in Attendants, Cond!usbi_mutex_unlock(p) PROVE Cond!Inductif'
  BY <1>3 DEF Cond!usbi_mutex_unlock
<1>4. ASSUME NEW p \in Attendants, Cond!usbi_cond_broadcast(p) PROVE Cond!Inductif'
  BY <1>4 DEF Cond!usbi_cond_broadcast
<1>5. ASSUME NEW p \in Attendants, NEW limite \in BOOLEAN, Cond!usbi_cond_intwait(p, limite) PROVE Cond!Inductif'
  BY <1>5 DEF Cond!usbi_cond_intwait
<1>6. ASSUME NEW p \in Attendants, Cond!Lache(p) PROVE Cond!Inductif'
  BY <1>6 DEF Cond!Lache
<1>7. ASSUME NEW p \in Attendants, Cond!WaitForSingleObject(p) PROVE Cond!Inductif'
  BY <1>7 DEF Cond!WaitForSingleObject, Cond!Consomme
<1>8. ASSUME NEW p \in Attendants, Cond!Reprend(p) PROVE Cond!Inductif'
  BY <1>8 DEF Cond!Reprend
<1> QED BY <1>1, <1>2, <1>3, <1>4, <1>5, <1>6, <1>7, <1>8 DEF Cond!Next

(* The mapping, one step at a time: what the threads are for the           *)
(* condition variable, and who is late.                                    *)
LEMMA ConditionsPromesse ==
    ASSUME Cond!Inductif, Cond!Next
    PROVE  Cond!Promesse!Next \/ UNCHANGED Cond!Promesse!vars
<1> USE ConditionsRien DEF Cond!Va
<1> DEFINE etat == [p \in Attendants |-> Cond!Etat(p)]
           perimes == {p \in v4 : v7[p] # "attend"}
<1>0. Cond!TypeConditions
  BY DEF Cond!Inductif
<1>m. \A p \in Attendants : v1 = p <=> v7[p] \in {"tient", "lache"}
  BY DEF Cond!Inductif
<1>1. CASE Cond!usbi_cond_destroy
  <2>1. \A p \in Attendants : Cond!Etat(p) = "repos" /\ Cond!Etat(p)' = "repos"
    BY <1>1 DEF Cond!usbi_cond_destroy, Cond!Etat
  <2>2. perimes' = {} /\ v1' = v1 /\ etat' = etat
    BY <1>1, <2>1 DEF Cond!usbi_cond_destroy, Cond!Inductif
  <2> QED BY <2>1, <2>2 DEF Cond!Promesse!Next, Cond!Promesse!Detruit
<1>2. ASSUME NEW p \in Attendants, Cond!usbi_mutex_lock(p) PROVE Cond!Promesse!Prend(p)
  <2>1. /\ v1 = Rien /\ v1' = p /\ v4' = v4
        /\ Cond!Etat(p) = "repos" /\ Cond!Etat(p)' = "tient"
        /\ \A q \in Attendants \ {p} : Cond!Etat(q)' = Cond!Etat(q)
    BY <1>0, <1>2 DEF Cond!usbi_mutex_lock, Cond!Etat, Cond!TypeConditions
  <2>2. perimes' = perimes
    BY <1>0, <1>2 DEF Cond!usbi_mutex_lock, Cond!TypeConditions
  <2>3. etat' = [etat EXCEPT ![p] = "tient"]
    BY <2>1
  <2> QED BY <2>1, <2>2, <2>3 DEF Cond!Promesse!Prend
<1>3. ASSUME NEW p \in Attendants, Cond!usbi_mutex_unlock(p) PROVE Cond!Promesse!Lache(p)
  <2>1. /\ v1' = Rien
        /\ Cond!Etat(p) = "tient" /\ Cond!Etat(p)' = "repos"
        /\ \A q \in Attendants \ {p} : Cond!Etat(q)' = Cond!Etat(q)
    BY <1>0, <1>3 DEF Cond!usbi_mutex_unlock, Cond!Etat, Cond!TypeConditions
  <2>2. perimes' = perimes
    BY <1>0, <1>3 DEF Cond!usbi_mutex_unlock, Cond!TypeConditions
  <2>3. etat' = [etat EXCEPT ![p] = "repos"]
    BY <2>1
  <2> QED BY <2>1, <2>2, <2>3 DEF Cond!Promesse!Lache
<1>4. ASSUME NEW p \in Attendants, Cond!usbi_cond_broadcast(p) PROVE Cond!Promesse!Diffuse(p)
  <2>1. v1' = v1 /\ v7' = v7 /\ v5' = v5 /\ v6' = v6 /\ v4' = v4 \cup v2 /\ v7[p] = "tient"
    BY <1>4 DEF Cond!usbi_cond_broadcast
  <2>2. \A q \in Attendants : q \in v2 <=> v7[q] \in {"attend", "reprend"}
    BY <1>0, <1>m, <2>1 DEF Cond!Inductif
  <2>3. \A q \in Attendants : Cond!Etat(q)' = IF Cond!Etat(q) \in {"dort", "somnole"} THEN "reveille" ELSE Cond!Etat(q)
    BY <1>0, <2>1, <2>2 DEF Cond!Etat, Cond!TypeConditions
  <2>4. etat' = [q \in Attendants |-> IF q \in Cond!Promesse!Dormeurs THEN "reveille" ELSE etat[q]]
    BY <2>3 DEF Cond!Promesse!Dormeurs
  <2> DEFINE tard == {q \in Attendants : v7[q] = "reprend"}
  <2>5. perimes' = perimes \cup tard
    BY <1>0, <2>1, <2>2 DEF Cond!TypeConditions
  <2>6. \A q \in tard : q \in Attendants /\ Cond!Etat(q) \in {"reveille", "expire"}
    BY DEF Cond!Etat
  <2>7. tard \in SUBSET {q \in Attendants : etat[q] \in {"reveille", "expire"}}
    BY <2>6
  <2>8. Cond!Etat(p) = "tient"
    BY <2>1 DEF Cond!Etat
  <2> HIDE DEF tard
  <2> QED BY <2>1, <2>4, <2>5, <2>7, <2>8 DEF Cond!Promesse!Diffuse
<1>5. ASSUME NEW p \in Attendants, NEW limite \in BOOLEAN, Cond!usbi_cond_intwait(p, limite)
      PROVE  UNCHANGED Cond!Promesse!vars
  <2>1. \A q \in Attendants : Cond!Etat(q)' = Cond!Etat(q)
    BY <1>0, <1>5 DEF Cond!usbi_cond_intwait, Cond!Etat, Cond!TypeConditions
  <2>2. perimes' = perimes /\ v1' = v1
    BY <1>0, <1>5 DEF Cond!usbi_cond_intwait, Cond!TypeConditions
  <2>3. etat' = etat
    BY <2>1
  <2> QED BY <2>2, <2>3 DEF Cond!Promesse!vars
<1>6. ASSUME NEW p \in Attendants, Cond!Lache(p) PROVE Cond!Promesse!Attend(p)
  <2>1. /\ v1' = Rien /\ v4' = v4 /\ v5' = v5 /\ v6' = v6 /\ v7[p] = "lache" /\ v7'[p] = "attend"
        /\ \A q \in Attendants \ {p} : v7'[q] = v7[q]
    BY <1>0, <1>6 DEF Cond!Lache, Cond!TypeConditions
  <2>2. \A q \in Attendants \ {p} : Cond!Etat(q)' = Cond!Etat(q)
    BY <2>1 DEF Cond!Etat
  <2>3. Cond!Etat(p) = "tient" /\ (p \in perimes <=> p \in v4)
    BY <2>1 DEF Cond!Etat
  <2>4. \E sommeil \in {"dort", "somnole"} : Cond!Etat(p)' = IF p \in perimes THEN "reveille" ELSE sommeil
    BY <2>1, <2>3 DEF Cond!Etat
  <2>5. perimes' = perimes \ {p}
    BY <1>0, <2>1 DEF Cond!TypeConditions
  <2>6. \E sommeil \in {"dort", "somnole"} : etat' = [etat EXCEPT ![p] = IF p \in perimes THEN "reveille" ELSE sommeil]
    <3>1. PICK sommeil \in {"dort", "somnole"} : Cond!Etat(p)' = IF p \in perimes THEN "reveille" ELSE sommeil
      BY <2>4
    <3>2. etat' = [etat EXCEPT ![p] = IF p \in perimes THEN "reveille" ELSE sommeil]
      BY <2>2, <3>1
    <3> QED BY <3>2
  <2> QED BY <2>1, <2>3, <2>5, <2>6 DEF Cond!Promesse!Attend
<1>7. ASSUME NEW p \in Attendants, Cond!WaitForSingleObject(p)
      PROVE  Cond!Promesse!Expire(p) \/ UNCHANGED Cond!Promesse!vars
  <2>1. /\ v1' = v1 /\ v5' = v5 /\ v7[p] = "attend" /\ v7'[p] = "reprend"
        /\ \A q \in Attendants \ {p} : v7'[q] = v7[q] /\ v6'[q] = v6[q] /\ (q \in v4' <=> q \in v4)
        /\ v4' \subseteq v4 /\ p \notin v4'
        /\ \/ p \in v4 /\ v6'[p] = "WAIT_OBJECT_0"
           \/ p \notin v4 /\ v5[p] /\ v6'[p] = "WAIT_TIMEOUT"
    BY <1>0, <1>7 DEF Cond!WaitForSingleObject, Cond!Consomme, Cond!TypeConditions
  <2>2. \A q \in Attendants \ {p} : Cond!Etat(q)' = Cond!Etat(q)
    BY <2>1 DEF Cond!Etat
  <2>3. perimes' = perimes
    BY <1>0, <2>1 DEF Cond!TypeConditions
  <2>4. CASE p \in v4 /\ v6'[p] = "WAIT_OBJECT_0"
    <3>1. Cond!Etat(p)' = Cond!Etat(p)
      BY <2>1, <2>4 DEF Cond!Etat
    <3>2. etat' = etat
      BY <2>2, <3>1
    <3> QED BY <2>1, <2>3, <3>2 DEF Cond!Promesse!vars
  <2>5. CASE p \notin v4 /\ v5[p] /\ v6'[p] = "WAIT_TIMEOUT"
    <3>1. Cond!Etat(p) = "somnole" /\ Cond!Etat(p)' = "expire"
      BY <2>1, <2>5 DEF Cond!Etat
    <3>2. etat' = [etat EXCEPT ![p] = "expire"]
      BY <2>2, <3>1
    <3> QED BY <2>1, <2>3, <3>1, <3>2 DEF Cond!Promesse!Expire
  <2> QED BY <2>1, <2>4, <2>5
<1>8. ASSUME NEW p \in Attendants, Cond!Reprend(p) PROVE Cond!Promesse!Prend(p)
  <2>1. /\ v1 = Rien /\ v1' = p /\ v4' = v4
        /\ Cond!Etat(p) \in {"reveille", "expire"} /\ Cond!Etat(p)' = "tient"
        /\ \A q \in Attendants \ {p} : Cond!Etat(q)' = Cond!Etat(q)
    BY <1>0, <1>8 DEF Cond!Reprend, Cond!Etat, Cond!TypeConditions
  <2>2. perimes' = perimes
    BY <1>0, <1>8 DEF Cond!Reprend, Cond!TypeConditions
  <2>3. etat' = [etat EXCEPT ![p] = "tient"]
    BY <2>1
  <2> QED BY <2>1, <2>2, <2>3 DEF Cond!Promesse!Prend
<1> QED BY <1>1, <1>2, <1>3, <1>4, <1>5, <1>6, <1>7, <1>8 DEF Cond!Next, Cond!Promesse!Next

-----------------------------------------------------------------------------
(* The requests on Linux: v1 is branche, v2 attached, v3 pilote, v4 tenu,  *)
(* v5 noyau, v6 disconnect_claim, v7 ouvert, v8 claimed_interfaces,        *)
(* v9 auto_detach_kernel_driver, v10 lock, v11 perdu, v12 pc, v13 ou,      *)
(* v14 reset, v15 appels.                                                  *)
LEMMA RequetesConstantes ==
    ASSUME Requ!Hypotheses
    PROVE
    /\ NI \in Nat /\ NI > 0 /\ Requ!I = 0..(NI - 1)
    /\ PoigneeDe \in [Threads -> Poignees]
    /\ Rien \notin Poignees /\ Rien \notin Threads
    /\ 0 \in 0..NI /\ \A i \in Requ!I : i \in 0..NI /\ i + 1 \in 0..NI
BY DEF Requ!Hypotheses, Requ!I

(* At first no thread is in a call and nothing is claimed.                 *)
LEMMA RequetesDepart == ASSUME Requ!Hypotheses, Requ!Init PROVE Requ!Inductif
<1> USE RequetesConstantes DEF Requ!Init
<1>1. Requ!TypeRequetes
  BY DEF Requ!TypeRequetes, Requ!Etapes
<1>2. ASSUME NEW f \in Threads PROVE Requ!Fil(f)
  BY DEF Requ!Fil, Requ!AvecVerrou, Requ!EtapesDeClaim
<1>3. \A i \in Requ!I : Requ!Tenu(i)
  BY DEF Requ!Tenu
<1>4. ASSUME NEW h \in Poignees, NEW i \in Requ!I PROVE Requ!Noyau(h, i) /\ Requ!Perdu(h, i)
  BY DEF Requ!Noyau, Requ!Perdu, Requ!Connu, Requ!Obtenue
<1> QED BY <1>1, <1>2, <1>3, <1>4 DEF Requ!Inductif

(* A thread that does not step, whose lock nobody takes or gives back. *)
LEMMA RequetesAutre ==
    ASSUME NEW g \in Threads, Requ!Fil(g),
           v12'[g] = v12[g], v13'[g] = v13[g], v14'[g] = v14[g],
           v10'[PoigneeDe[g]] = g <=> v10[PoigneeDe[g]] = g,
           v10[PoigneeDe[g]] = g =>
               /\ v8'[PoigneeDe[g]] = v8[PoigneeDe[g]]
               /\ \A i \in Requ!I : v4'[i] = PoigneeDe[g] => v4[i] = PoigneeDe[g],
           ~v7'[PoigneeDe[g]] => v12[g] \in {"repos", "absent"} \/ ~v7[PoigneeDe[g]]
    PROVE  Requ!Fil(g)'
BY DEF Requ!Fil, Requ!AvecVerrou, Requ!EtapesDeClaim


(* What a step of the thread f of a call may write: its own place, and what *)
(* its handle holds. *)
PasDe(f) ==
    /\ v12' = v12 \/ \E e \in Requ!Etapes : v12' = [v12 EXCEPT ![f] = e]
    /\ v13' = v13 \/ \E k \in 0..NI : v13' = [v13 EXCEPT ![f] = k]
    /\ v14' = v14 \/ \E b \in BOOLEAN : v14' = [v14 EXCEPT ![f] = b]
    /\ v10' = v10 \/ \E l \in Threads \cup {Rien} : v10' = [v10 EXCEPT ![PoigneeDe[f]] = l]
    /\ v8' = v8 \/ \E S \in SUBSET Requ!I : v8' = [v8 EXCEPT ![PoigneeDe[f]] = S]
    /\ v1' = v1 /\ v7' = v7
    /\ v3' \in [Requ!I -> {"noyau", "aucun", "usbfs"}]
    /\ v4' \in [Requ!I -> Poignees \cup {Rien}]
    /\ v11' \in [Poignees -> SUBSET Requ!I]

(* A step of one thread keeps the types.                                   *)
LEMMA RequetesType ==
    ASSUME Requ!Hypotheses, Requ!TypeRequetes, NEW f \in Threads, PasDe(f)
    PROVE  Requ!TypeRequetes'
<1>1. PoigneeDe[f] \in Poignees
  BY RequetesConstantes
<1>2. v12' \in [Threads -> Requ!Etapes] /\ v13' \in [Threads -> 0..NI] /\ v14' \in [Threads -> BOOLEAN]
  BY DEF PasDe, Requ!TypeRequetes
<1>3. v10' \in [Poignees -> Threads \cup {Rien}] /\ v8' \in [Poignees -> SUBSET Requ!I]
  BY <1>1 DEF PasDe, Requ!TypeRequetes
<1> QED BY <1>2, <1>3 DEF PasDe, Requ!TypeRequetes

(* Two threads do not hold the lock of one handle. *)
LEMMA RequetesSeul ==
    ASSUME Requ!Hypotheses, Requ!Inductif, NEW f \in Threads, NEW g \in Threads, g # f, PoigneeDe[g] = PoigneeDe[f],
           v12[g] \in Requ!AvecVerrou
    PROVE  v12[f] \notin Requ!AvecVerrou /\ v10[PoigneeDe[f]] # f
BY DEF Requ!Inductif, Requ!Fil

(* A claim that is missing after a step was missing before, and what the    *)
(* thread that steps had given back stays so; or that thread knows of it. *)
LEMMA RequetesPerdu ==
    ASSUME Requ!Hypotheses, Requ!Inductif, NEW f \in Threads, PasDe(f), NEW h \in Poignees, NEW i \in Requ!I,
           v1 /\ v7[h] /\ Requ!Connu(h, i)' /\ v4'[i] # h /\ i \notin v11'[h] =>
               /\ Requ!Connu(h, i)
               /\ PoigneeDe[f] = h /\ Requ!Rendu(f, i) => Requ!Rendu(f, i)'
               /\ (v4[i] # h /\ i \notin v11[h]) \/ (PoigneeDe[f] = h /\ Requ!Rendu(f, i)')
    PROVE  Requ!Perdu(h, i)'
<1> SUFFICES ASSUME v1', v7'[h], Requ!Connu(h, i)', v4'[i] # h, i \notin v11'[h]
             PROVE  \E g \in Threads : PoigneeDe[g] = h /\ Requ!Rendu(g, i)'
  BY DEF Requ!Perdu
<1>1. v1 /\ v7[h]
  BY DEF PasDe
<1>2. ASSUME NEW g \in Threads, g # f, PoigneeDe[g] = h, Requ!Rendu(g, i) PROVE Requ!Rendu(g, i)'
  BY <1>2 DEF PasDe, Requ!Inductif, Requ!TypeRequetes, Requ!Rendu
<1>3. CASE v4[i] # h /\ i \notin v11[h]
  <2>1. PICK g \in Threads : PoigneeDe[g] = h /\ Requ!Rendu(g, i)
    BY <1>1, <1>3 DEF Requ!Perdu, Requ!Inductif
  <2> QED BY <1>1, <1>2, <2>1
<1> QED BY <1>1, <1>3

(* The invariant after a step of a thread. *)
LEMMA RequetesInductif ==
    ASSUME Requ!Hypotheses, Requ!Inductif, NEW f \in Threads, PasDe(f), Requ!Fil(f)',
           \A g \in Threads : g # f => Requ!Fil(g)',
           \A i \in Requ!I : Requ!Tenu(i)',
           \A h \in Poignees, i \in Requ!I : Requ!Noyau(h, i)',
           \A h \in Poignees, i \in Requ!I :
               v1 /\ v7[h] /\ Requ!Connu(h, i)' /\ v4'[i] # h /\ i \notin v11'[h] =>
                   /\ Requ!Connu(h, i)
                   /\ PoigneeDe[f] = h /\ Requ!Rendu(f, i) => Requ!Rendu(f, i)'
                   /\ (v4[i] # h /\ i \notin v11[h]) \/ (PoigneeDe[f] = h /\ Requ!Rendu(f, i)')
    PROVE  Requ!Inductif'
<1>1. \A h \in Poignees, i \in Requ!I : Requ!Perdu(h, i)'
  BY RequetesPerdu
<1>2. Requ!TypeRequetes'
  BY RequetesType DEF Requ!Inductif
<1> QED BY <1>1, <1>2 DEF Requ!Inductif

(* A thread that steps does not take what another one has obtained. *)
LEMMA RequetesConnu ==
    ASSUME Requ!TypeRequetes, NEW f \in Threads, NEW h \in Poignees, NEW i \in Requ!I, v8' = v8,
           \A g \in Threads : g # f => v12'[g] = v12[g] /\ v13'[g] = v13[g]
    PROVE  /\ v12[f] # "obtenue" => (Requ!Connu(h, i) => Requ!Connu(h, i)')
           /\ v12'[f] # "obtenue" => (Requ!Connu(h, i)' => Requ!Connu(h, i))
<1>1. ASSUME v12[f] # "obtenue", Requ!Obtenue(h, i) PROVE Requ!Obtenue(h, i)'
  <2>1. PICK g \in Threads : PoigneeDe[g] = h /\ v12[g] = "obtenue" /\ v13[g] = i
    BY <1>1 DEF Requ!Obtenue
  <2>2. v12'[g] = "obtenue" /\ v13'[g] = i
    BY <1>1, <2>1
  <2> QED BY <2>1, <2>2 DEF Requ!Obtenue
<1>2. ASSUME v12'[f] # "obtenue", Requ!Obtenue(h, i)' PROVE Requ!Obtenue(h, i)
  <2>1. PICK g \in Threads : PoigneeDe[g] = h /\ v12'[g] = "obtenue" /\ v13'[g] = i
    BY <1>2 DEF Requ!Obtenue
  <2>2. v12[g] = "obtenue" /\ v13[g] = i
    BY <1>2, <2>1
  <2> QED BY <2>1, <2>2 DEF Requ!Obtenue
<1> QED BY <1>1, <1>2 DEF Requ!Connu

(* A call claims an interface that its handle has not, under the lock.     *)
LEMMA Pas_Reclame ==
    ASSUME Requ!Hypotheses, Requ!Inductif, NEW f \in Threads, Requ!Reclame(f)
    PROVE  Requ!Inductif'
<1> USE RequetesConstantes DEF Requ!VaA, Requ!Va, Requ!Verrouille, Requ!Deverrouille, Requ!Retient, Requ!retenues,
        Requ!Lie, Requ!Arrache, Requ!Inchange, Requ!materiel, Requ!poignees
<1>0. Requ!TypeRequetes /\ Requ!Fil(f) /\ PoigneeDe[f] \in Poignees
  BY DEF Requ!Inductif
<1>1. PasDe(f)
  <2>1. v12' = v12 \/ \E e \in Requ!Etapes : v12' = [v12 EXCEPT ![f] = e]
    BY <1>0 DEF Requ!Reclame, Requ!Etapes, Requ!AvecVerrou
  <2>2. v13' = v13 \/ \E k \in 0..NI : v13' = [v13 EXCEPT ![f] = k]
    BY <1>0 DEF Requ!Reclame, Requ!TypeRequetes, Requ!Fil
  <2>3. v11' \in [Poignees -> SUBSET Requ!I]
    BY <1>0 DEF Requ!Reclame, Requ!TypeRequetes, Requ!Fil
  <2> QED BY <1>0, <2>1, <2>2, <2>3 DEF Requ!Reclame, PasDe, Requ!TypeRequetes, Requ!Fil
<1>2. Requ!Fil(f)'
  BY <1>0 DEF Requ!Reclame, Requ!TypeRequetes, Requ!AvecVerrou, Requ!EtapesDeClaim, Requ!Fil
<1>3. ASSUME NEW g \in Threads, g # f PROVE Requ!Fil(g)'
  <2>1. Requ!Fil(g)
    BY DEF Requ!Inductif
  <2> QED BY <1>0, <1>3, <2>1, RequetesAutre DEF Requ!Reclame, Requ!TypeRequetes, Requ!AvecVerrou, Requ!Fil
<1>4. ASSUME NEW i \in Requ!I PROVE Requ!Tenu(i)'
  <2>1. Requ!Tenu(i) /\ (v13[f] \in Requ!I => Requ!Tenu(v13[f]))
    BY DEF Requ!Inductif
  <2> QED BY <1>0, <2>1 DEF Requ!Reclame, Requ!TypeRequetes, Requ!Tenu, Requ!Fil
<1>5. ASSUME NEW h \in Poignees, NEW i \in Requ!I PROVE Requ!Noyau(h, i)'
  <2>1. Requ!Noyau(h, i) /\ Requ!Tenu(i)
    BY DEF Requ!Inductif
  <2> QED BY <1>0, <2>1 DEF Requ!Reclame, Requ!TypeRequetes, Requ!Fil, Requ!AvecVerrou, Requ!EtapesDeClaim, Requ!Noyau, Requ!Connu, Requ!Obtenue
<1>6. ASSUME NEW h \in Poignees, NEW i \in Requ!I, v1, v7[h], Requ!Connu(h, i)', v4'[i] # h, i \notin v11'[h]
      PROVE  /\ Requ!Connu(h, i)
             /\ PoigneeDe[f] = h /\ Requ!Rendu(f, i) => Requ!Rendu(f, i)'
             /\ (v4[i] # h /\ i \notin v11[h]) \/ (PoigneeDe[f] = h /\ Requ!Rendu(f, i)')
  <2>1. Requ!Noyau(h, i) /\ Requ!Tenu(i)
    BY DEF Requ!Inductif
  <2>2. \A g \in Threads : g # f /\ PoigneeDe[g] = PoigneeDe[f] /\ v12[g] = "obtenue" => v12[f] \notin Requ!AvecVerrou
    BY RequetesSeul DEF Requ!AvecVerrou
  <2>3. Requ!Connu(h, i)
    BY <1>0, <1>6 DEF Requ!Reclame, Requ!TypeRequetes, Requ!Fil, Requ!Connu, Requ!Obtenue
  <2>4. PoigneeDe[f] = h /\ Requ!Rendu(f, i) => Requ!Rendu(f, i)'
    BY <1>0, <1>6, <2>2 DEF Requ!Reclame, Requ!TypeRequetes, Requ!Fil, Requ!AvecVerrou, Requ!EtapesDeClaim, Requ!Rendu, Requ!Connu, Requ!Obtenue
  <2>5. (v4[i] # h /\ i \notin v11[h]) \/ (PoigneeDe[f] = h /\ Requ!Rendu(f, i)')
    BY <1>0, <1>6, <2>1 DEF Requ!Reclame, Requ!TypeRequetes, Requ!Fil, Requ!AvecVerrou, Requ!EtapesDeClaim, Requ!Rendu, Requ!Tenu
  <2> QED BY <2>3, <2>4, <2>5
<1> QED BY <1>1, <1>2, <1>3, <1>4, <1>5, <1>6, RequetesInductif

(* What became of the claim is noted; a reset goes on to the next          *)
(* interface.                                                              *)
LEMMA Pas_FinClaim ==
    ASSUME Requ!Hypotheses, Requ!Inductif, NEW f \in Threads, Requ!FinClaim(f)
    PROVE  Requ!Inductif'
<1> USE RequetesConstantes
<1> DEFINE p == PoigneeDe[f]
<1>0. Requ!TypeRequetes /\ Requ!Fil(f) /\ p \in Poignees
  BY DEF Requ!Inductif
<1>a. /\ v12[f] \in {"obtenue", "refuse"} /\ v13[f] \in Requ!I /\ v10[p] = f
      /\ v14[f] => v13[f] \in v8[p]
      /\ v14[f] => \A i \in Requ!I : i > v13[f] => v4[i] # p
      /\ v14[f] /\ v12[f] = "refuse" => v4[v13[f]] # p
  BY <1>0 DEF Requ!FinClaim, Requ!Fil, Requ!AvecVerrou, Requ!EtapesDeClaim
<1>b. /\ UNCHANGED <<v1, v3, v4, v7, v11, v14>>
      /\ v12' = [v12 EXCEPT ![f] = IF v14[f] THEN "reprend" ELSE "repos"]
      /\ v13' = [v13 EXCEPT ![f] = IF v14[f] THEN v13[f] + 1 ELSE 0]
      /\ v10' = IF v14[f] THEN v10 ELSE [v10 EXCEPT ![p] = Rien]
      /\ v8' = [v8 EXCEPT ![p] = IF v12[f] = "obtenue" THEN v8[p] \cup {v13[f]}
                                 ELSE IF v14[f] THEN v8[p] \ {v13[f]} ELSE v8[p]]
  <2>1. CASE v14[f] /\ v12[f] = "obtenue"
    <3>1. v8[p] \cup {v13[f]} = v8[p]
      BY <1>a, <2>1
    <3>2. v8' = [v8 EXCEPT ![p] = v8[p]]
      BY <2>1 DEF Requ!FinClaim, Requ!ClaimFini, Requ!Retient, Requ!retenues
    <3> QED BY <2>1, <3>1, <3>2 DEF Requ!FinClaim, Requ!ClaimFini, Requ!VaA, Requ!materiel
  <2>2. CASE v14[f] /\ v12[f] = "refuse"
    BY <2>2 DEF Requ!FinClaim, Requ!ClaimFini, Requ!Retient, Requ!retenues, Requ!VaA, Requ!Oublie, Requ!materiel
  <2>3. CASE ~v14[f] /\ v12[f] = "obtenue"
    BY <2>3 DEF Requ!FinClaim, Requ!ClaimFini, Requ!Retient, Requ!retenues, Requ!VaA, Requ!Va, Requ!Deverrouille, Requ!materiel
  <2>4. CASE ~v14[f] /\ v12[f] = "refuse"
    BY <2>4 DEF Requ!FinClaim, Requ!ClaimFini, Requ!Retient, Requ!retenues, Requ!VaA, Requ!Va, Requ!Deverrouille, Requ!materiel
  <2> QED BY <1>a, <2>1, <2>2, <2>3, <2>4
<1>c. /\ v12'[f] = IF v14[f] THEN "reprend" ELSE "repos"
      /\ v13'[f] = IF v14[f] THEN v13[f] + 1 ELSE 0
      /\ v8'[p] = IF v12[f] = "obtenue" THEN v8[p] \cup {v13[f]}
                  ELSE IF v14[f] THEN v8[p] \ {v13[f]} ELSE v8[p]
      /\ \A g \in Threads : g # f => v12'[g] = v12[g] /\ v13'[g] = v13[g]
      /\ \A h \in Poignees : h # p => v8'[h] = v8[h] /\ v10'[h] = v10[h]
      /\ v10'[p] = IF v14[f] THEN f ELSE Rien
  BY <1>0, <1>a, <1>b DEF Requ!TypeRequetes
<1>1. PasDe(f)
  <2>1. v12'[f] \in Requ!Etapes /\ v13'[f] \in 0..NI /\ v8'[p] \in SUBSET Requ!I
    BY <1>0, <1>a, <1>c DEF Requ!Etapes, Requ!AvecVerrou, Requ!TypeRequetes
  <2>2. /\ v12' = [v12 EXCEPT ![f] = v12'[f]] /\ v13' = [v13 EXCEPT ![f] = v13'[f]] /\ v8' = [v8 EXCEPT ![p] = v8'[p]]
        /\ v10' = v10 \/ \E l \in Threads \cup {Rien} : v10' = [v10 EXCEPT ![p] = l]
    BY <1>b, <1>c
  <2> HIDE DEF p
  <2> QED BY <1>0, <1>b, <2>1, <2>2 DEF PasDe, Requ!TypeRequetes, p
<1>2. Requ!Fil(f)'
  BY <1>0, <1>a, <1>b, <1>c DEF Requ!Fil, Requ!AvecVerrou, Requ!EtapesDeClaim
<1>3. ASSUME NEW g \in Threads, g # f PROVE Requ!Fil(g)'
  <2>1. Requ!Fil(g) /\ PoigneeDe[g] \in Poignees
    BY DEF Requ!Inductif
  <2> QED BY <1>a, <1>b, <1>c, <1>3, <2>1, RequetesAutre
<1>4. ASSUME NEW i \in Requ!I PROVE Requ!Tenu(i)'
  BY <1>b DEF Requ!Tenu, Requ!Inductif
<1>5. \A g \in Threads : g # f /\ PoigneeDe[g] = p => v12[g] # "obtenue"
  BY <1>a, <1>0, RequetesSeul DEF Requ!AvecVerrou, Requ!Fil
<1>6. ASSUME NEW h \in Poignees, NEW i \in Requ!I PROVE Requ!Noyau(h, i)'
  <2> SUFFICES ASSUME v4[i] = h PROVE v7[h] /\ Requ!Connu(h, i)'
    BY <1>b DEF Requ!Noyau
  <2>1. v7[h] /\ Requ!Connu(h, i)
    BY DEF Requ!Noyau, Requ!Inductif
  <2>2. CASE h # p
    BY <1>c, <2>1, <2>2 DEF Requ!Connu, Requ!Obtenue
  <2>3. CASE h = p
    <3>1. i \in v8[p] \/ (v12[f] = "obtenue" /\ i = v13[f])
      BY <1>5, <2>1, <2>3 DEF Requ!Connu, Requ!Obtenue
    <3>2. i \in v8'[p]
      BY <1>a, <1>c, <2>3, <3>1
    <3> QED BY <2>1, <2>3, <3>2 DEF Requ!Connu
  <2> QED BY <2>2, <2>3
<1>7. ASSUME NEW h \in Poignees, NEW i \in Requ!I, v1, v7[h], Requ!Connu(h, i)', v4'[i] # h, i \notin v11'[h]
      PROVE  /\ Requ!Connu(h, i)
             /\ PoigneeDe[f] = h /\ Requ!Rendu(f, i) => Requ!Rendu(f, i)'
             /\ (v4[i] # h /\ i \notin v11[h]) \/ (PoigneeDe[f] = h /\ Requ!Rendu(f, i)')
  <2>1. CASE h # p
    <3>1. Requ!Connu(h, i)
      BY <1>c, <1>7, <2>1 DEF Requ!Connu, Requ!Obtenue
    <3> QED BY <1>b, <1>7, <2>1, <3>1
  <2>2. CASE h = p
    <3>1. i \in v8'[p]
      BY <1>5, <1>7, <1>c, <2>2 DEF Requ!Connu, Requ!Obtenue
    <3>2. Requ!Connu(h, i)
      <4>1. i \in v8[p] \/ (v12[f] = "obtenue" /\ i = v13[f])
        BY <1>c, <3>1
      <4> QED BY <2>2, <4>1 DEF Requ!Connu, Requ!Obtenue
    <3>3. Requ!Rendu(f, i) => Requ!Rendu(f, i)'
      <4> SUFFICES ASSUME Requ!Rendu(f, i) PROVE Requ!Rendu(f, i)'
        OBVIOUS
      <4>1. v14[f] /\ (i > v13[f] \/ (v12[f] = "refuse" /\ i >= v13[f]))
        BY <1>a DEF Requ!Rendu, Requ!EtapesDeClaim
      <4>2. i > v13[f]
        <5>1. v12[f] = "refuse" => i # v13[f]
          BY <1>c, <3>1, <4>1
        <5> QED BY <1>a, <4>1, <5>1
      <4>3. i >= v13'[f] /\ v12'[f] = "reprend" /\ v14'[f]
        BY <1>a, <1>b, <1>c, <4>1, <4>2
      <4> QED BY <4>3 DEF Requ!Rendu
    <3> QED BY <1>b, <1>7, <2>2, <3>2, <3>3
  <2> QED BY <2>1, <2>2
<1> HIDE DEF p
<1> QED BY <1>1, <1>2, <1>3, <1>4, <1>6, <1>7, RequetesInductif

(* The kernel grants the claim of an interface that is free.               *)
LEMMA Pas_claim_interface ==
    ASSUME Requ!Hypotheses, Requ!Inductif, NEW f \in Threads, Requ!claim_interface(f)
    PROVE  Requ!Inductif'
<1> USE RequetesConstantes DEF Requ!VaA, Requ!Va, Requ!Verrouille, Requ!Deverrouille, Requ!Retient, Requ!retenues,
        Requ!Lie, Requ!Arrache, Requ!Inchange, Requ!materiel, Requ!poignees
<1>0. Requ!TypeRequetes /\ Requ!Fil(f) /\ PoigneeDe[f] \in Poignees
  BY DEF Requ!Inductif
<1>1. PasDe(f)
  <2>1. v12' = v12 \/ \E e \in Requ!Etapes : v12' = [v12 EXCEPT ![f] = e]
    BY <1>0 DEF Requ!claim_interface, Requ!Obtient, Requ!Etapes, Requ!AvecVerrou
  <2>2. v13' = v13 \/ \E k \in 0..NI : v13' = [v13 EXCEPT ![f] = k]
    BY <1>0 DEF Requ!claim_interface, Requ!Obtient, Requ!TypeRequetes, Requ!Fil
  <2>3. v11' \in [Poignees -> SUBSET Requ!I]
    <3>1. v11' = v11 \/ v11' = [v11 EXCEPT ![PoigneeDe[f]] = v11[PoigneeDe[f]] \ {v13[f]}]
      BY <1>0 DEF Requ!claim_interface, Requ!Obtient
    <3>2. v11[PoigneeDe[f]] \ {v13[f]} \in SUBSET Requ!I
      BY <1>0 DEF Requ!TypeRequetes
    <3> QED BY <1>0, <3>1, <3>2 DEF Requ!TypeRequetes
  <2> QED BY ZenonT(60), <1>0, <2>1, <2>2, <2>3 DEF Requ!claim_interface, Requ!Obtient, PasDe, Requ!TypeRequetes, Requ!Fil
<1>2. Requ!Fil(f)'
  <2>1. /\ v12[f] = "claim" /\ v12'[f] \in {"obtenue", "refuse", "quipilote"} /\ v8' = v8 /\ v7' = v7 /\ v10' = v10
        /\ v14' = v14 /\ v13'[f] = v13[f]
        /\ v12'[f] # "obtenue" => v4' = v4
        /\ \A i \in Requ!I : i # v13[f] => v4'[i] = v4[i]
    BY <1>0 DEF Requ!claim_interface, Requ!Obtient, Requ!TypeRequetes
  <2> QED BY <1>0, <2>1 DEF Requ!AvecVerrou, Requ!EtapesDeClaim, Requ!Fil
<1>3. ASSUME NEW g \in Threads, g # f PROVE Requ!Fil(g)'
  <2>1. Requ!Fil(g)
    BY DEF Requ!Inductif
  <2>2. /\ v12'[g] = v12[g] /\ v13'[g] = v13[g] /\ v14' = v14 /\ v7' = v7
        /\ v8' = v8 /\ v10' = v10
        /\ \A i \in Requ!I : v4'[i] = v4[i] \/ v4'[i] \in {PoigneeDe[f], Rien}
    BY <1>0, <1>3 DEF Requ!claim_interface, Requ!Obtient, Requ!TypeRequetes
  <2>3. v10[PoigneeDe[f]] = f /\ PoigneeDe[g] \in Poignees
    BY <1>0 DEF Requ!claim_interface, Requ!Fil, Requ!AvecVerrou
  <2> QED BY <1>0, <1>3, <2>1, <2>2, <2>3, RequetesAutre DEF Requ!TypeRequetes
<1>4. ASSUME NEW i \in Requ!I PROVE Requ!Tenu(i)'
  <2>1. Requ!Tenu(i) /\ (v13[f] \in Requ!I => Requ!Tenu(v13[f]))
    BY DEF Requ!Inductif
  <2> QED BY <1>0, <2>1 DEF Requ!claim_interface, Requ!Obtient, Requ!TypeRequetes, Requ!Tenu, Requ!Fil
<1>5. ASSUME NEW h \in Poignees, NEW i \in Requ!I PROVE Requ!Noyau(h, i)'
  <2>1. Requ!Noyau(h, i) /\ Requ!Tenu(i)
    BY DEF Requ!Inductif
  <2>2. /\ v12[f] = "claim" /\ v8' = v8 /\ v7' = v7
        /\ v4' = v4 \/ (v12'[f] = "obtenue" /\ v4' = [v4 EXCEPT ![v13[f]] = PoigneeDe[f]])
        /\ \A g \in Threads : v13'[g] = v13[g] /\ (g # f => v12'[g] = v12[g])
    BY <1>0 DEF Requ!claim_interface, Requ!Obtient, Requ!TypeRequetes
  <2>3. CASE v4[i] = h
    BY <2>1, <2>2, <2>3 DEF Requ!Noyau, Requ!Connu, Requ!Obtenue
  <2>4. CASE v4[i] # h /\ v4'[i] = h
    <3>1. h = PoigneeDe[f] /\ i = v13[f] /\ v12'[f] = "obtenue" /\ v7[h]
      BY <1>0, <2>2, <2>4 DEF Requ!TypeRequetes, Requ!Fil
    <3> QED BY <2>2, <3>1 DEF Requ!Noyau, Requ!Connu, Requ!Obtenue
  <2> QED BY <2>3, <2>4 DEF Requ!Noyau
<1>6. ASSUME NEW h \in Poignees, NEW i \in Requ!I, v1, v7[h], Requ!Connu(h, i)', v4'[i] # h, i \notin v11'[h]
      PROVE  /\ Requ!Connu(h, i)
             /\ PoigneeDe[f] = h /\ Requ!Rendu(f, i) => Requ!Rendu(f, i)'
             /\ (v4[i] # h /\ i \notin v11[h]) \/ (PoigneeDe[f] = h /\ Requ!Rendu(f, i)')
  <2>1. Requ!Noyau(h, i) /\ Requ!Tenu(i)
    BY DEF Requ!Inductif
  <2>2. \A g \in Threads : g # f /\ PoigneeDe[g] = PoigneeDe[f] /\ v12[g] = "obtenue" => v12[f] \notin Requ!AvecVerrou
    BY RequetesSeul DEF Requ!AvecVerrou
  <2>3. Requ!Connu(h, i)
    BY <1>0, <1>6 DEF Requ!claim_interface, Requ!Obtient, Requ!TypeRequetes, Requ!Fil, Requ!Connu, Requ!Obtenue
  <2>4. PoigneeDe[f] = h /\ Requ!Rendu(f, i) => Requ!Rendu(f, i)'
    BY <1>0, <1>6, <2>2 DEF Requ!claim_interface, Requ!Obtient, Requ!TypeRequetes, Requ!Fil, Requ!AvecVerrou, Requ!EtapesDeClaim, Requ!Rendu, Requ!Connu, Requ!Obtenue
  <2>5. (v4[i] # h /\ i \notin v11[h]) \/ (PoigneeDe[f] = h /\ Requ!Rendu(f, i)')
    BY <1>0, <1>6, <2>1 DEF Requ!claim_interface, Requ!Obtient, Requ!TypeRequetes, Requ!Fil, Requ!AvecVerrou, Requ!EtapesDeClaim, Requ!Rendu, Requ!Tenu
  <2> QED BY <2>3, <2>4, <2>5
<1> QED BY <1>1, <1>2, <1>3, <1>4, <1>5, <1>6, RequetesInductif

(* The kernel sends the driver away and grants the claim in one step.      *)
LEMMA Pas_Ecarte ==
    ASSUME Requ!Hypotheses, Requ!Inductif, NEW f \in Threads, Requ!Ecarte(f)
    PROVE  Requ!Inductif'
<1> USE RequetesConstantes DEF Requ!VaA, Requ!Va, Requ!Verrouille, Requ!Deverrouille, Requ!Retient, Requ!retenues,
        Requ!Lie, Requ!Arrache, Requ!Inchange, Requ!materiel, Requ!poignees
<1>0. Requ!TypeRequetes /\ Requ!Fil(f) /\ PoigneeDe[f] \in Poignees
  BY DEF Requ!Inductif
<1>1. PasDe(f)
  <2>1. v12' = v12 \/ \E e \in Requ!Etapes : v12' = [v12 EXCEPT ![f] = e]
    BY <1>0 DEF Requ!Ecarte, Requ!Obtient, Requ!Etapes, Requ!AvecVerrou
  <2>2. v13' = v13 \/ \E k \in 0..NI : v13' = [v13 EXCEPT ![f] = k]
    BY <1>0 DEF Requ!Ecarte, Requ!Obtient, Requ!TypeRequetes, Requ!Fil
  <2>3. v11' \in [Poignees -> SUBSET Requ!I]
    BY <1>0 DEF Requ!Ecarte, Requ!Obtient, Requ!TypeRequetes, Requ!Fil
  <2> QED BY <1>0, <2>1, <2>2, <2>3 DEF Requ!Ecarte, Requ!Obtient, PasDe, Requ!TypeRequetes, Requ!Fil
<1>2. Requ!Fil(f)'
  <2>1. /\ v12[f] = "ecarte" /\ v12'[f] \in {"obtenue", "refuse", "quipilote"} /\ v8' = v8 /\ v7' = v7 /\ v10' = v10
        /\ v14' = v14 /\ v13'[f] = v13[f]
        /\ v12'[f] # "obtenue" => v4' = v4
        /\ \A i \in Requ!I : i # v13[f] => v4'[i] = v4[i]
    BY <1>0 DEF Requ!Ecarte, Requ!Obtient, Requ!TypeRequetes
  <2> QED BY <1>0, <2>1 DEF Requ!AvecVerrou, Requ!EtapesDeClaim, Requ!Fil
<1>3. ASSUME NEW g \in Threads, g # f PROVE Requ!Fil(g)'
  <2>1. Requ!Fil(g)
    BY DEF Requ!Inductif
  <2>2. /\ v12'[g] = v12[g] /\ v13'[g] = v13[g] /\ v14' = v14 /\ v7' = v7
        /\ v8' = v8 /\ v10' = v10
        /\ \A i \in Requ!I : v4'[i] = v4[i] \/ v4'[i] \in {PoigneeDe[f], Rien}
    BY <1>0, <1>3 DEF Requ!Ecarte, Requ!Obtient, Requ!TypeRequetes
  <2>3. v10[PoigneeDe[f]] = f /\ PoigneeDe[g] \in Poignees
    BY <1>0 DEF Requ!Ecarte, Requ!Fil, Requ!AvecVerrou
  <2> QED BY <1>0, <1>3, <2>1, <2>2, <2>3, RequetesAutre DEF Requ!TypeRequetes
<1>4. ASSUME NEW i \in Requ!I PROVE Requ!Tenu(i)'
  <2>1. Requ!Tenu(i) /\ (v13[f] \in Requ!I => Requ!Tenu(v13[f]))
    BY DEF Requ!Inductif
  <2> QED BY <1>0, <2>1 DEF Requ!Ecarte, Requ!Obtient, Requ!TypeRequetes, Requ!Tenu, Requ!Fil
<1>5. ASSUME NEW h \in Poignees, NEW i \in Requ!I PROVE Requ!Noyau(h, i)'
  <2>1. Requ!Noyau(h, i) /\ Requ!Tenu(i)
    BY DEF Requ!Inductif
  <2>2. /\ v12[f] = "ecarte" /\ v8' = v8 /\ v7' = v7 /\ v7[PoigneeDe[f]] /\ v13[f] \in Requ!I
        /\ \A g \in Threads : g # f => v12'[g] = v12[g] /\ v13'[g] = v13[g]
    BY <1>0 DEF Requ!Ecarte, Requ!Obtient, Requ!TypeRequetes, Requ!Fil
  <2>3. v4'[i] = v4[i] \/ (i = v13[f] /\ v4'[i] = PoigneeDe[f] /\ v12'[f] = "obtenue" /\ v13'[f] = v13[f])
    BY <1>0 DEF Requ!Ecarte, Requ!Obtient, Requ!TypeRequetes
  <2>4. Requ!Connu(h, i) => Requ!Connu(h, i)'
    BY <1>0, <2>2, RequetesConnu
  <2>5. CASE v4'[i] = v4[i]
    BY <2>1, <2>2, <2>4, <2>5 DEF Requ!Noyau
  <2>6. CASE i = v13[f] /\ v4'[i] = PoigneeDe[f] /\ v12'[f] = "obtenue" /\ v13'[f] = v13[f]
    BY <2>2, <2>6 DEF Requ!Noyau, Requ!Connu, Requ!Obtenue
  <2> QED BY <2>3, <2>5, <2>6
<1>6. ASSUME NEW h \in Poignees, NEW i \in Requ!I, v1, v7[h], Requ!Connu(h, i)', v4'[i] # h, i \notin v11'[h]
      PROVE  /\ Requ!Connu(h, i)
             /\ PoigneeDe[f] = h /\ Requ!Rendu(f, i) => Requ!Rendu(f, i)'
             /\ (v4[i] # h /\ i \notin v11[h]) \/ (PoigneeDe[f] = h /\ Requ!Rendu(f, i)')
  <2>1. Requ!Noyau(h, i) /\ Requ!Tenu(i)
    BY DEF Requ!Inductif
  <2>2. \A g \in Threads : g # f /\ PoigneeDe[g] = PoigneeDe[f] /\ v12[g] = "obtenue" => v12[f] \notin Requ!AvecVerrou
    BY RequetesSeul DEF Requ!AvecVerrou
  <2>3. Requ!Connu(h, i)
    <3>1. /\ v8' = v8
          /\ \A g \in Threads : v13'[g] = v13[g] /\ (g # f => v12'[g] = v12[g])
          /\ v12'[f] = "obtenue" => v4'[v13[f]] = PoigneeDe[f]
      BY <1>0 DEF Requ!Ecarte, Requ!Obtient, Requ!TypeRequetes, Requ!Fil
    <3> QED BY <1>6, <3>1 DEF Requ!Connu, Requ!Obtenue
  <2>4. PoigneeDe[f] = h /\ Requ!Rendu(f, i) => Requ!Rendu(f, i)'
    BY <1>0, <1>6, <2>2 DEF Requ!Ecarte, Requ!Obtient, Requ!TypeRequetes, Requ!Fil, Requ!AvecVerrou, Requ!EtapesDeClaim, Requ!Rendu, Requ!Connu, Requ!Obtenue
  <2>5. (v4[i] # h /\ i \notin v11[h]) \/ (PoigneeDe[f] = h /\ Requ!Rendu(f, i)')
    BY <1>0, <1>6, <2>1 DEF Requ!Ecarte, Requ!Obtient, Requ!TypeRequetes, Requ!Fil, Requ!AvecVerrou, Requ!EtapesDeClaim, Requ!Rendu, Requ!Tenu
  <2> QED BY <2>3, <2>4, <2>5
<1> QED BY <1>1, <1>2, <1>3, <1>4, <1>5, <1>6, RequetesInductif

(* Who has the interface: a step that changes nothing but the call.        *)
LEMMA Pas_QuiPilote ==
    ASSUME Requ!Hypotheses, Requ!Inductif, NEW f \in Threads, Requ!QuiPilote(f)
    PROVE  Requ!Inductif'
<1> USE RequetesConstantes DEF Requ!VaA, Requ!Va, Requ!Verrouille, Requ!Deverrouille, Requ!Retient, Requ!retenues,
        Requ!Lie, Requ!Arrache, Requ!Inchange, Requ!materiel, Requ!poignees
<1>0. Requ!TypeRequetes /\ Requ!Fil(f) /\ PoigneeDe[f] \in Poignees
  BY DEF Requ!Inductif
<1>1. PasDe(f)
  <2>1. v12' = v12 \/ \E e \in Requ!Etapes : v12' = [v12 EXCEPT ![f] = e]
    BY <1>0 DEF Requ!QuiPilote, Requ!Ensuite, Requ!ReclameEnsuite, Requ!Etapes, Requ!AvecVerrou
  <2>2. v13' = v13 \/ \E k \in 0..NI : v13' = [v13 EXCEPT ![f] = k]
    BY <1>0 DEF Requ!QuiPilote, Requ!Ensuite, Requ!ReclameEnsuite, Requ!TypeRequetes, Requ!Fil
  <2>3. v11' \in [Poignees -> SUBSET Requ!I]
    BY <1>0 DEF Requ!QuiPilote, Requ!Ensuite, Requ!ReclameEnsuite, Requ!TypeRequetes, Requ!Fil
  <2> QED BY <1>0, <2>1, <2>2, <2>3 DEF Requ!QuiPilote, Requ!Ensuite, Requ!ReclameEnsuite, PasDe, Requ!TypeRequetes, Requ!Fil
<1>2. Requ!Fil(f)'
  BY <1>0 DEF Requ!QuiPilote, Requ!Ensuite, Requ!ReclameEnsuite, Requ!TypeRequetes, Requ!AvecVerrou, Requ!EtapesDeClaim, Requ!Fil
<1>3. ASSUME NEW g \in Threads, g # f PROVE Requ!Fil(g)'
  <2>1. Requ!Fil(g)
    BY DEF Requ!Inductif
  <2> QED BY <1>0, <1>3, <2>1, RequetesAutre DEF Requ!QuiPilote, Requ!Ensuite, Requ!ReclameEnsuite, Requ!TypeRequetes, Requ!AvecVerrou, Requ!Fil
<1>4. ASSUME NEW i \in Requ!I PROVE Requ!Tenu(i)'
  <2>1. Requ!Tenu(i) /\ (v13[f] \in Requ!I => Requ!Tenu(v13[f]))
    BY DEF Requ!Inductif
  <2> QED BY <1>0, <2>1 DEF Requ!QuiPilote, Requ!Ensuite, Requ!ReclameEnsuite, Requ!TypeRequetes, Requ!Tenu, Requ!Fil
<1>5. ASSUME NEW h \in Poignees, NEW i \in Requ!I PROVE Requ!Noyau(h, i)'
  <2>1. Requ!Noyau(h, i) /\ Requ!Tenu(i)
    BY DEF Requ!Inductif
  <2> QED BY <1>0, <2>1 DEF Requ!QuiPilote, Requ!Ensuite, Requ!ReclameEnsuite, Requ!TypeRequetes, Requ!Fil, Requ!AvecVerrou, Requ!EtapesDeClaim, Requ!Noyau, Requ!Connu, Requ!Obtenue
<1>6. ASSUME NEW h \in Poignees, NEW i \in Requ!I, v1, v7[h], Requ!Connu(h, i)', v4'[i] # h, i \notin v11'[h]
      PROVE  /\ Requ!Connu(h, i)
             /\ PoigneeDe[f] = h /\ Requ!Rendu(f, i) => Requ!Rendu(f, i)'
             /\ (v4[i] # h /\ i \notin v11[h]) \/ (PoigneeDe[f] = h /\ Requ!Rendu(f, i)')
  <2>1. Requ!Noyau(h, i) /\ Requ!Tenu(i)
    BY DEF Requ!Inductif
  <2>2. \A g \in Threads : g # f /\ PoigneeDe[g] = PoigneeDe[f] /\ v12[g] = "obtenue" => v12[f] \notin Requ!AvecVerrou
    BY RequetesSeul DEF Requ!AvecVerrou
  <2>3. Requ!Connu(h, i)
    BY <1>0, <1>6 DEF Requ!QuiPilote, Requ!Ensuite, Requ!ReclameEnsuite, Requ!TypeRequetes, Requ!Fil, Requ!Connu, Requ!Obtenue
  <2>4. PoigneeDe[f] = h /\ Requ!Rendu(f, i) => Requ!Rendu(f, i)'
    BY <1>0, <1>6, <2>2 DEF Requ!QuiPilote, Requ!Ensuite, Requ!ReclameEnsuite, Requ!TypeRequetes, Requ!Fil, Requ!AvecVerrou, Requ!EtapesDeClaim, Requ!Rendu, Requ!Connu, Requ!Obtenue
  <2>5. (v4[i] # h /\ i \notin v11[h]) \/ (PoigneeDe[f] = h /\ Requ!Rendu(f, i)')
    BY <1>0, <1>6, <2>1 DEF Requ!QuiPilote, Requ!Ensuite, Requ!ReclameEnsuite, Requ!TypeRequetes, Requ!Fil, Requ!AvecVerrou, Requ!EtapesDeClaim, Requ!Rendu, Requ!Tenu
  <2> QED BY <2>3, <2>4, <2>5
<1> QED BY <1>1, <1>2, <1>3, <1>4, <1>5, <1>6, RequetesInductif

(* The driver is sent away, and so is the claim of another handle.         *)
LEMMA Pas_Chasse ==
    ASSUME Requ!Hypotheses, Requ!Inductif, NEW f \in Threads, Requ!Chasse(f)
    PROVE  Requ!Inductif'
<1> USE RequetesConstantes DEF Requ!VaA, Requ!Va, Requ!Verrouille, Requ!Deverrouille, Requ!Retient, Requ!retenues,
        Requ!Lie, Requ!Arrache, Requ!Inchange, Requ!materiel, Requ!poignees
<1>0. Requ!TypeRequetes /\ Requ!Fil(f) /\ PoigneeDe[f] \in Poignees
  BY DEF Requ!Inductif
<1>1. PasDe(f)
  <2>1. v12' = v12 \/ \E e \in Requ!Etapes : v12' = [v12 EXCEPT ![f] = e]
    BY <1>0 DEF Requ!Chasse, Requ!Ensuite, Requ!ReclameEnsuite, Requ!Etapes, Requ!AvecVerrou
  <2>2. v13' = v13 \/ \E k \in 0..NI : v13' = [v13 EXCEPT ![f] = k]
    BY <1>0 DEF Requ!Chasse, Requ!Ensuite, Requ!ReclameEnsuite, Requ!TypeRequetes, Requ!Fil
  <2>3. v11' \in [Poignees -> SUBSET Requ!I]
    <3>1. v13[f] \in Requ!I
      BY <1>0 DEF Requ!Chasse, Requ!Fil
    <3>2. \A g \in Poignees : v11[g] \cup {i \in {v13[f]} : v4[i] = g} \in SUBSET Requ!I
      BY <1>0, <3>1 DEF Requ!TypeRequetes
    <3>3. v11' = v11 \/ v11' = [g \in Poignees |-> IF g = Rien THEN v11[g] ELSE v11[g] \cup {i \in {v13[f]} : v4[i] = g}]
      BY DEF Requ!Chasse
    <3>4. CASE v11' = [g \in Poignees |-> IF g = Rien THEN v11[g] ELSE v11[g] \cup {i \in {v13[f]} : v4[i] = g}]
      BY <3>2, <3>4
    <3> QED BY <1>0, <3>3, <3>4 DEF Requ!TypeRequetes
  <2> QED BY ZenonT(60), <1>0, <2>1, <2>2, <2>3 DEF Requ!Chasse, Requ!Ensuite, Requ!ReclameEnsuite, PasDe, Requ!TypeRequetes, Requ!Fil
<1>2. Requ!Fil(f)'
  BY <1>0 DEF Requ!Chasse, Requ!Ensuite, Requ!ReclameEnsuite, Requ!TypeRequetes, Requ!AvecVerrou, Requ!EtapesDeClaim, Requ!Fil
<1>3. ASSUME NEW g \in Threads, g # f PROVE Requ!Fil(g)'
  <2>1. Requ!Fil(g)
    BY DEF Requ!Inductif
  <2> QED BY <1>0, <1>3, <2>1, RequetesAutre DEF Requ!Chasse, Requ!Ensuite, Requ!ReclameEnsuite, Requ!TypeRequetes, Requ!AvecVerrou, Requ!Fil
<1>4. ASSUME NEW i \in Requ!I PROVE Requ!Tenu(i)'
  <2>1. Requ!Tenu(i) /\ (v13[f] \in Requ!I => Requ!Tenu(v13[f]))
    BY DEF Requ!Inductif
  <2> QED BY <1>0, <2>1 DEF Requ!Chasse, Requ!Ensuite, Requ!ReclameEnsuite, Requ!TypeRequetes, Requ!Tenu, Requ!Fil
<1>5. ASSUME NEW h \in Poignees, NEW i \in Requ!I PROVE Requ!Noyau(h, i)'
  <2>1. Requ!Noyau(h, i) /\ Requ!Tenu(i)
    BY DEF Requ!Inductif
  <2> QED BY <1>0, <2>1 DEF Requ!Chasse, Requ!Ensuite, Requ!ReclameEnsuite, Requ!TypeRequetes, Requ!Fil, Requ!AvecVerrou, Requ!EtapesDeClaim, Requ!Noyau, Requ!Connu, Requ!Obtenue
<1>6. ASSUME NEW h \in Poignees, NEW i \in Requ!I, v1, v7[h], Requ!Connu(h, i)', v4'[i] # h, i \notin v11'[h]
      PROVE  /\ Requ!Connu(h, i)
             /\ PoigneeDe[f] = h /\ Requ!Rendu(f, i) => Requ!Rendu(f, i)'
             /\ (v4[i] # h /\ i \notin v11[h]) \/ (PoigneeDe[f] = h /\ Requ!Rendu(f, i)')
  <2>1. Requ!Noyau(h, i) /\ Requ!Tenu(i)
    BY DEF Requ!Inductif
  <2>2. \A g \in Threads : g # f /\ PoigneeDe[g] = PoigneeDe[f] /\ v12[g] = "obtenue" => v12[f] \notin Requ!AvecVerrou
    BY RequetesSeul DEF Requ!AvecVerrou
  <2>3. Requ!Connu(h, i)
    BY <1>0, <1>6 DEF Requ!Chasse, Requ!Ensuite, Requ!ReclameEnsuite, Requ!TypeRequetes, Requ!Fil, Requ!Connu, Requ!Obtenue
  <2>4. PoigneeDe[f] = h /\ Requ!Rendu(f, i) => Requ!Rendu(f, i)'
    BY <1>0, <1>6, <2>2 DEF Requ!Chasse, Requ!Ensuite, Requ!ReclameEnsuite, Requ!TypeRequetes, Requ!Fil, Requ!AvecVerrou, Requ!EtapesDeClaim, Requ!Rendu, Requ!Connu, Requ!Obtenue
  <2>5. (v4[i] # h /\ i \notin v11[h]) \/ (PoigneeDe[f] = h /\ Requ!Rendu(f, i)')
    BY <1>0, <1>6, <2>1 DEF Requ!Chasse, Requ!Ensuite, Requ!ReclameEnsuite, Requ!TypeRequetes, Requ!Fil, Requ!AvecVerrou, Requ!EtapesDeClaim, Requ!Rendu, Requ!Tenu
  <2> QED BY <2>3, <2>4, <2>5
<1> QED BY <1>1, <1>2, <1>3, <1>4, <1>5, <1>6, RequetesInductif

(* A call releases an interface that its handle has, under the lock.       *)
LEMMA Pas_Relache ==
    ASSUME Requ!Hypotheses, Requ!Inductif, NEW f \in Threads, Requ!Relache(f)
    PROVE  Requ!Inductif'
<1> USE RequetesConstantes DEF Requ!VaA, Requ!Va, Requ!Verrouille, Requ!Deverrouille, Requ!Retient, Requ!retenues,
        Requ!Lie, Requ!Arrache, Requ!Inchange, Requ!materiel, Requ!poignees
<1>0. Requ!TypeRequetes /\ Requ!Fil(f) /\ PoigneeDe[f] \in Poignees
  BY DEF Requ!Inductif
<1>1. PasDe(f)
  <2>1. v12' = v12 \/ \E e \in Requ!Etapes : v12' = [v12 EXCEPT ![f] = e]
    BY <1>0 DEF Requ!Relache, Requ!Etapes, Requ!AvecVerrou
  <2>2. v13' = v13 \/ \E k \in 0..NI : v13' = [v13 EXCEPT ![f] = k]
    BY <1>0 DEF Requ!Relache, Requ!TypeRequetes, Requ!Fil
  <2>3. v11' \in [Poignees -> SUBSET Requ!I]
    BY <1>0 DEF Requ!Relache, Requ!TypeRequetes, Requ!Fil
  <2> QED BY <1>0, <2>1, <2>2, <2>3 DEF Requ!Relache, PasDe, Requ!TypeRequetes, Requ!Fil
<1>2. Requ!Fil(f)'
  BY <1>0 DEF Requ!Relache, Requ!TypeRequetes, Requ!AvecVerrou, Requ!EtapesDeClaim, Requ!Fil
<1>3. ASSUME NEW g \in Threads, g # f PROVE Requ!Fil(g)'
  <2>1. Requ!Fil(g)
    BY DEF Requ!Inductif
  <2> QED BY <1>0, <1>3, <2>1, RequetesAutre DEF Requ!Relache, Requ!TypeRequetes, Requ!AvecVerrou, Requ!Fil
<1>4. ASSUME NEW i \in Requ!I PROVE Requ!Tenu(i)'
  <2>1. Requ!Tenu(i) /\ (v13[f] \in Requ!I => Requ!Tenu(v13[f]))
    BY DEF Requ!Inductif
  <2> QED BY <1>0, <2>1 DEF Requ!Relache, Requ!TypeRequetes, Requ!Tenu, Requ!Fil
<1>5. ASSUME NEW h \in Poignees, NEW i \in Requ!I PROVE Requ!Noyau(h, i)'
  <2>1. Requ!Noyau(h, i) /\ Requ!Tenu(i)
    BY DEF Requ!Inductif
  <2> QED BY <1>0, <2>1 DEF Requ!Relache, Requ!TypeRequetes, Requ!Fil, Requ!AvecVerrou, Requ!EtapesDeClaim, Requ!Noyau, Requ!Connu, Requ!Obtenue
<1>6. ASSUME NEW h \in Poignees, NEW i \in Requ!I, v1, v7[h], Requ!Connu(h, i)', v4'[i] # h, i \notin v11'[h]
      PROVE  /\ Requ!Connu(h, i)
             /\ PoigneeDe[f] = h /\ Requ!Rendu(f, i) => Requ!Rendu(f, i)'
             /\ (v4[i] # h /\ i \notin v11[h]) \/ (PoigneeDe[f] = h /\ Requ!Rendu(f, i)')
  <2>1. Requ!Noyau(h, i) /\ Requ!Tenu(i)
    BY DEF Requ!Inductif
  <2>2. \A g \in Threads : g # f /\ PoigneeDe[g] = PoigneeDe[f] /\ v12[g] = "obtenue" => v12[f] \notin Requ!AvecVerrou
    BY RequetesSeul DEF Requ!AvecVerrou
  <2>3. Requ!Connu(h, i)
    BY <1>0, <1>6 DEF Requ!Relache, Requ!TypeRequetes, Requ!Fil, Requ!Connu, Requ!Obtenue
  <2>4. PoigneeDe[f] = h /\ Requ!Rendu(f, i) => Requ!Rendu(f, i)'
    BY <1>0, <1>6, <2>2 DEF Requ!Relache, Requ!TypeRequetes, Requ!Fil, Requ!AvecVerrou, Requ!EtapesDeClaim, Requ!Rendu, Requ!Connu, Requ!Obtenue
  <2>5. (v4[i] # h /\ i \notin v11[h]) \/ (PoigneeDe[f] = h /\ Requ!Rendu(f, i)')
    BY <1>0, <1>6, <2>1 DEF Requ!Relache, Requ!TypeRequetes, Requ!Fil, Requ!AvecVerrou, Requ!EtapesDeClaim, Requ!Rendu, Requ!Tenu
  <2> QED BY <2>3, <2>4, <2>5
<1> QED BY <1>1, <1>2, <1>3, <1>4, <1>5, <1>6, RequetesInductif

(* The kernel takes the claim back; libusb notes it later.                 *)
LEMMA Pas_release_interface ==
    ASSUME Requ!Hypotheses, Requ!Inductif, NEW f \in Threads, Requ!release_interface(f)
    PROVE  Requ!Inductif'
<1> USE RequetesConstantes DEF Requ!VaA, Requ!Va, Requ!Verrouille, Requ!Deverrouille, Requ!Retient, Requ!retenues,
        Requ!Lie, Requ!Arrache, Requ!Inchange, Requ!materiel, Requ!poignees
<1>0. Requ!TypeRequetes /\ Requ!Fil(f) /\ PoigneeDe[f] \in Poignees
  BY DEF Requ!Inductif
<1>1. PasDe(f)
  <2>1. v12' = v12 \/ \E e \in Requ!Etapes : v12' = [v12 EXCEPT ![f] = e]
    BY <1>0 DEF Requ!release_interface, Requ!Rendue, Requ!Etapes, Requ!AvecVerrou
  <2>2. v13' = v13 \/ \E k \in 0..NI : v13' = [v13 EXCEPT ![f] = k]
    BY <1>0 DEF Requ!release_interface, Requ!Rendue, Requ!TypeRequetes, Requ!Fil
  <2>3. v11' \in [Poignees -> SUBSET Requ!I]
    BY <1>0 DEF Requ!release_interface, Requ!Rendue, Requ!TypeRequetes, Requ!Fil
  <2> QED BY ZenonT(60), <1>0, <2>1, <2>2, <2>3 DEF Requ!release_interface, Requ!Rendue, PasDe, Requ!TypeRequetes, Requ!Fil
<1>2. Requ!Fil(f)'
  BY <1>0 DEF Requ!release_interface, Requ!Rendue, Requ!TypeRequetes, Requ!AvecVerrou, Requ!EtapesDeClaim, Requ!Fil
<1>3. ASSUME NEW g \in Threads, g # f PROVE Requ!Fil(g)'
  <2>1. Requ!Fil(g)
    BY DEF Requ!Inductif
  <2>2. /\ v12'[g] = v12[g] /\ v13'[g] = v13[g] /\ v14' = v14 /\ v7' = v7
        /\ v8' = v8 /\ (v10' = v10 \/ v10' = [v10 EXCEPT ![PoigneeDe[f]] = Rien])
        /\ \A i \in Requ!I : v4'[i] = v4[i] \/ v4'[i] \in {PoigneeDe[f], Rien}
    BY <1>0, <1>3 DEF Requ!release_interface, Requ!Rendue, Requ!TypeRequetes
  <2>3. v10[PoigneeDe[f]] = f /\ PoigneeDe[g] \in Poignees
    BY <1>0 DEF Requ!release_interface, Requ!Fil, Requ!AvecVerrou
  <2> QED BY <1>0, <1>3, <2>1, <2>2, <2>3, RequetesAutre DEF Requ!TypeRequetes
<1>4. ASSUME NEW i \in Requ!I PROVE Requ!Tenu(i)'
  <2>1. Requ!Tenu(i) /\ (v13[f] \in Requ!I => Requ!Tenu(v13[f]))
    BY DEF Requ!Inductif
  <2> QED BY <1>0, <2>1 DEF Requ!release_interface, Requ!Rendue, Requ!TypeRequetes, Requ!Tenu, Requ!Fil
<1>5. ASSUME NEW h \in Poignees, NEW i \in Requ!I PROVE Requ!Noyau(h, i)'
  <2>1. Requ!Noyau(h, i) /\ Requ!Tenu(i)
    BY DEF Requ!Inductif
  <2>2. /\ v12[f] = "release" /\ v8' = v8 /\ v7' = v7
        /\ \A g \in Threads : g # f => v12'[g] = v12[g] /\ v13'[g] = v13[g]
        /\ v4'[i] = h => v4[i] = h
    BY <1>0 DEF Requ!release_interface, Requ!Rendue, Requ!TypeRequetes, Requ!Fil
  <2> QED BY <2>1, <2>2 DEF Requ!Noyau, Requ!Connu, Requ!Obtenue
<1>6. ASSUME NEW h \in Poignees, NEW i \in Requ!I, v1, v7[h], Requ!Connu(h, i)', v4'[i] # h, i \notin v11'[h]
      PROVE  /\ Requ!Connu(h, i)
             /\ PoigneeDe[f] = h /\ Requ!Rendu(f, i) => Requ!Rendu(f, i)'
             /\ (v4[i] # h /\ i \notin v11[h]) \/ (PoigneeDe[f] = h /\ Requ!Rendu(f, i)')
  <2>1. Requ!Noyau(h, i) /\ Requ!Tenu(i)
    BY DEF Requ!Inductif
  <2>2. \A g \in Threads : g # f /\ PoigneeDe[g] = PoigneeDe[f] /\ v12[g] = "obtenue" => v12[f] \notin Requ!AvecVerrou
    BY RequetesSeul DEF Requ!AvecVerrou
  <2>3. Requ!Connu(h, i)
    <3>1. v8' = v8 /\ v12'[f] # "obtenue" /\ \A g \in Threads : g # f => v12'[g] = v12[g] /\ v13'[g] = v13[g]
      BY <1>0 DEF Requ!release_interface, Requ!Rendue, Requ!TypeRequetes, Requ!Fil
    <3> QED BY <1>0, <1>6, <3>1, RequetesConnu
  <2>4. PoigneeDe[f] = h /\ Requ!Rendu(f, i) => Requ!Rendu(f, i)'
    BY <1>0, <1>6, <2>2 DEF Requ!release_interface, Requ!Rendue, Requ!TypeRequetes, Requ!Fil, Requ!AvecVerrou, Requ!EtapesDeClaim, Requ!Rendu, Requ!Connu, Requ!Obtenue
  <2>5. (v4[i] # h /\ i \notin v11[h]) \/ (PoigneeDe[f] = h /\ Requ!Rendu(f, i)')
    BY <1>0, <1>6, <2>1 DEF Requ!release_interface, Requ!Rendue, Requ!TypeRequetes, Requ!Fil, Requ!AvecVerrou, Requ!EtapesDeClaim, Requ!Rendu, Requ!Tenu
  <2> QED BY <2>3, <2>4, <2>5
<1> QED BY <1>1, <1>2, <1>3, <1>4, <1>5, <1>6, RequetesInductif

(* The driver of the system is bound again.                                *)
LEMMA Pas_op_attach_kernel_driver ==
    ASSUME Requ!Hypotheses, Requ!Inductif, NEW f \in Threads, Requ!op_attach_kernel_driver(f)
    PROVE  Requ!Inductif'
<1> USE RequetesConstantes DEF Requ!VaA, Requ!Va, Requ!Verrouille, Requ!Deverrouille, Requ!Retient, Requ!retenues,
        Requ!Lie, Requ!Arrache, Requ!Inchange, Requ!materiel, Requ!poignees
<1>0. Requ!TypeRequetes /\ Requ!Fil(f) /\ PoigneeDe[f] \in Poignees
  BY DEF Requ!Inductif
<1>1. PasDe(f)
  <2>1. v12' = v12 \/ \E e \in Requ!Etapes : v12' = [v12 EXCEPT ![f] = e]
    BY <1>0 DEF Requ!op_attach_kernel_driver, Requ!Etapes, Requ!AvecVerrou
  <2>2. v13' = v13 \/ \E k \in 0..NI : v13' = [v13 EXCEPT ![f] = k]
    BY <1>0 DEF Requ!op_attach_kernel_driver, Requ!TypeRequetes, Requ!Fil
  <2>3. v11' \in [Poignees -> SUBSET Requ!I]
    BY <1>0 DEF Requ!op_attach_kernel_driver, Requ!TypeRequetes, Requ!Fil
  <2> QED BY ZenonT(60), <1>0, <2>1, <2>2, <2>3 DEF Requ!op_attach_kernel_driver, PasDe, Requ!TypeRequetes, Requ!Fil
<1>2. Requ!Fil(f)'
  BY <1>0 DEF Requ!op_attach_kernel_driver, Requ!TypeRequetes, Requ!AvecVerrou, Requ!EtapesDeClaim, Requ!Fil
<1>3. ASSUME NEW g \in Threads, g # f PROVE Requ!Fil(g)'
  <2>1. Requ!Fil(g)
    BY DEF Requ!Inductif
  <2> QED BY SMTT(20), <1>0, <1>3, <2>1, RequetesAutre DEF Requ!op_attach_kernel_driver, Requ!TypeRequetes, Requ!AvecVerrou, Requ!Fil
<1>4. ASSUME NEW i \in Requ!I PROVE Requ!Tenu(i)'
  <2>1. Requ!Tenu(i) /\ (v13[f] \in Requ!I => Requ!Tenu(v13[f]))
    BY DEF Requ!Inductif
  <2> QED BY <1>0, <2>1 DEF Requ!op_attach_kernel_driver, Requ!TypeRequetes, Requ!Tenu, Requ!Fil
<1>5. ASSUME NEW h \in Poignees, NEW i \in Requ!I PROVE Requ!Noyau(h, i)'
  <2>1. Requ!Noyau(h, i) /\ Requ!Tenu(i)
    BY DEF Requ!Inductif
  <2> QED BY <1>0, <2>1 DEF Requ!op_attach_kernel_driver, Requ!TypeRequetes, Requ!Fil, Requ!AvecVerrou, Requ!EtapesDeClaim, Requ!Noyau, Requ!Connu, Requ!Obtenue
<1>6. ASSUME NEW h \in Poignees, NEW i \in Requ!I, v1, v7[h], Requ!Connu(h, i)', v4'[i] # h, i \notin v11'[h]
      PROVE  /\ Requ!Connu(h, i)
             /\ PoigneeDe[f] = h /\ Requ!Rendu(f, i) => Requ!Rendu(f, i)'
             /\ (v4[i] # h /\ i \notin v11[h]) \/ (PoigneeDe[f] = h /\ Requ!Rendu(f, i)')
  <2>1. Requ!Noyau(h, i) /\ Requ!Tenu(i)
    BY DEF Requ!Inductif
  <2>2. \A g \in Threads : g # f /\ PoigneeDe[g] = PoigneeDe[f] /\ v12[g] = "obtenue" => v12[f] \notin Requ!AvecVerrou
    BY RequetesSeul DEF Requ!AvecVerrou
  <2>3. Requ!Connu(h, i)
    BY <1>0, <1>6 DEF Requ!op_attach_kernel_driver, Requ!TypeRequetes, Requ!Fil, Requ!Connu, Requ!Obtenue
  <2>4. PoigneeDe[f] = h /\ Requ!Rendu(f, i) => Requ!Rendu(f, i)'
    BY <1>0, <1>6, <2>2 DEF Requ!op_attach_kernel_driver, Requ!TypeRequetes, Requ!Fil, Requ!AvecVerrou, Requ!EtapesDeClaim, Requ!Rendu, Requ!Connu, Requ!Obtenue
  <2>5. (v4[i] # h /\ i \notin v11[h]) \/ (PoigneeDe[f] = h /\ Requ!Rendu(f, i)')
    BY <1>0, <1>6, <2>1 DEF Requ!op_attach_kernel_driver, Requ!TypeRequetes, Requ!Fil, Requ!AvecVerrou, Requ!EtapesDeClaim, Requ!Rendu, Requ!Tenu
  <2> QED BY <2>3, <2>4, <2>5
<1> QED BY <1>1, <1>2, <1>3, <1>4, <1>5, <1>6, RequetesInductif

(* libusb forgets the claim that is over.                                  *)
LEMMA Pas_FinRelache ==
    ASSUME Requ!Hypotheses, Requ!Inductif, NEW f \in Threads, Requ!FinRelache(f)
    PROVE  Requ!Inductif'
<1> USE RequetesConstantes DEF Requ!VaA, Requ!Va, Requ!Verrouille, Requ!Deverrouille, Requ!Retient, Requ!retenues,
        Requ!Lie, Requ!Arrache, Requ!Inchange, Requ!materiel, Requ!poignees
<1>0. Requ!TypeRequetes /\ Requ!Fil(f) /\ PoigneeDe[f] \in Poignees
  BY DEF Requ!Inductif
<1>1. PasDe(f)
  <2>1. v12' = v12 \/ \E e \in Requ!Etapes : v12' = [v12 EXCEPT ![f] = e]
    BY <1>0 DEF Requ!FinRelache, Requ!Etapes, Requ!AvecVerrou
  <2>2. v13' = v13 \/ \E k \in 0..NI : v13' = [v13 EXCEPT ![f] = k]
    BY <1>0 DEF Requ!FinRelache, Requ!TypeRequetes, Requ!Fil
  <2>3. v11' \in [Poignees -> SUBSET Requ!I]
    BY <1>0 DEF Requ!FinRelache, Requ!TypeRequetes, Requ!Fil
  <2> QED BY <1>0, <2>1, <2>2, <2>3 DEF Requ!FinRelache, PasDe, Requ!TypeRequetes, Requ!Fil
<1>2. Requ!Fil(f)'
  BY <1>0 DEF Requ!FinRelache, Requ!TypeRequetes, Requ!AvecVerrou, Requ!EtapesDeClaim, Requ!Fil
<1>3. ASSUME NEW g \in Threads, g # f PROVE Requ!Fil(g)'
  <2>1. Requ!Fil(g)
    BY DEF Requ!Inductif
  <2> QED BY <1>0, <1>3, <2>1, RequetesAutre DEF Requ!FinRelache, Requ!TypeRequetes, Requ!AvecVerrou, Requ!Fil
<1>4. ASSUME NEW i \in Requ!I PROVE Requ!Tenu(i)'
  <2>1. Requ!Tenu(i) /\ (v13[f] \in Requ!I => Requ!Tenu(v13[f]))
    BY DEF Requ!Inductif
  <2> QED BY <1>0, <2>1 DEF Requ!FinRelache, Requ!TypeRequetes, Requ!Tenu, Requ!Fil
<1>5. ASSUME NEW h \in Poignees, NEW i \in Requ!I PROVE Requ!Noyau(h, i)'
  <2>1. Requ!Noyau(h, i) /\ Requ!Tenu(i)
    BY DEF Requ!Inductif
  <2> QED BY <1>0, <2>1 DEF Requ!FinRelache, Requ!TypeRequetes, Requ!Fil, Requ!AvecVerrou, Requ!EtapesDeClaim, Requ!Noyau, Requ!Connu, Requ!Obtenue
<1>6. ASSUME NEW h \in Poignees, NEW i \in Requ!I, v1, v7[h], Requ!Connu(h, i)', v4'[i] # h, i \notin v11'[h]
      PROVE  /\ Requ!Connu(h, i)
             /\ PoigneeDe[f] = h /\ Requ!Rendu(f, i) => Requ!Rendu(f, i)'
             /\ (v4[i] # h /\ i \notin v11[h]) \/ (PoigneeDe[f] = h /\ Requ!Rendu(f, i)')
  <2>1. Requ!Noyau(h, i) /\ Requ!Tenu(i)
    BY DEF Requ!Inductif
  <2>2. \A g \in Threads : g # f /\ PoigneeDe[g] = PoigneeDe[f] /\ v12[g] = "obtenue" => v12[f] \notin Requ!AvecVerrou
    BY RequetesSeul DEF Requ!AvecVerrou
  <2>3. Requ!Connu(h, i)
    BY <1>0, <1>6 DEF Requ!FinRelache, Requ!TypeRequetes, Requ!Fil, Requ!Connu, Requ!Obtenue
  <2>4. PoigneeDe[f] = h /\ Requ!Rendu(f, i) => Requ!Rendu(f, i)'
    BY <1>0, <1>6, <2>2 DEF Requ!FinRelache, Requ!TypeRequetes, Requ!Fil, Requ!AvecVerrou, Requ!EtapesDeClaim, Requ!Rendu, Requ!Connu, Requ!Obtenue
  <2>5. (v4[i] # h /\ i \notin v11[h]) \/ (PoigneeDe[f] = h /\ Requ!Rendu(f, i)')
    BY <1>0, <1>6, <2>1 DEF Requ!FinRelache, Requ!TypeRequetes, Requ!Fil, Requ!AvecVerrou, Requ!EtapesDeClaim, Requ!Rendu, Requ!Tenu
  <2> QED BY <2>3, <2>4, <2>5
<1> QED BY <1>1, <1>2, <1>3, <1>4, <1>5, <1>6, RequetesInductif

(* A reset starts, and gives back what its handle has claimed, one by one. *)
LEMMA Pas_Rend ==
    ASSUME Requ!Hypotheses, Requ!Inductif, NEW f \in Threads, Requ!Rend(f)
    PROVE  Requ!Inductif'
<1> USE RequetesConstantes DEF Requ!VaA, Requ!Va, Requ!Verrouille, Requ!Deverrouille, Requ!Retient, Requ!retenues,
        Requ!Lie, Requ!Arrache, Requ!Inchange, Requ!materiel, Requ!poignees
<1>0. Requ!TypeRequetes /\ Requ!Fil(f) /\ PoigneeDe[f] \in Poignees
  BY DEF Requ!Inductif
<1>1. PasDe(f)
  <2>1. v12' = v12 \/ \E e \in Requ!Etapes : v12' = [v12 EXCEPT ![f] = e]
    BY <1>0 DEF Requ!Rend, Requ!Rendue, Requ!Etapes, Requ!AvecVerrou
  <2>2. v13' = v13 \/ \E k \in 0..NI : v13' = [v13 EXCEPT ![f] = k]
    <3>1. v13[f] + 1 \in 0..NI /\ v13' = [v13 EXCEPT ![f] = v13[f] + 1]
      BY <1>0 DEF Requ!Rend, Requ!TypeRequetes
    <3> QED BY <3>1
  <2>3. v11' \in [Poignees -> SUBSET Requ!I]
    BY <1>0 DEF Requ!Rend, Requ!Rendue, Requ!TypeRequetes, Requ!Fil
  <2> QED BY ZenonT(60), <1>0, <2>1, <2>2, <2>3 DEF Requ!Rend, Requ!Rendue, PasDe, Requ!TypeRequetes, Requ!Fil
<1>2. Requ!Fil(f)'
  BY <1>0 DEF Requ!Rend, Requ!Rendue, Requ!TypeRequetes, Requ!AvecVerrou, Requ!EtapesDeClaim, Requ!Fil
<1>3. ASSUME NEW g \in Threads, g # f PROVE Requ!Fil(g)'
  <2>1. Requ!Fil(g)
    BY DEF Requ!Inductif
  <2> QED BY SMTT(20), <1>0, <1>3, <2>1, RequetesAutre DEF Requ!Rend, Requ!Rendue, Requ!TypeRequetes, Requ!AvecVerrou, Requ!Fil
<1>4. ASSUME NEW i \in Requ!I PROVE Requ!Tenu(i)'
  <2>1. Requ!Tenu(i) /\ (v13[f] \in Requ!I => Requ!Tenu(v13[f]))
    BY DEF Requ!Inductif
  <2> QED BY <1>0, <2>1 DEF Requ!Rend, Requ!Rendue, Requ!TypeRequetes, Requ!Tenu, Requ!Fil
<1>5. ASSUME NEW h \in Poignees, NEW i \in Requ!I PROVE Requ!Noyau(h, i)'
  <2>1. Requ!Noyau(h, i) /\ Requ!Tenu(i)
    BY DEF Requ!Inductif
  <2> QED BY <1>0, <2>1 DEF Requ!Rend, Requ!Rendue, Requ!TypeRequetes, Requ!Fil, Requ!AvecVerrou, Requ!EtapesDeClaim, Requ!Noyau, Requ!Connu, Requ!Obtenue
<1>6. ASSUME NEW h \in Poignees, NEW i \in Requ!I, v1, v7[h], Requ!Connu(h, i)', v4'[i] # h, i \notin v11'[h]
      PROVE  /\ Requ!Connu(h, i)
             /\ PoigneeDe[f] = h /\ Requ!Rendu(f, i) => Requ!Rendu(f, i)'
             /\ (v4[i] # h /\ i \notin v11[h]) \/ (PoigneeDe[f] = h /\ Requ!Rendu(f, i)')
  <2>1. Requ!Noyau(h, i) /\ Requ!Tenu(i)
    BY DEF Requ!Inductif
  <2>2. \A g \in Threads : g # f /\ PoigneeDe[g] = PoigneeDe[f] /\ v12[g] = "obtenue" => v12[f] \notin Requ!AvecVerrou
    BY RequetesSeul DEF Requ!AvecVerrou
  <2>3. Requ!Connu(h, i)
    BY <1>0, <1>6 DEF Requ!Rend, Requ!Rendue, Requ!TypeRequetes, Requ!Fil, Requ!Connu, Requ!Obtenue
  <2>4. PoigneeDe[f] = h /\ Requ!Rendu(f, i) => Requ!Rendu(f, i)'
    BY <1>0, <1>6, <2>2 DEF Requ!Rend, Requ!Rendue, Requ!TypeRequetes, Requ!Fil, Requ!AvecVerrou, Requ!EtapesDeClaim, Requ!Rendu, Requ!Connu, Requ!Obtenue
  <2>5. (v4[i] # h /\ i \notin v11[h]) \/ (PoigneeDe[f] = h /\ Requ!Rendu(f, i)')
    BY <1>0, <1>6, <2>1 DEF Requ!Rend, Requ!Rendue, Requ!TypeRequetes, Requ!Fil, Requ!AvecVerrou, Requ!EtapesDeClaim, Requ!Rendu, Requ!Tenu
  <2> QED BY <2>3, <2>4, <2>5
<1> QED BY <1>1, <1>2, <1>3, <1>4, <1>5, <1>6, RequetesInductif

(* All is given back.                                                      *)
LEMMA Pas_RendFini ==
    ASSUME Requ!Hypotheses, Requ!Inductif, NEW f \in Threads, Requ!RendFini(f)
    PROVE  Requ!Inductif'
<1> USE RequetesConstantes DEF Requ!VaA, Requ!Va, Requ!Verrouille, Requ!Deverrouille, Requ!Retient, Requ!retenues,
        Requ!Lie, Requ!Arrache, Requ!Inchange, Requ!materiel, Requ!poignees
<1>0. Requ!TypeRequetes /\ Requ!Fil(f) /\ PoigneeDe[f] \in Poignees
  BY DEF Requ!Inductif
<1>1. PasDe(f)
  <2>1. v12' = v12 \/ \E e \in Requ!Etapes : v12' = [v12 EXCEPT ![f] = e]
    BY <1>0 DEF Requ!RendFini, Requ!Etapes, Requ!AvecVerrou
  <2>2. v13' = v13 \/ \E k \in 0..NI : v13' = [v13 EXCEPT ![f] = k]
    BY <1>0 DEF Requ!RendFini, Requ!TypeRequetes, Requ!Fil
  <2>3. v11' \in [Poignees -> SUBSET Requ!I]
    BY <1>0 DEF Requ!RendFini, Requ!TypeRequetes, Requ!Fil
  <2> QED BY <1>0, <2>1, <2>2, <2>3 DEF Requ!RendFini, PasDe, Requ!TypeRequetes, Requ!Fil
<1>2. Requ!Fil(f)'
  BY <1>0 DEF Requ!RendFini, Requ!TypeRequetes, Requ!AvecVerrou, Requ!EtapesDeClaim, Requ!Fil
<1>3. ASSUME NEW g \in Threads, g # f PROVE Requ!Fil(g)'
  <2>1. Requ!Fil(g)
    BY DEF Requ!Inductif
  <2> QED BY <1>0, <1>3, <2>1, RequetesAutre DEF Requ!RendFini, Requ!TypeRequetes, Requ!AvecVerrou, Requ!Fil
<1>4. ASSUME NEW i \in Requ!I PROVE Requ!Tenu(i)'
  <2>1. Requ!Tenu(i) /\ (v13[f] \in Requ!I => Requ!Tenu(v13[f]))
    BY DEF Requ!Inductif
  <2> QED BY <1>0, <2>1 DEF Requ!RendFini, Requ!TypeRequetes, Requ!Tenu, Requ!Fil
<1>5. ASSUME NEW h \in Poignees, NEW i \in Requ!I PROVE Requ!Noyau(h, i)'
  <2>1. Requ!Noyau(h, i) /\ Requ!Tenu(i)
    BY DEF Requ!Inductif
  <2> QED BY <1>0, <2>1 DEF Requ!RendFini, Requ!TypeRequetes, Requ!Fil, Requ!AvecVerrou, Requ!EtapesDeClaim, Requ!Noyau, Requ!Connu, Requ!Obtenue
<1>6. ASSUME NEW h \in Poignees, NEW i \in Requ!I, v1, v7[h], Requ!Connu(h, i)', v4'[i] # h, i \notin v11'[h]
      PROVE  /\ Requ!Connu(h, i)
             /\ PoigneeDe[f] = h /\ Requ!Rendu(f, i) => Requ!Rendu(f, i)'
             /\ (v4[i] # h /\ i \notin v11[h]) \/ (PoigneeDe[f] = h /\ Requ!Rendu(f, i)')
  <2>1. Requ!Noyau(h, i) /\ Requ!Tenu(i)
    BY DEF Requ!Inductif
  <2>2. \A g \in Threads : g # f /\ PoigneeDe[g] = PoigneeDe[f] /\ v12[g] = "obtenue" => v12[f] \notin Requ!AvecVerrou
    BY RequetesSeul DEF Requ!AvecVerrou
  <2>3. Requ!Connu(h, i)
    BY <1>0, <1>6 DEF Requ!RendFini, Requ!TypeRequetes, Requ!Fil, Requ!Connu, Requ!Obtenue
  <2>4. PoigneeDe[f] = h /\ Requ!Rendu(f, i) => Requ!Rendu(f, i)'
    BY <1>0, <1>6, <2>2 DEF Requ!RendFini, Requ!TypeRequetes, Requ!Fil, Requ!AvecVerrou, Requ!EtapesDeClaim, Requ!Rendu, Requ!Connu, Requ!Obtenue
  <2>5. (v4[i] # h /\ i \notin v11[h]) \/ (PoigneeDe[f] = h /\ Requ!Rendu(f, i)')
    BY <1>0, <1>6, <2>1 DEF Requ!RendFini, Requ!TypeRequetes, Requ!Fil, Requ!AvecVerrou, Requ!EtapesDeClaim, Requ!Rendu, Requ!Tenu
  <2> QED BY <2>3, <2>4, <2>5
<1> QED BY <1>1, <1>2, <1>3, <1>4, <1>5, <1>6, RequetesInductif

(* The device is reset: the kernel ends the claims that are left.          *)
LEMMA Pas_op_reset_device ==
    ASSUME Requ!Hypotheses, Requ!Inductif, NEW f \in Threads, Requ!op_reset_device(f)
    PROVE  Requ!Inductif'
<1> USE RequetesConstantes
<1> DEFINE p == PoigneeDe[f]
<1>0. Requ!TypeRequetes /\ Requ!Fil(f) /\ p \in Poignees
  BY DEF Requ!Inductif
<1>a. v12[f] = "reinitialise" /\ v13[f] = 0 /\ v10[p] = f /\ v14[f] /\ v7[p] /\ v1' = v1 /\ v7' = v7 /\ v8' = v8 /\ v13' = [v13 EXCEPT ![f] = 0]
  BY <1>0 DEF Requ!op_reset_device, Requ!Fil, Requ!AvecVerrou, Requ!Inchange, Requ!Va, Requ!VaA
<1>b. \/ /\ v1 /\ v10' = v10 /\ v14' = v14
         /\ v3' = [i \in Requ!I |-> IF i \notin {j \in Requ!I : v3[j] = "usbfs"} THEN v3[i] ELSE IF i \in v5 THEN "noyau" ELSE "aucun"]
         /\ v4' = [i \in Requ!I |-> Rien]
         /\ v11' = [g \in Poignees |-> IF g = p THEN v11[g] ELSE v11[g] \cup {i \in {j \in Requ!I : v3[j] = "usbfs"} : v4[i] = g}]
         /\ v12' = [v12 EXCEPT ![f] = "reprend"]
      \/ /\ v11' = [v11 EXCEPT ![p] = v11[p] \cup {i \in v8[p] : v4[i] # p}]
         /\ v12' = [v12 EXCEPT ![f] = "repos"] /\ v10' = [v10 EXCEPT ![p] = Rien]
         /\ v14' = [v14 EXCEPT ![f] = FALSE] /\ v3' = v3 /\ v4' = v4
  BY DEF Requ!op_reset_device, Requ!Arrache, Requ!Va, Requ!VaA, Requ!Deverrouille, Requ!retenues
<1>5. \A g \in Threads : g # f /\ PoigneeDe[g] = p => v12[g] # "obtenue"
  BY <1>a, <1>0, RequetesSeul DEF Requ!AvecVerrou, Requ!Fil
<1>1. PasDe(f)
  <2>1. "reprend" \in Requ!Etapes /\ "repos" \in Requ!Etapes
    BY DEF Requ!Etapes, Requ!AvecVerrou
  <2>2. v11' \in [Poignees -> SUBSET Requ!I]
    <3>1. \A g \in Poignees : /\ v11[g] \cup {i \in {j \in Requ!I : v3[j] = "usbfs"} : v4[i] = g} \in SUBSET Requ!I
                              /\ v11[g] \cup {i \in v8[g] : v4[i] # g} \in SUBSET Requ!I
                              /\ v11[g] \in SUBSET Requ!I
      BY <1>0 DEF Requ!TypeRequetes
    <3>2. CASE v11' = [g \in Poignees |-> IF g = p THEN v11[g] ELSE v11[g] \cup {i \in {j \in Requ!I : v3[j] = "usbfs"} : v4[i] = g}]
      BY <3>1, <3>2
    <3>3. CASE v11' = [v11 EXCEPT ![p] = v11[p] \cup {i \in v8[p] : v4[i] # p}]
      BY <1>0, <3>1, <3>3 DEF Requ!TypeRequetes
    <3> QED BY <1>b, <3>2, <3>3
  <2>3. v3' \in [Requ!I -> {"noyau", "aucun", "usbfs"}] /\ v4' \in [Requ!I -> Poignees \cup {Rien}]
    BY <1>0, <1>b DEF Requ!TypeRequetes
  <2>4. /\ v12' = v12 \/ \E e \in Requ!Etapes : v12' = [v12 EXCEPT ![f] = e]
        /\ v14' = v14 \/ \E b \in BOOLEAN : v14' = [v14 EXCEPT ![f] = b]
        /\ v10' = v10 \/ \E l \in Threads \cup {Rien} : v10' = [v10 EXCEPT ![p] = l]
    BY <1>b, <2>1
  <2> QED BY <1>a, <2>2, <2>3, <2>4 DEF PasDe
<1>c. /\ \A g \in Threads : g # f => v12'[g] = v12[g] /\ v13'[g] = v13[g] /\ v14'[g] = v14[g]
      /\ \A h \in Poignees : h # p => v10'[h] = v10[h]
      /\ v13'[f] = 0
  BY <1>0, <1>a, <1>b DEF Requ!TypeRequetes
<1>d. \/ /\ v1 /\ v12'[f] = "reprend" /\ v14'[f] /\ v10'[p] = f
         /\ \A i \in Requ!I : v4'[i] = Rien /\ v3'[i] # "usbfs"
         /\ \A h \in Poignees, i \in Requ!I : h # p /\ i \notin v11'[h] => i \notin v11[h] /\ (v3[i] # "usbfs" \/ v4[i] # h)
      \/ /\ v12'[f] = "repos" /\ ~v14'[f] /\ v10'[p] = Rien /\ v3' = v3 /\ v4' = v4
         /\ \A h \in Poignees, i \in Requ!I : i \notin v11'[h] => i \notin v11[h] /\ (h = p /\ i \in v8[p] => v4[i] = p)
  <2> HIDE DEF p
  <2>1. CASE v12' = [v12 EXCEPT ![f] = "reprend"] /\ v4' = [i \in Requ!I |-> Rien]
    <3>1. /\ v1 /\ v10' = v10 /\ v14' = v14
          /\ v3' = [i \in Requ!I |-> IF i \notin {j \in Requ!I : v3[j] = "usbfs"} THEN v3[i] ELSE IF i \in v5 THEN "noyau" ELSE "aucun"]
          /\ v11' = [g \in Poignees |-> IF g = p THEN v11[g] ELSE v11[g] \cup {i \in {j \in Requ!I : v3[j] = "usbfs"} : v4[i] = g}]
      <4>1. v12'[f] = "reprend"
        BY <1>0, <2>1 DEF Requ!TypeRequetes
      <4>2. v12' # [v12 EXCEPT ![f] = "repos"]
        BY <1>0, <4>1 DEF Requ!TypeRequetes
      <4> QED BY <1>b, <4>2
    <3>2. \A h \in Poignees, i \in Requ!I : h # p /\ i \notin v11'[h] => i \notin v11[h] /\ (v3[i] # "usbfs" \/ v4[i] # h)
      BY <3>1
    <3> QED BY <1>0, <1>a, <2>1, <3>1, <3>2 DEF Requ!TypeRequetes
  <2>2. CASE v12' = [v12 EXCEPT ![f] = "repos"] /\ v4' = v4
    BY <1>0, <1>a, <1>b, <2>2 DEF Requ!TypeRequetes
  <2> QED BY <1>b, <2>1, <2>2
<1>2. Requ!Fil(f)'
  BY <1>0, <1>a, <1>c, <1>d DEF Requ!Fil, Requ!AvecVerrou, Requ!EtapesDeClaim
<1>3. ASSUME NEW g \in Threads, g # f PROVE Requ!Fil(g)'
  <2>1. Requ!Fil(g) /\ PoigneeDe[g] \in Poignees
    BY DEF Requ!Inductif
  <2> QED BY <1>a, <1>c, <1>d, <1>3, <2>1, RequetesAutre
<1>4. ASSUME NEW i \in Requ!I PROVE Requ!Tenu(i)'
  <2>1. Requ!Tenu(i)
    BY DEF Requ!Inductif
  <2> QED BY <1>a, <1>d, <2>1 DEF Requ!Tenu
<1>6. ASSUME NEW h \in Poignees, NEW i \in Requ!I PROVE Requ!Noyau(h, i)'
  <2>1. Requ!Noyau(h, i)
    BY DEF Requ!Inductif
  <2>2. Requ!Connu(h, i) => Requ!Connu(h, i)'
    BY <1>a, <1>c DEF Requ!Connu, Requ!Obtenue
  <2> QED BY <1>a, <1>d, <2>1, <2>2 DEF Requ!Noyau
<1>7. ASSUME NEW h \in Poignees, NEW i \in Requ!I, v1, v7[h], Requ!Connu(h, i)', v4'[i] # h, i \notin v11'[h]
      PROVE  /\ Requ!Connu(h, i)
             /\ PoigneeDe[f] = h /\ Requ!Rendu(f, i) => Requ!Rendu(f, i)'
             /\ (v4[i] # h /\ i \notin v11[h]) \/ (PoigneeDe[f] = h /\ Requ!Rendu(f, i)')
  <2>1. Requ!Connu(h, i) /\ (h = p => i \in v8[p])
    BY <1>5, <1>7, <1>a, <1>c, <1>d DEF Requ!Connu, Requ!Obtenue
  <2>2. v4[i] = h => v3[i] = "usbfs"
    BY DEF Requ!Inductif, Requ!Tenu
  <2>3. i >= v13'[f]
    BY <1>c
  <2>4. CASE v12'[f] = "reprend" /\ v14'[f]
    <3>1. Requ!Rendu(f, i)'
      BY <2>3, <2>4 DEF Requ!Rendu
    <3> QED BY <1>7, <1>d, <2>1, <2>2, <2>4, <3>1
  <2>5. CASE v12'[f] = "repos"
    BY <1>7, <1>d, <2>1, <2>5
  <2> QED BY <1>d, <2>1, <2>4, <2>5
<1> HIDE DEF p
<1> QED BY <1>1, <1>2, <1>3, <1>4, <1>6, <1>7, RequetesInductif

(* A reset claims again what the handle remembers, one by one.             *)
LEMMA Pas_Reprend ==
    ASSUME Requ!Hypotheses, Requ!Inductif, NEW f \in Threads, Requ!Reprend(f)
    PROVE  Requ!Inductif'
<1> USE RequetesConstantes DEF Requ!VaA, Requ!Va, Requ!Verrouille, Requ!Deverrouille, Requ!Retient, Requ!retenues,
        Requ!Lie, Requ!Arrache, Requ!Inchange, Requ!materiel, Requ!poignees
<1>0. Requ!TypeRequetes /\ Requ!Fil(f) /\ PoigneeDe[f] \in Poignees
  BY DEF Requ!Inductif
<1>1. PasDe(f)
  <2>1. v12' = v12 \/ \E e \in Requ!Etapes : v12' = [v12 EXCEPT ![f] = e]
    BY <1>0 DEF Requ!Reprend, Requ!Etapes, Requ!AvecVerrou
  <2>2. v13' = v13 \/ \E k \in 0..NI : v13' = [v13 EXCEPT ![f] = k]
    BY <1>0 DEF Requ!Reprend, Requ!TypeRequetes, Requ!Fil
  <2>3. v11' \in [Poignees -> SUBSET Requ!I]
    BY <1>0 DEF Requ!Reprend, Requ!TypeRequetes, Requ!Fil
  <2> QED BY <1>0, <2>1, <2>2, <2>3 DEF Requ!Reprend, PasDe, Requ!TypeRequetes, Requ!Fil
<1>2. Requ!Fil(f)'
  BY <1>0 DEF Requ!Reprend, Requ!TypeRequetes, Requ!AvecVerrou, Requ!EtapesDeClaim, Requ!Fil
<1>3. ASSUME NEW g \in Threads, g # f PROVE Requ!Fil(g)'
  <2>1. Requ!Fil(g)
    BY DEF Requ!Inductif
  <2> QED BY <1>0, <1>3, <2>1, RequetesAutre DEF Requ!Reprend, Requ!TypeRequetes, Requ!AvecVerrou, Requ!Fil
<1>4. ASSUME NEW i \in Requ!I PROVE Requ!Tenu(i)'
  <2>1. Requ!Tenu(i) /\ (v13[f] \in Requ!I => Requ!Tenu(v13[f]))
    BY DEF Requ!Inductif
  <2> QED BY <1>0, <2>1 DEF Requ!Reprend, Requ!TypeRequetes, Requ!Tenu, Requ!Fil
<1>5. ASSUME NEW h \in Poignees, NEW i \in Requ!I PROVE Requ!Noyau(h, i)'
  <2>1. Requ!Noyau(h, i) /\ Requ!Tenu(i)
    BY DEF Requ!Inductif
  <2>2. /\ v12[f] = "reprend" /\ v8' = v8 /\ v7' = v7 /\ v4' = v4
        /\ \A g \in Threads : g # f => v12'[g] = v12[g] /\ v13'[g] = v13[g]
    BY <1>0 DEF Requ!Reprend, Requ!TypeRequetes, Requ!Fil
  <2>3. Requ!Connu(h, i) => Requ!Connu(h, i)'
    BY <1>0, <2>2, RequetesConnu
  <2> QED BY <2>1, <2>2, <2>3 DEF Requ!Noyau
<1>6. ASSUME NEW h \in Poignees, NEW i \in Requ!I, v1, v7[h], Requ!Connu(h, i)', v4'[i] # h, i \notin v11'[h]
      PROVE  /\ Requ!Connu(h, i)
             /\ PoigneeDe[f] = h /\ Requ!Rendu(f, i) => Requ!Rendu(f, i)'
             /\ (v4[i] # h /\ i \notin v11[h]) \/ (PoigneeDe[f] = h /\ Requ!Rendu(f, i)')
  <2>1. Requ!Noyau(h, i) /\ Requ!Tenu(i)
    BY DEF Requ!Inductif
  <2>2. \A g \in Threads : g # f /\ PoigneeDe[g] = PoigneeDe[f] /\ v12[g] = "obtenue" => v12[f] \notin Requ!AvecVerrou
    BY RequetesSeul DEF Requ!AvecVerrou
  <2>3. Requ!Connu(h, i)
    <3>1. v8' = v8 /\ v12'[f] # "obtenue" /\ \A g \in Threads : g # f => v12'[g] = v12[g] /\ v13'[g] = v13[g]
      BY <1>0 DEF Requ!Reprend, Requ!TypeRequetes, Requ!Fil
    <3> QED BY <1>0, <1>6, <3>1, RequetesConnu
  <2>4. PoigneeDe[f] = h /\ Requ!Rendu(f, i) => Requ!Rendu(f, i)'
    <3>1. CASE v13[f] = NI
      BY <1>0, <1>6, <2>2, <3>1 DEF Requ!Reprend, Requ!TypeRequetes, Requ!Fil, Requ!AvecVerrou, Requ!EtapesDeClaim, Requ!Rendu, Requ!Connu, Requ!Obtenue
    <3>2. CASE v13[f] # NI /\ v13[f] \in v8[PoigneeDe[f]]
      BY <1>0, <1>6, <2>2, <3>2 DEF Requ!Reprend, Requ!TypeRequetes, Requ!Fil, Requ!AvecVerrou, Requ!EtapesDeClaim, Requ!Rendu, Requ!Connu, Requ!Obtenue
    <3>3. CASE v13[f] # NI /\ v13[f] \notin v8[PoigneeDe[f]]
      <4>1. v12[f] = "reprend" /\ v14[f] /\ v14' = v14 /\ v12'[f] = "reprend" /\ v13'[f] = v13[f] + 1 /\ v8' = v8
            /\ \A g \in Threads : g # f => v12'[g] = v12[g]
        BY <1>0, <3>3 DEF Requ!Reprend, Requ!TypeRequetes, Requ!Fil
      <4>2. PoigneeDe[f] = h => i # v13[f]
        BY <1>0, <1>6, <2>2, <3>3, <4>1 DEF Requ!Connu, Requ!Obtenue, Requ!AvecVerrou
      <4>3. PoigneeDe[f] = h /\ Requ!Rendu(f, i) => i >= v13'[f]
        <5>1. Requ!Rendu(f, i) => i >= v13[f]
          BY <4>1 DEF Requ!Rendu
        <5> QED BY <1>0, <4>1, <4>2, <5>1 DEF Requ!TypeRequetes
      <4> QED BY <4>1, <4>3 DEF Requ!Rendu
    <3> QED BY <1>0, <3>1, <3>2, <3>3 DEF Requ!Reprend
  <2>5. (v4[i] # h /\ i \notin v11[h]) \/ (PoigneeDe[f] = h /\ Requ!Rendu(f, i)')
    BY <1>0, <1>6, <2>1 DEF Requ!Reprend, Requ!TypeRequetes, Requ!Fil, Requ!AvecVerrou, Requ!EtapesDeClaim, Requ!Rendu, Requ!Tenu
  <2> QED BY <2>3, <2>4, <2>5
<1> QED BY <1>1, <1>2, <1>3, <1>4, <1>5, <1>6, RequetesInductif

(* The beginning of a call: the thread was in none, and owns nothing. *)
LEMMA Pas_Appelle ==
    ASSUME Requ!Hypotheses, Requ!Inductif, NEW f \in Threads, NEW i0 \in Requ!I,
           NEW e \in {"reclame", "relache", "rend", "quipilote", "attache"},
           Requ!Appelle(f, e, i0)
    PROVE  Requ!Inductif'
<1> USE RequetesConstantes
<1>0. Requ!TypeRequetes /\ Requ!Fil(f) /\ PoigneeDe[f] \in Poignees /\ e \in Requ!Etapes /\ i0 \in 0..NI
  BY DEF Requ!Inductif, Requ!Etapes
<1>a. /\ v12[f] = "repos" /\ v7[PoigneeDe[f]] /\ UNCHANGED <<v1, v3, v4, v7, v8, v10, v11>>
      /\ v12' = [v12 EXCEPT ![f] = e] /\ v13' = [v13 EXCEPT ![f] = i0] /\ v14' = [v14 EXCEPT ![f] = e = "rend"]
  BY DEF Requ!Appelle, Requ!VaA, Requ!materiel, Requ!poignees
<1>b. ~v14[f] /\ v10[PoigneeDe[f]] # f
  BY <1>0, <1>a DEF Requ!Fil, Requ!AvecVerrou
<1>c. /\ v12'[f] = e /\ v13'[f] = i0 /\ (v14'[f] <=> e = "rend")
      /\ \A g \in Threads : g # f => v12'[g] = v12[g] /\ v13'[g] = v13[g] /\ v14'[g] = v14[g]
  <2>1. CASE e = "rend"
    BY <1>0, <1>a, <2>1 DEF Requ!TypeRequetes
  <2>2. CASE e # "rend"
    <3>1. v14' = [v14 EXCEPT ![f] = FALSE]
      BY <1>a, <2>2
    <3> QED BY <1>0, <1>a, <2>2, <3>1 DEF Requ!TypeRequetes
  <2> QED BY <2>1, <2>2
<1>1. PasDe(f)
  <2>1. \E b \in BOOLEAN : v14' = [v14 EXCEPT ![f] = b]
    <3>1. CASE e = "rend"
      BY <1>a, <3>1
    <3>2. CASE e # "rend"
      BY <1>a, <3>2
    <3> QED BY <3>1, <3>2
  <2> QED BY <1>0, <1>a, <2>1 DEF PasDe, Requ!TypeRequetes
<1>2. Requ!Fil(f)'
  BY <1>0, <1>a, <1>b, <1>c DEF Requ!Fil, Requ!AvecVerrou, Requ!EtapesDeClaim
<1>3. ASSUME NEW g \in Threads, g # f PROVE Requ!Fil(g)'
  <2>1. Requ!Fil(g)
    BY DEF Requ!Inductif
  <2> QED BY <1>a, <1>c, <1>3, <2>1, RequetesAutre
<1>4. \A i \in Requ!I : Requ!Tenu(i)'
  BY <1>a DEF Requ!Tenu, Requ!Inductif
<1>5. ASSUME NEW h \in Poignees, NEW i \in Requ!I PROVE Requ!Connu(h, i)' <=> Requ!Connu(h, i)
  <2>1. v12'[f] # "obtenue" /\ v12[f] # "obtenue"
    BY <1>a, <1>c
  <2> QED BY <1>a, <1>c, <2>1 DEF Requ!Connu, Requ!Obtenue
<1>6. \A h \in Poignees, i \in Requ!I : Requ!Noyau(h, i)'
  BY <1>5, <1>a DEF Requ!Noyau, Requ!Inductif
<1>7. \A i \in Requ!I : ~Requ!Rendu(f, i)
  BY <1>a, <1>b DEF Requ!Rendu
<1> QED BY <1>1, <1>2, <1>3, <1>4, <1>5, <1>6, <1>7, <1>a, RequetesInductif

(* Steps that change nothing of what the invariant speaks of. *)
LEMMA RequetesCadre ==
    ASSUME Requ!Hypotheses, Requ!Inductif, UNCHANGED <<v1, v3, v4, v7, v8, v10, v11, v12, v13, v14>>
    PROVE  Requ!Inductif'
<1>1. /\ Requ!TypeRequetes'
      /\ \A f \in Threads : Requ!Fil(f)'
      /\ \A i \in Requ!I : Requ!Tenu(i)'
  BY DEF Requ!Inductif, Requ!TypeRequetes, Requ!Fil, Requ!Tenu
<1>2. ASSUME NEW h \in Poignees, NEW i \in Requ!I PROVE Requ!Noyau(h, i)' /\ Requ!Perdu(h, i)'
  BY DEF Requ!Inductif, Requ!Noyau, Requ!Perdu, Requ!Connu, Requ!Obtenue, Requ!Rendu
<1> QED BY <1>1, <1>2 DEF Requ!Inductif

(* A handle that is closed, opened again, a device that is unplugged: no     *)
(* call of the handle runs, or nothing is claimed any more. *)
LEMMA Pas_Ferme ==
    ASSUME Requ!Hypotheses, Requ!Inductif, NEW h \in Poignees, Requ!Ferme(h)
    PROVE  Requ!Inductif'
<1> USE RequetesConstantes
<1>0. Requ!TypeRequetes /\ \A f \in Threads : Requ!Fil(f) /\ PoigneeDe[f] \in Poignees
  BY DEF Requ!Inductif
<1>a. /\ \A f \in Threads : PoigneeDe[f] = h => v12[f] \in {"repos", "absent"}
      /\ UNCHANGED <<v1, v8, v10, v12, v13, v14>>
      /\ v7' = [v7 EXCEPT ![h] = FALSE] /\ v11' = [v11 EXCEPT ![h] = {}]
      /\ v3' = [i \in Requ!I |-> IF v4[i] = h THEN "aucun" ELSE v3[i]]
      /\ v4' = [i \in Requ!I |-> IF v4[i] = h THEN Rien ELSE v4[i]]
  BY DEF Requ!Ferme, Requ!Inchange
<1>1. Requ!TypeRequetes'
  BY <1>0, <1>a DEF Requ!TypeRequetes
<1>b. /\ \A g \in Poignees : v7'[g] = (g # h /\ v7[g]) /\ (g # h => v11'[g] = v11[g])
      /\ \A i \in Requ!I : v4'[i] = IF v4[i] = h THEN Rien ELSE v4[i]
  BY <1>0, <1>a DEF Requ!TypeRequetes
<1>2. ASSUME NEW f \in Threads PROVE Requ!Fil(f)'
  <2>1. Requ!Fil(f)
    BY DEF Requ!Inductif
  <2> QED BY <1>0, <1>a, <1>b, <2>1, RequetesAutre
<1>3. ASSUME NEW i \in Requ!I PROVE Requ!Tenu(i)'
  <2>1. Requ!Tenu(i)
    BY DEF Requ!Inductif
  <2> QED BY <1>a, <2>1 DEF Requ!Tenu
<1>4. ASSUME NEW g \in Poignees, NEW i \in Requ!I PROVE Requ!Noyau(g, i)' /\ Requ!Perdu(g, i)'
  <2>1. Requ!Noyau(g, i) /\ Requ!Perdu(g, i)
    BY DEF Requ!Inductif
  <2>2. Requ!Connu(g, i)' <=> Requ!Connu(g, i)
    BY <1>a DEF Requ!Connu, Requ!Obtenue
  <2>3. \A f \in Threads : Requ!Rendu(f, i)' <=> Requ!Rendu(f, i)
    BY <1>a DEF Requ!Rendu
  <2>4. v4'[i] = g => g # h /\ v4[i] = g
    BY <1>b
  <2>5. v7'[g] => g # h /\ v7[g] /\ v11'[g] = v11[g]
    BY <1>b
  <2>6. g # h /\ v4'[i] # g => v4[i] # g
    BY <1>b
  <2>7. g # h /\ v7[g] => v7'[g]
    BY <1>b
  <2> QED BY <1>a, <2>1, <2>2, <2>3, <2>4, <2>5, <2>6, <2>7 DEF Requ!Noyau, Requ!Perdu
<1> QED BY <1>1, <1>2, <1>3, <1>4 DEF Requ!Inductif

(* A handle is opened again.                                               *)
LEMMA Pas_Ouvre ==
    ASSUME Requ!Hypotheses, Requ!Inductif, NEW h \in Poignees, Requ!Ouvre(h)
    PROVE  Requ!Inductif'
<1> USE RequetesConstantes
<1>0. Requ!TypeRequetes /\ \A f \in Threads : Requ!Fil(f) /\ PoigneeDe[f] \in Poignees
  BY DEF Requ!Inductif
<1>a. /\ ~v7[h] /\ UNCHANGED <<v1, v3, v4, v10, v11, v12, v13, v14>>
      /\ v7' = [v7 EXCEPT ![h] = TRUE] /\ v8' = [v8 EXCEPT ![h] = {}]
  BY DEF Requ!Ouvre, Requ!materiel
<1>b. /\ \A g \in Poignees : g # h => v7'[g] = v7[g] /\ v8'[g] = v8[g]
      /\ v7'[h] /\ v8'[h] = {}
  BY <1>0, <1>a DEF Requ!TypeRequetes
<1>c. \A f \in Threads : PoigneeDe[f] = h => v12[f] \in {"repos", "absent"} /\ v10[h] # f
  BY <1>0, <1>a DEF Requ!Fil, Requ!AvecVerrou
<1>1. Requ!TypeRequetes'
  BY <1>0, <1>a DEF Requ!TypeRequetes
<1>2. ASSUME NEW f \in Threads PROVE Requ!Fil(f)'
  <2>1. Requ!Fil(f)
    BY DEF Requ!Inductif
  <2> QED BY <1>0, <1>a, <1>b, <1>c, <2>1, RequetesAutre
<1>3. \A i \in Requ!I : Requ!Tenu(i)'
  BY <1>a DEF Requ!Tenu, Requ!Inductif
<1>4. ASSUME NEW g \in Poignees, NEW i \in Requ!I PROVE Requ!Noyau(g, i)' /\ Requ!Perdu(g, i)'
  <2>1. Requ!Noyau(g, i) /\ Requ!Perdu(g, i)
    BY DEF Requ!Inductif
  <2>2. CASE g = h
    <3>1. ~Requ!Connu(g, i)'
      BY <1>a, <1>b, <1>c, <2>2 DEF Requ!Connu, Requ!Obtenue
    <3> QED BY <1>a, <2>1, <2>2, <3>1 DEF Requ!Noyau, Requ!Perdu
  <2>3. CASE g # h
    <3>1. Requ!Connu(g, i)' <=> Requ!Connu(g, i)
      BY <1>a, <1>b, <2>3 DEF Requ!Connu, Requ!Obtenue
    <3>2. \A f \in Threads : Requ!Rendu(f, i)' <=> Requ!Rendu(f, i)
      BY <1>a DEF Requ!Rendu
    <3> QED BY <1>a, <1>b, <2>1, <2>3, <3>1, <3>2 DEF Requ!Noyau, Requ!Perdu
  <2> QED BY <2>2, <2>3
<1> QED BY <1>1, <1>2, <1>3, <1>4 DEF Requ!Inductif

(* The device is unplugged, and nothing is bound to it any more.           *)
LEMMA Pas_Debranche ==
    ASSUME Requ!Hypotheses, Requ!Inductif, Requ!Debranche
    PROVE  Requ!Inductif'
<1> USE RequetesConstantes
<1>0. Requ!TypeRequetes /\ \A f \in Threads : Requ!Fil(f) /\ PoigneeDe[f] \in Poignees
  BY DEF Requ!Inductif
<1>a. /\ ~v1' /\ v1' \in BOOLEAN /\ UNCHANGED <<v7, v8, v10, v11, v12, v13, v14>>
      /\ v3' = [i \in Requ!I |-> "aucun"] /\ v4' = [i \in Requ!I |-> Rien]
  BY DEF Requ!Debranche, Requ!poignees
<1>b. \A i \in Requ!I : v3'[i] = "aucun" /\ v4'[i] = Rien
  BY <1>a
<1>1. Requ!TypeRequetes'
  BY <1>0, <1>a DEF Requ!TypeRequetes
<1>2. ASSUME NEW f \in Threads PROVE Requ!Fil(f)'
  <2>1. Requ!Fil(f)
    BY DEF Requ!Inductif
  <2> QED BY <1>0, <1>a, <1>b, <2>1, RequetesAutre
<1>3. \A i \in Requ!I : Requ!Tenu(i)'
  BY <1>b DEF Requ!Tenu
<1>4. \A h \in Poignees, i \in Requ!I : Requ!Noyau(h, i)' /\ Requ!Perdu(h, i)'
  BY <1>a, <1>b DEF Requ!Noyau, Requ!Perdu
<1> QED BY <1>1, <1>2, <1>3, <1>4 DEF Requ!Inductif

(* Every step keeps the invariant. *)
LEMMA RequetesPreserve ==
    ASSUME Requ!Hypotheses, Requ!Inductif, Requ!Next \/ UNCHANGED Requ!vars
    PROVE  Requ!Inductif'
<1>0. 0 \in Requ!I
  BY RequetesConstantes
<1>1. ASSUME NEW f \in Threads,
             \/ Requ!libusb_reset_device(f)
             \/ \E i \in Requ!I : \/ Requ!libusb_claim_interface(f, i) \/ Requ!libusb_release_interface(f, i)
                                  \/ Requ!libusb_detach_kernel_driver(f, i) \/ Requ!libusb_attach_kernel_driver(f, i)
      PROVE  Requ!Inductif'
  <2>1. PICK e \in {"reclame", "relache", "rend", "quipilote", "attache"}, i \in Requ!I : Requ!Appelle(f, e, i)
    BY <1>0, <1>1 DEF Requ!libusb_reset_device, Requ!libusb_claim_interface, Requ!libusb_release_interface,
                      Requ!libusb_detach_kernel_driver, Requ!libusb_attach_kernel_driver
  <2> QED BY <2>1, Pas_Appelle
<1>2. ASSUME NEW f \in Threads, \E b \in BOOLEAN : Requ!libusb_set_auto_detach_kernel_driver(f, b)
      PROVE  Requ!Inductif'
  BY <1>2, RequetesCadre DEF Requ!libusb_set_auto_detach_kernel_driver, Requ!materiel
<1>3. CASE Requ!usbi_disconnect_device
  BY <1>3, RequetesCadre DEF Requ!usbi_disconnect_device, Requ!materiel, Requ!poignees
<1>4. CASE UNCHANGED Requ!vars
  BY <1>4, RequetesCadre DEF Requ!vars, Requ!materiel, Requ!poignees
<1> QED
  BY <1>1, <1>2, <1>3, <1>4, Pas_Reclame, Pas_FinClaim, Pas_claim_interface, Pas_Ecarte,
     Pas_QuiPilote, Pas_Chasse, Pas_Relache, Pas_release_interface,
     Pas_op_attach_kernel_driver, Pas_FinRelache, Pas_Rend, Pas_RendFini,
     Pas_op_reset_device, Pas_Reprend, Pas_Ferme, Pas_Ouvre, Pas_Debranche
  DEF Requ!Next

(* Between the calls nobody has a claim half made or half given back, so    *)
(* that what is left of the invariant is the promise. *)
LEMMA RequetesPromesse == ASSUME Requ!Hypotheses, Requ!Inductif PROVE Requ!ReclameFidele
<1> SUFFICES ASSUME NEW h \in Poignees, Requ!Tranquille(h), NEW i \in Requ!I
             PROVE  /\ v4[i] = h => i \in v8[h]
                    /\ v1 /\ i \in v8[h] => v4[i] = h \/ i \in v11[h]
  <2>1. \A h \in Poignees : v8[h] \subseteq Requ!I
    BY DEF Requ!Inductif, Requ!TypeRequetes
  <2> QED BY <2>1 DEF Requ!ReclameFidele
<1>1. \A f \in Threads : PoigneeDe[f] = h => v12[f] \in {"repos", "absent"} /\ ~v14[f]
  BY DEF Requ!Tranquille, Requ!Inductif, Requ!Fil, Requ!AvecVerrou
<1>2. Requ!Noyau(h, i) /\ Requ!Perdu(h, i) /\ v7[h]
  BY DEF Requ!Inductif, Requ!Tranquille
<1>3. \A f \in Threads : PoigneeDe[f] = h => ~Requ!Rendu(f, i)
  BY <1>1 DEF Requ!Rendu
<1>4. Requ!Connu(h, i) <=> i \in v8[h]
  BY <1>1 DEF Requ!Connu, Requ!Obtenue
<1> QED BY <1>2, <1>3, <1>4 DEF Requ!Noyau, Requ!Perdu

(* The invariant holds in every state, for any threads, handles and          *)
(* interfaces, whatever drivers the kernel has.                            *)
THEOREM InvariantRequetes == ASSUME Requ!Hypotheses PROVE Requ!Spec => []Requ!Inductif
<1>1. Requ!Init => Requ!Inductif
  BY RequetesDepart
<1>2. Requ!Inductif /\ [Requ!Next]_(Requ!vars) => Requ!Inductif'
  BY RequetesPreserve
<1> QED BY <1>1, <1>2, PTL DEF Requ!Spec


-----------------------------------------------------------------------------
(* Ug: what the backends of the BSDs have in common.                       *)
LEMMA UgenConstantes ==
    ASSUME Ug!Hypotheses
    PROVE  /\ NFdBsd \in Nat /\ NFdBsd > 1 /\ Ug!Fd = 0..(NFdBsd - 1) /\ 0 \in Ug!Fd
           /\ \A e \in EBsd : e \in Nat /\ e # 0
           /\ \A t \in TBsd : DeBsd[t].p \in Ug!P /\ (DeBsd[t].ep = 0 \/ DeBsd[t].ep \in EBsd)
           /\ \A t \in TBsd : (DeBsd[t].ep = 0) <=> (DeBsd[t].type = "controle")
           /\ Rien \notin Ug!Objets /\ Rien \notin Ug!Noeuds /\ Rien # <<"entree">>
<1>1. NFdBsd \in Nat /\ NFdBsd > 1 /\ Ug!Fd = 0..(NFdBsd - 1)
  BY DEF Ug!Hypotheses, Ug!Fd
<1>2. 0 \in Ug!Fd
  BY <1>1
<1>3. \A e \in EBsd : e \in Nat /\ e # 0
  BY DEF Ug!Hypotheses
<1>4. /\ \A t \in TBsd : DeBsd[t].p \in Ug!P /\ (DeBsd[t].ep = 0 \/ DeBsd[t].ep \in EBsd)
      /\ \A t \in TBsd : (DeBsd[t].ep = 0) <=> (DeBsd[t].type = "controle")
  BY DEF Ug!Hypotheses
<1>5. Rien \notin Ug!Objets /\ Rien \notin Ug!Noeuds /\ Rien # <<"entree">>
  BY DEF Ug!Hypotheses
<1> QED BY <1>1, <1>2, <1>3, <1>4, <1>5

(* The nodes of the devices differ from each other, from the bus and from a*)
(* lost one.                                                               *)
LEMMA UgenNoeuds ==
    ASSUME Ug!Hypotheses
    PROVE  /\ \A p, q \in Ug!P, e, f \in EBsd \cup {0} : Ug!Noeud(p, e) = Ug!Noeud(q, f) => p = q /\ e = f
           /\ \A p \in Ug!P, e \in EBsd \cup {0} : Ug!Noeud(p, e) \in Ug!Noeuds
           /\ \A p, e : Ug!Noeud(p, e) \notin {Ug!Bus, Ug!Perdu, <<"entree">>}
           /\ Ug!Bus \in Ug!Noeuds /\ Ug!Perdu \in Ug!Noeuds /\ Ug!Bus # Rien /\ Ug!Perdu # Rien
           /\ <<"entree">> \notin {Ug!Bus, Ug!Perdu, Rien}
           /\ \A p \in Ug!P, e \in EBsd \cup {0} : Ug!Noeud(p, e) # Rien
<1>1. \A p, q \in Ug!P, e, f \in EBsd \cup {0} : Ug!Noeud(p, e) = Ug!Noeud(q, f) => p = q /\ e = f
  BY DEF Ug!Noeud
<1>2. (\A p \in Ug!P, e \in EBsd \cup {0} : Ug!Noeud(p, e) \in Ug!Noeuds) /\ Ug!Bus \in Ug!Noeuds /\ Ug!Perdu \in Ug!Noeuds
  BY DEF Ug!Noeuds
<1>3. \A p, e : Ug!Noeud(p, e) \notin {Ug!Bus, Ug!Perdu, <<"entree">>}
  BY DEF Ug!Noeud, Ug!Bus, Ug!Perdu
<1>4. <<"entree">> \notin {Ug!Bus, Ug!Perdu}
  BY DEF Ug!Bus, Ug!Perdu
<1> QED BY <1>1, <1>2, <1>3, <1>4, UgenConstantes

(* The smallest member of a set is in it.                                  *)
LEMMA PlusBas ==
    ASSUME NEW S, S \subseteq Nat, S # {}
    PROVE  Ug!Min(S) \in S
BY Minimum DEF Ug!Min

(* open() gives the lowest descriptor that is free, ...                    *)
LEMMA UgenBas ==
    ASSUME Ug!Hypotheses, Ug!TypeUgen, Ug!Ouvrable
    PROVE  Ug!Bas \in Ug!Fd \ {0} /\ v1[Ug!Bas] = Rien
<1>1. Ug!Libres \subseteq Nat
  BY UgenConstantes DEF Ug!Libres
<1>2. Ug!Bas \in Ug!Libres
  BY <1>1, PlusBas DEF Ug!Bas, Ug!Ouvrable
<1> QED BY <1>2, UgenConstantes DEF Ug!Libres, Ug!TypeUgen

(* ... and a second one, when there are two, is free as well.              *)
LEMMA UgenSecond ==
    ASSUME Ug!Hypotheses, Ug!TypeUgen, Cardinality(Ug!Libres) > 1
    PROVE  Ug!Second \in Ug!Fd \ {0} /\ v1[Ug!Second] = Rien
<1>1. Ug!Libres \subseteq Nat /\ Ug!Libres \subseteq Ug!Fd /\ IsFiniteSet(Ug!Fd)
  BY UgenConstantes, FS_Interval DEF Ug!Libres
<1>2. IsFiniteSet(Ug!Libres) /\ Cardinality(Ug!Libres) \in Nat
  BY <1>1, FS_Subset, FS_CardinalityType
<1>3. Ug!Libres \ {Ug!Bas} # {}
  <2> DEFINE L == Ug!Libres
             n == Cardinality(L)
  <2>1. Cardinality(L \ {Ug!Bas}) = IF Ug!Bas \in L THEN n - 1 ELSE n
    BY <1>2, FS_RemoveElement
  <2>2. n \in Int /\ n > 1
    BY <1>2
  <2> HIDE DEF n, L
  <2>3. L \ {Ug!Bas} # {}
    BY <2>1, <2>2, FS_EmptySet
  <2> QED BY <2>3 DEF L
<1>4. Ug!Second \in Ug!Libres \ {Ug!Bas}
  BY <1>1, <1>3, PlusBas DEF Ug!Second
<1> QED BY <1>4, UgenConstantes DEF Ug!Libres, Ug!TypeUgen


(* The descriptors of the BSDs start in their invariant.                   *)
LEMMA UgenDepart == ASSUME Ug!Hypotheses, Ug!Init PROVE Ug!Inductif
<1> USE UgenConstantes, UgenNoeuds DEF Ug!Init
<1>1. Ug!TypeUgen
  <2>1. 1 \in 1..NCBsd
    BY DEF Ug!Hypotheses
  <2>2. Ug!Aucun \in [fd : Ug!Fd \cup {-1}, noeud : Ug!Noeuds \cup {<<"entree">>, Rien}]
    BY DEF Ug!Aucun
  <2> QED BY <2>1, <2>2 DEF Ug!TypeUgen
<1>2. ASSUME NEW d \in Ug!Fd PROVE Ug!Descripteur(d)
  BY DEF Ug!Descripteur, Ug!Ouvert, Ug!Acces, Ug!ParBus
<1>3. Ug!Signales /\ Ug!RequeteJuste /\ Ug!ConfigurationJuste
  BY DEF Ug!Signales, Ug!RequeteJuste, Ug!ConfigurationJuste
<1>4. ASSUME NEW p \in Ug!P PROVE Ug!Appareil(p)
  BY DEF Ug!Appareil
<1>5. ASSUME NEW t \in TBsd PROVE Ug!Transport(t)
  BY DEF Ug!Transport
<1> QED BY <1>1, <1>2, <1>3, <1>4, <1>5 DEF Ug!Inductif

(* A descriptor that a step leaves alone. *)
Laisse(d) ==
    /\ v1'[d] = v1[d]
    /\ d \in v2' <=> d \in v2
    /\ \A p \in Ug!P : Ug!Ouvert(p, d)' <=> Ug!Ouvert(p, d)
    /\ \A p \in Ug!P, e \in EBsd : Ug!Acces(p, e, d)' <=> Ug!Acces(p, e, d)
    /\ \A t \in TBsd : Ug!ParBus(t, d)' <=> Ug!ParBus(t, d)

(* A descriptor whose node and holders do not change keeps its part of the *)
(* invariant.                                                              *)
LEMMA UgenLaisse ==
    ASSUME NEW d, Ug!Descripteur(d), Laisse(d)
    PROVE  Ug!Descripteur(d)'
BY DEF Ug!Descripteur, Ug!Tenu, Laisse

(* One that nobody held, and one that is closed. *)
LEMMA UgenLibre ==
    ASSUME Ug!Hypotheses, NEW d, Ug!Descripteur(d), v1[d] = Rien
    PROVE  /\ d \notin v2
           /\ \A p \in Ug!P : ~Ug!Ouvert(p, d)
           /\ \A p \in Ug!P, e \in EBsd : ~Ug!Acces(p, e, d)
           /\ \A t \in TBsd : ~Ug!ParBus(t, d)
BY UgenNoeuds DEF Ug!Descripteur

(* The standard input is nobody's. *)
LEMMA UgenEntree ==
    ASSUME Ug!Hypotheses, Ug!Inductif
    PROVE  /\ \A p \in Ug!P : ~Ug!Ouvert(p, 0)
           /\ \A p \in Ug!P, e \in EBsd : ~Ug!Acces(p, e, 0)
           /\ \A t \in TBsd : ~Ug!ParBus(t, 0)
<1>1. Ug!Descripteur(0) /\ v1[0] = <<"entree">>
  BY UgenConstantes DEF Ug!Inductif, Ug!TypeUgen
<1>2. (\A p, e : v1[0] # Ug!Noeud(p, e)) /\ v1[0] # Ug!Bus
  BY <1>1, UgenNoeuds
<1> QED BY <1>1, <1>2 DEF Ug!Descripteur

(* libusb_free_device_list keeps the invariant.                            *)
LEMMA UgenListe ==
    ASSUME Ug!Hypotheses, Ug!Inductif, Ug!libusb_free_device_list
    PROVE  Ug!Inductif'
<1> USE UgenConstantes DEF Ug!Inductif, Ug!libusb_free_device_list, Ug!fichiers, Ug!prises, Ug!transferts
<1>0. /\ v4' \in [Ug!P -> Ug!Objets \cup {Rien}]
      /\ \A p \in Ug!P : v4'[p] = IF v7[p] THEN v4[p] ELSE Rien
  BY DEF Ug!Vivants, Ug!TypeUgen
<1>1. Ug!TypeUgen'
  BY <1>0 DEF Ug!TypeUgen
<1>2. \A p \in Ug!P, d \in Ug!Fd : Ug!Ouvert(p, d)' <=> Ug!Ouvert(p, d)
  BY <1>0 DEF Ug!Ouvert, Ug!Appareil
<1>3. ASSUME NEW d \in Ug!Fd PROVE Ug!Descripteur(d)'
  BY <1>2, UgenLaisse DEF Laisse, Ug!Acces, Ug!ParBus
<1>4. Ug!Signales' /\ Ug!RequeteJuste' /\ Ug!ConfigurationJuste'
  BY <1>0 DEF Ug!Signales, Ug!RequeteJuste, Ug!ConfigurationJuste
<1>5. ASSUME NEW p \in Ug!P PROVE Ug!Appareil(p)'
  BY <1>0 DEF Ug!Appareil
<1>6. ASSUME NEW t \in TBsd PROVE Ug!Transport(t)'
  BY <1>2 DEF Ug!Transport, Ug!Acces, Ug!ParBus
<1> QED BY <1>1, <1>3, <1>4, <1>5, <1>6

(* libusb_open does, with a node or without one.                           *)
LEMMA UgenOuvre ==
    ASSUME Ug!Hypotheses, Ug!Inductif, NEW p \in Ug!P, Ug!Fermee(p), NEW d, Ug!libusb_open(p, d),
           \/ v4[p].devname /\ Ug!Ouvrable /\ d = Ug!Bas
           \/ ~v4[p].devname /\ d = -1
    PROVE  Ug!Inductif'
<1> USE UgenConstantes DEF Ug!Inductif, Ug!libusb_open, Ug!transferts
<1>0. /\ v4[p] # Rien /\ ~v7[p] /\ v8[p] = {} /\ d \in Ug!Fd \cup {-1} /\ d # 0
      /\ v4[p] \in Ug!Objets /\ v4[p].fd = -1
      /\ d >= 0 <=> v4[p].devname
      /\ d >= 0 => v1[d] = Rien /\ v1' = [v1 EXCEPT ![d] = Ug!Noeud(p, 0)]
      /\ d < 0 => v1' = v1
  BY UgenBas DEF Ug!Fermee, Ug!Appareil, Ug!TypeUgen, Ug!Objets
<1>1. /\ v4'[p] \in Ug!Objets /\ v4'[p].fd = d /\ v4'[p].devname = v4[p].devname
      /\ v4'[p].cdesc = v4[p].cdesc
      /\ v4' \in [Ug!P -> Ug!Objets \cup {Rien}]
      /\ \A q \in Ug!P : q # p => v4'[q] = v4[q]
  BY <1>0 DEF Ug!TypeUgen, Ug!Objets
<1>2. Ug!TypeUgen'
  BY <1>0, <1>1, UgenNoeuds DEF Ug!TypeUgen
<1>3. ASSUME NEW c \in Ug!Fd PROVE Ug!Descripteur(c)'
  <2>0. /\ ~Ug!Ouvert(p, c)
        /\ Ug!Ouvert(p, c)' <=> c = d
    BY <1>0, <1>1, UgenConstantes DEF Ug!Ouvert
  <2>1. /\ \A q \in Ug!P : q # p => (Ug!Ouvert(q, c)' <=> Ug!Ouvert(q, c))
        /\ \A q \in Ug!P, e \in EBsd : Ug!Acces(q, e, c)' <=> Ug!Acces(q, e, c)
        /\ \A t \in TBsd : Ug!ParBus(t, c)' <=> Ug!ParBus(t, c)
    BY <1>0, <1>1 DEF Ug!Ouvert, Ug!Acces, Ug!ParBus, Ug!TypeUgen
  <2>2. CASE c # d
    BY <1>0, <2>0, <2>1, <2>2, UgenLaisse DEF Laisse, Ug!TypeUgen
  <2>3. CASE c = d
    <3>1. v1[c] = Rien /\ v1'[c] = Ug!Noeud(p, 0)
      BY <1>0, <2>3 DEF Ug!TypeUgen
    <3> QED BY <2>0, <2>1, <2>3, <3>1, UgenLibre DEF Ug!Descripteur, Ug!Tenu
  <2> QED BY <2>2, <2>3
<1>4. Ug!Signales' /\ Ug!RequeteJuste' /\ Ug!ConfigurationJuste'
  BY <1>0, <1>1 DEF Ug!Signales, Ug!RequeteJuste, Ug!ConfigurationJuste
<1>5. ASSUME NEW q \in Ug!P PROVE Ug!Appareil(q)'
  <2>1. CASE q = p
    BY <1>0, <1>1, <2>1 DEF Ug!Appareil, Ug!TypeUgen
  <2>2. CASE q # p
    BY <1>1, <2>2 DEF Ug!Appareil, Ug!TypeUgen
  <2> QED BY <2>1, <2>2
<1>6. ASSUME NEW t \in TBsd PROVE Ug!Transport(t)'
  BY <1>0, <1>1 DEF Ug!Transport, Ug!Acces, Ug!ParBus, Ug!Ouvert, Ug!TypeUgen
<1> QED BY <1>2, <1>3, <1>4, <1>5, <1>6


(* libusb_close does, when it closes the descriptor that the handle has.   *)
LEMMA UgenFerme ==
    ASSUME Ug!Hypotheses, Ug!Inductif, NEW p \in Ug!P, NEW S, Ug!libusb_close(p, S),
           S = IF v4[p].devname THEN {v4[p].fd} ELSE {}
    PROVE  Ug!Inductif'
<1> USE UgenConstantes DEF Ug!Inductif, Ug!libusb_close, Ug!transferts
<1> DEFINE o == [v4 EXCEPT ![p].fd = IF S = {} THEN @ ELSE -1]
<1>0. /\ v7[p] /\ v4[p] # Rien /\ v4[p] \in Ug!Objets
      /\ S # {} <=> v4[p].fd >= 0
      /\ \A c \in Ug!Fd : c \in S <=> c = v4[p].fd
  BY DEF Ug!Appareil, Ug!TypeUgen, Ug!Objets
<1>1. /\ o[p] \in Ug!Objets /\ o[p].fd = -1
      /\ o \in [Ug!P -> Ug!Objets \cup {Rien}]
      /\ \A q \in Ug!P : q # p => o[q] = v4[q]
      /\ o[p].cdesc = v4[p].cdesc
  <2>1. v4[p].fd \in Ug!Fd \cup {-1}
    BY <1>0 DEF Ug!Objets
  <2> QED BY <1>0, <2>1 DEF Ug!TypeUgen, Ug!Objets
<1>2. /\ v4' \in [Ug!P -> Ug!Objets \cup {Rien}]
      /\ \A q \in Ug!P : v4'[q] \in {o[q], Rien}
      /\ \A q \in Ug!P : v7'[q] \/ (v6 # Rien /\ q \in Ug!ToSet(v6)) => v4'[q] = o[q]
  BY <1>1 DEF Ug!Vivants
<1> HIDE DEF o
<1>3. Ug!TypeUgen'
  <2>1. 0 \notin S
    BY <1>0, UgenEntree DEF Ug!Ouvert
  <2>2. v1' \in [Ug!Fd -> Ug!Noeuds \cup {<<"entree">>, Rien}] /\ v1'[0] = <<"entree">>
    BY <2>1 DEF Ug!TypeUgen, Ug!Sans
  <2>3. v4' \in [Ug!P -> Ug!Objets \cup {Rien}] /\ v7' \in [Ug!P -> BOOLEAN]
    BY <1>2 DEF Ug!TypeUgen
  <2> QED BY <2>2, <2>3 DEF Ug!TypeUgen
<1>4. \A q \in Ug!P, c \in Ug!Fd : Ug!Ouvert(q, c)' <=> q # p /\ Ug!Ouvert(q, c)
  <2>1. ASSUME NEW c \in Ug!Fd PROVE ~Ug!Ouvert(p, c)'
    <3>1. v4'[p] = Rien \/ v4'[p].fd = -1
      BY <1>1, <1>2
    <3> QED BY <3>1 DEF Ug!Ouvert
  <2>2. ASSUME NEW q \in Ug!P, NEW c \in Ug!Fd, q # p PROVE Ug!Ouvert(q, c)' <=> Ug!Ouvert(q, c)
    <3>1. v7'[q] = v7[q] /\ o[q] = v4[q]
      BY <1>1, <2>2 DEF Ug!TypeUgen
    <3>2. CASE v7[q]
      <4>1. v4'[q] = v4[q]
        BY <1>2, <3>1, <3>2
      <4> QED BY <4>1 DEF Ug!Ouvert
    <3>3. CASE ~v7[q]
      <4>1. v4[q] # Rien => ~(v4[q].fd >= 0)
        BY <3>3 DEF Ug!Appareil
      <4>2. v4'[q] \in {v4[q], Rien}
        BY <1>2, <3>1
      <4> QED BY <4>1, <4>2 DEF Ug!Ouvert
    <3> QED BY <3>2, <3>3
  <2> QED BY <2>1, <2>2
<1>5. ASSUME NEW c \in Ug!Fd PROVE Ug!Descripteur(c)'
  <2>1. /\ \A q \in Ug!P, e \in EBsd : Ug!Acces(q, e, c)' <=> Ug!Acces(q, e, c)
        /\ \A t \in TBsd : Ug!ParBus(t, c)' <=> Ug!ParBus(t, c)
    BY DEF Ug!Acces, Ug!ParBus
  <2>2. CASE c \notin S
    <3>1. ~Ug!Ouvert(p, c) /\ v1'[c] = v1[c]
      BY <1>0, <2>2 DEF Ug!Ouvert, Ug!Sans
    <3> QED BY <1>4, <2>1, <3>1, UgenLaisse DEF Laisse
  <2>3. CASE c \in S
    <3>1. Ug!Ouvert(p, c) /\ v1'[c] = Rien /\ v1[c] = Ug!Noeud(p, 0)
      BY <1>0, <2>3 DEF Ug!Ouvert, Ug!Sans, Ug!Descripteur
    <3>2. \A q \in Ug!P : ~Ug!Ouvert(q, c)'
      BY <1>4, <3>1, UgenNoeuds DEF Ug!Descripteur
    <3>3. \A q \in Ug!P, e \in EBsd : ~Ug!Acces(q, e, c)
      BY <3>1, UgenNoeuds DEF Ug!Descripteur
    <3>4. (\A t \in TBsd : ~Ug!ParBus(t, c)) /\ c \notin v2
      BY <3>1, UgenNoeuds DEF Ug!Descripteur
    <3> QED BY <2>1, <3>1, <3>2, <3>3, <3>4 DEF Ug!Descripteur, Ug!Tenu
  <2> QED BY <2>2, <2>3
<1>6. Ug!Signales' /\ Ug!RequeteJuste' /\ Ug!ConfigurationJuste'
  <2>1. ASSUME NEW q \in Ug!P, v4'[q] # Rien PROVE v4[q] # Rien /\ v4'[q].cdesc = v4[q].cdesc
    <3>1. v4'[q] = o[q]
      BY <1>2, <2>1
    <3> QED BY <1>0, <1>1, <2>1, <3>1
  <2> QED BY <2>1 DEF Ug!Signales, Ug!RequeteJuste, Ug!ConfigurationJuste
<1>7. ASSUME NEW q \in Ug!P PROVE Ug!Appareil(q)'
  <2>1. CASE q = p
    <3>1. ~v7'[p] /\ v8'[p] = {}
      BY DEF Ug!TypeUgen
    <3>2. v4'[p] = Rien \/ v4'[p].fd = -1
      BY <1>1, <1>2
    <3>3. v6 # Rien /\ p \in Ug!ToSet(v6) => v4'[p] = o[p]
      BY <1>2
    <3>4. o[p] # Rien
      BY <1>1
    <3> QED BY <2>1, <3>1, <3>2, <3>3, <3>4 DEF Ug!Appareil
  <2>2. CASE q # p
    <3>1. v7'[q] = v7[q] /\ o[q] = v4[q]
      BY <1>1, <2>2 DEF Ug!TypeUgen
    <3>2. v4'[q] \in {v4[q], Rien}
      BY <1>2, <3>1
    <3>3. v7[q] \/ (v6 # Rien /\ q \in Ug!ToSet(v6)) => v4'[q] = v4[q]
      BY <1>2, <3>1
    <3> QED BY <3>1, <3>2, <3>3 DEF Ug!Appareil
  <2> QED BY <2>1, <2>2
<1>8. ASSUME NEW t \in TBsd PROVE Ug!Transport(t)'
  <2> SUFFICES ASSUME v10[t] = "noyau" PROVE Ug!Transport(t)'
    BY DEF Ug!Transport
  <2>1. DeBsd[t].p \in Ug!P /\ DeBsd[t].p # p /\ v7'[DeBsd[t].p] = v7[DeBsd[t].p]
    BY DEF Ug!EnVol, Ug!TypeUgen
  <2> QED BY <1>4, <2>1 DEF Ug!Transport, Ug!Acces, Ug!ParBus
<1> QED BY <1>3, <1>5, <1>6, <1>7, <1>8

(* A claim and a release. *)
LEMMA UgenReclame ==
    ASSUME Ug!Hypotheses, Ug!Inductif, NEW p \in Ug!P, NEW i \in Ug!I, Ug!Reclame(p, i, [e \in EBsd |-> -1])
    PROVE  Ug!Inductif'
<1> USE UgenConstantes DEF Ug!Inductif, Ug!Reclame, Ug!fichiers, Ug!objets, Ug!transferts
<1>1. Ug!TypeUgen'
  BY DEF Ug!TypeUgen
<1>2. \A q \in Ug!P, e \in EBsd, c \in Ug!Fd : Ug!Acces(q, e, c)' <=> Ug!Acces(q, e, c)
  <2>1. ASSUME NEW q \in Ug!P, NEW e \in EBsd, NEW c \in Ug!Fd, q = p
        PROVE  ~Ug!Acces(q, e, c) /\ ~Ug!Acces(q, e, c)'
    BY <2>1 DEF Ug!Acces, Ug!TypeUgen
  <2>2. ASSUME NEW q \in Ug!P, NEW e \in EBsd, NEW c \in Ug!Fd, q # p
        PROVE  Ug!Acces(q, e, c)' <=> Ug!Acces(q, e, c)
    BY <2>2 DEF Ug!Acces, Ug!TypeUgen
  <2> QED BY <2>1, <2>2
<1>3. ASSUME NEW d \in Ug!Fd PROVE Ug!Descripteur(d)'
  BY <1>2, UgenLaisse DEF Laisse, Ug!Ouvert, Ug!ParBus
<1>4. Ug!Signales' /\ Ug!RequeteJuste' /\ Ug!ConfigurationJuste'
  BY DEF Ug!Signales, Ug!RequeteJuste, Ug!ConfigurationJuste
<1>5. ASSUME NEW q \in Ug!P PROVE Ug!Appareil(q)'
  BY DEF Ug!Appareil, Ug!TypeUgen
<1>6. ASSUME NEW t \in TBsd PROVE Ug!Transport(t)'
  BY <1>2 DEF Ug!Transport, Ug!Ouvert, Ug!ParBus
<1> QED BY <1>1, <1>3, <1>4, <1>5, <1>6

(* A release that closes the endpoints' descriptors does.                  *)
LEMMA UgenRelache ==
    ASSUME Ug!Hypotheses, Ug!Inductif, NEW p \in Ug!P, NEW i \in Ug!I, Ug!Relache(p, i, Ug!Fermes(p))
    PROVE  Ug!Inductif'
<1> USE UgenConstantes DEF Ug!Inductif, Ug!Relache, Ug!objets, Ug!transferts
<1>0. v8[p] # {} /\ v7[p]
  BY DEF Ug!Appareil
<1>1. Ug!TypeUgen'
  <2>1. \A e \in EBsd : ~Ug!Acces(p, e, 0)
    BY UgenEntree
  <2>2. 0 \notin Ug!Fermes(p)
    BY <1>0, <2>1 DEF Ug!Fermes, Ug!Acces
  <2> QED BY <2>2 DEF Ug!TypeUgen, Ug!Sans
<1>2. /\ \A e \in EBsd, c \in Ug!Fd : ~Ug!Acces(p, e, c)'
      /\ \A q \in Ug!P, e \in EBsd, c \in Ug!Fd : q # p => (Ug!Acces(q, e, c)' <=> Ug!Acces(q, e, c))
      /\ \A c \in Ug!Fd : c \in Ug!Fermes(p) <=> \E e \in EBsd : Ug!Acces(p, e, c)
  <2>1. ASSUME NEW c \in Ug!Fd PROVE c \in Ug!Fermes(p) <=> \E e \in EBsd : Ug!Acces(p, e, c)
    BY <1>0 DEF Ug!Fermes, Ug!Acces
  <2> QED BY <2>1 DEF Ug!Acces, Ug!TypeUgen
<1>3. ASSUME NEW c \in Ug!Fd PROVE Ug!Descripteur(c)'
  <2>1. /\ \A q \in Ug!P : Ug!Ouvert(q, c)' <=> Ug!Ouvert(q, c)
        /\ \A t \in TBsd : Ug!ParBus(t, c)' <=> Ug!ParBus(t, c)
    BY DEF Ug!Ouvert, Ug!ParBus
  <2>2. CASE c \notin Ug!Fermes(p)
    <3>1. (\A e \in EBsd : ~Ug!Acces(p, e, c)) /\ v1'[c] = v1[c]
      BY <1>2, <2>2 DEF Ug!Sans
    <3> QED BY <1>2, <2>1, <3>1, UgenLaisse DEF Laisse
  <2>3. CASE c \in Ug!Fermes(p)
    <3>1. PICK e \in EBsd : Ug!Acces(p, e, c)
      BY <1>2, <2>3
    <3>2. v1'[c] = Rien /\ v1[c] = Ug!Noeud(p, e)
      BY <2>3, <3>1 DEF Ug!Sans, Ug!Descripteur
    <3>3. \A q \in Ug!P, f \in EBsd : Ug!Acces(q, f, c) => q = p
      BY <3>2, UgenNoeuds DEF Ug!Descripteur
    <3>4. /\ \A q \in Ug!P : ~Ug!Ouvert(q, c)
          /\ \A t \in TBsd : ~Ug!ParBus(t, c)
          /\ c \notin v2
      BY <3>2, UgenNoeuds DEF Ug!Descripteur
    <3> QED BY <1>2, <2>1, <3>2, <3>3, <3>4 DEF Ug!Descripteur, Ug!Tenu
  <2> QED BY <2>2, <2>3
<1>4. Ug!Signales' /\ Ug!RequeteJuste' /\ Ug!ConfigurationJuste'
  BY DEF Ug!Signales, Ug!RequeteJuste, Ug!ConfigurationJuste
<1>5. ASSUME NEW q \in Ug!P PROVE Ug!Appareil(q)'
  BY DEF Ug!Appareil, Ug!TypeUgen
<1>6. ASSUME NEW t \in TBsd PROVE Ug!Transport(t)'
  <2> SUFFICES ASSUME v10[t] = "noyau" PROVE Ug!Transport(t)'
    BY DEF Ug!Transport
  <2>1. DeBsd[t].ep = 0 \/ DeBsd[t].p # p
    BY DEF Ug!EnVol
  <2> QED BY <1>2, <2>1 DEF Ug!Transport, Ug!Ouvert, Ug!ParBus
<1> QED BY <1>1, <1>3, <1>4, <1>5, <1>6

(* So does a request that reaches its device.                              *)
LEMMA UgenRequete ==
    ASSUME Ug!Inductif, NEW p \in Ug!P, NEW n, Ug!Requete(p, n), n \in {Ug!Noeud(p, 0), Ug!Bus}
    PROVE  Ug!Inductif'
<1> USE DEF Ug!Inductif, Ug!Requete, Ug!Demande, Ug!fichiers, Ug!objets, Ug!prises, Ug!transferts
<1>1. Ug!TypeUgen'
  BY DEF Ug!TypeUgen
<1>3. ASSUME NEW d \in Ug!Fd PROVE Ug!Descripteur(d)'
  BY UgenLaisse DEF Laisse, Ug!Ouvert, Ug!ParBus, Ug!Acces
<1>4. Ug!Signales' /\ Ug!RequeteJuste' /\ Ug!ConfigurationJuste'
  BY DEF Ug!Signales, Ug!RequeteJuste, Ug!ConfigurationJuste
<1>5. ASSUME NEW q \in Ug!P PROVE Ug!Appareil(q)'
  BY DEF Ug!Appareil
<1>6. ASSUME NEW t \in TBsd PROVE Ug!Transport(t)'
  BY DEF Ug!Transport, Ug!Ouvert, Ug!ParBus, Ug!Acces
<1> QED BY <1>1, <1>3, <1>4, <1>5, <1>6


(* The end of a transfer keeps the invariant, ...                          *)
LEMMA UgenTermine ==
    ASSUME Ug!Hypotheses, Ug!Inductif, Ug!handle_transfer_completion
    PROVE  Ug!Inductif'
<1> USE UgenConstantes DEF Ug!Inductif, Ug!handle_transfer_completion, Ug!fichiers, Ug!objets, Ug!prises
<1> DEFINE t == Head(v12)
<1>0. /\ v12 \in Seq(TBsd) /\ v12 # <<>>
      /\ t \in TBsd /\ v10[t] = "signale" /\ t = v12[1]
      /\ Len(v12') = Len(v12) - 1
      /\ v12' \in Seq(TBsd)
      /\ \A i \in DOMAIN v12' :
            i + 1 \in DOMAIN v12 /\ v12'[i] = v12[i + 1] /\ i \in Nat /\ i > 0
  BY DEF Ug!TypeUgen, Ug!Signales
<1> HIDE DEF t
<1>1. Ug!TypeUgen'
  BY <1>0 DEF Ug!TypeUgen, t
<1>2. \A u \in TBsd : v10'[u] = "noyau" <=> v10[u] = "noyau"
  BY <1>0 DEF Ug!TypeUgen, t
<1>3. ASSUME NEW d \in Ug!Fd PROVE Ug!Descripteur(d)'
  BY <1>2, UgenLaisse DEF Laisse, Ug!Ouvert, Ug!ParBus, Ug!Acces
<1>4. Ug!Signales'
  <2>1. ASSUME NEW i \in DOMAIN v12' PROVE v10'[v12'[i]] = "signale"
    <3>0. i + 1 \in DOMAIN v12 /\ 1 \in DOMAIN v12 /\ i + 1 # 1
      BY <1>0
    <3>1. v12[i + 1] \in TBsd /\ v12[i + 1] # t
      BY <1>0, <3>0 DEF Ug!Signales
    <3> QED BY <1>0, <3>1 DEF Ug!Signales, Ug!TypeUgen, t
  <2>2. ASSUME NEW i \in DOMAIN v12', NEW j \in DOMAIN v12',
               v12'[i] = v12'[j]
        PROVE  i = j
    BY <1>0, <2>2 DEF Ug!Signales
  <2> QED BY <2>1, <2>2 DEF Ug!Signales
<1>5. Ug!RequeteJuste' /\ Ug!ConfigurationJuste'
  BY DEF Ug!RequeteJuste, Ug!ConfigurationJuste
<1>6. ASSUME NEW q \in Ug!P PROVE Ug!Appareil(q)'
  BY DEF Ug!Appareil
<1>7. ASSUME NEW u \in TBsd PROVE Ug!Transport(u)'
  BY <1>2 DEF Ug!Transport, Ug!Ouvert, Ug!ParBus, Ug!Acces
<1> QED BY <1>1, <1>3, <1>4, <1>5, <1>6, <1>7

(* ... and the answer to one, when it closes the bus it was sent on.       *)
LEMMA UgenRepond ==
    ASSUME Ug!Hypotheses, Ug!Inductif, NEW t \in TBsd, NEW S, Ug!Repond(t, S),
           S = IF v11[t].noeud = Ug!Bus THEN {v11[t].fd} ELSE {}
    PROVE  Ug!Inductif'
<1> USE UgenConstantes DEF Ug!Inductif, Ug!Repond, Ug!objets, Ug!prises
<1>0. \A c : c \in S <=> Ug!ParBus(t, c)
  <2>1. v11[t] \in [fd : Ug!Fd \cup {-1}, noeud : Ug!Noeuds \cup {<<"entree">>, Rien}]
    BY DEF Ug!TypeUgen
  <2>2. Ug!Transport(t) /\ DeBsd[t].p \in Ug!P
    OBVIOUS
  <2>3. \A c : Ug!ParBus(t, c) => v11[t].noeud = Ug!Bus /\ v11[t].fd = c
    BY DEF Ug!ParBus
  <2>4. v11[t].noeud = Ug!Bus => Ug!ParBus(t, v11[t].fd)
    BY <2>2, UgenNoeuds DEF Ug!Transport
  <2> QED BY <2>3, <2>4
<1>1. /\ v10' \in [TBsd -> {"libre", "noyau", "signale"}]
      /\ \A u \in TBsd : v10'[u] = "noyau" <=> u # t /\ v10[u] = "noyau"
      /\ \A u \in TBsd : u # t => v10'[u] = v10[u] /\ v11'[u] = v11[u]
  BY DEF Ug!TypeUgen
<1>2. Ug!TypeUgen'
  <2>1. v1' \in [Ug!Fd -> Ug!Noeuds \cup {<<"entree">>, Rien}] /\ v1'[0] = <<"entree">>
    BY <1>0, UgenEntree DEF Ug!TypeUgen, Ug!Sans
  <2>2. v12' \in Seq(TBsd)
    <3>1. v12 \in Seq(TBsd) /\ Append(v12, t) \in Seq(TBsd)
      BY DEF Ug!TypeUgen
    <3> QED BY <3>1
  <2>3. v11' \in [TBsd -> [fd : Ug!Fd \cup {-1}, noeud : Ug!Noeuds \cup {<<"entree">>, Rien}]]
    BY DEF Ug!TypeUgen, Ug!Aucun
  <2> QED BY <1>1, <2>1, <2>2, <2>3 DEF Ug!TypeUgen
<1>3. \A u \in TBsd, c \in Ug!Fd : Ug!ParBus(u, c)' <=> u # t /\ Ug!ParBus(u, c)
  BY <1>1 DEF Ug!ParBus
<1>4. ASSUME NEW c \in Ug!Fd PROVE Ug!Descripteur(c)'
  <2>1. /\ \A q \in Ug!P : Ug!Ouvert(q, c)' <=> Ug!Ouvert(q, c)
        /\ \A q \in Ug!P, e \in EBsd : Ug!Acces(q, e, c)' <=> Ug!Acces(q, e, c)
    BY DEF Ug!Ouvert, Ug!Acces
  <2>2. CASE c \notin S
    <3>1. ~Ug!ParBus(t, c) /\ v1'[c] = v1[c]
      BY <1>0, <2>2 DEF Ug!Sans
    <3> QED BY <1>3, <2>1, <3>1, UgenLaisse DEF Laisse
  <2>3. CASE c \in S
    <3>1. Ug!ParBus(t, c) /\ v1'[c] = Rien
      BY <1>0, <2>3 DEF Ug!Sans
    <3>2. v1[c] = Ug!Bus /\ c \notin v2 /\ \A u \in TBsd : Ug!ParBus(u, c) => u = t
      BY <3>1 DEF Ug!Descripteur
    <3>3. /\ \A q \in Ug!P : ~Ug!Ouvert(q, c)
          /\ \A q \in Ug!P, e \in EBsd : ~Ug!Acces(q, e, c)
      BY <3>2, UgenNoeuds DEF Ug!Descripteur
    <3> QED BY <1>3, <2>1, <3>1, <3>2, <3>3 DEF Ug!Descripteur, Ug!Tenu
  <2> QED BY <2>2, <2>3
<1>5. Ug!Signales'
  <2>0. v12 \in Seq(TBsd) /\ \A i \in DOMAIN v12 : v12[i] \in TBsd /\ v12[i] # t
    BY DEF Ug!TypeUgen, Ug!Signales
  <2>1. CASE UNCHANGED v12
    BY <1>1, <2>0, <2>1 DEF Ug!Signales
  <2>2. CASE v12' = Append(v12, t) /\ v10' = [v10 EXCEPT ![t] = "signale"]
    <3>1. v10'[t] = "signale"
      BY <2>2 DEF Ug!TypeUgen
    <3>2. \A i \in DOMAIN v12' :
             \/ i \in DOMAIN v12 /\ v12'[i] = v12[i]
             \/ i = Len(v12) + 1 /\ v12'[i] = t
      BY <2>0, <2>2
    <3>3. ASSUME NEW i \in DOMAIN v12' PROVE v10'[v12'[i]] = "signale"
      BY <1>1, <2>0, <3>1, <3>2 DEF Ug!Signales
    <3>4. ASSUME NEW i \in DOMAIN v12', NEW j \in DOMAIN v12',
                 v12'[i] = v12'[j]
          PROVE  i = j
      BY <2>0, <3>2, <3>4 DEF Ug!Signales
    <3> QED BY <3>3, <3>4 DEF Ug!Signales
  <2> QED BY <2>1, <2>2
<1>6. Ug!RequeteJuste' /\ Ug!ConfigurationJuste'
  BY DEF Ug!RequeteJuste, Ug!ConfigurationJuste
<1>7. ASSUME NEW q \in Ug!P PROVE Ug!Appareil(q)'
  BY DEF Ug!Appareil
<1>8. ASSUME NEW u \in TBsd PROVE Ug!Transport(u)'
  BY <1>1 DEF Ug!Transport, Ug!Ouvert, Ug!ParBus, Ug!Acces
<1> QED BY <1>2, <1>4, <1>5, <1>6, <1>7, <1>8


(* A descriptor that is opened and that nobody will close. *)
MemesTenants(c) ==
    /\ \A p \in Ug!P : Ug!Ouvert(p, c)' <=> Ug!Ouvert(p, c)
    /\ \A p \in Ug!P, e \in EBsd : Ug!Acces(p, e, c)' <=> Ug!Acces(p, e, c)
    /\ \A t \in TBsd : Ug!ParBus(t, c)' <=> Ug!ParBus(t, c)

(* A descriptor that is opened and lost disturbs no other, ...             *)
LEMMA UgenPerd ==
    ASSUME Ug!Hypotheses, Ug!Inductif, NEW d \in Ug!Fd \ {0}, v1[d] = Rien, NEW n \in {Ug!Bus, Ug!Perdu},
           v1' = [v1 EXCEPT ![d] = n], v2 = {}, v2' = {d},
           NEW c \in Ug!Fd, MemesTenants(c)
    PROVE  Ug!Descripteur(c)'
<1> USE DEF Ug!Inductif
<1>1. CASE c # d
  BY <1>1, UgenLaisse DEF Laisse, MemesTenants, Ug!TypeUgen
<1>2. CASE c = d
  <2>1. v1'[c] = n
    BY <1>2 DEF Ug!TypeUgen
  <2>2. /\ \A q \in Ug!P : ~Ug!Ouvert(q, c)'
        /\ \A q \in Ug!P, e \in EBsd : ~Ug!Acces(q, e, c)'
        /\ \A t \in TBsd : ~Ug!ParBus(t, c)'
    BY <1>2, UgenLibre DEF MemesTenants
  <2> QED BY <1>2, <2>1, <2>2 DEF Ug!Descripteur, Ug!Tenu
<1> QED BY <1>1, <1>2

(* ... nor the types.                                                      *)
LEMMA UgenPerdType ==
    ASSUME Ug!Hypotheses, Ug!TypeUgen, NEW d \in Ug!Fd \ {0}, NEW n \in {Ug!Bus, Ug!Perdu},
           v1' = [v1 EXCEPT ![d] = n], v2' = {d}
    PROVE  /\ v1' \in [Ug!Fd -> Ug!Noeuds \cup {<<"entree">>, Rien}] /\ v1'[0] = <<"entree">>
           /\ v2' \in SUBSET (Ug!Fd \ {0})
BY UgenNoeuds DEF Ug!TypeUgen

(* A configuration is set. *)
LEMMA UgenConfiguration ==
    ASSUME Ug!Hypotheses, Ug!Inductif, NEW p \in Ug!P, NEW c \in 1..NCBsd, v7[p], v4[p].devname,
           Ug!Demande(p, v1[v4[p].fd]), v3' = [v3 EXCEPT ![p] = c],
           \/ v4' = [v4 EXCEPT ![p].cdesc = v3'[p]] /\ v5' = v5 \ {p}
           \/ v5' = v5 \cup {p} /\ UNCHANGED v4,
           \/ UNCHANGED Ug!fichiers
           \/ Ug!Ouvrable /\ v2 = {} /\ v2' = {Ug!Bas} /\ v1' = Ug!Ouvre(Ug!Bus),
           UNCHANGED <<v6, Ug!prises, Ug!transferts>>
    PROVE  Ug!Inductif'
<1> USE UgenConstantes DEF Ug!Inductif, Ug!Demande, Ug!fichiers, Ug!prises, Ug!transferts
<1>0. /\ v4[p] # Rien /\ v4[p] \in Ug!Objets
      /\ v4[p].fd \in Ug!Fd /\ v1[v4[p].fd] = Ug!Noeud(p, 0)
  <2>1. v4[p] # Rien /\ v4[p] \in Ug!Objets /\ v4[p].fd >= 0 /\ v4[p].fd \in Ug!Fd \cup {-1}
    BY DEF Ug!Appareil, Ug!TypeUgen, Ug!Objets
  <2>2. v4[p].fd \in Ug!Fd /\ Ug!Ouvert(p, v4[p].fd)
    BY <2>1 DEF Ug!Ouvert
  <2> QED BY <2>1, <2>2 DEF Ug!Descripteur
<1> DEFINE r == [v4[p] EXCEPT !.cdesc = v3'[p]]
<1>1. /\ r \in Ug!Objets /\ r # Rien /\ r.fd = v4[p].fd /\ r.devname = v4[p].devname /\ r.cdesc = v3'[p]
  <2>1. v3'[p] \in 1..NCBsd
    BY DEF Ug!TypeUgen
  <2> QED BY <1>0, <2>1 DEF Ug!Objets
<1> HIDE DEF r
<1>9. /\ v4' \in [Ug!P -> Ug!Objets \cup {Rien}]
      /\ \A q \in Ug!P : q # p => v4'[q] = v4[q]
      /\ \/ v4'[p] = v4[p] /\ v5' = v5 \cup {p}
         \/ v4'[p] = r /\ v5' = v5 \ {p}
  <2>1. CASE UNCHANGED v4 /\ v5' = v5 \cup {p}
    <3>1. v4 \in [Ug!P -> Ug!Objets \cup {Rien}]
      BY DEF Ug!TypeUgen
    <3>2. v4' \in [Ug!P -> Ug!Objets \cup {Rien}]
      BY <2>1, <3>1
    <3> QED BY <2>1, <3>2
  <2>2. CASE v4' = [v4 EXCEPT ![p].cdesc = v3'[p]] /\ v5' = v5 \ {p}
    <3>1. v4 \in [Ug!P -> Ug!Objets \cup {Rien}]
      BY DEF Ug!TypeUgen
    <3>2. v4'[p] = r /\ \A q \in Ug!P : q # p => v4'[q] = v4[q]
      BY <2>2, <3>1 DEF r
    <3>3. v4' \in [Ug!P -> Ug!Objets \cup {Rien}]
      BY <1>1, <2>2, <3>1, <3>2
    <3> QED BY <2>2, <3>2, <3>3
  <2> QED BY <2>1, <2>2
<1>10. \A q \in Ug!P, d \in Ug!Fd : Ug!Ouvert(q, d)' <=> Ug!Ouvert(q, d)
  BY <1>0, <1>1, <1>9 DEF Ug!Ouvert
<1>2. Ug!TypeUgen'
  <2>1. /\ v1' \in [Ug!Fd -> Ug!Noeuds \cup {<<"entree">>, Rien}] /\ v1'[0] = <<"entree">>
        /\ v2' \in SUBSET (Ug!Fd \ {0})
    <3>1. CASE UNCHANGED Ug!fichiers
      BY <3>1 DEF Ug!TypeUgen
    <3>2. CASE Ug!Ouvrable /\ v2 = {} /\ v2' = {Ug!Bas} /\ v1' = Ug!Ouvre(Ug!Bus)
      BY <3>2, UgenBas, UgenPerdType DEF Ug!Ouvre
    <3> QED BY <3>1, <3>2
  <2> QED BY <1>9, <2>1 DEF Ug!TypeUgen
<1>3. ASSUME NEW d \in Ug!Fd PROVE Ug!Descripteur(d)'
  <2>1. MemesTenants(d)
    BY <1>10 DEF MemesTenants, Ug!Acces, Ug!ParBus
  <2>2. CASE UNCHANGED Ug!fichiers
    BY <2>1, <2>2, UgenLaisse DEF Laisse, MemesTenants
  <2>3. CASE Ug!Ouvrable /\ v2 = {} /\ v2' = {Ug!Bas} /\ v1' = Ug!Ouvre(Ug!Bus)
    BY <2>1, <2>3, UgenBas, UgenPerd DEF Ug!Ouvre
  <2> QED BY <2>2, <2>3
<1>4. Ug!Signales' /\ Ug!RequeteJuste'
  BY <1>0 DEF Ug!Signales, Ug!RequeteJuste
<1>5. Ug!ConfigurationJuste'
  <2>1. ASSUME NEW q \in Ug!P, v4'[q] # Rien, q \notin v5' PROVE v4'[q].cdesc = v3'[q]
    <3>1. CASE q # p
      <4>1. v3'[q] = v3[q] /\ q \notin v5
        BY <2>1, <3>1 DEF Ug!TypeUgen
      <4> QED BY <1>9, <2>1, <3>1, <4>1 DEF Ug!ConfigurationJuste
    <3>2. CASE q = p
      <4>1. v4'[p] = r
        BY <1>9, <2>1, <3>2
      <4> QED BY <1>1, <3>2, <4>1
    <3> QED BY <3>1, <3>2
  <2> QED BY <2>1 DEF Ug!ConfigurationJuste
<1>6. ASSUME NEW q \in Ug!P PROVE Ug!Appareil(q)'
  <2>1. CASE q = p
    BY <1>0, <1>1, <1>9, <2>1 DEF Ug!Appareil
  <2>2. CASE q # p
    BY <1>9, <2>2 DEF Ug!Appareil
  <2> QED BY <2>1, <2>2
<1>7. ASSUME NEW t \in TBsd PROVE Ug!Transport(t)'
  BY <1>10 DEF Ug!Transport, Ug!ParBus, Ug!Acces
<1> QED BY <1>2, <1>3, <1>4, <1>5, <1>6, <1>7

(* A list is made: objects for devices that had none. *)
LEMMA UgenEnumere ==
    ASSUME Ug!Hypotheses, Ug!Inductif, NEW S, NEW n \in [Ug!P -> BOOLEAN], NEW M \in BOOLEAN,
           v6' = (IF M THEN Rien ELSE S),
           v4' = [p \in Ug!P |-> IF v4[p] = Rien /\ p \in Ug!ToSet(S)
                                 THEN [fd |-> -1, devname |-> n[p], cdesc |-> v3[p]] ELSE v4[p]],
           v5' = {p \in v5 : v4[p] # Rien},
           \/ UNCHANGED Ug!fichiers
           \/ \E d \in Ug!Fd \ {0}, m \in {Ug!Bus, Ug!Perdu} :
                v1[d] = Rien /\ v2 = {} /\ v2' = {d} /\ v1' = [v1 EXCEPT ![d] = m],
           UNCHANGED <<v3, Ug!prises, Ug!transferts, v13>>
    PROVE  Ug!Inductif'
<1> USE UgenConstantes DEF Ug!Inductif, Ug!fichiers, Ug!prises, Ug!transferts
<1>1. /\ v4' \in [Ug!P -> Ug!Objets \cup {Rien}]
      /\ \A p \in Ug!P : v4[p] # Rien => v4'[p] = v4[p]
      /\ \A p \in Ug!P : v4[p] = Rien /\ v4'[p] # Rien =>
            v4'[p].fd = -1 /\ v4'[p].cdesc = v3[p]
      /\ \A p \in Ug!P : p \in Ug!ToSet(S) => v4'[p] # Rien
  <2>1. ASSUME NEW p \in Ug!P PROVE [fd |-> -1, devname |-> n[p], cdesc |-> v3[p]] \in Ug!Objets
    BY DEF Ug!TypeUgen, Ug!Objets
  <2> QED BY <2>1 DEF Ug!TypeUgen
<1>2. Ug!TypeUgen'
  <2>1. /\ v1' \in [Ug!Fd -> Ug!Noeuds \cup {<<"entree">>, Rien}] /\ v1'[0] = <<"entree">>
        /\ v2' \in SUBSET (Ug!Fd \ {0})
    <3>1. CASE UNCHANGED Ug!fichiers
      BY <3>1 DEF Ug!TypeUgen
    <3>2. CASE \E d \in Ug!Fd \ {0}, m \in {Ug!Bus, Ug!Perdu} : v2' = {d} /\ v1' = [v1 EXCEPT ![d] = m]
      BY <3>2, UgenPerdType
    <3> QED BY <3>1, <3>2
  <2> QED BY <1>1, <2>1 DEF Ug!TypeUgen
<1>3. \A p \in Ug!P, d \in Ug!Fd : Ug!Ouvert(p, d)' <=> Ug!Ouvert(p, d)
  BY <1>1 DEF Ug!Ouvert
<1>4. ASSUME NEW d \in Ug!Fd PROVE Ug!Descripteur(d)'
  <2>1. MemesTenants(d)
    BY <1>3 DEF MemesTenants, Ug!Acces, Ug!ParBus
  <2>2. CASE UNCHANGED Ug!fichiers
    BY <2>1, <2>2, UgenLaisse DEF Laisse, MemesTenants
  <2>3. CASE \E c \in Ug!Fd \ {0}, m \in {Ug!Bus, Ug!Perdu} :
                v1[c] = Rien /\ v2 = {} /\ v2' = {c} /\ v1' = [v1 EXCEPT ![c] = m]
    BY <2>1, <2>3, UgenPerd
  <2> QED BY <2>2, <2>3
<1>5. Ug!Signales' /\ Ug!RequeteJuste' /\ Ug!ConfigurationJuste'
  BY <1>1 DEF Ug!Signales, Ug!RequeteJuste, Ug!ConfigurationJuste
<1>6. ASSUME NEW p \in Ug!P PROVE Ug!Appareil(p)'
  <2>1. CASE v4[p] # Rien
    BY <1>1, <2>1 DEF Ug!Appareil
  <2>2. CASE v4[p] = Rien
    <3>1. ~v7[p] /\ v8[p] = {}
      BY <2>2 DEF Ug!Appareil
    <3> QED BY <1>1, <2>2, <3>1 DEF Ug!Appareil
  <2> QED BY <2>1, <2>2
<1>7. ASSUME NEW t \in TBsd PROVE Ug!Transport(t)'
  BY <1>3 DEF Ug!Transport, Ug!ParBus, Ug!Acces
<1> QED BY <1>2, <1>4, <1>5, <1>6, <1>7


(* A transfer goes to the kernel: on the descriptor of the device or of an  *)
(* endpoint, on one that is opened for the endpoint, or on the bus.         *)
LEMMA UgenSoumet ==
    ASSUME Ug!Hypotheses, Ug!Inductif, NEW t \in TBsd, NEW d \in Ug!Fd \ {0}, NEW n,
           Ug!Soumissible(t), Ug!Soumet(t, d, n), n # Ug!Bus,
           UNCHANGED <<Ug!fichiers, v9, v3, Ug!objets, v7, v8, v13>>,
           \/ DeBsd[t].ep = 0 /\ Ug!Ouvert(DeBsd[t].p, d) /\ n = Ug!Noeud(DeBsd[t].p, 0)
           \/ DeBsd[t].ep # 0 /\ Ug!Acces(DeBsd[t].p, DeBsd[t].ep, d) /\ n = Ug!Noeud(DeBsd[t].p, DeBsd[t].ep)
    PROVE  Ug!Inductif'
<1> USE UgenConstantes DEF Ug!Inductif, Ug!Soumissible, Ug!Soumet, Ug!fichiers, Ug!objets
<1>0. n \in Ug!Noeuds
  BY UgenNoeuds
<1>1. /\ \A u \in TBsd : u # t => v10'[u] = v10[u] /\ v11'[u] = v11[u]
      /\ v10'[t] = "noyau" /\ v11'[t] = [fd |-> d, noeud |-> n]
  BY DEF Ug!TypeUgen
<1>2. Ug!TypeUgen'
  BY <1>0 DEF Ug!TypeUgen
<1>3. \A u \in TBsd, c \in Ug!Fd : Ug!ParBus(u, c)' <=> Ug!ParBus(u, c)
  <2>1. \A c : v11'[t] # [fd |-> c, noeud |-> Ug!Bus]
    BY <1>1
  <2> QED BY <1>1, <2>1 DEF Ug!ParBus
<1>4. ASSUME NEW c \in Ug!Fd PROVE Ug!Descripteur(c)'
  BY <1>3, UgenLaisse DEF Laisse, Ug!Ouvert, Ug!Acces
<1>5. Ug!Signales'
  <2>1. \A i \in DOMAIN v12 : v12[i] \in TBsd /\ v12[i] # t
    BY DEF Ug!TypeUgen, Ug!Signales
  <2> QED BY <1>1, <2>1 DEF Ug!Signales
<1>6. Ug!RequeteJuste' /\ Ug!ConfigurationJuste'
  BY DEF Ug!RequeteJuste, Ug!ConfigurationJuste
<1>7. ASSUME NEW q \in Ug!P PROVE Ug!Appareil(q)'
  BY DEF Ug!Appareil
<1>8. ASSUME NEW u \in TBsd PROVE Ug!Transport(u)'
  <2>1. CASE u = t
    BY <1>1, <2>1 DEF Ug!Transport, Ug!Ouvert, Ug!Acces
  <2>2. CASE u # t
    BY <1>1, <2>2 DEF Ug!Transport, Ug!Ouvert, Ug!ParBus, Ug!Acces
  <2> QED BY <2>1, <2>2
<1> QED BY <1>2, <1>4, <1>5, <1>6, <1>7, <1>8

(* A submission that opens the node of its endpoint keeps the invariant,   *)
(* ...                                                                     *)
LEMMA UgenSoumetOuvre ==
    ASSUME Ug!Hypotheses, Ug!Inductif, NEW t \in TBsd, Ug!Soumissible(t), Ug!Ouvrable, DeBsd[t].ep # 0,
           v9[DeBsd[t].p][DeBsd[t].ep] < 0,
           v1' = Ug!Ouvre(Ug!Noeud(DeBsd[t].p, DeBsd[t].ep)), UNCHANGED v2,
           v9' = [v9 EXCEPT ![DeBsd[t].p][DeBsd[t].ep] = Ug!Bas],
           Ug!Soumet(t, Ug!Bas, Ug!Noeud(DeBsd[t].p, DeBsd[t].ep)),
           UNCHANGED <<v3, Ug!objets, v7, v8, v13>>
    PROVE  Ug!Inductif'
<1> USE UgenConstantes DEF Ug!Inductif, Ug!Soumissible, Ug!Soumet, Ug!objets
<1> DEFINE d == Ug!Bas
           p == DeBsd[t].p
           e == DeBsd[t].ep
           n == Ug!Noeud(p, e)
<1>0. /\ d \in Ug!Fd \ {0} /\ v1[d] = Rien /\ p \in Ug!P /\ e \in EBsd /\ v8[p] # {}
      /\ n \in Ug!Noeuds /\ n # Ug!Bus /\ n # Rien
  BY UgenBas, UgenNoeuds
<1>1. /\ v1' = [v1 EXCEPT ![d] = n] /\ v9' = [v9 EXCEPT ![p][e] = d] /\ v9[p][e] < 0
      /\ v10' = [v10 EXCEPT ![t] = "noyau"] /\ v11' = [v11 EXCEPT ![t] = [fd |-> d, noeud |-> n]]
  BY DEF Ug!Ouvre
<1>1a. v7[p]
  OBVIOUS
<1>1b. e # 0
  OBVIOUS
<1>1c. DeBsd[t].p = p /\ DeBsd[t].ep = e /\ n = Ug!Noeud(p, e)
  OBVIOUS
<1> HIDE DEF d, p, e, n
<1>2. /\ \A u \in TBsd : u # t => v10'[u] = v10[u] /\ v11'[u] = v11[u]
      /\ v10'[t] = "noyau" /\ v11'[t] = [fd |-> d, noeud |-> n]
  BY <1>1 DEF Ug!TypeUgen
<1>3. Ug!TypeUgen'
  BY <1>0, <1>1 DEF Ug!TypeUgen
<1>4. \A u \in TBsd, c \in Ug!Fd : Ug!ParBus(u, c)' <=> Ug!ParBus(u, c)
  <2>1. \A c : v11'[t] # [fd |-> c, noeud |-> Ug!Bus]
    BY <1>0, <1>2
  <2> QED BY <1>2, <2>1 DEF Ug!ParBus
<1>5. ASSUME NEW q \in Ug!P, NEW f \in EBsd, NEW c \in Ug!Fd
      PROVE  Ug!Acces(q, f, c)' <=> Ug!Acces(q, f, c) \/ (q = p /\ f = e /\ c = d)
  <2>1. CASE q = p /\ f = e
    <3>1. v9'[q][f] = d /\ v9[q][f] < 0
      BY <1>0, <1>1, <2>1 DEF Ug!TypeUgen
    <3>2. ~Ug!Acces(q, f, c)
      BY <3>1 DEF Ug!Acces
    <3> QED BY <1>0, <2>1, <3>1, <3>2 DEF Ug!Acces
  <2>2. CASE ~(q = p /\ f = e)
    <3>1. v9'[q][f] = v9[q][f]
      BY <1>1, <2>2 DEF Ug!TypeUgen
    <3> QED BY <2>2, <3>1 DEF Ug!Acces
  <2> QED BY <2>1, <2>2
<1>6. ASSUME NEW c \in Ug!Fd PROVE Ug!Descripteur(c)'
  <2>1. \A q \in Ug!P : Ug!Ouvert(q, c)' <=> Ug!Ouvert(q, c)
    BY DEF Ug!Ouvert
  <2>2. CASE c # d
    <3>1. v1'[c] = v1[c]
      BY <1>1, <2>2 DEF Ug!TypeUgen
    <3> QED BY <1>4, <1>5, <2>1, <2>2, <3>1, UgenLaisse DEF Laisse
  <2>3. CASE c = d
    <3>1. v1'[c] = n /\ v1[c] = Rien
      BY <1>0, <1>1, <2>3 DEF Ug!TypeUgen
    <3>2. Ug!Acces(p, e, c)'
      BY <1>0, <1>5, <2>3
    <3>3. /\ c \notin v2
          /\ \A q \in Ug!P : ~Ug!Ouvert(q, c)'
          /\ \A q \in Ug!P, f \in EBsd : Ug!Acces(q, f, c)' => q = p /\ f = e
          /\ \A u \in TBsd : ~Ug!ParBus(u, c)'
      BY <1>4, <1>5, <2>1, <3>1, UgenLibre
    <3> QED BY <1>0, <1>1c, <3>1, <3>2, <3>3 DEF Ug!Descripteur, Ug!Tenu
  <2> QED BY <2>2, <2>3
<1>7. Ug!Signales'
  <2>1. \A i \in DOMAIN v12 : v12[i] \in TBsd /\ v12[i] # t
    BY DEF Ug!TypeUgen, Ug!Signales
  <2> QED BY <1>2, <2>1 DEF Ug!Signales
<1>8. Ug!RequeteJuste' /\ Ug!ConfigurationJuste'
  BY DEF Ug!RequeteJuste, Ug!ConfigurationJuste
<1>9. ASSUME NEW q \in Ug!P PROVE Ug!Appareil(q)'
  BY DEF Ug!Appareil
<1>10. ASSUME NEW u \in TBsd PROVE Ug!Transport(u)'
  <2>1. CASE u = t
    BY <1>0, <1>1a, <1>1b, <1>1c, <1>2, <1>5, <2>1 DEF Ug!Transport
  <2>2. CASE u # t
    <3> SUFFICES ASSUME v10[u] = "noyau" PROVE Ug!Transport(u)'
      BY <1>2, <2>2 DEF Ug!Transport
    <3>1. DeBsd[u].ep \in EBsd => \A c \in Ug!Fd : Ug!Acces(DeBsd[u].p, DeBsd[u].ep, c) => Ug!Acces(DeBsd[u].p, DeBsd[u].ep, c)'
      BY <1>5
    <3> QED BY <1>2, <1>4, <2>2, <3>1 DEF Ug!Transport, Ug!Ouvert
  <2> QED BY <2>1, <2>2
<1> QED BY <1>3, <1>6, <1>7, <1>8, <1>9, <1>10

(* ... and one that opens the bus for a control transfer.                  *)
LEMMA UgenSoumetBus ==
    ASSUME Ug!Hypotheses, Ug!Inductif, NEW t \in TBsd, Ug!Soumissible(t), Ug!Ouvrable, DeBsd[t].ep = 0,
           v1' = Ug!Ouvre(Ug!Bus), UNCHANGED v2, Ug!Soumet(t, Ug!Bas, Ug!Bus),
           UNCHANGED <<v9, v3, Ug!objets, v7, v8, v13>>
    PROVE  Ug!Inductif'
<1> USE UgenConstantes DEF Ug!Inductif, Ug!Soumissible, Ug!Soumet, Ug!objets
<1>0. PICK d \in Ug!Fd \ {0} : d = Ug!Bas /\ v1[d] = Rien
  BY UgenBas
<1>1. v1' = [v1 EXCEPT ![d] = Ug!Bus] /\ v11' = [v11 EXCEPT ![t] = [fd |-> d, noeud |-> Ug!Bus]]
  BY <1>0 DEF Ug!Ouvre
<1>2. /\ \A u \in TBsd : u # t => v10'[u] = v10[u] /\ v11'[u] = v11[u]
      /\ v10'[t] = "noyau" /\ v10[t] = "libre" /\ v11'[t] = [fd |-> d, noeud |-> Ug!Bus]
  BY <1>1 DEF Ug!TypeUgen
<1>3. Ug!TypeUgen'
  BY <1>0, <1>1, UgenNoeuds DEF Ug!TypeUgen
<1>4. ASSUME NEW u \in TBsd, NEW c \in Ug!Fd
      PROVE  Ug!ParBus(u, c)' <=> Ug!ParBus(u, c) \/ (u = t /\ c = d)
  <2>1. CASE u = t
    <3>1. ~Ug!ParBus(u, c)
      BY <1>2, <2>1 DEF Ug!ParBus
    <3>2. v11'[u] = [fd |-> c, noeud |-> Ug!Bus] <=> c = d
      BY <1>2, <2>1
    <3> QED BY <1>2, <2>1, <3>1, <3>2 DEF Ug!ParBus
  <2>2. CASE u # t
    BY <1>2, <2>2 DEF Ug!ParBus
  <2> QED BY <2>1, <2>2
<1>5. ASSUME NEW c \in Ug!Fd PROVE Ug!Descripteur(c)'
  <2>1. /\ \A q \in Ug!P : Ug!Ouvert(q, c)' <=> Ug!Ouvert(q, c)
        /\ \A q \in Ug!P, e \in EBsd : Ug!Acces(q, e, c)' <=> Ug!Acces(q, e, c)
    BY DEF Ug!Ouvert, Ug!Acces
  <2>2. CASE c # d
    <3>1. v1'[c] = v1[c]
      BY <1>1, <2>2 DEF Ug!TypeUgen
    <3> QED BY <1>4, <2>1, <2>2, <3>1, UgenLaisse DEF Laisse
  <2>3. CASE c = d
    <3>1. v1'[c] = Ug!Bus /\ v1[c] = Rien
      BY <1>0, <1>1, <2>3 DEF Ug!TypeUgen
    <3>2. Ug!ParBus(t, c)'
      BY <1>0, <1>4, <2>3
    <3>3. /\ c \notin v2
          /\ \A q \in Ug!P : ~Ug!Ouvert(q, c)'
          /\ \A q \in Ug!P, f \in EBsd : ~Ug!Acces(q, f, c)'
          /\ \A u \in TBsd : Ug!ParBus(u, c)' => u = t
      BY <1>4, <2>1, <3>1, UgenLibre
    <3> QED BY <3>1, <3>2, <3>3 DEF Ug!Descripteur, Ug!Tenu
  <2> QED BY <2>2, <2>3
<1>6. Ug!Signales'
  <2>1. \A i \in DOMAIN v12 : v12[i] \in TBsd /\ v12[i] # t
    BY <1>2 DEF Ug!TypeUgen, Ug!Signales
  <2> QED BY <1>2, <2>1 DEF Ug!Signales
<1>7. Ug!RequeteJuste' /\ Ug!ConfigurationJuste'
  BY DEF Ug!RequeteJuste, Ug!ConfigurationJuste
<1>8. ASSUME NEW q \in Ug!P PROVE Ug!Appareil(q)'
  BY DEF Ug!Appareil
<1>9. ASSUME NEW u \in TBsd PROVE Ug!Transport(u)'
  <2>1. CASE u = t
    <3>1. v11'[t].fd = d /\ v7[DeBsd[t].p]
      BY <1>2
    <3>2. Ug!ParBus(t, d)'
      BY <1>0, <1>4
    <3> QED BY <1>0, <2>1, <3>1, <3>2 DEF Ug!Transport
  <2>2. CASE u # t
    BY <1>2, <1>4, <2>2 DEF Ug!Transport, Ug!Ouvert, Ug!Acces
  <2> QED BY <2>1, <2>2
<1> QED BY <1>3, <1>5, <1>6, <1>7, <1>8, <1>9


(* A step that changes nothing keeps it.                                   *)
LEMMA UgenCadre == ASSUME Ug!Hypotheses, Ug!Inductif, UNCHANGED Ug!vars PROVE Ug!Inductif'
<1> USE DEF Ug!Inductif, Ug!vars, Ug!fichiers, Ug!objets, Ug!prises, Ug!transferts
<1>1. Ug!TypeUgen'
  BY DEF Ug!TypeUgen
<1>2. ASSUME NEW d \in Ug!Fd PROVE Ug!Descripteur(d)'
  BY UgenLaisse DEF Laisse, Ug!Ouvert, Ug!ParBus, Ug!Acces
<1>3. Ug!Signales' /\ Ug!RequeteJuste' /\ Ug!ConfigurationJuste'
  BY DEF Ug!Signales, Ug!RequeteJuste, Ug!ConfigurationJuste
<1>4. ASSUME NEW q \in Ug!P PROVE Ug!Appareil(q)'
  BY DEF Ug!Appareil
<1>5. ASSUME NEW t \in TBsd PROVE Ug!Transport(t)'
  BY DEF Ug!Transport, Ug!Ouvert, Ug!ParBus, Ug!Acces
<1> QED BY <1>1, <1>2, <1>3, <1>4, <1>5

(* What the descriptor of an open device is. *)
LEMMA UgenOuverte ==
    ASSUME Ug!Hypotheses, Ug!Inductif, NEW p \in Ug!P, v7[p], v4[p].devname
    PROVE  /\ v4[p].fd \in Ug!Fd \ {0} /\ Ug!Ouvert(p, v4[p].fd)
           /\ v1[v4[p].fd] = Ug!Noeud(p, 0)
<1> USE UgenConstantes DEF Ug!Inductif
<1>1. v4[p] # Rien /\ v4[p] \in Ug!Objets /\ v4[p].fd >= 0 /\ v4[p].fd \in Ug!Fd \cup {-1}
  BY DEF Ug!Appareil, Ug!TypeUgen, Ug!Objets
<1>2. v4[p].fd \in Ug!Fd /\ Ug!Ouvert(p, v4[p].fd)
  BY <1>1 DEF Ug!Ouvert
<1> QED BY <1>2, UgenEntree DEF Ug!Descripteur

(* The promise. *)
LEMMA UgenPromesse ==
    ASSUME Ug!Hypotheses, Ug!Inductif
    PROVE  Ug!FichiersJustes /\ Ug!RequeteJuste /\ Ug!ConfigurationJuste
<1> USE UgenConstantes DEF Ug!Inductif
<1> DEFINE O == {<<v4[p].fd, Ug!Noeud(p, 0)>> : p \in {q \in Ug!P : v4[q] # Rien /\ v4[q].fd >= 0}}
           A == UNION {{<<v9[p][e], Ug!Noeud(p, e)>> : e \in {x \in EBsd : v9[p][x] >= 0}}
                          : p \in {q \in Ug!P : v8[q] # {}}}
           V == {<<v11[t].fd, v11[t].noeud>> : t \in {u \in TBsd : v10[u] = "noyau"}}
<1>1. ASSUME NEW t \in TBsd, v10[t] = "noyau"
      PROVE  /\ v11[t].noeud \in {Ug!Noeud(DeBsd[t].p, DeBsd[t].ep), Ug!Bus} /\ v11[t].fd \in Ug!Fd \ {0}
             /\ v1[v11[t].fd] = v11[t].noeud
  <2>1. Ug!Transport(t) /\ DeBsd[t].p \in Ug!P
    OBVIOUS
  <2>2. v11[t].fd \in Ug!Fd \ {0} /\ Ug!Descripteur(v11[t].fd)
    BY <1>1, <2>1 DEF Ug!Transport
  <2>3. CASE Ug!ParBus(t, v11[t].fd)
    BY <1>1, <2>2, <2>3 DEF Ug!Descripteur, Ug!ParBus
  <2>4. CASE DeBsd[t].ep = 0 /\ Ug!Ouvert(DeBsd[t].p, v11[t].fd) /\ v11[t].noeud = Ug!Noeud(DeBsd[t].p, 0)
    BY <2>1, <2>2, <2>4 DEF Ug!Descripteur
  <2>5. CASE DeBsd[t].ep # 0 /\ Ug!Acces(DeBsd[t].p, DeBsd[t].ep, v11[t].fd) /\ v11[t].noeud = Ug!Noeud(DeBsd[t].p, DeBsd[t].ep)
    BY <2>1, <2>2, <2>5 DEF Ug!Descripteur
  <2> QED BY <1>1, <2>1, <2>3, <2>4, <2>5 DEF Ug!Transport
<1>2. \A r \in O : \E p \in Ug!P : r[1] \in Ug!Fd \ {0} /\ Ug!Ouvert(p, r[1]) /\ r[2] = Ug!Noeud(p, 0)
  <2> SUFFICES ASSUME NEW p \in Ug!P, v4[p] # Rien, v4[p].fd >= 0
               PROVE  v4[p].fd \in Ug!Fd \ {0} /\ Ug!Ouvert(p, v4[p].fd)
    OBVIOUS
  <2>1. v4[p].fd \in Ug!Fd
    BY DEF Ug!TypeUgen, Ug!Objets
  <2> QED BY <2>1, UgenEntree DEF Ug!Ouvert
<1>3. \A r \in A : \E p \in Ug!P, e \in EBsd : r[1] \in Ug!Fd \ {0} /\ Ug!Acces(p, e, r[1]) /\ r[2] = Ug!Noeud(p, e)
  <2> SUFFICES ASSUME NEW p \in Ug!P, NEW e \in EBsd, v8[p] # {}, v9[p][e] >= 0
               PROVE  v9[p][e] \in Ug!Fd \ {0} /\ Ug!Acces(p, e, v9[p][e])
    OBVIOUS
  <2>1. v9[p][e] \in Ug!Fd
    BY DEF Ug!TypeUgen
  <2> QED BY <2>1, UgenEntree DEF Ug!Acces
<1>4. \A r \in V : r[1] \in Ug!Fd \ {0} /\ v1[r[1]] = r[2]
  BY <1>1
<1>5. Ug!References = O \cup A \cup V
  BY DEF Ug!References
<1>6. \A r \in Ug!References : r[1] \in Ug!Fd \ {0} /\ v1[r[1]] = r[2] /\ r[2] # Rien
  <2>1. \A r \in O \cup A : r[1] \in Ug!Fd \ {0} /\ v1[r[1]] = r[2] /\ r[2] # Rien
    BY <1>2, <1>3, UgenNoeuds DEF Ug!Descripteur
  <2>2. \A r \in V : r[2] # Rien
    BY <1>1, UgenNoeuds
  <2> QED BY <1>4, <1>5, <2>1, <2>2
<1>7. ASSUME NEW d \in Ug!Fd \ {0}, v1[d] # Rien PROVE d \in {r[1] : r \in Ug!References} \cup v2
  <2>1. Ug!Descripteur(d)
    OBVIOUS
  <2>2. CASE \E p \in Ug!P : Ug!Ouvert(p, d)
    <3>1. PICK p \in Ug!P : Ug!Ouvert(p, d)
      BY <2>2
    <3>2. <<d, Ug!Noeud(p, 0)>> \in O
      BY <3>1 DEF Ug!Ouvert
    <3>3. <<d, Ug!Noeud(p, 0)>> \in Ug!References /\ <<d, Ug!Noeud(p, 0)>>[1] = d
      BY <1>5, <3>2
    <3> HIDE DEF O, A, V
    <3> QED BY <3>3
  <2>3. CASE \E p \in Ug!P, e \in EBsd : Ug!Acces(p, e, d)
    <3>1. PICK p \in Ug!P, e \in EBsd : Ug!Acces(p, e, d)
      BY <2>3
    <3>2. <<d, Ug!Noeud(p, e)>> \in A
      BY <3>1 DEF Ug!Acces
    <3>3. <<d, Ug!Noeud(p, e)>> \in Ug!References /\ <<d, Ug!Noeud(p, e)>>[1] = d
      BY <1>5, <3>2
    <3> HIDE DEF O, A, V
    <3> QED BY <3>3
  <2>4. CASE \E t \in TBsd : Ug!ParBus(t, d)
    <3>1. PICK t \in TBsd : Ug!ParBus(t, d)
      BY <2>4
    <3>2. <<d, Ug!Bus>> \in V
      BY <3>1 DEF Ug!ParBus
    <3>3. <<d, Ug!Bus>> \in Ug!References /\ <<d, Ug!Bus>>[1] = d
      BY <1>5, <3>2
    <3> HIDE DEF O, A, V
    <3> QED BY <3>3
  <2> QED BY <1>7, <2>1, <2>2, <2>3, <2>4 DEF Ug!Descripteur, Ug!Tenu
<1>8. v2 \subseteq {d \in Ug!Fd \ {0} : v1[d] # Rien}
  BY UgenNoeuds DEF Ug!TypeUgen, Ug!Descripteur
<1>9. Ug!FichiersJustes
  <2> HIDE DEF O, A, V
  <2>1. {d \in Ug!Fd \ {0} : v1[d] # Rien} = {r[1] : r \in Ug!References} \cup v2
    BY <1>6, <1>7, <1>8
  <2> QED BY <1>1, <1>6, <2>1 DEF Ug!FichiersJustes
<1> QED BY <1>9

-----------------------------------------------------------------------------
(* OpenBSD: its backend does to the descriptors what Ug does, with the same *)
(* names. *)
LEMMA ObsdMeme ==
    /\ Obsd!P = Ug!P /\ Obsd!I = Ug!I /\ Obsd!Fd = Ug!Fd /\ Obsd!Bus = Ug!Bus
    /\ Obsd!Libres = Ug!Libres /\ Obsd!Ouvrable = Ug!Ouvrable /\ Obsd!Bas = Ug!Bas /\ Obsd!Second = Ug!Second
    /\ \A p, e : Obsd!Noeud(p, e) = Ug!Noeud(p, e)
    /\ \A n : Obsd!Ouvre(n) = Ug!Ouvre(n)
    /\ \A p : Obsd!Fermes(p) = Ug!Fermes(p) /\ Obsd!EnVol(p) = Ug!EnVol(p) /\ Obsd!Fermee(p) = Ug!Fermee(p)
    /\ \A S : Obsd!Sans(S) = Ug!Sans(S) /\ Obsd!ToSet(S) = Ug!ToSet(S) /\ Obsd!Cardinality(S) = Cardinality(S)
    /\ \A o, l, h : Obsd!Vivants(o, l, h) = Ug!Vivants(o, l, h)
<1>1. \A S : Obsd!ToSet(S) = Ug!ToSet(S)
  BY DEF Obsd!ToSet, Ug!ToSet
<1>2. ASSUME NEW S PROVE Obsd!Min(S) = Ug!Min(S)
  BY DEF Obsd!Min, Ug!Min
<1>3. ASSUME NEW S PROVE Obsd!Cardinality(S) = Cardinality(S)
  BY DEF Obsd!Cardinality, Cardinality
<1>4. Obsd!P = Ug!P /\ Obsd!I = Ug!I /\ Obsd!Fd = Ug!Fd /\ Obsd!Bus = Ug!Bus
  BY <1>1 DEF Obsd!P, Ug!P, Obsd!I, Ug!I, Obsd!Fd, Ug!Fd, Obsd!Bus, Ug!Bus
<1>5. Obsd!Libres = Ug!Libres
  BY <1>4 DEF Obsd!Libres, Ug!Libres
<1>6. Obsd!Ouvrable = Ug!Ouvrable /\ Obsd!Bas = Ug!Bas
  BY <1>2, <1>5 DEF Obsd!Ouvrable, Ug!Ouvrable, Obsd!Bas, Ug!Bas
<1>7. Obsd!Second = Ug!Second
  BY <1>2, <1>5, <1>6 DEF Obsd!Second, Ug!Second
<1>8. \A p, e : Obsd!Noeud(p, e) = Ug!Noeud(p, e)
  BY DEF Obsd!Noeud, Ug!Noeud
<1>9. \A n : Obsd!Ouvre(n) = Ug!Ouvre(n)
  BY <1>6 DEF Obsd!Ouvre, Ug!Ouvre
<1>10. \A p : Obsd!Fermes(p) = Ug!Fermes(p) /\ Obsd!EnVol(p) = Ug!EnVol(p) /\ Obsd!Fermee(p) = Ug!Fermee(p)
  BY <1>1 DEF Obsd!Fermes, Ug!Fermes, Obsd!EnVol, Ug!EnVol, Obsd!Fermee, Ug!Fermee
<1>11. \A S : Obsd!Sans(S) = Ug!Sans(S)
  BY <1>4 DEF Obsd!Sans, Ug!Sans
<1>12. \A o, l, h : Obsd!Vivants(o, l, h) = Ug!Vivants(o, l, h)
  BY <1>1, <1>4 DEF Obsd!Vivants, Ug!Vivants
<1> QED BY <1>1, <1>3, <1>4, <1>5, <1>6, <1>7, <1>8, <1>9, <1>10, <1>11, <1>12

(* What openbsd_usb.c does as the other backend does.                      *)
LEMMA ObsdMemePas ==
    /\ Obsd!Init => Ug!Init
    /\ UNCHANGED Obsd!vars => UNCHANGED Ug!vars
    /\ Obsd!libusb_free_device_list => Ug!libusb_free_device_list
    /\ Obsd!handle_transfer_completion => Ug!handle_transfer_completion
    /\ \A p, d : Obsd!libusb_open(p, d) => Ug!libusb_open(p, d)
    /\ \A p, S : Obsd!libusb_close(p, S) => Ug!libusb_close(p, S)
    /\ \A p, i, t : Obsd!Reclame(p, i, t) => Ug!Reclame(p, i, t)
    /\ \A p, i, S : Obsd!Relache(p, i, S) => Ug!Relache(p, i, S)
    /\ \A p, n : Obsd!Demande(p, n) => Ug!Demande(p, n)
    /\ \A p, n : Obsd!Requete(p, n) => Ug!Requete(p, n)
    /\ \A t, d, n : Obsd!Soumet(t, d, n) => Ug!Soumet(t, d, n)
    /\ \A t : Obsd!Soumissible(t) => Ug!Soumissible(t)
    /\ \A t, S : Obsd!Repond(t, S) => Ug!Repond(t, S)
<1> USE ObsdMeme DEF Obsd!fichiers, Ug!fichiers, Obsd!objets, Ug!objets, Obsd!prises, Ug!prises, Obsd!transferts, Ug!transferts
<1>2. Obsd!Init => Ug!Init
  BY DEF Obsd!Init, Ug!Init, Obsd!Aucun, Ug!Aucun
<1>3. UNCHANGED Obsd!vars => UNCHANGED Ug!vars
  BY DEF Obsd!vars, Ug!vars
<1>4. /\ Obsd!libusb_free_device_list => Ug!libusb_free_device_list
      /\ Obsd!handle_transfer_completion => Ug!handle_transfer_completion
  BY DEF Obsd!libusb_free_device_list, Ug!libusb_free_device_list,
         Obsd!handle_transfer_completion, Ug!handle_transfer_completion
<1>5. \A p, d : Obsd!libusb_open(p, d) => Ug!libusb_open(p, d)
  BY DEF Obsd!libusb_open, Ug!libusb_open
<1>6. \A p, S : Obsd!libusb_close(p, S) => Ug!libusb_close(p, S)
  BY DEF Obsd!libusb_close, Ug!libusb_close
<1>7. \A p, i, t : Obsd!Reclame(p, i, t) => Ug!Reclame(p, i, t)
  BY DEF Obsd!Reclame, Ug!Reclame
<1>8. \A p, i, S : Obsd!Relache(p, i, S) => Ug!Relache(p, i, S)
  BY DEF Obsd!Relache, Ug!Relache
<1>9. \A p, n : Obsd!Demande(p, n) => Ug!Demande(p, n)
  BY DEF Obsd!Demande, Ug!Demande
<1>10. \A p, n : Obsd!Requete(p, n) => Ug!Requete(p, n)
  BY <1>9 DEF Obsd!Requete, Ug!Requete
<1>11. \A t, d, n : Obsd!Soumet(t, d, n) => Ug!Soumet(t, d, n)
  BY DEF Obsd!Soumet, Ug!Soumet
<1>12. \A t : Obsd!Soumissible(t) => Ug!Soumissible(t)
  BY DEF Obsd!Soumissible, Ug!Soumissible, Obsd!Refuse, Ug!Refuse
<1>13. \A t, S : Obsd!Repond(t, S) => Ug!Repond(t, S)
  BY DEF Obsd!Repond, Ug!Repond, Obsd!Aucun, Ug!Aucun
<1> QED BY <1>2, <1>3, <1>4, <1>5, <1>6, <1>7, <1>8, <1>9, <1>10, <1>11, <1>12, <1>13

(* obsd_get_device_list keeps the invariant, whether or not it loses the   *)
(* bus.                                                                    *)
LEMMA ObsdListe == ASSUME Ug!Hypotheses, Ug!Inductif, Obsd!obsd_get_device_list PROVE Ug!Inductif'
<1>1. PICK o \in [Obsd!P -> Obsd!Issues] :
        /\ Obsd!Perd(o) => v2 = {} /\ Obsd!Cardinality(Obsd!Libres) > 1
        /\ LET trouves == IF Obsd!Manque(o) THEN <<>> ELSE Obsd!SelectSeq(ScanBsd, LAMBDA p : Obsd!Decouvert(o, p)) IN
            /\ v6' = IF Obsd!Manque(o) THEN Rien ELSE trouves
            /\ v4' = [p \in Obsd!P |-> IF v4[p] = Rien /\ p \in Obsd!ToSet(trouves) THEN Obsd!Nouveau(p) ELSE v4[p]]
            /\ v5' = {p \in v5 : v4[p] # Rien}
        /\ IF Obsd!Perd(o)
           THEN v2' = {Obsd!Second} /\ v1' = [v1 EXCEPT ![Obsd!Second] = Obsd!Bus]
           ELSE UNCHANGED Obsd!fichiers
  BY DEF Obsd!obsd_get_device_list, Obsd!Perd, Obsd!Neufs
<1>2. PICK S : /\ v6' = IF Obsd!Manque(o) THEN Rien ELSE S
               /\ v4' = [p \in Ug!P |-> IF v4[p] = Rien /\ p \in Ug!ToSet(S) THEN Obsd!Nouveau(p) ELSE v4[p]]
  BY <1>1, ObsdMeme
<1> DEFINE n == [p \in Ug!P |-> p \in UgenOpenbsd]
           M == Obsd!Manque(o)
<1>3. n \in [Ug!P -> BOOLEAN] /\ M \in BOOLEAN
  BY ObsdMeme DEF Obsd!Manque
<1>4. v4' = [p \in Ug!P |-> IF v4[p] = Rien /\ p \in Ug!ToSet(S)
                            THEN [fd |-> -1, devname |-> n[p], cdesc |-> v3[p]] ELSE v4[p]]
  BY <1>2 DEF Obsd!Nouveau
<1> HIDE DEF n
<1>5. \/ UNCHANGED Ug!fichiers
      \/ \E d \in Ug!Fd \ {0}, m \in {Ug!Bus, Ug!Perdu} :
            v1[d] = Rien /\ v2 = {} /\ v2' = {d} /\ v1' = [v1 EXCEPT ![d] = m]
  BY <1>1, ObsdMeme, UgenSecond DEF Ug!Inductif, Obsd!fichiers, Ug!fichiers
<1>6. UNCHANGED <<v3, Ug!prises, Ug!transferts, v13>>
  BY DEF Obsd!obsd_get_device_list, Obsd!prises, Ug!prises, Obsd!transferts, Ug!transferts
<1> HIDE DEF M
<1>7. v6' = (IF M THEN Rien ELSE S) /\ v5' = {p \in v5 : v4[p] # Rien}
  BY <1>1, <1>2 DEF M
<1> QED BY <1>3, <1>4, <1>5, <1>6, <1>7, UgenEnumere

(* obsd_submit_transfer keeps the invariant.                               *)
LEMMA ObsdSoumet ==
    ASSUME Ug!Hypotheses, Ug!Inductif, NEW t \in TBsd, Obsd!obsd_submit_transfer(t)
    PROVE  Ug!Inductif'
<1> USE UgenConstantes
<1>a. /\ Ug!Soumissible(t) /\ UNCHANGED <<v3, Ug!objets, v7, v8, v13>>
      /\ Obsd!_sync_control_transfer(t) \/ Obsd!_sync_gen_transfer(t)
  BY ObsdMemePas DEF Obsd!obsd_submit_transfer, Obsd!objets, Ug!objets
<1> USE <1>a
<1> DEFINE p == DeBsd[t].p
           e == DeBsd[t].ep
<1>1. CASE Obsd!_sync_control_transfer(t) /\ v4[p].devname
  <2>1. /\ e = 0 /\ v7[p] /\ Ug!Soumet(t, v4[p].fd, v1[v4[p].fd])
        /\ UNCHANGED Ug!fichiers /\ UNCHANGED v9
    BY <1>1, ObsdMemePas DEF Obsd!_sync_control_transfer, Ug!Soumissible, Obsd!fichiers, Ug!fichiers
  <2>2. /\ v4[p].fd \in Ug!Fd \ {0} /\ Ug!Ouvert(p, v4[p].fd)
        /\ v1[v4[p].fd] = Ug!Noeud(p, 0) /\ v1[v4[p].fd] # Ug!Bus
    BY <1>1, <2>1, UgenOuverte, UgenNoeuds
  <2> QED BY <2>1, <2>2, UgenSoumet
<1>2. CASE Obsd!_sync_control_transfer(t) /\ ~v4[p].devname
  <2>1. /\ e = 0 /\ Ug!Ouvrable /\ Ug!Soumet(t, Ug!Bas, Ug!Bus) /\ v1' = Ug!Ouvre(Ug!Bus)
        /\ UNCHANGED v2 /\ UNCHANGED v9
    BY <1>2, ObsdMeme, ObsdMemePas DEF Obsd!_sync_control_transfer, Obsd!_bus_open
  <2> QED BY <2>1, UgenSoumetBus
<1>3. CASE Obsd!_sync_gen_transfer(t) /\ v9[p][e] >= 0
  <2>1. /\ e # 0 /\ e \in EBsd /\ v8[p] # {} /\ UNCHANGED Ug!fichiers /\ UNCHANGED v9
        /\ Ug!Soumet(t, v9'[p][e], v1'[v9'[p][e]])
    BY <1>3, ObsdMemePas DEF Obsd!_sync_gen_transfer, Obsd!_access_endpoint, Ug!Soumissible, Obsd!fichiers, Ug!fichiers
  <2>2. Ug!Soumet(t, v9[p][e], v1[v9[p][e]])
    BY <2>1 DEF Ug!fichiers
  <2>3. v9[p][e] \in Ug!Fd /\ Ug!Acces(p, e, v9[p][e])
    BY <1>3, <2>1 DEF Ug!Inductif, Ug!TypeUgen, Ug!Acces
  <2>4. /\ v9[p][e] \in Ug!Fd \ {0} /\ v1[v9[p][e]] = Ug!Noeud(p, e)
        /\ v1[v9[p][e]] # Ug!Bus
    <3>1. v9[p][e] # 0
      BY <2>1, <2>3, UgenEntree
    <3>2. Ug!Descripteur(v9[p][e])
      BY <2>3 DEF Ug!Inductif
    <3>3. v1[v9[p][e]] = Ug!Noeud(p, e)
      BY <2>1, <2>3, <3>2 DEF Ug!Descripteur
    <3> QED BY <2>3, <3>1, <3>3, UgenNoeuds
  <2> QED BY <2>1, <2>2, <2>3, <2>4, UgenSoumet
<1>4. CASE Obsd!_sync_gen_transfer(t) /\ ~(v9[p][e] >= 0)
  <2>1. /\ e # 0 /\ e \in EBsd /\ Ug!Ouvrable /\ v1' = Ug!Ouvre(Ug!Noeud(p, e)) /\ UNCHANGED v2
        /\ v9' = [v9 EXCEPT ![p][e] = Ug!Bas]
        /\ Ug!Soumet(t, v9'[p][e], v1'[v9'[p][e]])
    BY <1>4, ObsdMeme, ObsdMemePas DEF Obsd!_sync_gen_transfer, Obsd!_access_endpoint, Ug!Soumissible
  <2>2. v9'[p][e] = Ug!Bas /\ v1'[Ug!Bas] = Ug!Noeud(p, e) /\ v9[p][e] < 0
    <3>1. /\ v9 \in [Ug!P -> [EBsd -> Ug!Fd \cup {-1}]] /\ v1 \in [Ug!Fd -> Ug!Noeuds \cup {<<"entree">>, Rien}]
          /\ Ug!Bas \in Ug!Fd
      BY <2>1, UgenBas DEF Ug!Inductif, Ug!TypeUgen
    <3>2. v9[p][e] < 0
      BY <1>4, <2>1, <3>1
    <3>3. v9'[p][e] = Ug!Bas
      BY <2>1, <3>1
    <3>4. v1'[Ug!Bas] = Ug!Noeud(p, e)
      BY <2>1, <3>1 DEF Ug!Ouvre
    <3> QED BY <3>2, <3>3, <3>4
  <2>3. Ug!Soumet(t, Ug!Bas, Ug!Noeud(p, e))
    BY <2>1, <2>2
  <2> QED BY <2>1, <2>2, <2>3, UgenSoumetOuvre
<1> QED BY <1>1, <1>2, <1>3, <1>4

(* obsd_set_configuration keeps the invariant.                             *)
LEMMA ObsdConfiguration ==
    ASSUME Ug!Hypotheses, Ug!Inductif, NEW p \in Ug!P, NEW c \in 1..NCBsd, Obsd!obsd_set_configuration(p, c)
    PROVE  Ug!Inductif'
<1>1. /\ v7[p] /\ v4[p].devname /\ Ug!Demande(p, v1[v4[p].fd])
      /\ v3' = [v3 EXCEPT ![p] = c]
      /\ UNCHANGED <<v6, Ug!prises, Ug!transferts>>
  BY ObsdMemePas DEF Obsd!obsd_set_configuration, Obsd!prises, Ug!prises, Obsd!transferts, Ug!transferts
<1>2. \/ v4' = [v4 EXCEPT ![p].cdesc = v3'[p]] /\ v5' = v5 \ {p}
      \/ v5' = v5 \cup {p} /\ UNCHANGED v4
  BY DEF Obsd!obsd_set_configuration, Obsd!_cache_active_config_descriptor
<1>3. \/ UNCHANGED Ug!fichiers
      \/ Ug!Ouvrable /\ v2 = {} /\ v2' = {Ug!Bas} /\ v1' = Ug!Ouvre(Ug!Bus)
  BY ObsdMeme DEF Obsd!obsd_set_configuration, Obsd!_bus_open, Obsd!fichiers, Ug!fichiers
<1> QED BY <1>1, <1>2, <1>3, UgenConfiguration

(* Every step of openbsd_usb.c keeps the invariant.                        *)
LEMMA ObsdPreserve ==
    ASSUME Ug!Hypotheses, Ug!Inductif, Obsd!Next
    PROVE  Ug!Inductif'
<1> USE ObsdMemePas
<1>1. CASE Obsd!obsd_get_device_list \/ Obsd!libusb_free_device_list \/ Obsd!handle_transfer_completion
  BY <1>1, ObsdListe, UgenListe, UgenTermine
<1>2. ASSUME NEW p \in Ug!P, Obsd!obsd_open(p) PROVE Ug!Inductif'
  BY <1>2, ObsdMeme, UgenOuvre DEF Obsd!obsd_open
<1>3. ASSUME NEW p \in Ug!P, Obsd!obsd_close(p) PROVE Ug!Inductif'
  BY <1>3, UgenFerme DEF Obsd!obsd_close
<1>4. ASSUME NEW p \in Ug!P, Obsd!obsd_get_config_descriptor(p) \/ Obsd!obsd_clear_halt(p) PROVE Ug!Inductif'
  BY <1>4, ObsdMeme, UgenRequete DEF Obsd!obsd_get_config_descriptor, Obsd!obsd_clear_halt
<1>5. ASSUME NEW p \in Ug!P, NEW i \in Ug!I, Obsd!obsd_claim_interface(p, i) PROVE Ug!Inductif'
  BY <1>5, UgenReclame DEF Obsd!obsd_claim_interface
<1>6. ASSUME NEW p \in Ug!P, NEW i \in Ug!I, Obsd!obsd_release_interface(p, i) PROVE Ug!Inductif'
  BY <1>6, ObsdMeme, UgenRelache DEF Obsd!obsd_release_interface, Obsd!ReleaseObsd
<1>7. ASSUME NEW p \in Ug!P, NEW i \in Ug!I, Obsd!obsd_set_interface_altsetting(p, i) PROVE Ug!Inductif'
  BY <1>7, UgenOuverte, UgenRequete DEF Obsd!obsd_set_interface_altsetting
<1>8. ASSUME NEW t \in TBsd, Obsd!obsd_submit_transfer(t) PROVE Ug!Inductif'
  BY <1>8, ObsdSoumet
<1>9. ASSUME NEW t \in TBsd, Obsd!FinSoumission(t) PROVE Ug!Inductif'
  BY <1>9, ObsdMeme, UgenRepond DEF Obsd!FinSoumission
<1>10. ASSUME NEW p \in Ug!P, NEW c \in 1..NCBsd, Obsd!obsd_set_configuration(p, c) PROVE Ug!Inductif'
  BY <1>10, ObsdConfiguration
<1> QED BY <1>1, <1>2, <1>3, <1>4, <1>5, <1>6, <1>7, <1>8, <1>9, <1>10, ObsdMeme DEF Obsd!Next

(* The invariant has the properties of openbsd_usb.c.                      *)
LEMMA ObsdPromesse ==
    ASSUME Ug!Hypotheses, Ug!Inductif
    PROVE  Obsd!FichiersJustes /\ Obsd!RequeteJuste /\ Obsd!ConfigurationJuste
<1>1. Obsd!References = Ug!References
  BY ObsdMeme DEF Obsd!References, Ug!References
<1>2. Obsd!FichiersJustes <=> Ug!FichiersJustes
  BY <1>1, ObsdMeme DEF Obsd!FichiersJustes, Ug!FichiersJustes
<1>3. (Obsd!RequeteJuste <=> Ug!RequeteJuste) /\ (Obsd!ConfigurationJuste <=> Ug!ConfigurationJuste)
  BY ObsdMeme DEF Obsd!RequeteJuste, Ug!RequeteJuste, Obsd!ConfigurationJuste, Ug!ConfigurationJuste
<1> QED BY <1>2, <1>3, UgenPromesse

-----------------------------------------------------------------------------
(* NetBSD: its backend does to the descriptors what Ug does, with the same *)
(* names. *)
LEMMA NbsdMeme ==
    /\ Nbsd!P = Ug!P /\ Nbsd!I = Ug!I /\ Nbsd!Fd = Ug!Fd /\ Nbsd!Bus = Ug!Bus
    /\ Nbsd!Libres = Ug!Libres /\ Nbsd!Ouvrable = Ug!Ouvrable /\ Nbsd!Bas = Ug!Bas /\ Nbsd!Second = Ug!Second
    /\ \A p, e : Nbsd!Noeud(p, e) = Ug!Noeud(p, e)
    /\ \A n : Nbsd!Ouvre(n) = Ug!Ouvre(n)
    /\ \A p : Nbsd!Fermes(p) = Ug!Fermes(p) /\ Nbsd!EnVol(p) = Ug!EnVol(p) /\ Nbsd!Fermee(p) = Ug!Fermee(p)
    /\ \A S : Nbsd!Sans(S) = Ug!Sans(S) /\ Nbsd!ToSet(S) = Ug!ToSet(S) /\ Nbsd!Cardinality(S) = Cardinality(S)
    /\ \A o, l, h : Nbsd!Vivants(o, l, h) = Ug!Vivants(o, l, h)
<1>1. \A S : Nbsd!ToSet(S) = Ug!ToSet(S)
  BY DEF Nbsd!ToSet, Ug!ToSet
<1>2. ASSUME NEW S PROVE Nbsd!Min(S) = Ug!Min(S)
  BY DEF Nbsd!Min, Ug!Min
<1>3. ASSUME NEW S PROVE Nbsd!Cardinality(S) = Cardinality(S)
  BY DEF Nbsd!Cardinality, Cardinality
<1>4. Nbsd!P = Ug!P /\ Nbsd!I = Ug!I /\ Nbsd!Fd = Ug!Fd /\ Nbsd!Bus = Ug!Bus
  BY <1>1 DEF Nbsd!P, Ug!P, Nbsd!I, Ug!I, Nbsd!Fd, Ug!Fd, Nbsd!Bus, Ug!Bus
<1>5. Nbsd!Libres = Ug!Libres
  BY <1>4 DEF Nbsd!Libres, Ug!Libres
<1>6. Nbsd!Ouvrable = Ug!Ouvrable /\ Nbsd!Bas = Ug!Bas
  BY <1>2, <1>5 DEF Nbsd!Ouvrable, Ug!Ouvrable, Nbsd!Bas, Ug!Bas
<1>7. Nbsd!Second = Ug!Second
  BY <1>2, <1>5, <1>6 DEF Nbsd!Second, Ug!Second
<1>8. \A p, e : Nbsd!Noeud(p, e) = Ug!Noeud(p, e)
  BY DEF Nbsd!Noeud, Ug!Noeud
<1>9. \A n : Nbsd!Ouvre(n) = Ug!Ouvre(n)
  BY <1>6 DEF Nbsd!Ouvre, Ug!Ouvre
<1>10. \A p : Nbsd!Fermes(p) = Ug!Fermes(p) /\ Nbsd!EnVol(p) = Ug!EnVol(p) /\ Nbsd!Fermee(p) = Ug!Fermee(p)
  BY <1>1 DEF Nbsd!Fermes, Ug!Fermes, Nbsd!EnVol, Ug!EnVol, Nbsd!Fermee, Ug!Fermee
<1>11. \A S : Nbsd!Sans(S) = Ug!Sans(S)
  BY <1>4 DEF Nbsd!Sans, Ug!Sans
<1>12. \A o, l, h : Nbsd!Vivants(o, l, h) = Ug!Vivants(o, l, h)
  BY <1>1, <1>4 DEF Nbsd!Vivants, Ug!Vivants
<1> QED BY <1>1, <1>3, <1>4, <1>5, <1>6, <1>7, <1>8, <1>9, <1>10, <1>11, <1>12

(* What netbsd_usb.c does as the other backend does.                       *)
LEMMA NbsdMemePas ==
    /\ Nbsd!Init => Ug!Init
    /\ UNCHANGED Nbsd!vars => UNCHANGED Ug!vars
    /\ Nbsd!libusb_free_device_list => Ug!libusb_free_device_list
    /\ Nbsd!handle_transfer_completion => Ug!handle_transfer_completion
    /\ \A p, d : Nbsd!libusb_open(p, d) => Ug!libusb_open(p, d)
    /\ \A p, S : Nbsd!libusb_close(p, S) => Ug!libusb_close(p, S)
    /\ \A p, i, t : Nbsd!Reclame(p, i, t) => Ug!Reclame(p, i, t)
    /\ \A p, i, S : Nbsd!Relache(p, i, S) => Ug!Relache(p, i, S)
    /\ \A p, n : Nbsd!Demande(p, n) => Ug!Demande(p, n)
    /\ \A p, n : Nbsd!Requete(p, n) => Ug!Requete(p, n)
    /\ \A t, d, n : Nbsd!Soumet(t, d, n) => Ug!Soumet(t, d, n)
    /\ \A t : Nbsd!Soumissible(t) => Ug!Soumissible(t)
    /\ \A t, S : Nbsd!Repond(t, S) => Ug!Repond(t, S)
<1> USE NbsdMeme DEF Nbsd!fichiers, Ug!fichiers, Nbsd!objets, Ug!objets, Nbsd!prises, Ug!prises, Nbsd!transferts, Ug!transferts
<1>2. Nbsd!Init => Ug!Init
  BY DEF Nbsd!Init, Ug!Init, Nbsd!Aucun, Ug!Aucun
<1>3. UNCHANGED Nbsd!vars => UNCHANGED Ug!vars
  BY DEF Nbsd!vars, Ug!vars
<1>4. /\ Nbsd!libusb_free_device_list => Ug!libusb_free_device_list
      /\ Nbsd!handle_transfer_completion => Ug!handle_transfer_completion
  BY DEF Nbsd!libusb_free_device_list, Ug!libusb_free_device_list,
         Nbsd!handle_transfer_completion, Ug!handle_transfer_completion
<1>5. \A p, d : Nbsd!libusb_open(p, d) => Ug!libusb_open(p, d)
  BY DEF Nbsd!libusb_open, Ug!libusb_open
<1>6. \A p, S : Nbsd!libusb_close(p, S) => Ug!libusb_close(p, S)
  BY DEF Nbsd!libusb_close, Ug!libusb_close
<1>7. \A p, i, t : Nbsd!Reclame(p, i, t) => Ug!Reclame(p, i, t)
  BY DEF Nbsd!Reclame, Ug!Reclame
<1>8. \A p, i, S : Nbsd!Relache(p, i, S) => Ug!Relache(p, i, S)
  BY DEF Nbsd!Relache, Ug!Relache
<1>9. \A p, n : Nbsd!Demande(p, n) => Ug!Demande(p, n)
  BY DEF Nbsd!Demande, Ug!Demande
<1>10. \A p, n : Nbsd!Requete(p, n) => Ug!Requete(p, n)
  BY <1>9 DEF Nbsd!Requete, Ug!Requete
<1>11. \A t, d, n : Nbsd!Soumet(t, d, n) => Ug!Soumet(t, d, n)
  BY DEF Nbsd!Soumet, Ug!Soumet
<1>12. \A t : Nbsd!Soumissible(t) => Ug!Soumissible(t)
  BY DEF Nbsd!Soumissible, Ug!Soumissible, Nbsd!Refuse, Ug!Refuse
<1>13. \A t, S : Nbsd!Repond(t, S) => Ug!Repond(t, S)
  BY DEF Nbsd!Repond, Ug!Repond, Nbsd!Aucun, Ug!Aucun
<1> QED BY <1>2, <1>3, <1>4, <1>5, <1>6, <1>7, <1>8, <1>9, <1>10, <1>11, <1>12, <1>13


(* A listing leaves open, if anything, the node of a device that does not  *)
(* say what it is.                                                         *)
LEMMA NbsdListe == ASSUME Ug!Hypotheses, Ug!Inductif, Nbsd!netbsd_get_device_list PROVE Ug!Inductif'
<1>1. PICK o \in [Nbsd!P -> Nbsd!Issues] :
        /\ Nbsd!Laisses(o) # {} => v2 = {} /\ Nbsd!Ouvrable
        /\ LET trouves == IF Nbsd!Echoue(o) THEN <<>> ELSE Nbsd!SelectSeq(ScanBsd, LAMBDA p : Nbsd!Trouve(o, p)) IN
            /\ v6' = IF Nbsd!Echoue(o) THEN Rien ELSE trouves
            /\ v4' = [p \in Nbsd!P |-> IF v4[p] = Rien /\ p \in Nbsd!ToSet(trouves) THEN Nbsd!Nouveau(p) ELSE v4[p]]
            /\ v5' = {p \in v5 : v4[p] # Rien}
        /\ IF Nbsd!Laisses(o) # {}
           THEN v2' = {Nbsd!Bas} /\ v1' = Nbsd!Ouvre(Nbsd!Perdu)
           ELSE UNCHANGED Nbsd!fichiers
  BY DEF Nbsd!netbsd_get_device_list, Nbsd!Laisses
<1>2. PICK S : /\ v6' = IF Nbsd!Echoue(o) THEN Rien ELSE S
               /\ v4' = [p \in Ug!P |-> IF v4[p] = Rien /\ p \in Ug!ToSet(S) THEN Nbsd!Nouveau(p) ELSE v4[p]]
  BY <1>1, NbsdMeme
<1> DEFINE n == [p \in Ug!P |-> TRUE]
           M == Nbsd!Echoue(o)
<1>3. n \in [Ug!P -> BOOLEAN] /\ M \in BOOLEAN
  BY DEF Nbsd!Echoue
<1>4. v4' = [p \in Ug!P |-> IF v4[p] = Rien /\ p \in Ug!ToSet(S)
                            THEN [fd |-> -1, devname |-> n[p], cdesc |-> v3[p]] ELSE v4[p]]
  BY <1>2 DEF Nbsd!Nouveau
<1> HIDE DEF n
<1>5. \/ UNCHANGED Ug!fichiers
      \/ \E d \in Ug!Fd \ {0}, m \in {Ug!Bus, Ug!Perdu} :
            v1[d] = Rien /\ v2 = {} /\ v2' = {d} /\ v1' = [v1 EXCEPT ![d] = m]
  <2>1. CASE Nbsd!Laisses(o) # {}
    <3>1. v2 = {} /\ Ug!Ouvrable /\ v2' = {Ug!Bas} /\ v1' = Ug!Ouvre(Ug!Perdu)
      BY <1>1, <2>1, NbsdMeme DEF Nbsd!Perdu, Ug!Perdu
    <3> QED BY <3>1, UgenBas DEF Ug!Inductif, Ug!Ouvre
  <2>2. CASE Nbsd!Laisses(o) = {}
    BY <1>1, <2>2 DEF Nbsd!fichiers, Ug!fichiers
  <2> QED BY <2>1, <2>2
<1>6. UNCHANGED <<v3, Ug!prises, Ug!transferts, v13>>
  BY DEF Nbsd!netbsd_get_device_list, Nbsd!prises, Ug!prises, Nbsd!transferts, Ug!transferts
<1> HIDE DEF M
<1>7. v6' = (IF M THEN Rien ELSE S) /\ v5' = {p \in v5 : v4[p] # Rien}
  BY <1>1, <1>2 DEF M
<1> QED BY <1>3, <1>4, <1>5, <1>6, <1>7, UgenEnumere

(* An open device has a name, and so a descriptor on its own node. *)
LEMMA NbsdOuverte ==
    ASSUME Ug!Hypotheses, Ug!Inductif, Nbsd!SansBus, NEW p \in Ug!P, v7[p]
    PROVE  /\ v4[p].devname /\ v4[p].fd \in Ug!Fd \ {0} /\ Ug!Ouvert(p, v4[p].fd)
           /\ v1[v4[p].fd] = Ug!Noeud(p, 0)
<1>1. v4[p] # Rien
  BY DEF Ug!Inductif, Ug!Appareil
<1>2. v4[p].devname
  BY <1>1, NbsdMeme DEF Nbsd!SansBus
<1> QED BY <1>2, UgenOuverte

(* A submission goes by the node of the endpoint, which it opens when it   *)
(* is not open yet.                                                        *)
LEMMA NbsdSoumet ==
    ASSUME Ug!Hypotheses, Ug!Inductif, Nbsd!SansBus, NEW t \in TBsd, Nbsd!netbsd_submit_transfer(t)
    PROVE  Ug!Inductif' /\ v11'[t].noeud # Ug!Bus
<1> USE UgenConstantes
<1> DEFINE p == DeBsd[t].p
           e == DeBsd[t].ep
<1>a. /\ Ug!Soumissible(t) /\ UNCHANGED <<v3, Ug!objets, v7, v8, v13>>
      /\ Nbsd!_sync_control_transfer(t) \/ Nbsd!_sync_gen_transfer(t)
  BY NbsdMemePas DEF Nbsd!netbsd_submit_transfer, Nbsd!objets, Ug!objets
<1> USE <1>a
<1>b. ASSUME NEW d, NEW n, Ug!Soumet(t, d, n) PROVE v11'[t].noeud = n
  BY <1>b DEF Ug!Soumet, Ug!Inductif, Ug!TypeUgen
<1>1. CASE Nbsd!_sync_control_transfer(t)
  <2>1. /\ e = 0 /\ v7[p] /\ Ug!Soumet(t, v4[p].fd, v1[v4[p].fd])
        /\ UNCHANGED Ug!fichiers /\ UNCHANGED v9
    BY <1>1, NbsdMemePas DEF Nbsd!_sync_control_transfer, Ug!Soumissible, Nbsd!fichiers, Ug!fichiers
  <2>2. /\ v4[p].fd \in Ug!Fd \ {0} /\ Ug!Ouvert(p, v4[p].fd)
        /\ v1[v4[p].fd] = Ug!Noeud(p, 0) /\ v1[v4[p].fd] # Ug!Bus
    BY <1>1, <2>1, NbsdOuverte, UgenNoeuds
  <2> QED BY <1>b, <2>1, <2>2, UgenSoumet
<1>2. CASE Nbsd!_sync_gen_transfer(t) /\ v9[p][e] >= 0
  <2>1. /\ e # 0 /\ e \in EBsd /\ v8[p] # {} /\ UNCHANGED Ug!fichiers /\ UNCHANGED v9
        /\ Ug!Soumet(t, v9'[p][e], v1'[v9'[p][e]])
    BY <1>2, NbsdMemePas DEF Nbsd!_sync_gen_transfer, Nbsd!_access_endpoint, Ug!Soumissible, Nbsd!fichiers, Ug!fichiers
  <2>2. Ug!Soumet(t, v9[p][e], v1[v9[p][e]])
    BY <2>1 DEF Ug!fichiers
  <2>3. v9[p][e] \in Ug!Fd /\ Ug!Acces(p, e, v9[p][e])
    <3>1. v9[p][e] \in Ug!Fd \cup {-1}
      BY <2>1 DEF Ug!Inductif, Ug!TypeUgen
    <3>2. v9[p][e] \in Ug!Fd
      BY ONLY <1>2, <3>1
    <3> QED BY <2>1, <3>2 DEF Ug!Acces
  <2>4. /\ v9[p][e] \in Ug!Fd \ {0} /\ v1[v9[p][e]] = Ug!Noeud(p, e)
        /\ v1[v9[p][e]] # Ug!Bus
    <3>1. v9[p][e] # 0
      BY <2>1, <2>3, UgenEntree
    <3>2. Ug!Descripteur(v9[p][e])
      BY <2>3 DEF Ug!Inductif
    <3>3. v1[v9[p][e]] = Ug!Noeud(p, e)
      BY <2>1, <2>3, <3>2 DEF Ug!Descripteur
    <3> QED BY <2>3, <3>1, <3>3, UgenNoeuds
  <2> QED BY <1>b, <2>1, <2>2, <2>3, <2>4, UgenSoumet
<1>3. CASE Nbsd!_sync_gen_transfer(t) /\ ~(v9[p][e] >= 0)
  <2>1. /\ e # 0 /\ e \in EBsd /\ Ug!Ouvrable /\ v1' = Ug!Ouvre(Ug!Noeud(p, e)) /\ UNCHANGED v2
        /\ v9' = [v9 EXCEPT ![p][e] = Ug!Bas]
        /\ Ug!Soumet(t, v9'[p][e], v1'[v9'[p][e]])
    BY <1>3, NbsdMeme, NbsdMemePas DEF Nbsd!_sync_gen_transfer, Nbsd!_access_endpoint, Ug!Soumissible
  <2>2. v9'[p][e] = Ug!Bas /\ v1'[Ug!Bas] = Ug!Noeud(p, e) /\ v9[p][e] < 0
    <3>1. /\ v9 \in [Ug!P -> [EBsd -> Ug!Fd \cup {-1}]] /\ v1 \in [Ug!Fd -> Ug!Noeuds \cup {<<"entree">>, Rien}]
          /\ Ug!Bas \in Ug!Fd
      BY <2>1, UgenBas DEF Ug!Inductif, Ug!TypeUgen
    <3>2. v9[p][e] < 0
      BY <1>3, <2>1, <3>1
    <3>3. v9'[p][e] = Ug!Bas
      BY <2>1, <3>1
    <3>4. v1'[Ug!Bas] = Ug!Noeud(p, e)
      BY <2>1, <3>1 DEF Ug!Ouvre
    <3> QED BY <3>2, <3>3, <3>4
  <2>3. Ug!Soumet(t, Ug!Bas, Ug!Noeud(p, e))
    BY <2>1, <2>2
  <2>4. v11'[t].noeud # Ug!Bus
    BY <1>b, <2>3, UgenNoeuds
  <2> QED BY <2>1, <2>2, <2>3, <2>4, UgenSoumetOuvre
<1> QED BY <1>1, <1>2, <1>3

(* netbsd_set_configuration keeps the invariant.                           *)
LEMMA NbsdConfiguration ==
    ASSUME Ug!Hypotheses, Ug!Inductif, Nbsd!SansBus, NEW p \in Ug!P, NEW c \in 1..NCBsd,
           Nbsd!netbsd_set_configuration(p, c)
    PROVE  Ug!Inductif'
<1>1. /\ v7[p] /\ Ug!Demande(p, v1[v4[p].fd])
      /\ v3' = [v3 EXCEPT ![p] = c]
      /\ UNCHANGED <<v6, Ug!prises, Ug!transferts>> /\ UNCHANGED Ug!fichiers
  BY NbsdMemePas DEF Nbsd!netbsd_set_configuration, Nbsd!prises, Ug!prises, Nbsd!transferts, Ug!transferts,
     Nbsd!fichiers, Ug!fichiers
<1>2. \/ v4' = [v4 EXCEPT ![p].cdesc = v3'[p]] /\ v5' = v5 \ {p}
      \/ v5' = v5 \cup {p} /\ UNCHANGED v4
  BY DEF Nbsd!netbsd_set_configuration, Nbsd!_cache_active_config_descriptor
<1>3. v4[p].devname
  BY <1>1, NbsdOuverte
<1> QED BY <1>1, <1>2, <1>3, UgenConfiguration

(* The requests of netbsd_usb.c are sent on the device's own control node. *)
LEMMA NbsdDemandes ==
    ASSUME Ug!Hypotheses, Ug!Inductif, Nbsd!SansBus, NEW p \in Ug!P,
           \/ Nbsd!netbsd_get_config_descriptor(p) \/ Nbsd!netbsd_get_configuration(p) \/ Nbsd!netbsd_clear_halt(p)
           \/ \E i \in Ug!I : Nbsd!netbsd_set_interface_altsetting(p, i)
    PROVE  \E n \in {Ug!Noeud(p, 0), Ug!Bus} : Ug!Requete(p, n)
<1> USE NbsdMeme, NbsdMemePas
<1>1. CASE Nbsd!netbsd_get_config_descriptor(p)
  <2>1. v4[p] # Rien /\ (v4[p].fd >= 0 => v7[p])
    BY <1>1 DEF Nbsd!netbsd_get_config_descriptor, Ug!Inductif, Ug!Appareil
  <2> QED BY <1>1, <2>1, NbsdOuverte DEF Nbsd!netbsd_get_config_descriptor
<1>2. CASE Nbsd!netbsd_get_configuration(p) \/ Nbsd!netbsd_clear_halt(p)
  BY <1>2, NbsdOuverte DEF Nbsd!netbsd_get_configuration, Nbsd!netbsd_clear_halt
<1>3. CASE \E i \in Ug!I : Nbsd!netbsd_set_interface_altsetting(p, i)
  BY <1>3, NbsdOuverte DEF Nbsd!netbsd_set_interface_altsetting
<1> QED BY <1>1, <1>2, <1>3

(* The node of the bus still serves nothing after a step that leaves the   *)
(* names of the objects, and puts no transfer on it.                       *)
LEMMA NbsdReste ==
    ASSUME Nbsd!SansBus,
           \A p \in Ug!P : v4'[p] # Rien => v4'[p].devname \/ (v4[p] # Rien /\ v4'[p].devname = v4[p].devname),
           \A t \in TBsd : v10'[t] = "noyau" => v11'[t].noeud # Ug!Bus \/ (v10[t] = "noyau" /\ v11'[t] = v11[t])
    PROVE  Nbsd!SansBus'
BY NbsdMeme DEF Nbsd!SansBus, Nbsd!P, Nbsd!Bus, Ug!P, Ug!Bus

(* Every step of netbsd_usb.c keeps the invariant, and opens no bus.       *)
LEMMA NbsdPreserve ==
    ASSUME Ug!Hypotheses, Ug!Inductif, Nbsd!SansBus, Nbsd!Next
    PROVE  Ug!Inductif' /\ Nbsd!SansBus'
<1> USE NbsdMemePas
<1>t. /\ v4 \in [Ug!P -> Ug!Objets \cup {Rien}] /\ v10 \in [TBsd -> {"libre", "noyau", "signale"}]
      /\ v11 \in [TBsd -> [fd : Ug!Fd \cup {-1}, noeud : Ug!Noeuds \cup {<<"entree">>, Rien}]]
  BY DEF Ug!Inductif, Ug!TypeUgen
<1>1. CASE Nbsd!netbsd_get_device_list
  <2>1. \A p \in Ug!P : v4'[p] # Rien => v4'[p].devname \/ v4'[p] = v4[p]
    BY <1>1, NbsdMeme DEF Nbsd!netbsd_get_device_list, Nbsd!Nouveau
  <2>2. UNCHANGED <<v10, v11>>
    BY <1>1 DEF Nbsd!netbsd_get_device_list, Nbsd!transferts
  <2>3. Nbsd!SansBus'
    BY <2>1, <2>2, NbsdReste
  <2> QED BY <1>1, <2>3, NbsdListe
<1>2. CASE Nbsd!libusb_free_device_list
  <2>1. \A p \in Ug!P : v4'[p] # Rien => v4'[p] = v4[p]
    BY <1>2, NbsdMeme DEF Nbsd!libusb_free_device_list, Ug!Vivants
  <2> QED BY <1>2, <2>1, UgenListe, NbsdReste DEF Ug!libusb_free_device_list, Ug!transferts
<1>3. CASE Nbsd!handle_transfer_completion
  BY <1>3, <1>t, UgenTermine, NbsdReste DEF Ug!handle_transfer_completion, Ug!objets
<1>4. ASSUME NEW p \in Ug!P, Nbsd!netbsd_open(p) PROVE Ug!Inductif' /\ Nbsd!SansBus'
  <2>1. Ug!Fermee(p) /\ Ug!Ouvrable /\ Ug!libusb_open(p, Ug!Bas)
    BY <1>4, NbsdMeme DEF Nbsd!netbsd_open
  <2>2. v4[p] # Rien /\ v4[p] \in Ug!Objets
    BY <1>t, <2>1 DEF Ug!Fermee, Ug!Inductif, Ug!Appareil
  <2>3. v4[p].devname
    BY <2>2, NbsdMeme DEF Nbsd!SansBus
  <2>4. \A q \in Ug!P : v4'[q] # Rien => v4[q] # Rien /\ v4'[q].devname = v4[q].devname
    BY <1>t, <2>1, <2>2 DEF Ug!libusb_open, Ug!Objets
  <2> QED BY <2>1, <2>3, <2>4, UgenOuvre, NbsdReste DEF Ug!libusb_open, Ug!transferts
<1>5. ASSUME NEW p \in Ug!P, Nbsd!netbsd_close(p) PROVE Ug!Inductif' /\ Nbsd!SansBus'
  <2>1. Ug!libusb_close(p, {v4[p].fd}) /\ v7[p]
    BY <1>5 DEF Nbsd!netbsd_close, Ug!libusb_close
  <2>2. v4[p].devname /\ v4[p] # Rien
    BY <2>1, NbsdOuverte DEF Ug!Inductif, Ug!Appareil
  <2>3. \A q \in Ug!P : v4'[q] # Rien => v4[q] # Rien /\ v4'[q].devname = v4[q].devname
    BY <1>t, <2>1, <2>2 DEF Ug!libusb_close, Ug!Objets, Ug!Vivants
  <2> QED BY <2>1, <2>2, <2>3, UgenFerme, NbsdReste DEF Ug!libusb_close, Ug!transferts
<1>6. ASSUME NEW p \in Ug!P,
             \/ Nbsd!netbsd_get_config_descriptor(p) \/ Nbsd!netbsd_get_configuration(p) \/ Nbsd!netbsd_clear_halt(p)
             \/ \E i \in Ug!I : Nbsd!netbsd_set_interface_altsetting(p, i)
      PROVE  Ug!Inductif' /\ Nbsd!SansBus'
  <2>1. PICK n \in {Ug!Noeud(p, 0), Ug!Bus} : Ug!Requete(p, n)
    BY <1>6, NbsdDemandes
  <2> QED BY <2>1, UgenRequete, NbsdReste DEF Ug!Requete, Ug!objets, Ug!transferts
<1>7. ASSUME NEW p \in Ug!P, NEW c \in 1..NCBsd, Nbsd!netbsd_set_configuration(p, c)
      PROVE  Ug!Inductif' /\ Nbsd!SansBus'
  <2>1. UNCHANGED Ug!transferts /\ v7[p]
    BY <1>7 DEF Nbsd!netbsd_set_configuration, Nbsd!transferts, Ug!transferts
  <2>2. v4[p] # Rien
    BY <2>1 DEF Ug!Inductif, Ug!Appareil
  <2>3. \A q \in Ug!P : v4'[q] # Rien => v4[q] # Rien /\ v4'[q].devname = v4[q].devname
    BY <1>7, <1>t, <2>2 DEF Nbsd!netbsd_set_configuration, Ug!Objets
  <2> QED BY <1>7, <2>1, <2>3, NbsdConfiguration, NbsdReste DEF Ug!transferts
<1>8. ASSUME NEW p \in Ug!P, NEW i \in Ug!I,
             Nbsd!netbsd_claim_interface(p, i) \/ Nbsd!netbsd_release_interface(p, i)
      PROVE  Ug!Inductif' /\ Nbsd!SansBus'
  <2>1. Ug!Inductif'
    BY <1>8, NbsdMeme, UgenReclame, UgenRelache
    DEF Nbsd!netbsd_claim_interface, Nbsd!netbsd_release_interface, Nbsd!TableVide
  <2>2. UNCHANGED Ug!objets /\ UNCHANGED Ug!transferts
    BY <1>8 DEF Nbsd!netbsd_claim_interface, Nbsd!netbsd_release_interface, Ug!Reclame, Ug!Relache
  <2> QED BY <2>1, <2>2, NbsdReste DEF Ug!objets, Ug!transferts
<1>9. ASSUME NEW t \in TBsd, Nbsd!netbsd_submit_transfer(t) PROVE Ug!Inductif' /\ Nbsd!SansBus'
  <2>1. UNCHANGED v4 /\ Ug!Inductif' /\ v11'[t].noeud # Ug!Bus
    BY <1>9, NbsdSoumet DEF Nbsd!netbsd_submit_transfer, Nbsd!objets
  <2>2. PICK d, n : Ug!Soumet(t, d, n)
    BY <1>9 DEF Nbsd!netbsd_submit_transfer, Nbsd!_sync_control_transfer, Nbsd!_sync_gen_transfer
  <2>3. \A u \in TBsd : u # t => v10'[u] = v10[u] /\ v11'[u] = v11[u]
    BY <1>t, <2>2 DEF Ug!Soumet
  <2>4. \A u \in TBsd : v10'[u] = "noyau" => v11'[u].noeud # Ug!Bus \/ (v10[u] = "noyau" /\ v11'[u] = v11[u])
    BY <2>1, <2>3
  <2>5. Nbsd!SansBus'
    BY <2>1, <2>4, NbsdReste
  <2> QED BY <2>1, <2>5
<1>10. ASSUME NEW t \in TBsd, Nbsd!FinSoumission(t) PROVE Ug!Inductif' /\ Nbsd!SansBus'
  <2>1. Ug!Repond(t, {}) /\ v10[t] = "noyau"
    BY <1>10 DEF Nbsd!FinSoumission, Ug!Repond
  <2>2. v11[t].noeud # Ug!Bus
    BY <2>1, NbsdMeme DEF Nbsd!SansBus
  <2>3. UNCHANGED v4 /\ v10'[t] # "noyau" /\ \A u \in TBsd : u # t => v10'[u] = v10[u] /\ v11'[u] = v11[u]
    BY <1>t, <2>1 DEF Ug!Repond, Ug!objets
  <2> QED BY <2>1, <2>2, <2>3, UgenRepond, NbsdReste
<1> QED BY <1>1, <1>2, <1>3, <1>4, <1>5, <1>6, <1>7, <1>8, <1>9, <1>10, NbsdMeme DEF Nbsd!Next

(* So does a step that changes nothing.                                    *)
LEMMA NbsdCadre ==
    ASSUME Ug!Hypotheses, Ug!Inductif, Nbsd!SansBus, UNCHANGED Nbsd!vars
    PROVE  Ug!Inductif' /\ Nbsd!SansBus'
<1>1. UNCHANGED <<v4, v10, v11>>
  BY DEF Nbsd!vars, Nbsd!objets, Nbsd!transferts
<1>2. Nbsd!SansBus'
  BY <1>1, NbsdReste
<1> QED BY <1>2, NbsdMemePas, UgenCadre

(* The invariant has the properties of netbsd_usb.c.                       *)
LEMMA NbsdPromesse ==
    ASSUME Ug!Hypotheses, Ug!Inductif
    PROVE  Nbsd!FichiersJustes /\ Nbsd!RequeteJuste /\ Nbsd!ConfigurationJuste
<1>1. Nbsd!References = Ug!References
  BY NbsdMeme DEF Nbsd!References, Ug!References
<1>2. Nbsd!FichiersJustes <=> Ug!FichiersJustes
  BY <1>1, NbsdMeme DEF Nbsd!FichiersJustes, Ug!FichiersJustes
<1>3. (Nbsd!RequeteJuste <=> Ug!RequeteJuste) /\ (Nbsd!ConfigurationJuste <=> Ug!ConfigurationJuste)
  BY NbsdMeme DEF Nbsd!RequeteJuste, Ug!RequeteJuste, Nbsd!ConfigurationJuste, Ug!ConfigurationJuste
<1> QED BY <1>2, <1>3, UgenPromesse

(* netbsd_usb.c starts in the invariant, with no bus.                      *)
LEMMA NbsdDepart == ASSUME Ug!Hypotheses, Nbsd!Init PROVE Ug!Inductif /\ Nbsd!SansBus
BY NbsdMemePas, UgenDepart, NbsdMeme DEF Nbsd!Init, Nbsd!SansBus

(* The assumption about the constants of NetBSD is that about Ug. *)
LEMMA NbsdHypotheses == Nbsd!Hypotheses => Ug!Hypotheses
<1>1. Nbsd!IsInjective(ScanBsd) => Ug!IsInjective(ScanBsd)
  BY DEF Nbsd!IsInjective, Ug!IsInjective
<1>2. Nbsd!Noeuds = Ug!Noeuds /\ Nbsd!Objets = Ug!Objets
  BY NbsdMeme DEF Nbsd!Noeuds, Ug!Noeuds, Nbsd!Objets, Ug!Objets, Nbsd!Noeud, Ug!Noeud, Nbsd!Perdu, Ug!Perdu
<1> QED BY <1>1, <1>2, NbsdMeme DEF Nbsd!Hypotheses, Ug!Hypotheses

-----------------------------------------------------------------------------
(* The transfers of Windows: v1 is flying, v2 soumissions, v3 poll_fd,     *)
(* v4 pollfds, v5 pollable_fd, v6 interface_number, v7 io, v8 objet,       *)
(* v9 api_handle, v10 claimed_interfaces, v11 autoclaim_count,             *)
(* v12 autoclaim_lock, v13 pc, v14 de, v15 ou, v16 fd, v17 reclame,        *)
(* v18 prets, v19 application, v20 melange, v21 fuite, v22 relache.        *)
LEMMA WinConstantes ==
    ASSUME Win!Hypotheses
    PROVE  /\ NIWin \in Nat /\ NIWin > 0 /\ Win!I = 0..(NIWin - 1) /\ 0 \in Win!I
           /\ NFdWin \in Nat /\ MaxSoumissions \in Nat /\ Win!Ov = 1..MaxSoumissions
           /\ Win!Evts \notin FWin /\ Rien \notin TWin /\ Rien \notin FWin /\ Rien # Win!Evts
<1>1. NIWin \in Nat /\ NIWin > 0 /\ Win!I = 0..(NIWin - 1)
  BY DEF Win!Hypotheses, Win!I
<1>2. 0 \in Win!I
  BY <1>1
<1> QED BY <1>1, <1>2 DEF Win!Hypotheses, Win!Ov

(* The smallest member of a set is in it, ...                              *)
LEMMA WinMin ==
    ASSUME NEW S, S \subseteq Nat, S # {}
    PROVE  Win!Min(S) \in S
BY Minimum DEF Win!Min

(* ... and the largest one of a set that is bounded.                       *)
LEMMA WinMax ==
    ASSUME NEW m \in Nat, NEW S, S \subseteq 0..m, S # {}
    PROVE  Win!Max(S) \in S
<1> DEFINE R == {m - x : x \in S}
<1>1. R \subseteq Nat
  <2>1. ASSUME NEW x \in S PROVE m - x \in Nat
    BY <2>1
  <2> QED BY <2>1
<1>2. PICK r \in R : \A y \in R : r <= y
  BY <1>1, Minimum
<1>3. PICK x \in S : r = m - x
  BY <1>2
<1>4. ASSUME NEW y \in S PROVE y <= x
  <2>1. m - x <= m - y
    BY <1>2, <1>3
  <2> QED BY <2>1
<1> QED BY <1>4 DEF Win!Max

(* Finite sets, in the words of the part. *)
LEMMA WinMeme == \A S : (Win!IsFiniteSet(S) <=> IsFiniteSet(S)) /\ Win!Cardinality(S) = Cardinality(S)
<1>1. ASSUME NEW S PROVE Win!IsFiniteSet(S) <=> IsFiniteSet(S)
  BY DEF Win!IsFiniteSet, IsFiniteSet
<1>2. ASSUME NEW S PROVE Win!Cardinality(S) = Cardinality(S)
  BY DEF Win!Cardinality, Cardinality
<1> QED BY <1>1, <1>2

(* The empty set.                                                          *)
LEMMA WinVide == Win!IsFiniteSet({}) /\ Win!Cardinality({}) = 0
BY WinMeme, FS_EmptySet

(* A finite set has a number of members.                                   *)
LEMMA WinCardinal == ASSUME NEW S, Win!IsFiniteSet(S) PROVE Win!Cardinality(S) \in Nat
BY WinMeme, FS_CardinalityType

(* One member more.                                                        *)
LEMMA WinPlus ==
    ASSUME NEW S, NEW x, Win!IsFiniteSet(S)
    PROVE  /\ Win!IsFiniteSet(S \cup {x})
           /\ Win!Cardinality(S \cup {x}) = IF x \in S THEN Win!Cardinality(S) ELSE Win!Cardinality(S) + 1
BY WinMeme, FS_AddElement

(* One member less.                                                        *)
LEMMA WinMoins ==
    ASSUME NEW S, NEW x, Win!IsFiniteSet(S)
    PROVE  /\ Win!IsFiniteSet(S \ {x})
           /\ Win!Cardinality(S \ {x}) = IF x \in S THEN Win!Cardinality(S) - 1 ELSE Win!Cardinality(S)
BY WinMeme, FS_RemoveElement

(* A subset.                                                               *)
LEMMA WinFini ==
    ASSUME NEW S, NEW R, S \subseteq R, Win!IsFiniteSet(R)
    PROVE  /\ Win!IsFiniteSet(S) /\ Win!Cardinality(S) \in Nat /\ Win!Cardinality(R) \in Nat
           /\ Win!Cardinality(S) <= Win!Cardinality(R)
BY WinMeme, FS_Subset, FS_CardinalityType

(* The transfers of Windows start in their invariant.                      *)
LEMMA WinDepart == ASSUME Win!Hypotheses, Win!Init PROVE Win!Inductif
<1> USE WinConstantes DEF Win!Init
<1>1. Win!TypeWindows
  BY WinVide DEF Win!TypeWindows, Win!INVALID_WINFD
<1>2. Win!Evenements
  BY DEF Win!Evenements
<1>3. ASSUME NEW f \in FWin PROVE Win!Fil(f)
  BY <1>3 DEF Win!Fil
<1>4. \A t \in TWin : Win!Transfert(t)
  BY DEF Win!Transfert, Win!Suivi
<1>5. \A d \in 1..NFdWin : Win!Entree(d)
  BY DEF Win!Entree
<1>6. ASSUME NEW i \in Win!I PROVE Win!Reclamation(i)
  <2>1. ~Win!EnRelache(i) /\ Win!Cardinality(Win!Comptes(i)) \in Nat
    BY WinVide, WinCardinal DEF Win!EnRelache, Win!Comptes
  <2> QED BY <2>1 DEF Win!Reclamation
<1> QED BY <1>1, <1>2, <1>3, <1>4, <1>5, <1>6 DEF Win!Inductif

(* What an action does to the claims when it leaves them alone. *)
LEMMA WinReclamation ==
    ASSUME Win!Inductif, Win!TypeWindows', NEW i \in Win!I,
           UNCHANGED <<v10, v11, v19, v20>>,
           i \in v21 => i \in v21', Win!EnRelache(i)' <=> Win!EnRelache(i),
           i \notin v21' => Win!Comptes(i) \subseteq Win!Comptes(i)',
           (\E f \in FWin : v13[f] = "compte" /\ v15[f] = i) => \E f \in FWin : v13'[f] = "compte" /\ v15'[f] = i
    PROVE  Win!Reclamation(i)'
<1>1. i \notin v21' => v11'[i] <= Win!Cardinality(Win!Comptes(i)')
  <2> SUFFICES ASSUME i \notin v21' PROVE v11[i] <= Win!Cardinality(Win!Comptes(i)')
    OBVIOUS
  <2>1. Win!IsFiniteSet(v1') /\ Win!Comptes(i)' \subseteq v1'
    BY DEF Win!TypeWindows, Win!Comptes
  <2>2. /\ Win!Cardinality(Win!Comptes(i)) \in Nat /\ Win!Cardinality(Win!Comptes(i)') \in Nat
        /\ Win!Cardinality(Win!Comptes(i)) <= Win!Cardinality(Win!Comptes(i)')
    BY <2>1, WinFini
  <2>3. v11[i] <= Win!Cardinality(Win!Comptes(i)) /\ v11[i] \in Nat
    BY DEF Win!Inductif, Win!Reclamation, Win!TypeWindows
  <2> QED BY <2>2, <2>3
<1> QED BY <1>1 DEF Win!Inductif, Win!Reclamation

(* The application claims and releases. *)
LEMMA WinApplication ==
    ASSUME Win!Hypotheses, Win!Inductif, NEW f \in FWin, NEW i \in Win!I,
           Win!libusb_claim_interface(f, i) \/ Win!libusb_release_interface(f, i)
    PROVE  Win!Inductif'
<1>1. UNCHANGED <<Win!soumis, Win!table, v13, Win!locaux, v11, v12, v21>>
  BY DEF Win!libusb_claim_interface, Win!libusb_release_interface
<1> USE DEF Win!soumis, Win!table, Win!locaux
<1>2. Win!TypeWindows'
  <2>1. v9' \in SUBSET Win!I /\ v10' \in SUBSET Win!I /\ v19' \in SUBSET Win!I /\ v20' \in SUBSET Win!I
    BY WinConstantes DEF Win!Inductif, Win!TypeWindows, Win!libusb_claim_interface, Win!libusb_release_interface, Win!Obtient, Win!Rend
  <2> QED BY <1>1, <2>1 DEF Win!Inductif, Win!TypeWindows
<1>3. Win!Evenements'
  BY <1>1 DEF Win!Inductif, Win!Evenements, Win!Suivi
<1>4. ASSUME NEW g \in FWin PROVE Win!Fil(g)'
  BY <1>1, <1>4 DEF Win!Inductif, Win!Fil, Win!Suivi
<1>5. ASSUME NEW t \in TWin PROVE Win!Transfert(t)'
  BY <1>1, <1>5 DEF Win!Inductif, Win!Transfert, Win!Suivi
<1>6. ASSUME NEW d \in 1..NFdWin PROVE Win!Entree(d)'
  BY <1>1, <1>6 DEF Win!Inductif, Win!Entree, Win!Suivi
<1>7. ASSUME NEW j \in Win!I PROVE Win!Reclamation(j)'
  <2>1. Win!Comptes(j)' = Win!Comptes(j) /\ (Win!EnRelache(j)' <=> Win!EnRelache(j))
    BY <1>1 DEF Win!Comptes, Win!Suivi, Win!EnRelache
  <2>2. Win!Reclamation(j)
    BY DEF Win!Inductif
  <2>3. CASE Win!libusb_claim_interface(f, i)
    <3>1. j # i => /\ j \in v10' <=> j \in v10
                   /\ j \in v19' <=> j \in v19
                   /\ j \in v20' <=> j \in v20
      BY <2>3 DEF Win!libusb_claim_interface, Win!Obtient
    <3>2. i \in v10' /\ i \in v19'
      BY <2>3 DEF Win!libusb_claim_interface, Win!Obtient
    <3>3. v11[i] > 0 \/ Win!EnRelache(i) => i \in v20'
      BY <2>3 DEF Win!libusb_claim_interface, Win!Automatique, Win!EnRelache
    <3> QED BY <1>1, <2>1, <2>2, <3>1, <3>2, <3>3 DEF Win!Reclamation
  <2>4. CASE Win!libusb_release_interface(f, i)
    <3>1. j # i => /\ j \in v10' <=> j \in v10
                   /\ j \in v19' <=> j \in v19
                   /\ j \in v20' <=> j \in v20
      BY <2>4 DEF Win!libusb_release_interface, Win!Rend
    <3>2. i \notin v10' /\ i \notin v19'
      BY <2>4 DEF Win!libusb_release_interface, Win!Rend
    <3> QED BY <1>1, <2>1, <2>2, <3>1, <3>2 DEF Win!Reclamation
  <2> QED BY <2>3, <2>4
<1> QED BY <1>2, <1>3, <1>4, <1>5, <1>6, <1>7 DEF Win!Inductif


(* Only the thread that moves has another step.                            *)
LEMMA WinVa ==
    ASSUME Win!Hypotheses, Win!TypeWindows, NEW f \in FWin \cup {Win!Evts}, NEW e, Win!Va(f, e)
    PROVE  v13'[f] = e /\ \A g \in FWin \cup {Win!Evts} : g # f => v13'[g] = v13[g]
BY DEF Win!TypeWindows, Win!Va

(* A thread that has nothing in hand. *)
LEMMA WinRepos ==
    ASSUME Win!Hypotheses, Win!Inductif
    PROVE  /\ \A f \in FWin : v13[f] = "repos" => v14[f] = Rien /\ ~v17[f] /\ v12 # f
           /\ \A f \in FWin : v13[f] # "repos" => v14[f] \in v1 /\ v14[f] \in TWin /\ v14[f] # v14[Win!Evts]
           /\ \A f, g \in FWin : v13[f] # "repos" /\ f # g => v14[f] # v14[g]
           /\ \A f \in FWin : f # Win!Evts
<1>1. ASSUME NEW f \in FWin PROVE Win!Fil(f)
  BY DEF Win!Inductif
<1>2. v1 \subseteq TWin
  BY DEF Win!Inductif, Win!TypeWindows
<1> QED BY <1>1, <1>2, WinConstantes DEF Win!Fil

(* A submission starts with a transfer that nobody has.                    *)
LEMMA WinSoumet ==
    ASSUME Win!Hypotheses, Win!Inductif, NEW f \in FWin, NEW t \in TWin, Win!libusb_submit_transfer(f, t)
    PROVE  Win!Inductif'
<1> USE WinConstantes
<1>a. PICK e \in {"reclame", "cree", "refuse"} :
        /\ v13[f] = "repos" /\ t \notin v1 /\ v2 < MaxSoumissions
        /\ v1' = v1 \cup {t}
        /\ v2' = v2 + 1 /\ v8' = [v8 EXCEPT ![v2 + 1] = t]
        /\ v5' = [v5 EXCEPT ![t] = Win!INVALID_WINFD]
        /\ v14' = [v14 EXCEPT ![f] = t]
        /\ Win!Va(f, e)
        /\ UNCHANGED <<v6, Win!table, Win!reclames, Win!temoins, v16, v17, v18>>
  BY DEF Win!libusb_submit_transfer
<1>b. v15' \in [FWin -> Win!I] /\ \A g \in FWin : g # f => v15'[g] = v15[g]
  <2>1. v9 # {} => Win!Min(v9) \in Win!I
    <3>1. v9 \subseteq Win!I /\ Win!I \subseteq Nat
      BY DEF Win!Inductif, Win!TypeWindows
    <3> QED BY <3>1, WinMin
  <2>2. PICK i \in Win!I : v15' = [v15 EXCEPT ![f] = i]
    BY <2>1 DEF Win!libusb_submit_transfer
  <2> QED BY <2>2 DEF Win!Inductif, Win!TypeWindows
<1>c. v13'[f] = e /\ \A g \in FWin \cup {Win!Evts} : g # f => v13'[g] = v13[g]
  BY <1>a, WinVa DEF Win!Inductif
<1>d. /\ v2' \in Win!Ov /\ v8'[v2'] = t
      /\ \A n \in Win!Ov : v8[n] # Rien => v8'[n] = v8[n]
  BY <1>a DEF Win!Inductif, Win!TypeWindows
<1>e. /\ v5'[t] = Win!INVALID_WINFD /\ \A u \in TWin : u # t => v5'[u] = v5[u]
      /\ v14'[f] = t /\ \A g \in FWin \cup {Win!Evts} : g # f => v14'[g] = v14[g]
  BY <1>a DEF Win!Inductif, Win!TypeWindows
<1>g. /\ v1 \subseteq TWin /\ f # Win!Evts /\ v14[f] = Rien /\ ~v17[f] /\ v12 # f
  BY <1>a, WinRepos DEF Win!Inductif, Win!TypeWindows
<1>h. \A u \in TWin : Win!Suivi(u)' <=> Win!Suivi(u)
  BY <1>a, <1>e DEF Win!Suivi
<1> USE DEF Win!table, Win!reclames, Win!temoins
<1>1. Win!TypeWindows'
  <2>1. v1' \in SUBSET TWin /\ Win!IsFiniteSet(v1')
    BY <1>a, WinPlus DEF Win!Inductif, Win!TypeWindows
  <2>2. /\ v2' \in 0..MaxSoumissions /\ v8' \in [Win!Ov -> TWin \cup {Rien}]
        /\ \A n \in Win!Ov : n > v2' => v8'[n] = Rien
    BY <1>a DEF Win!Inductif, Win!TypeWindows
  <2>3. /\ v5' \in [TWin -> [fd : Nat, overlapped : Nat]]
        /\ v14' \in [FWin \cup {Win!Evts} -> TWin \cup {Rien}]
    BY <1>a DEF Win!Inductif, Win!TypeWindows, Win!INVALID_WINFD
  <2>4. v13' \in [FWin \cup {Win!Evts} -> {"repos", "reclame", "compte", "cree", "lance", "ajoute", "refuse",
                                 "poll", "trouve", "rend", "libere", "relache", "repond"}]
    BY <1>a DEF Win!Inductif, Win!TypeWindows, Win!Va
  <2> QED BY <1>a, <1>b, <2>1, <2>2, <2>3, <2>4 DEF Win!Inductif, Win!TypeWindows
<1>2. Win!Evenements'
  <2>1. v14'[Win!Evts] = v14[Win!Evts] /\ v13'[Win!Evts] = v13[Win!Evts]
    BY <1>c, <1>e, <1>g
  <2>2. v14[Win!Evts] # Rien => v14[Win!Evts] \in v1 /\ v14[Win!Evts] # t /\ v14[Win!Evts] \in TWin
    BY <1>a, <1>g DEF Win!Inductif, Win!Evenements
  <2> QED BY <1>a, <1>e, <1>h, <2>1, <2>2 DEF Win!Inductif, Win!Evenements
<1>3. ASSUME NEW g \in FWin PROVE Win!Fil(g)'
  <2>1. Win!Fil(g)
    BY DEF Win!Inductif
  <2>2. CASE g = f
    <3>1. t # v14'[Win!Evts] /\ \A k \in FWin : v14'[k] = t => k = f
      BY <1>a, <1>e, <1>g, WinRepos DEF Win!Inductif, Win!Evenements
    <3>2. ~Win!Suivi(t)'
      BY <1>e DEF Win!Suivi
    <3>3. \E n \in Win!Ov : v8'[n] = v14'[f]
      BY <1>d, <1>e
    <3> QED BY <1>a, <1>c, <1>e, <1>g, <2>2, <3>1, <3>2, <3>3 DEF Win!Fil
  <2>3. CASE g # f
    <3>1. v14[g] # Rien => v14[g] # t /\ v14[g] \in TWin
      BY <1>a, <1>g, <2>1 DEF Win!Fil
    <3>2. v14[g] # Rien => (Win!Suivi(v14[g])' <=> Win!Suivi(v14[g])) /\ v5'[v14[g]] = v5[v14[g]]
      BY <1>e, <1>h, <2>3, <3>1
    <3>3. /\ v13'[g] = v13[g] /\ v14'[g] = v14[g] /\ v14'[Win!Evts] = v14[Win!Evts]
          /\ UNCHANGED <<v17, v12, v16, v4, v3, v6>>
          /\ v1 \subseteq v1' /\ v15'[g] = v15[g]
      BY <1>a, <1>b, <1>c, <1>e, <1>g, <2>3
    <3>4. v14[g] # Rien => /\ \E n \in Win!Ov : v8'[n] = v14[g]
                          /\ \A k \in FWin : v14'[k] = v14[g] => k = g
      BY <1>d, <1>e, <2>1, <2>3, <3>1 DEF Win!Fil
    <3>5. v13[g] = "lance" => v8'[v3[v16[g]]] = v14[g]
      BY <1>d, <2>1 DEF Win!Fil
    <3> QED BY <2>1, <3>1, <3>2, <3>3, <3>4, <3>5 DEF Win!Fil
  <2> QED BY <2>2, <2>3
<1>4. ASSUME NEW u \in TWin PROVE Win!Transfert(u)'
  <2>1. Win!Transfert(u) /\ (Win!Suivi(u)' => u # t)
    BY <1>e DEF Win!Inductif, Win!Suivi
  <2>2. (\E g \in FWin : v14[g] = u /\ v13[g] = "ajoute") => \E g \in FWin : v14'[g] = u /\ v13'[g] = "ajoute"
    BY <1>a, <1>c, <1>e
  <2> QED BY <1>a, <1>d, <1>e, <1>g, <1>h, <2>1, <2>2 DEF Win!Transfert
<1>5. ASSUME NEW d \in 1..NFdWin PROVE Win!Entree(d)'
  <2>1. Win!Entree(d)
    BY DEF Win!Inductif
  <2> QED BY <1>a, <1>e, <1>g, <1>h, <2>1 DEF Win!Entree
<1>6. ASSUME NEW i \in Win!I PROVE Win!Reclamation(i)'
  <2>1. Win!EnRelache(i)' <=> Win!EnRelache(i)
    BY <1>a, <1>c, <1>e, <1>g DEF Win!EnRelache
  <2>2. Win!Comptes(i) \subseteq Win!Comptes(i)'
    BY <1>a, <1>b, <1>c, <1>e, <1>g, <1>h DEF Win!Comptes
  <2>3. (\E g \in FWin : v13[g] = "compte" /\ v15[g] = i) => \E g \in FWin : v13'[g] = "compte" /\ v15'[g] = i
    BY <1>a, <1>b, <1>c
  <2> QED BY <1>a, <1>1, <2>1, <2>2, <2>3, WinReclamation
<1> QED BY <1>1, <1>2, <1>3, <1>4, <1>5, <1>6 DEF Win!Inductif


(* What holds still when a thread claims for its transfer. *)
LEMMA WinLocal ==
    ASSUME Win!Hypotheses, Win!Inductif, NEW f \in FWin, v13[f] \in {"reclame", "compte"},
           UNCHANGED <<Win!soumis, Win!table, v14, v16, v18>>,
           v13'[f] \in {"compte", "cree", "refuse"}, \A g \in FWin \cup {Win!Evts} : g # f => v13'[g] = v13[g],
           v12 \in {f, Rien}, v12' = IF v13'[f] = "compte" THEN f ELSE Rien,
           v17'[f] => v13'[f] \in {"cree", "refuse"},
           \A g \in FWin : g # f => v17'[g] = v17[g] /\ v15'[g] = v15[g]
    PROVE  /\ Win!Evenements' /\ (\A g \in FWin : Win!Fil(g)') /\ (\A t \in TWin : Win!Transfert(t)')
           /\ \A d \in 1..NFdWin : Win!Entree(d)'
<1> USE WinConstantes DEF Win!soumis, Win!table
<1>1. \A t \in TWin : Win!Suivi(t)' <=> Win!Suivi(t)
  BY DEF Win!Suivi
<1>2. f # Win!Evts /\ v13'[Win!Evts] = v13[Win!Evts]
  BY WinRepos
<1>3. Win!Evenements'
  <2>1. Win!Suivi(v14[Win!Evts])' <=> Win!Suivi(v14[Win!Evts])
    BY DEF Win!Suivi
  <2> QED BY <1>2, <2>1 DEF Win!Inductif, Win!Evenements
<1>4. ASSUME NEW g \in FWin PROVE Win!Fil(g)'
  <2>1. Win!Fil(g) /\ (Win!Suivi(v14[g])' <=> Win!Suivi(v14[g]))
    BY DEF Win!Inductif, Win!Suivi
  <2>2. CASE g = f
    BY <2>1, <2>2 DEF Win!Fil
  <2>3. CASE g # f
    <3>1. v12 # g /\ v12' # g
      BY <2>3
    <3>2. v13'[g] = v13[g] /\ v17'[g] = v17[g] /\ v15'[g] = v15[g]
      BY <2>3
    <3> QED BY <2>1, <3>1, <3>2 DEF Win!Fil
  <2> QED BY <2>2, <2>3
<1>5. ASSUME NEW t \in TWin PROVE Win!Transfert(t)'
  BY <1>1, <1>5 DEF Win!Inductif, Win!Transfert
<1>6. ASSUME NEW d \in 1..NFdWin PROVE Win!Entree(d)'
  BY <1>1, <1>6 DEF Win!Inductif, Win!Entree, Win!TypeWindows
<1> QED BY <1>3, <1>4, <1>5, <1>6

(* auto_claim gets an interface, or none, ...                              *)
LEMMA WinReclame ==
    ASSUME Win!Hypotheses, Win!Inductif, NEW f \in FWin, Win!auto_claim(f)
    PROVE  Win!Inductif'
<1> USE WinConstantes
<1>a. /\ v13[f] = "reclame" /\ v12 = Rien
      /\ UNCHANGED <<Win!soumis, Win!table, v11, Win!temoins, v14, v16, v17, v18>>
  BY DEF Win!auto_claim
<1>b. /\ v13'[f] \in {"compte", "refuse"} /\ \A g \in FWin \cup {Win!Evts} : g # f => v13'[g] = v13[g]
      /\ v13' \in [FWin \cup {Win!Evts} -> {"repos", "reclame", "compte", "cree", "lance", "ajoute", "refuse",
                                 "poll", "trouve", "rend", "libere", "relache", "repond"}]
  BY DEF Win!Inductif, Win!TypeWindows, Win!auto_claim, Win!Va
<1>c. \/ \E i \in Win!I : Win!Obtient(i) /\ v15' = [v15 EXCEPT ![f] = i] /\ v12' = f /\ v13'[f] = "compte"
      \/ v13'[f] = "refuse" /\ UNCHANGED <<v15, v12, v10, v9>>
  BY WinVa DEF Win!Inductif, Win!auto_claim
<1>d. ~v17[f] /\ \A g \in FWin : g # f => v15'[g] = v15[g]
  <2>1. ~v17[f]
    BY <1>a DEF Win!Inductif, Win!Fil
  <2>2. v15 \in [FWin -> Win!I]
    BY DEF Win!Inductif, Win!TypeWindows
  <2> QED BY <1>c, <2>1, <2>2
<1> USE DEF Win!temoins
<1>1. Win!TypeWindows'
  <2>1. v15' \in [FWin -> Win!I] /\ v10' \in SUBSET Win!I /\ v9' \in SUBSET Win!I
    BY <1>c DEF Win!Inductif, Win!TypeWindows, Win!Obtient
  <2> QED BY <1>a, <1>b, <2>1 DEF Win!Inductif, Win!TypeWindows, Win!soumis, Win!table
<1>2. /\ Win!Evenements' /\ (\A g \in FWin : Win!Fil(g)') /\ (\A t \in TWin : Win!Transfert(t)')
      /\ \A d \in 1..NFdWin : Win!Entree(d)'
  BY <1>a, <1>b, <1>c, <1>d, WinLocal
<1>3. ASSUME NEW i \in Win!I PROVE Win!Reclamation(i)'
  <2>1. v13'[Win!Evts] = v13[Win!Evts]
    BY <1>b, WinRepos
  <2>2. Win!EnRelache(i)' <=> Win!EnRelache(i)
    BY <1>a, <2>1 DEF Win!EnRelache, Win!soumis
  <2>3. Win!Comptes(i)' = Win!Comptes(i)
    <3>1. \A g \in FWin : v17[g] => v15'[g] = v15[g]
      BY <1>c, <1>d DEF Win!Inductif, Win!TypeWindows
    <3> QED BY <1>a, <2>1, <3>1 DEF Win!Comptes, Win!Suivi, Win!soumis
  <2>4. \A g \in FWin : v13[g] = "compte" => v13'[g] = "compte" /\ v15'[g] = v15[g]
    BY <1>a, <1>b, <1>c DEF Win!Inductif, Win!TypeWindows
  <2>5. CASE UNCHANGED v10
    BY <1>1, <1>a, <2>2, <2>3, <2>4, <2>5, WinReclamation
  <2>6. CASE \E j \in Win!I : Win!Obtient(j) /\ v15' = [v15 EXCEPT ![f] = j] /\ v13'[f] = "compte"
    <3>1. PICK j \in Win!I : Win!Obtient(j) /\ v15' = [v15 EXCEPT ![f] = j] /\ v13'[f] = "compte"
      BY <2>6
    <3>2. v15'[f] = j
      BY <3>1 DEF Win!Inductif, Win!TypeWindows
    <3>3. i \in v10' <=> i \in v10 \/ i = j
      BY <3>1 DEF Win!Obtient
    <3> QED BY <1>a, <2>2, <2>3, <2>4, <3>1, <3>2, <3>3 DEF Win!Inductif, Win!Reclamation
  <2> QED BY <1>c, <2>5, <2>6
<1> QED BY <1>1, <1>2, <1>3 DEF Win!Inductif

(* ... and counts the transfer.                                            *)
LEMMA WinCompte ==
    ASSUME Win!Hypotheses, Win!Inductif, NEW f \in FWin, Win!Compte(f)
    PROVE  Win!Inductif'
<1> USE WinConstantes
<1> DEFINE i == v15[f]
<1>a. /\ v13[f] = "compte" /\ v12 = f /\ v12' = Rien
      /\ v11' = [v11 EXCEPT ![i] = @ + 1]
      /\ v20' = IF i \in v19 THEN v20 \cup {i} ELSE v20
      /\ v17' = [v17 EXCEPT ![f] = TRUE]
      /\ UNCHANGED <<Win!soumis, Win!table, v9, v10, v19, v21, v22, v14, v15, v16, v18>>
  BY DEF Win!Compte, Win!Inductif, Win!Fil
<1>b. /\ v13'[f] = "cree" /\ \A g \in FWin \cup {Win!Evts} : g # f => v13'[g] = v13[g]
      /\ v13' \in [FWin \cup {Win!Evts} -> {"repos", "reclame", "compte", "cree", "lance", "ajoute", "refuse",
                                 "poll", "trouve", "rend", "libere", "relache", "repond"}]
  BY DEF Win!Inductif, Win!TypeWindows, Win!Compte, Win!Va
<1>c. /\ v17'[f] /\ ~v17[f] /\ \A g \in FWin : g # f => v17'[g] = v17[g]
  <2>1. ~v17[f]
    BY <1>a DEF Win!Inductif, Win!Fil
  <2>2. v17 \in [FWin -> BOOLEAN]
    BY DEF Win!Inductif, Win!TypeWindows
  <2>3. v17' = [v17 EXCEPT ![f] = TRUE]
    BY <1>a
  <2>4. v17'[f] /\ \A g \in FWin : g # f => v17'[g] = v17[g]
    BY <2>2, <2>3
  <2> QED BY <2>1, <2>4
<1>d. i \in Win!I /\ v11[i] \in Nat /\ v11'[i] = v11[i] + 1
      /\ \A j \in Win!I : j # i => v11'[j] = v11[j]
  BY <1>a DEF Win!Inductif, Win!TypeWindows
<1>1. Win!TypeWindows'
  <2>1. v11' \in [Win!I -> Nat] /\ v20' \in SUBSET Win!I /\ v17' \in [FWin -> BOOLEAN]
    BY <1>a, <1>d DEF Win!Inductif, Win!TypeWindows
  <2> QED BY <1>a, <1>b, <2>1 DEF Win!Inductif, Win!TypeWindows, Win!soumis, Win!table
<1>2. /\ Win!Evenements' /\ (\A g \in FWin : Win!Fil(g)') /\ (\A t \in TWin : Win!Transfert(t)')
      /\ \A d \in 1..NFdWin : Win!Entree(d)'
  BY <1>a, <1>b, <1>c, WinLocal
<1>3. ASSUME NEW j \in Win!I PROVE Win!Reclamation(j)'
  <2>1. v13'[Win!Evts] = v13[Win!Evts] /\ v13[Win!Evts] # "relache"
    BY <1>a, <1>b, WinRepos DEF Win!Inductif, Win!Evenements
  <2>2. ~Win!EnRelache(j)' /\ ~Win!EnRelache(j)
    BY <2>1 DEF Win!EnRelache
  <2>3. /\ v14[f] \in v1 /\ ~Win!Suivi(v14[f]) /\ v14[Win!Evts] # v14[f] /\ \A g \in FWin : v14[g] = v14[f] => g = f
    BY <1>a, WinRepos DEF Win!Inductif, Win!Fil
  <2>4. Win!Reclamation(j)
    BY DEF Win!Inductif
  <2>5. CASE j = i
    <3>1. Win!Comptes(j)' = Win!Comptes(j) \cup {v14[f]}
      BY <1>a, <1>b, <1>c, <2>1, <2>3, <2>5 DEF Win!Comptes, Win!Suivi, Win!soumis
    <3>2. v14[f] \notin Win!Comptes(j)
      BY <1>c, <2>3 DEF Win!Comptes
    <3>3. Win!IsFiniteSet(Win!Comptes(j)) /\ Win!Cardinality(Win!Comptes(j)) \in Nat
      BY WinFini DEF Win!Inductif, Win!TypeWindows, Win!Comptes
    <3>4. Win!Cardinality(Win!Comptes(j)') = Win!Cardinality(Win!Comptes(j)) + 1
      BY <3>1, <3>2, <3>3, WinPlus
    <3>5. j \notin v21 => v11'[j] <= Win!Cardinality(Win!Comptes(j)')
      BY <1>d, <2>4, <2>5, <3>3, <3>4 DEF Win!Reclamation
    <3>6. v11'[j] > 0
      BY <1>d, <2>5
    <3>7. j \in v19 => j \in v20'
      BY <1>a, <2>5
    <3> QED BY <1>a, <2>2, <2>4, <3>5, <3>6, <3>7 DEF Win!Reclamation
  <2>6. CASE j # i
    <3>1. Win!Comptes(j)' = Win!Comptes(j)
      BY <1>a, <1>b, <1>c, <2>1, <2>6 DEF Win!Comptes, Win!Suivi, Win!soumis
    <3>2. v11'[j] = v11[j] /\ (j \in v20' <=> j \in v20)
      BY <1>a, <1>d, <2>6
    <3>3. \A g \in FWin : v13[g] = "compte" /\ v15[g] = j => v13'[g] = "compte" /\ v15'[g] = j
      BY <1>a, <1>b, <2>6
    <3> QED BY <1>a, <2>2, <2>4, <3>1, <3>2, <3>3 DEF Win!Reclamation
  <2> QED BY <2>5, <2>6
<1> QED BY <1>1, <1>2, <1>3 DEF Win!Inductif


(* A free entry of the table is nobody's. *)
LEMMA WinLibre ==
    ASSUME Win!Hypotheses, Win!Inductif, NEW d \in 1..NFdWin, v3[d] = 0
    PROVE  /\ d \notin v4
           /\ \A t \in TWin : Win!Suivi(t) => v5[t].fd # d
           /\ \A g \in FWin : v13[g] = "lance" => v16[g] # d
<1>1. \A t \in TWin : Win!Suivi(t) => v5[t].fd # d
  BY WinConstantes DEF Win!Inductif, Win!Transfert
<1>2. d \notin v4
  BY <1>1 DEF Win!Inductif, Win!Entree, Win!TypeWindows
<1>3. \A g \in FWin : v13[g] = "lance" => v16[g] # d
  BY WinConstantes DEF Win!Inductif, Win!Fil
<1> QED BY <1>1, <1>2, <1>3

(* A submission gets an entry that is free.                                *)
LEMMA WinCree ==
    ASSUME Win!Hypotheses, Win!Inductif, NEW f \in FWin, Win!usbi_create_fd(f)
    PROVE  Win!Inductif'
<1> USE WinConstantes
<1> DEFINE d == Win!Min(Win!Libres)
           n == Win!Max({x \in Win!Ov : v8[x] = v14[f]})
<1>a. /\ v13[f] = "cree" /\ UNCHANGED <<Win!soumis, v4, v7, Win!reclames, Win!temoins, v14, v15, v17, v18>>
      /\ v13'[f] \in {"lance", "refuse"} /\ \A g \in FWin \cup {Win!Evts} : g # f => v13'[g] = v13[g]
      /\ v13' \in [FWin \cup {Win!Evts} -> {"repos", "reclame", "compte", "cree", "lance", "ajoute", "refuse",
                                 "poll", "trouve", "rend", "libere", "relache", "repond"}]
  BY DEF Win!Inductif, Win!TypeWindows, Win!usbi_create_fd, Win!Va
<1>b. \/ /\ Win!Libres # {} /\ v13'[f] = "lance"
         /\ v3' = [v3 EXCEPT ![d] = n] /\ v16' = [v16 EXCEPT ![f] = d]
      \/ v13'[f] = "refuse" /\ UNCHANGED <<v3, v16>>
  BY WinVa DEF Win!Inductif, Win!usbi_create_fd
<1>c. Win!Libres # {} => d \in 1..NFdWin /\ v3[d] = 0
  <2>1. Win!Libres \subseteq Nat /\ Win!Libres \subseteq 1..NFdWin
    BY DEF Win!Libres
  <2> QED BY <2>1, WinMin DEF Win!Libres
<1>d. n \in Win!Ov /\ v8[n] = v14[f]
  <2>1. \E x \in Win!Ov : v8[x] = v14[f]
    BY <1>a DEF Win!Inductif, Win!Fil
  <2> DEFINE S == {x \in Win!Ov : v8[x] = v14[f]}
  <2>2. S \subseteq 0..MaxSoumissions /\ S # {}
    BY <2>1
  <2>3. Win!Max(S) \in S
    <3> HIDE DEF S
    <3> QED BY <2>2, WinMax
  <2> QED BY <2>3
<1> HIDE DEF d, n
<1>e. \A x \in 1..NFdWin : v3[x] # 0 => v3'[x] = v3[x]
  BY <1>b, <1>c DEF Win!Inductif, Win!TypeWindows
<1>g. \A g \in FWin : g # f => v16'[g] = v16[g]
  BY <1>b DEF Win!Inductif, Win!TypeWindows
<1> USE DEF Win!soumis, Win!reclames, Win!temoins
<1>1. Win!TypeWindows'
  <2>1. v3' \in [1..NFdWin -> 0..MaxSoumissions] /\ v16' \in [FWin -> Nat]
    <3>1. /\ v3 \in [1..NFdWin -> 0..MaxSoumissions] /\ v16 \in [FWin -> Nat]
          /\ n \in 0..MaxSoumissions
      BY <1>d DEF Win!Inductif, Win!TypeWindows
    <3>2. CASE Win!Libres # {}
      <4>1. d \in 1..NFdWin /\ d \in Nat
        BY <1>c, <3>2
      <4>2. v16' \in [FWin -> Nat]
        BY <1>b, <3>1, <4>1
      <4>3. v3' \in [1..NFdWin -> 0..MaxSoumissions]
        BY <1>b, <3>1, <4>1
      <4> QED BY <4>2, <4>3
    <3>3. CASE Win!Libres = {}
      BY <1>b, <3>1, <3>3
    <3> QED BY <3>2, <3>3
  <2> QED BY <1>a, <2>1 DEF Win!Inductif, Win!TypeWindows
<1>h. \A t \in TWin : Win!Suivi(t)' <=> Win!Suivi(t)
  BY <1>a DEF Win!Suivi
<1>i. v13'[Win!Evts] = v13[Win!Evts] /\ f # Win!Evts
  BY <1>a, WinRepos
<1>j. \A x \in v4 : v3'[x] = v3[x]
  BY <1>e, WinLibre DEF Win!Inductif, Win!TypeWindows
<1>2. Win!Evenements'
  <2>1. Win!Suivi(v14[Win!Evts])' <=> Win!Suivi(v14[Win!Evts])
    BY <1>a DEF Win!Suivi
  <2> QED BY <1>a, <1>i, <1>j, <2>1 DEF Win!Inductif, Win!Evenements
<1>3. ASSUME NEW g \in FWin PROVE Win!Fil(g)'
  <2>1. Win!Fil(g) /\ (Win!Suivi(v14[g])' <=> Win!Suivi(v14[g]))
    BY <1>a DEF Win!Inductif, Win!Suivi
  <2>2. CASE g = f
    <3>1. v13'[f] = "lance" => /\ v16'[f] \in (1..NFdWin) \ v4
                              /\ v3'[v16'[f]] \in Win!Ov /\ v8[v3'[v16'[f]]] = v14[f]
      <4> SUFFICES ASSUME v13'[f] = "lance"
                   PROVE  /\ v16'[f] \in (1..NFdWin) \ v4
                          /\ v3'[v16'[f]] \in Win!Ov /\ v8[v3'[v16'[f]]] = v14[f]
        OBVIOUS
      <4>1. d \in 1..NFdWin /\ d \notin v4
        BY <1>b, <1>c, WinLibre
      <4>2. v16'[f] = d /\ v3'[d] = n
        BY <1>b, <4>1 DEF Win!Inductif, Win!TypeWindows
      <4> QED BY <1>d, <4>1, <4>2
    <3> QED BY <1>a, <2>1, <2>2, <3>1 DEF Win!Fil
  <2>3. CASE g # f
    <3>1. v13'[g] = v13[g] /\ v16'[g] = v16[g]
      BY <1>a, <1>g, <2>3
    <3>2. v13[g] = "lance" => v3'[v16[g]] = v3[v16[g]]
      BY <1>e, <2>1 DEF Win!Fil
    <3> QED BY <1>a, <2>1, <3>1, <3>2 DEF Win!Fil
  <2> QED BY <2>2, <2>3
<1>4. ASSUME NEW t \in TWin PROVE Win!Transfert(t)'
  <2>1. Win!Transfert(t) /\ (Win!Suivi(t)' <=> Win!Suivi(t))
    BY <1>h DEF Win!Inductif
  <2>2. Win!Suivi(t) => v3'[v5[t].fd] = v3[v5[t].fd]
    BY <1>e, <2>1 DEF Win!Transfert
  <2>3. \A g \in FWin : v14[g] = t /\ v13[g] = "ajoute" => v14'[g] = t /\ v13'[g] = "ajoute"
    BY <1>a
  <2> QED BY <1>a, <2>1, <2>2, <2>3 DEF Win!Transfert
<1>5. ASSUME NEW x \in 1..NFdWin PROVE Win!Entree(x)'
  BY <1>a, <1>h, <1>5 DEF Win!Inductif, Win!Entree, Win!TypeWindows
<1>6. ASSUME NEW i \in Win!I PROVE Win!Reclamation(i)'
  <2>1. Win!EnRelache(i)' <=> Win!EnRelache(i)
    BY <1>a, <1>i DEF Win!EnRelache
  <2>2. Win!Comptes(i)' = Win!Comptes(i)
    BY <1>a, <1>i DEF Win!Comptes, Win!Suivi
  <2>3. \A g \in FWin : v13[g] = "compte" /\ v15[g] = i => v13'[g] = "compte" /\ v15'[g] = i
    BY <1>a
  <2> QED BY <1>1, <1>a, <2>1, <2>2, <2>3, WinReclamation
<1> QED BY <1>1, <1>2, <1>3, <1>4, <1>5, <1>6 DEF Win!Inductif


(* The entry of a submission is no other transfer's. *)
LEMMA WinEntree ==
    ASSUME Win!Hypotheses, Win!Inductif, NEW t \in TWin, NEW d \in 1..NFdWin, v3[d] \in Win!Ov, v8[v3[d]] = t
    PROVE  /\ \A u \in TWin : Win!Suivi(u) /\ u # t => /\ v5[u].fd # d /\ v5[u].overlapped # v3[d]
                                              /\ v5[u].overlapped \in Win!Ov
           /\ \A g \in FWin : v13[g] = "lance" /\ v14[g] # t => v16[g] # d /\ v3[v16[g]] # v3[d]
           /\ ~Win!Suivi(t) \/ v5[t].fd \notin v4
                => \A x \in v4 : x # d => v3[x] \in Win!Ov /\ v3[x] # v3[d]
<1>1. ASSUME NEW u \in TWin, Win!Suivi(u), u # t
      PROVE  /\ v5[u].fd # d /\ v5[u].overlapped # v3[d]
             /\ v5[u].overlapped \in Win!Ov
  BY <1>1 DEF Win!Inductif, Win!Transfert
<1>2. ASSUME NEW g \in FWin, v13[g] = "lance", v14[g] # t PROVE v16[g] # d /\ v3[v16[g]] # v3[d]
  BY <1>2 DEF Win!Inductif, Win!Fil
<1>3. ASSUME ~Win!Suivi(t) \/ v5[t].fd \notin v4, NEW x \in v4
      PROVE  v3[x] \in Win!Ov /\ v3[x] # v3[d]
  <2>1. PICK u \in v1 : Win!Suivi(u) /\ v5[u].fd = x
    BY DEF Win!Inductif, Win!Entree, Win!TypeWindows
  <2>2. u \in TWin /\ u # t
    BY <1>3, <2>1 DEF Win!Inductif, Win!TypeWindows
  <2> QED BY <1>1, <2>1, <2>2 DEF Win!Inductif, Win!Transfert
<1> QED BY <1>1, <1>2, <1>3

(* A request is pending or done: the transfer has its descriptor. *)
LEMMA WinLance ==
    ASSUME Win!Hypotheses, Win!Inductif, NEW f \in FWin, Win!Lance(f), v13'[f] = "ajoute"
    PROVE  Win!Inductif'
<1> USE WinConstantes
<1> DEFINE d == v16[f]
           n == v3[d]
           t == v14[f]
<1>a. /\ v13[f] = "lance" /\ \A g \in FWin \cup {Win!Evts} : g # f => v13'[g] = v13[g]
      /\ UNCHANGED <<v1, v2, v8, v4, v3, Win!reclames, Win!temoins, Win!locaux>>
      /\ \E r \in {"encours", "fini"} : v7' = [v7 EXCEPT ![n] = r]
      /\ v5' = [v5 EXCEPT ![t] = [fd |-> d, overlapped |-> n]]
      /\ v6' = [v6 EXCEPT ![t] = v15[f]]
      /\ v13' \in [FWin \cup {Win!Evts} -> {"repos", "reclame", "compte", "cree", "lance", "ajoute", "refuse",
                                 "poll", "trouve", "rend", "libere", "relache", "repond"}]
  <2>1. v13[f] = "lance" /\ v13' = [v13 EXCEPT ![f] = "ajoute"]
    BY WinVa DEF Win!Lance, Win!Va, Win!Inductif, Win!TypeWindows
  <2> QED BY <2>1 DEF Win!Lance, Win!Va, Win!Inductif, Win!TypeWindows
<1>b. /\ d \in 1..NFdWin /\ d \notin v4 /\ n \in Win!Ov /\ v8[n] = t /\ t \in TWin /\ t \in v1
      /\ ~Win!Suivi(t) /\ t # v14[Win!Evts] /\ f # Win!Evts /\ \A g \in FWin : v14[g] = t => g = f
  BY <1>a, WinRepos DEF Win!Inductif, Win!Fil
<1> HIDE DEF d, n, t
<1>c. /\ v5'[t] = [fd |-> d, overlapped |-> n] /\ \A u \in TWin : u # t => v5'[u] = v5[u]
      /\ v6'[t] = v15[f] /\ \A u \in TWin : u # t => v6'[u] = v6[u]
      /\ v7'[n] \in {"encours", "fini"} /\ \A m \in Win!Ov : m # n => v7'[m] = v7[m]
  BY <1>a, <1>b DEF Win!Inductif, Win!TypeWindows
<1>d. v13'[Win!Evts] = v13[Win!Evts]
  BY <1>a, <1>b
<1> USE DEF Win!reclames, Win!temoins, Win!locaux
<1>e. Win!Suivi(t)' /\ v5'[t].fd = d /\ v5'[t].overlapped = n
  <2>1. v5'[t] # Win!INVALID_WINFD
    BY <1>b, <1>c DEF Win!INVALID_WINFD
  <2>2. t' = t
    BY <1>a DEF t
  <2> QED BY <1>a, <1>b, <1>c, <2>1, <2>2 DEF Win!Suivi
<1>g. \A u \in TWin : u # t => (Win!Suivi(u)' <=> Win!Suivi(u))
  BY <1>a, <1>c DEF Win!Suivi
<1>1. Win!TypeWindows'
  <2>1. d \in Nat /\ n \in Nat /\ v15[f] \in Win!I
    BY <1>b DEF Win!Inductif, Win!TypeWindows
  <2>2. v5' \in [TWin -> [fd : Nat, overlapped : Nat]]
    <3>1. v5 \in [TWin -> [fd : Nat, overlapped : Nat]]
      BY DEF Win!Inductif, Win!TypeWindows
    <3>2. [fd |-> d, overlapped |-> n] \in [fd : Nat, overlapped : Nat]
      BY <2>1
    <3> QED BY <1>a, <3>1, <3>2
  <2>3. v6' \in [TWin -> Win!I]
    BY <1>a, <2>1 DEF Win!Inductif, Win!TypeWindows
  <2>4. v7' \in [Win!Ov -> {"aucun", "encours", "fini", "abandonne", "libere"}]
    BY <1>a DEF Win!Inductif, Win!TypeWindows
  <2> QED BY <1>a, <2>2, <2>3, <2>4 DEF Win!Inductif, Win!TypeWindows
<1>h. \A x \in v4 : v3[x] \in Win!Ov /\ v3[x] # n
  BY <1>b, WinEntree DEF n
<1>2. Win!Evenements'
  <2>1. v14[Win!Evts] # Rien => v14[Win!Evts] \in TWin
    BY DEF Win!Inductif, Win!TypeWindows
  <2>2. v14[Win!Evts] # Rien => (Win!Suivi(v14[Win!Evts])' <=> Win!Suivi(v14[Win!Evts]))
    <3>1. v14'[Win!Evts] = v14[Win!Evts]
      BY <1>a
    <3> QED BY <1>a, <1>b, <1>g, <2>1, <3>1 DEF Win!Suivi
  <2>3. v13[Win!Evts] = "rend" => LET v == v5[v14[Win!Evts]] IN
            v5'[v14[Win!Evts]] = v /\ v7'[v.overlapped] = v7[v.overlapped]
    <3> SUFFICES ASSUME v13[Win!Evts] = "rend"
                 PROVE  LET v == v5[v14[Win!Evts]] IN
                            v5'[v14[Win!Evts]] = v /\ v7'[v.overlapped] = v7[v.overlapped]
      OBVIOUS
    <3>1. v14[Win!Evts] \in TWin /\ v14[Win!Evts] # t /\ Win!Suivi(v14[Win!Evts])
      BY <1>b, <2>1 DEF Win!Inductif, Win!Evenements
    <3>2. /\ v5[v14[Win!Evts]].overlapped \in Win!Ov
          /\ v8[v5[v14[Win!Evts]].overlapped] = v14[Win!Evts]
      BY <3>1 DEF Win!Inductif, Win!Transfert
    <3> QED BY <1>b, <1>c, <3>1, <3>2
  <2>4. v13[Win!Evts] # "poll" => \A x \in v18 : v13[Win!Evts] = "trouve" \/ x # Win!Min(v18)
            => v7'[v3[x]] # "encours" /\ x \in v4
    BY <1>c, <1>h DEF Win!Inductif, Win!Evenements
  <2> QED BY <1>a, <1>d, <2>2, <2>3, <2>4 DEF Win!Inductif, Win!Evenements
<1>3. ASSUME NEW g \in FWin PROVE Win!Fil(g)'
  <2>1. Win!Fil(g)
    BY DEF Win!Inductif
  <2>2. CASE g = f
    <3>1. Win!Suivi(v14[g])'
      BY <1>a, <1>e, <2>2 DEF t
    <3>2. v5'[v14'[g]].fd = v16'[g] /\ v16'[g] \notin v4 /\ v6'[v14'[g]] = v15'[g]
      BY <1>a, <1>b, <1>c, <2>2 DEF t, d
    <3> QED BY <1>a, <1>b, <2>1, <2>2, <3>1, <3>2 DEF Win!Fil
  <2>3. CASE g # f
    <3>1. v13'[g] = v13[g]
      BY <1>a, <2>3
    <3>2. v14[g] # Rien => v14[g] \in TWin /\ v14[g] # t
      BY <1>b, <2>1, <2>3 DEF Win!Inductif, Win!TypeWindows
    <3>3. v14[g] # Rien => /\ Win!Suivi(v14[g])' <=> Win!Suivi(v14[g])
                          /\ v5'[v14[g]] = v5[v14[g]]
                          /\ v6'[v14[g]] = v6[v14[g]]
      BY <1>a, <1>c, <1>g, <3>2
    <3> QED BY <1>a, <2>1, <3>1, <3>2, <3>3 DEF Win!Fil
  <2> QED BY <2>2, <2>3
<1>4. ASSUME NEW u \in TWin PROVE Win!Transfert(u)'
  <2>1. CASE u = t
    <3>1. v14'[f] = t /\ v13'[f] = "ajoute"
      BY <1>a DEF t
    <3> QED BY <1>a, <1>b, <1>c, <1>e, <2>1, <3>1 DEF Win!Transfert, n
  <2>2. CASE u # t
    <3>1. Win!Transfert(u) /\ (Win!Suivi(u)' <=> Win!Suivi(u)) /\ v5'[u] = v5[u]
      BY <1>c, <1>g, <2>2 DEF Win!Inductif
    <3>2. Win!Suivi(u) => v7'[v5[u].overlapped] = v7[v5[u].overlapped]
      BY <1>b, <1>c, <2>2, <3>1 DEF Win!Transfert
    <3>3. \A g \in FWin : v14[g] = u /\ v13[g] = "ajoute" => v14'[g] = u /\ v13'[g] = "ajoute"
      BY <1>a
    <3> QED BY <1>a, <3>1, <3>2, <3>3 DEF Win!Transfert
  <2> QED BY <2>1, <2>2
<1>5. ASSUME NEW x \in 1..NFdWin PROVE Win!Entree(x)'
  <2>1. Win!Entree(x) /\ v1 \subseteq TWin
    BY DEF Win!Inductif, Win!TypeWindows
  <2> QED BY <1>a, <1>b, <1>c, <1>g, <2>1 DEF Win!Entree
<1>6. ASSUME NEW i \in Win!I PROVE Win!Reclamation(i)'
  <2>1. Win!EnRelache(i)' <=> Win!EnRelache(i)
    <3>1. v13[Win!Evts] = "relache" => v14[Win!Evts] \in TWin /\ v14[Win!Evts] # t
      BY <1>b DEF Win!Inductif, Win!Evenements, Win!TypeWindows
    <3> QED BY <1>a, <1>c, <1>d, <3>1 DEF Win!EnRelache
  <2>2. Win!Comptes(i) \subseteq Win!Comptes(i)'
    <3> SUFFICES ASSUME NEW u \in Win!Comptes(i) PROVE u \in Win!Comptes(i)'
      OBVIOUS
    <3>1. u \in v1' /\ u \in TWin
      BY <1>a DEF Win!Comptes, Win!Inductif, Win!TypeWindows
    <3>2. CASE u = t
      <4>1. v15[f] = i
        BY <1>b, <3>2 DEF Win!Comptes
      <4>2. v6'[u] = i
        BY <1>c, <3>2, <4>1
      <4>3. Win!Suivi(u)'
        BY <1>b, <1>c, <3>1, <3>2 DEF Win!Suivi, Win!INVALID_WINFD
      <4> QED BY <3>1, <4>2, <4>3 DEF Win!Comptes
    <3>3. CASE u # t
      BY <1>a, <1>c, <1>d, <1>g, <3>1, <3>3 DEF Win!Comptes
    <3> QED BY <3>2, <3>3
  <2>3. \A g \in FWin : v13[g] = "compte" /\ v15[g] = i => v13'[g] = "compte" /\ v15'[g] = i
    BY <1>a
  <2> QED BY <1>1, <1>a, <2>1, <2>2, <2>3, WinReclamation
<1> QED BY <1>1, <1>2, <1>3, <1>4, <1>5, <1>6 DEF Win!Inductif

(* A request is refused: its entry is free again. *)
LEMMA WinEchec ==
    ASSUME Win!Hypotheses, Win!Inductif, NEW f \in FWin, Win!Lance(f), v13'[f] # "ajoute"
    PROVE  Win!Inductif'
<1> USE WinConstantes
<1> DEFINE d == v16[f]
           n == v3[d]
           t == v14[f]
<1>a. /\ v13[f] = "lance" /\ v13'[f] = "refuse" /\ \A g \in FWin \cup {Win!Evts} : g # f => v13'[g] = v13[g]
      /\ UNCHANGED <<Win!soumis, v4, Win!reclames, Win!temoins, Win!locaux>>
      /\ v3' = [v3 EXCEPT ![d] = 0] /\ v7' = [v7 EXCEPT ![n] = "libere"]
      /\ v13' \in [FWin \cup {Win!Evts} -> {"repos", "reclame", "compte", "cree", "lance", "ajoute", "refuse",
                                 "poll", "trouve", "rend", "libere", "relache", "repond"}]
  <2>1. ~Win!Va(f, "ajoute")
    BY WinVa DEF Win!Inductif
  <2>2. v13[f] = "lance" /\ v13' = [v13 EXCEPT ![f] = "refuse"]
    BY <2>1 DEF Win!Lance, Win!Va
  <2> QED BY <2>1, <2>2 DEF Win!Lance, Win!soumis, Win!Inductif, Win!TypeWindows
<1>b. /\ d \in 1..NFdWin /\ d \notin v4 /\ n \in Win!Ov /\ v8[n] = t /\ t \in TWin /\ t \in v1
      /\ ~Win!Suivi(t) /\ f # Win!Evts /\ \A g \in FWin : v14[g] = t => g = f
  BY <1>a, WinRepos DEF Win!Inductif, Win!Fil
<1> USE DEF Win!soumis, Win!reclames, Win!temoins, Win!locaux
<1>c. /\ \A u \in TWin : Win!Suivi(u) => /\ v5[u].fd # d /\ v5[u].overlapped # n
                                  /\ v5[u].overlapped \in Win!Ov
      /\ \A g \in FWin : v13[g] = "lance" /\ g # f => v16[g] # d
      /\ \A x \in v4 : v3[x] \in Win!Ov /\ v3[x] # n
  BY <1>b, WinEntree
<1>d. /\ \A x \in 1..NFdWin : x # d => v3'[x] = v3[x]
      /\ \A m \in Win!Ov : m # n => v7'[m] = v7[m]
  BY <1>a DEF Win!Inductif, Win!TypeWindows
<1>e. \A u \in TWin : Win!Suivi(u)' <=> Win!Suivi(u)
  BY <1>a DEF Win!Suivi
<1> HIDE DEF d, n, t
<1>1. Win!TypeWindows'
  <2>1. v3' \in [1..NFdWin -> 0..MaxSoumissions]
    <3>1. v3 \in [1..NFdWin -> 0..MaxSoumissions] /\ 0 \in 0..MaxSoumissions
      BY DEF Win!Inductif, Win!TypeWindows
    <3> QED BY <1>a, <3>1
  <2>2. v7' \in [Win!Ov -> {"aucun", "encours", "fini", "abandonne", "libere"}]
    BY <1>a DEF Win!Inductif, Win!TypeWindows
  <2> QED BY <1>a, <2>1, <2>2 DEF Win!Inductif, Win!TypeWindows
<1>2. Win!Evenements'
  <2>1. (Win!Suivi(v14[Win!Evts])' <=> Win!Suivi(v14[Win!Evts])) /\ v13'[Win!Evts] = v13[Win!Evts]
    BY <1>a, <1>b DEF Win!Suivi
  <2>2. v13[Win!Evts] = "rend" => v7'[v5[v14[Win!Evts]].overlapped] = v7[v5[v14[Win!Evts]].overlapped]
    BY <1>c, <1>d DEF Win!Inductif, Win!Evenements, Win!TypeWindows
  <2>3. \A x \in v4 : v3'[x] = v3[x] /\ v7'[v3[x]] = v7[v3[x]]
    BY <1>b, <1>c, <1>d DEF Win!Inductif, Win!TypeWindows
  <2> QED BY <1>a, <2>1, <2>2, <2>3 DEF Win!Inductif, Win!Evenements
<1>3. ASSUME NEW g \in FWin PROVE Win!Fil(g)'
  <2>1. Win!Fil(g) /\ (Win!Suivi(v14[g])' <=> Win!Suivi(v14[g]))
    BY <1>a DEF Win!Inductif, Win!Suivi
  <2>2. CASE g = f
    BY <1>a, <2>1, <2>2 DEF Win!Fil
  <2>3. CASE g # f
    <3>1. v13'[g] = v13[g]
      BY <1>a, <2>3
    <3>2. v13[g] = "lance" => v3'[v16[g]] = v3[v16[g]]
      BY <1>c, <1>d, <2>1, <2>3 DEF Win!Fil
    <3> QED BY <1>a, <2>1, <3>1, <3>2 DEF Win!Fil
  <2> QED BY <2>2, <2>3
<1>4. ASSUME NEW u \in TWin PROVE Win!Transfert(u)'
  <2>1. Win!Transfert(u) /\ (Win!Suivi(u)' <=> Win!Suivi(u))
    BY <1>e DEF Win!Inductif
  <2>2. Win!Suivi(u) => /\ v3'[v5[u].fd] = v3[v5[u].fd]
                    /\ v7'[v5[u].overlapped] = v7[v5[u].overlapped]
    BY <1>c, <1>d, <2>1 DEF Win!Transfert
  <2>3. \A g \in FWin : v14[g] = u /\ v13[g] = "ajoute" => v14'[g] = u /\ v13'[g] = "ajoute"
    BY <1>a
  <2> QED BY <1>a, <2>1, <2>2, <2>3 DEF Win!Transfert
<1>5. ASSUME NEW x \in 1..NFdWin PROVE Win!Entree(x)'
  BY <1>a, <1>e, <1>5 DEF Win!Inductif, Win!Entree, Win!TypeWindows
<1>6. ASSUME NEW i \in Win!I PROVE Win!Reclamation(i)'
  <2>1. Win!EnRelache(i)' <=> Win!EnRelache(i)
    BY <1>a, <1>b DEF Win!EnRelache
  <2>2. Win!Comptes(i)' = Win!Comptes(i)
    BY <1>a, <1>b DEF Win!Comptes, Win!Suivi
  <2>3. \A g \in FWin : v13[g] = "compte" /\ v15[g] = i => v13'[g] = "compte" /\ v15'[g] = i
    BY <1>a
  <2> QED BY <1>1, <1>a, <2>1, <2>2, <2>3, WinReclamation
<1> QED BY <1>1, <1>2, <1>3, <1>4, <1>5, <1>6 DEF Win!Inductif

(* The descriptor is among those that are polled, and the call is over. *)
LEMMA WinAjoute ==
    ASSUME Win!Hypotheses, Win!Inductif, NEW f \in FWin, Win!usbi_add_pollfd(f)
    PROVE  Win!Inductif'
<1> USE WinConstantes
<1> DEFINE d == v16[f]
           t == v14[f]
<1>a. /\ v13[f] = "ajoute" /\ UNCHANGED <<Win!soumis, v3, v7, Win!reclames, Win!temoins, v18>>
      /\ v4' = v4 \cup {d}
      /\ v13' = [v13 EXCEPT ![f] = "repos"] /\ v17' = [v17 EXCEPT ![f] = FALSE]
      /\ v14' = [v14 EXCEPT ![f] = Rien] /\ v15' = [v15 EXCEPT ![f] = 0] /\ v16' = [v16 EXCEPT ![f] = 0]
  BY DEF Win!usbi_add_pollfd, Win!Va
<1>b. /\ d \notin v4 /\ t \in TWin /\ t \in v1 /\ Win!Suivi(t) /\ t # v14[Win!Evts] /\ f # Win!Evts
      /\ v5[t].fd = d /\ v6[t] = v15[f] /\ \A g \in FWin : v14[g] = t => g = f
  BY <1>a, WinRepos DEF Win!Inductif, Win!Fil
<1>c. d \in 1..NFdWin /\ v3[d] \in Win!Ov /\ v8[v3[d]] = t
  BY <1>b DEF Win!Inductif, Win!Transfert
<1>d. /\ v13'[f] = "repos" /\ ~v17'[f] /\ v14'[f] = Rien
      /\ v13'[Win!Evts] = v13[Win!Evts] /\ v14'[Win!Evts] = v14[Win!Evts]
      /\ \A g \in FWin : g # f => /\ v13'[g] = v13[g] /\ v14'[g] = v14[g] /\ v17'[g] = v17[g]
                              /\ v15'[g] = v15[g] /\ v16'[g] = v16[g]
  BY <1>a, <1>b DEF Win!Inductif, Win!TypeWindows
<1>e. /\ \A u \in TWin : Win!Suivi(u) /\ u # t => v5[u].fd # d
      /\ \A g \in FWin : v13[g] = "lance" /\ g # f => v16[g] # d
  BY <1>b, <1>c, WinEntree
<1> USE DEF Win!soumis, Win!reclames, Win!temoins
<1>g. \A u \in TWin : Win!Suivi(u)' <=> Win!Suivi(u)
  BY <1>a DEF Win!Suivi
<1> HIDE DEF d, t
<1>1. Win!TypeWindows'
  <2>1. v4' \in SUBSET (1..NFdWin)
    BY <1>a, <1>c DEF Win!Inductif, Win!TypeWindows
  <2>2. /\ v13' \in [FWin \cup {Win!Evts} -> {"repos", "reclame", "compte", "cree", "lance", "ajoute", "refuse",
                                 "poll", "trouve", "rend", "libere", "relache", "repond"}]
        /\ v14' \in [FWin \cup {Win!Evts} -> TWin \cup {Rien}]
    BY <1>a DEF Win!Inductif, Win!TypeWindows
  <2>3. v15' \in [FWin -> Win!I] /\ v16' \in [FWin -> Nat] /\ v17' \in [FWin -> BOOLEAN]
    BY <1>a DEF Win!Inductif, Win!TypeWindows
  <2> QED BY <1>a, <2>1, <2>2, <2>3 DEF Win!Inductif, Win!TypeWindows
<1>2. Win!Evenements'
  <2>1. Win!Suivi(v14[Win!Evts])' <=> Win!Suivi(v14[Win!Evts])
    BY <1>a, <1>d DEF Win!Suivi
  <2>2. v13[Win!Evts] = "rend" => v5[v14[Win!Evts]].fd # d
    BY <1>b, <1>e DEF Win!Inductif, Win!Evenements, Win!TypeWindows
  <2> QED BY <1>a, <1>d, <2>1, <2>2 DEF Win!Inductif, Win!Evenements
<1>3. ASSUME NEW g \in FWin PROVE Win!Fil(g)'
  <2>1. Win!Fil(g)
    BY DEF Win!Inductif
  <2>2. CASE g = f
    <3>1. v12 # f
      BY <1>a, <2>1, <2>2 DEF Win!Fil
    <3> QED BY <1>a, <1>d, <2>2, <3>1 DEF Win!Fil
  <2>3. CASE g # f
    <3>1. Win!Suivi(v14[g])' <=> Win!Suivi(v14[g])
      BY <1>a, <1>d, <2>3 DEF Win!Suivi
    <3>2. \A k \in FWin : v14'[k] = v14[g] /\ v14[g] # Rien => k = g
      BY <1>d, <2>1, <2>3 DEF Win!Fil
    <3>3. v13[g] \in {"lance", "ajoute"} => v16[g] # d
      <4>1. v13[g] = "ajoute" => v14[g] \in TWin /\ v14[g] # t /\ Win!Suivi(v14[g]) /\ v5[v14[g]].fd = v16[g]
        BY <1>b, <2>1, <2>3, WinRepos DEF Win!Fil
      <4> QED BY <1>e, <2>3, <4>1
    <3> QED BY <1>a, <1>d, <2>1, <2>3, <3>1, <3>2, <3>3 DEF Win!Fil
  <2> QED BY <2>2, <2>3
<1>4. ASSUME NEW u \in TWin PROVE Win!Transfert(u)'
  <2>1. Win!Transfert(u) /\ (Win!Suivi(u)' <=> Win!Suivi(u))
    BY <1>g DEF Win!Inductif
  <2>2. CASE u = t
    <3>1. v5'[u].fd \in v4'
      BY <1>a, <1>b, <2>2
    <3> QED BY <1>a, <2>1, <3>1 DEF Win!Transfert
  <2>3. CASE u # t
    <3>1. \A g \in FWin : v14[g] = u /\ v13[g] = "ajoute" => v14'[g] = u /\ v13'[g] = "ajoute"
      BY <1>d, <2>3 DEF t
    <3> QED BY <1>a, <1>d, <2>1, <3>1 DEF Win!Transfert
  <2> QED BY <2>2, <2>3
<1>5. ASSUME NEW x \in 1..NFdWin PROVE Win!Entree(x)'
  <2>1. Win!Entree(x) /\ v1 \subseteq TWin
    BY DEF Win!Inductif, Win!TypeWindows
  <2> QED BY <1>a, <1>b, <1>g, <2>1 DEF Win!Entree
<1>6. ASSUME NEW i \in Win!I PROVE Win!Reclamation(i)'
  <2>1. Win!EnRelache(i)' <=> Win!EnRelache(i)
    BY <1>a, <1>d DEF Win!EnRelache
  <2>2. Win!Comptes(i) \subseteq Win!Comptes(i)'
    <3> SUFFICES ASSUME NEW u \in Win!Comptes(i) PROVE u \in Win!Comptes(i)'
      OBVIOUS
    <3>1. u \in TWin /\ u \in v1'
      BY <1>a DEF Win!Comptes, Win!Inductif, Win!TypeWindows
    <3>2. CASE u = t
      <4>1. v6'[u] = i
        BY <1>a, <1>b, <3>2 DEF Win!Comptes
      <4>2. Win!Suivi(u)'
        BY <1>b, <1>g, <3>2
      <4> QED BY <3>1, <4>1, <4>2 DEF Win!Comptes
    <3>3. CASE u # t
      <4>1. \A g \in FWin : v14[g] = u => g # f
        BY <3>3 DEF t
      <4> QED BY <1>a, <1>d, <1>g, <3>1, <4>1 DEF Win!Comptes
    <3> QED BY <3>2, <3>3
  <2>3. \A g \in FWin : v13[g] = "compte" /\ v15[g] = i => v13'[g] = "compte" /\ v15'[g] = i
    BY <1>a, <1>d
  <2> QED BY <1>1, <1>a, <2>1, <2>2, <2>3, WinReclamation
<1> QED BY <1>1, <1>2, <1>3, <1>4, <1>5, <1>6 DEF Win!Inductif

(* A submission that fails leaves its claim. *)
LEMMA WinRefuse ==
    ASSUME Win!Hypotheses, Win!Inductif, NEW f \in FWin, Win!Refuse(f)
    PROVE  Win!Inductif'
<1> USE WinConstantes
<1> DEFINE t == v14[f]
<1>a. /\ v13[f] = "refuse" /\ v1' = v1 \ {t}
      /\ UNCHANGED <<v2, v5, v6, v8, Win!table, Win!reclames, v19,
                     v20, v22, v18>>
      /\ v21' = IF v17[f] THEN v21 \cup {v15[f]} ELSE v21
      /\ v13' = [v13 EXCEPT ![f] = "repos"] /\ v17' = [v17 EXCEPT ![f] = FALSE]
      /\ v14' = [v14 EXCEPT ![f] = Rien] /\ v15' = [v15 EXCEPT ![f] = 0] /\ v16' = [v16 EXCEPT ![f] = 0]
  BY DEF Win!Refuse, Win!Va
<1>b. t \in TWin /\ t \in v1 /\ ~Win!Suivi(t) /\ t # v14[Win!Evts] /\ f # Win!Evts /\ \A g \in FWin : v14[g] = t => g = f
  BY <1>a, WinRepos DEF Win!Inductif, Win!Fil
<1>d. /\ v13'[f] = "repos" /\ ~v17'[f] /\ v14'[f] = Rien
      /\ v13'[Win!Evts] = v13[Win!Evts] /\ v14'[Win!Evts] = v14[Win!Evts]
      /\ \A g \in FWin : g # f => /\ v13'[g] = v13[g] /\ v14'[g] = v14[g] /\ v17'[g] = v17[g]
                              /\ v15'[g] = v15[g] /\ v16'[g] = v16[g]
  BY <1>a, <1>b DEF Win!Inductif, Win!TypeWindows
<1> USE DEF Win!table, Win!reclames
<1>g. \A u \in TWin : Win!Suivi(u)' <=> Win!Suivi(u)
  BY <1>a, <1>b DEF Win!Suivi
<1> HIDE DEF t
<1>1. Win!TypeWindows'
  <2>1. v1' \in SUBSET TWin /\ Win!IsFiniteSet(v1') /\ v21' \in SUBSET Win!I
    <3>1. Win!IsFiniteSet(v1) /\ v1 \subseteq TWin /\ v21 \subseteq Win!I /\ v15[f] \in Win!I
      BY DEF Win!Inductif, Win!TypeWindows
    <3>2. Win!IsFiniteSet(v1')
      BY <1>a, <3>1, WinMoins
    <3> QED BY <1>a, <3>1, <3>2
  <2>2. /\ v13' \in [FWin \cup {Win!Evts} -> {"repos", "reclame", "compte", "cree", "lance", "ajoute", "refuse",
                                 "poll", "trouve", "rend", "libere", "relache", "repond"}]
        /\ v14' \in [FWin \cup {Win!Evts} -> TWin \cup {Rien}]
    BY <1>a DEF Win!Inductif, Win!TypeWindows
  <2>3. v15' \in [FWin -> Win!I] /\ v16' \in [FWin -> Nat] /\ v17' \in [FWin -> BOOLEAN]
    BY <1>a DEF Win!Inductif, Win!TypeWindows
  <2> QED BY <1>a, <2>1, <2>2, <2>3 DEF Win!Inductif, Win!TypeWindows
<1>2. Win!Evenements'
  <2>1. v14[Win!Evts] # Rien => v14[Win!Evts] \in TWin /\ v14[Win!Evts] \in v1' /\ (Win!Suivi(v14[Win!Evts])' <=> Win!Suivi(v14[Win!Evts]))
    <3>1. v14[Win!Evts] # Rien => v14[Win!Evts] \in TWin /\ v14[Win!Evts] \in v1'
      BY <1>a, <1>b DEF Win!Inductif, Win!Evenements, Win!TypeWindows
    <3> QED BY <1>d, <1>g, <3>1 DEF Win!Suivi
  <2> QED BY <1>a, <1>d, <2>1 DEF Win!Inductif, Win!Evenements
<1>3. ASSUME NEW g \in FWin PROVE Win!Fil(g)'
  <2>1. Win!Fil(g)
    BY DEF Win!Inductif
  <2>2. CASE g = f
    <3>1. v12 # f
      BY <1>a, <2>1, <2>2 DEF Win!Fil
    <3> QED BY <1>a, <1>d, <2>2, <3>1 DEF Win!Fil
  <2>3. CASE g # f
    <3>1. v14[g] # Rien => v14[g] \in TWin /\ v14[g] \in v1' /\ (Win!Suivi(v14[g])' <=> Win!Suivi(v14[g]))
      <4>1. v14[g] # Rien => v14[g] \in TWin /\ v14[g] # t /\ v14[g] \in v1
        BY <1>b, <2>1, <2>3, WinRepos DEF Win!Fil
      <4> QED BY <1>a, <1>d, <1>g, <2>3, <4>1 DEF Win!Suivi
    <3>2. \A k \in FWin : v14'[k] = v14[g] /\ v14[g] # Rien => k = g
      BY <1>d, <2>1, <2>3 DEF Win!Fil
    <3> QED BY <1>a, <1>d, <2>1, <2>3, <3>1, <3>2 DEF Win!Fil
  <2> QED BY <2>2, <2>3
<1>4. ASSUME NEW u \in TWin PROVE Win!Transfert(u)'
  <2>1. Win!Transfert(u) /\ (Win!Suivi(u)' <=> Win!Suivi(u)) /\ (Win!Suivi(u) => u # t)
    BY <1>b, <1>g DEF Win!Inductif
  <2>2. u # t => \A g \in FWin : v14[g] = u /\ v13[g] = "ajoute" => v14'[g] = u /\ v13'[g] = "ajoute"
    BY <1>d DEF t
  <2> QED BY <1>a, <1>d, <2>1, <2>2 DEF Win!Transfert
<1>5. ASSUME NEW x \in 1..NFdWin PROVE Win!Entree(x)'
  <2>1. Win!Entree(x) /\ v1 \subseteq TWin
    BY DEF Win!Inductif, Win!TypeWindows
  <2> QED BY <1>a, <1>b, <1>g, <2>1 DEF Win!Entree
<1>6. ASSUME NEW i \in Win!I PROVE Win!Reclamation(i)'
  <2>1. Win!EnRelache(i)' <=> Win!EnRelache(i)
    BY <1>a, <1>d DEF Win!EnRelache
  <2>2. ASSUME i \notin v21' PROVE Win!Comptes(i) \subseteq Win!Comptes(i)'
    <3> SUFFICES ASSUME NEW u \in Win!Comptes(i) PROVE u \in Win!Comptes(i)'
      OBVIOUS
    <3>1. u \in TWin /\ u \in v1
      BY DEF Win!Comptes, Win!Inductif, Win!TypeWindows
    <3>2. u # t
      BY <1>a, <1>b, <2>2 DEF Win!Comptes
    <3>3. \A g \in FWin : v14[g] = u => g # f
      BY <3>2 DEF t
    <3> QED BY <1>a, <1>d, <1>g, <3>1, <3>2, <3>3 DEF Win!Comptes
  <2>3. \A g \in FWin : v13[g] = "compte" /\ v15[g] = i => v13'[g] = "compte" /\ v15'[g] = i
    BY <1>a, <1>d
  <2> QED BY <1>1, <1>a, <2>1, <2>2, <2>3, WinReclamation
<1> QED BY <1>1, <1>2, <1>3, <1>4, <1>5, <1>6 DEF Win!Inductif

(* A request is over, or aborted. *)
LEMMA WinIo ==
    ASSUME Win!Hypotheses, Win!Inductif, (\E f \in FWin, t \in TWin : Win!windows_cancel_transfer(f, t)) \/ \E n \in Win!Ov : Win!Termine(n)
    PROVE  Win!Inductif'
<1> USE WinConstantes
<1>a. UNCHANGED <<Win!soumis, v3, v4, Win!reclames, Win!temoins, v13, Win!locaux>>
  BY DEF Win!windows_cancel_transfer, Win!Termine
<1> USE DEF Win!soumis, Win!reclames, Win!temoins, Win!locaux
<1>b. /\ v7' \in [Win!Ov -> {"aucun", "encours", "fini", "abandonne", "libere"}]
      /\ \A m \in Win!Ov : v7'[m] = v7[m] \/ (v7[m] = "encours" /\ v7'[m] \in {"abandonne", "fini"})
  <2>1. v7 \in [Win!Ov -> {"aucun", "encours", "fini", "abandonne", "libere"}]
    BY DEF Win!Inductif, Win!TypeWindows
  <2>2. CASE \E f \in FWin, t \in TWin : Win!windows_cancel_transfer(f, t)
    BY <2>1, <2>2 DEF Win!windows_cancel_transfer
  <2>3. CASE \E n \in Win!Ov : Win!Termine(n)
    BY <2>1, <2>3 DEF Win!Termine
  <2> QED BY <2>2, <2>3
<1>1. Win!TypeWindows'
  BY <1>a, <1>b DEF Win!Inductif, Win!TypeWindows
<1>c. \A u \in TWin : Win!Suivi(u)' <=> Win!Suivi(u)
  BY <1>a DEF Win!Suivi
<1>d. \A x \in v4 : v3[x] \in Win!Ov
  BY DEF Win!Inductif, Win!TypeWindows, Win!Entree, Win!Transfert
<1>2. Win!Evenements'
  <2>1. Win!Suivi(v14[Win!Evts])' <=> Win!Suivi(v14[Win!Evts])
    BY <1>a DEF Win!Suivi
  <2>2. v13[Win!Evts] = "rend" => v5[v14[Win!Evts]].overlapped \in Win!Ov
    BY DEF Win!Inductif, Win!Evenements, Win!TypeWindows, Win!Transfert
  <2>3. v13[Win!Evts] = "rend" => v7'[v5[v14[Win!Evts]].overlapped] # "encours"
    BY <1>b, <2>2 DEF Win!Inductif, Win!Evenements
  <2>4. \A x \in v4 : v7[v3[x]] # "encours" => v7'[v3[x]] # "encours"
    BY <1>b, <1>d
  <2> QED BY <1>a, <2>1, <2>3, <2>4 DEF Win!Inductif, Win!Evenements
<1>3. ASSUME NEW g \in FWin PROVE Win!Fil(g)'
  BY <1>a, <1>3 DEF Win!Inductif, Win!Fil, Win!Suivi
<1>4. ASSUME NEW u \in TWin PROVE Win!Transfert(u)'
  BY <1>a, <1>b, <1>c, <1>4 DEF Win!Inductif, Win!Transfert
<1>5. ASSUME NEW x \in 1..NFdWin PROVE Win!Entree(x)'
  BY <1>a, <1>5 DEF Win!Inductif, Win!Entree, Win!Suivi
<1>6. ASSUME NEW i \in Win!I PROVE Win!Reclamation(i)'
  BY <1>1, <1>a, <1>6, WinReclamation DEF Win!EnRelache, Win!Comptes, Win!Suivi
<1> QED BY <1>1, <1>2, <1>3, <1>4, <1>5, <1>6 DEF Win!Inductif

(* Poll finds what is done. *)
LEMMA WinPoll ==
    ASSUME Win!Hypotheses, Win!Inductif, Win!usbi_poll
    PROVE  Win!Inductif'
<1> USE WinConstantes
<1>a. /\ v13[Win!Evts] = "poll" /\ UNCHANGED <<Win!soumis, Win!table, Win!reclames, Win!temoins, v14, v15, v16, v17>>
      /\ v18' # {} /\ v18' \subseteq {d \in v4 : v3[d] > 0 /\ v7[v3[d]] # "encours"}
      /\ v13' = [v13 EXCEPT ![Win!Evts] = "trouve"]
  BY DEF Win!usbi_poll, Win!Va
<1>b. v13'[Win!Evts] = "trouve" /\ \A g \in FWin : v13'[g] = v13[g]
  BY <1>a DEF Win!Inductif, Win!TypeWindows
<1> USE DEF Win!soumis, Win!table, Win!reclames, Win!temoins
<1>1. Win!TypeWindows'
  <2>1. v13' \in [FWin \cup {Win!Evts} -> {"repos", "reclame", "compte", "cree", "lance", "ajoute", "refuse",
                                 "poll", "trouve", "rend", "libere", "relache", "repond"}]
    BY <1>a DEF Win!Inductif, Win!TypeWindows
  <2>2. v18' \in SUBSET (1..NFdWin)
    BY <1>a DEF Win!Inductif, Win!TypeWindows
  <2> QED BY <1>a, <2>1, <2>2 DEF Win!Inductif, Win!TypeWindows
<1>2. Win!Evenements'
  BY <1>a, <1>b DEF Win!Inductif, Win!Evenements
<1>3. ASSUME NEW g \in FWin PROVE Win!Fil(g)'
  BY <1>a, <1>b, <1>3 DEF Win!Inductif, Win!Fil, Win!Suivi
<1>4. ASSUME NEW u \in TWin PROVE Win!Transfert(u)'
  BY <1>a, <1>b, <1>4 DEF Win!Inductif, Win!Transfert, Win!Suivi
<1>5. ASSUME NEW x \in 1..NFdWin PROVE Win!Entree(x)'
  BY <1>a, <1>5 DEF Win!Inductif, Win!Entree, Win!Suivi
<1>6. ASSUME NEW i \in Win!I PROVE Win!Reclamation(i)'
  <2>1. Win!EnRelache(i)' <=> Win!EnRelache(i)
    BY <1>a, <1>b DEF Win!EnRelache
  <2>2. Win!Comptes(i)' = Win!Comptes(i)
    BY <1>a, <1>b DEF Win!Comptes, Win!Suivi
  <2>3. \A g \in FWin : v13[g] = "compte" /\ v15[g] = i => v13'[g] = "compte" /\ v15'[g] = i
    BY <1>a, <1>b
  <2> QED BY <1>1, <1>a, <2>1, <2>2, <2>3, WinReclamation
<1> QED BY <1>1, <1>2, <1>3, <1>4, <1>5, <1>6 DEF Win!Inductif

(* The events thread finds the transfer of a descriptor that is done. *)
LEMMA WinTrouve ==
    ASSUME Win!Hypotheses, Win!Inductif, Win!windows_handle_events
    PROVE  Win!Inductif'
<1> USE WinConstantes
<1> DEFINE d == Win!Min(v18)
<1>1. PICK t \in v1 :
        /\ v13[Win!Evts] = "trouve" /\ UNCHANGED <<Win!soumis, v3, v7, Win!reclames, Win!temoins, v15, v16, v17, v18>>
        /\ v5[t].fd = d /\ v14' = [v14 EXCEPT ![Win!Evts] = t] /\ v4' = v4 \ {d}
        /\ v13' = [v13 EXCEPT ![Win!Evts] = "rend"]
  BY DEF Win!windows_handle_events, Win!Va, Win!Retire, Win!Retrait
<1>b. d \in v18 /\ d \in v4 /\ d \in 1..NFdWin /\ v7[v3[d]] # "encours"
  <2>1. v18 # {} /\ v18 \subseteq Nat /\ v18 \subseteq 1..NFdWin
    BY <1>1 DEF Win!Inductif, Win!Evenements, Win!TypeWindows
  <2>2. d \in v18
    BY <2>1, WinMin
  <2> HIDE DEF d
  <2> QED BY <1>1, <2>1, <2>2 DEF Win!Inductif, Win!Evenements
<1> HIDE DEF d
<1>c. t \in TWin /\ Win!Suivi(t) /\ v3[d] = v5[t].overlapped /\ v3[d] \in Win!Ov /\ v8[v3[d]] = t
  <2>1. t \in TWin /\ Win!Suivi(t)
    BY <1>1, <1>b DEF Win!Inductif, Win!TypeWindows, Win!Suivi, Win!INVALID_WINFD
  <2> QED BY <1>1, <1>b, <2>1 DEF Win!Inductif, Win!Transfert
<1>d. /\ v13'[Win!Evts] = "rend" /\ v14'[Win!Evts] = t /\ v14[Win!Evts] = Rien
      /\ \A g \in FWin : v13'[g] = v13[g] /\ v14'[g] = v14[g]
  BY <1>1 DEF Win!Inductif, Win!TypeWindows, Win!Evenements
<1>e. \A g \in FWin : v14[g] # t
  <2> SUFFICES ASSUME NEW g \in FWin, v14[g] = t PROVE FALSE
    OBVIOUS
  <2>1. v13[g] = "ajoute"
    BY <1>c DEF Win!Inductif, Win!Fil
  <2> QED BY <1>1, <1>b, <2>1 DEF Win!Inductif, Win!Fil
<1> USE DEF Win!soumis, Win!reclames, Win!temoins
<1>g. \A u \in TWin : Win!Suivi(u)' <=> Win!Suivi(u)
  BY <1>1 DEF Win!Suivi
<1>2. Win!TypeWindows'
  <2>1. /\ v13' \in [FWin \cup {Win!Evts} -> {"repos", "reclame", "compte", "cree", "lance", "ajoute", "refuse",
                                 "poll", "trouve", "rend", "libere", "relache", "repond"}]
        /\ v14' \in [FWin \cup {Win!Evts} -> TWin \cup {Rien}]
    BY <1>1, <1>c DEF Win!Inductif, Win!TypeWindows
  <2> QED BY <1>1, <2>1 DEF Win!Inductif, Win!TypeWindows
<1>3. Win!Evenements'
  <2>1. Win!Suivi(v14[Win!Evts])'
    BY <1>1, <1>c, <1>d DEF Win!Suivi
  <2>2. \A x \in v18 : x # d => x \in v4' /\ v7[v3[x]] # "encours"
    BY <1>1 DEF Win!Inductif, Win!Evenements
  <2>3. Win!Min(v18') = d /\ v5'[v14'[Win!Evts]] = v5[t]
    BY <1>1, <1>d DEF d
  <2>4. d \notin v4' /\ v5[t].fd = d /\ v7[v5[t].overlapped] # "encours"
    BY <1>1, <1>b, <1>c
  <2>5. v12' # Win!Evts
    BY <1>1 DEF Win!Inductif, Win!Evenements
  <2>6. t # Rien /\ v14'[Win!Evts] \in v1'
    BY <1>1, <1>c, <1>d
  <2>7. v18' = v18 /\ d \in v18' /\ \A x \in v18' : x # d => x \in v4' /\ v7'[v3'[x]] # "encours"
    BY <1>1, <1>b, <2>2
  <2>8. LET v == v5'[v14'[Win!Evts]] IN
        v.fd = Win!Min(v18') /\ v.fd \notin v4' /\ v7'[v.overlapped] # "encours"
    BY <1>1, <2>3, <2>4
  <2> QED BY <1>d, <2>1, <2>3, <2>5, <2>6, <2>7, <2>8 DEF Win!Evenements
<1>4. ASSUME NEW g \in FWin PROVE Win!Fil(g)'
  <2>1. Win!Fil(g) /\ (Win!Suivi(v14[g])' <=> Win!Suivi(v14[g]))
    BY <1>1, <1>d DEF Win!Inductif, Win!Suivi
  <2> QED BY <1>1, <1>d, <1>e, <2>1 DEF Win!Fil
<1>5. ASSUME NEW u \in TWin PROVE Win!Transfert(u)'
  <2>1. Win!Transfert(u) /\ (Win!Suivi(u)' <=> Win!Suivi(u))
    BY <1>g DEF Win!Inductif
  <2>2. Win!Suivi(u) /\ u # t => v5[u].fd # d
    BY <1>b, <1>c, WinEntree
  <2> QED BY <1>1, <1>d, <2>1, <2>2 DEF Win!Transfert
<1>6. ASSUME NEW x \in 1..NFdWin PROVE Win!Entree(x)'
  <2>1. Win!Entree(x) /\ v1 \subseteq TWin
    BY DEF Win!Inductif, Win!TypeWindows
  <2> QED BY <1>1, <1>g, <2>1 DEF Win!Entree
<1>7. ASSUME NEW i \in Win!I PROVE Win!Reclamation(i)'
  <2>1. Win!EnRelache(i)' <=> Win!EnRelache(i)
    BY <1>1, <1>d DEF Win!EnRelache
  <2>2. Win!Comptes(i)' = Win!Comptes(i)
    BY <1>1, <1>d DEF Win!Comptes, Win!Suivi
  <2>3. \A g \in FWin : v13[g] = "compte" /\ v15[g] = i => v13'[g] = "compte" /\ v15'[g] = i
    BY <1>1, <1>d
  <2> QED BY <1>2, <1>1, <2>1, <2>2, <2>3, WinReclamation
<1> QED BY <1>2, <1>3, <1>4, <1>5, <1>6, <1>7 DEF Win!Inductif

(* It frees the descriptor. *)
LEMMA WinRend ==
    ASSUME Win!Hypotheses, Win!Inductif, Win!usbi_free_fd
    PROVE  Win!Inductif'
<1> USE WinConstantes
<1> DEFINE t == v14[Win!Evts]
           d == v5[t].fd
           n == v3[d]
<1>a. /\ v13[Win!Evts] = "rend"
      /\ UNCHANGED <<v1, v2, v6, v8, v4, Win!reclames, Win!temoins, Win!locaux>>
      /\ v7' = [v7 EXCEPT ![n] = "libere"] /\ v3' = [v3 EXCEPT ![d] = 0]
      /\ v5' = [v5 EXCEPT ![t] = Win!INVALID_WINFD]
      /\ v13' = [v13 EXCEPT ![Win!Evts] = "libere"]
  BY DEF Win!usbi_free_fd, Win!Va
<1>b. /\ t \in TWin /\ t \in v1 /\ Win!Suivi(t) /\ d = Win!Min(v18) /\ d \notin v4
      /\ d \in 1..NFdWin /\ n \in Win!Ov /\ v8[n] = t
  <2>1. t \in TWin /\ t \in v1 /\ Win!Suivi(t) /\ d = Win!Min(v18) /\ d \notin v4
    BY <1>a DEF Win!Inductif, Win!Evenements, Win!TypeWindows
  <2> QED BY <2>1 DEF Win!Inductif, Win!Transfert
<1>c. \A g \in FWin : v14[g] # t
  BY <1>b, WinRepos DEF Win!Inductif, Win!Fil
<1>d. /\ \A u \in TWin : Win!Suivi(u) /\ u # t => /\ v5[u].fd # d /\ v5[u].overlapped # n
                                           /\ v5[u].overlapped \in Win!Ov
      /\ \A g \in FWin : v13[g] = "lance" => v16[g] # d
      /\ \A x \in v4 : v3[x] \in Win!Ov /\ v3[x] # n
  BY <1>b, <1>c, WinEntree
<1>e. /\ \A x \in 1..NFdWin : x # d => v3'[x] = v3[x]
      /\ \A m \in Win!Ov : m # n => v7'[m] = v7[m]
      /\ v5'[t] = Win!INVALID_WINFD /\ \A u \in TWin : u # t => v5'[u] = v5[u]
      /\ v13'[Win!Evts] = "libere" /\ \A g \in FWin : v13'[g] = v13[g]
  BY <1>a, <1>b DEF Win!Inductif, Win!TypeWindows
<1> USE DEF Win!reclames, Win!temoins, Win!locaux
<1>g. \A u \in TWin : Win!Suivi(u)' <=> Win!Suivi(u) /\ u # t
  BY <1>a, <1>e DEF Win!Suivi
<1>h. v14'[Win!Evts] = t
  BY <1>a
<1> HIDE DEF t, d, n
<1>1. Win!TypeWindows'
  <2>1. v3' \in [1..NFdWin -> 0..MaxSoumissions]
    <3>1. v3 \in [1..NFdWin -> 0..MaxSoumissions] /\ 0 \in 0..MaxSoumissions
      BY DEF Win!Inductif, Win!TypeWindows
    <3> QED BY <1>a, <3>1
  <2>2. v7' \in [Win!Ov -> {"aucun", "encours", "fini", "abandonne", "libere"}]
    BY <1>a DEF Win!Inductif, Win!TypeWindows
  <2>3. v5' \in [TWin -> [fd : Nat, overlapped : Nat]]
    <3>1. v5 \in [TWin -> [fd : Nat, overlapped : Nat]] /\ Win!INVALID_WINFD \in [fd : Nat, overlapped : Nat]
      BY DEF Win!Inductif, Win!TypeWindows, Win!INVALID_WINFD
    <3> QED BY <1>a, <3>1
  <2>4. v13' \in [FWin \cup {Win!Evts} -> {"repos", "reclame", "compte", "cree", "lance", "ajoute", "refuse",
                                 "poll", "trouve", "rend", "libere", "relache", "repond"}]
    BY <1>a DEF Win!Inductif, Win!TypeWindows
  <2> QED BY <1>a, <2>1, <2>2, <2>3, <2>4 DEF Win!Inductif, Win!TypeWindows
<1>2. Win!Evenements'
  <2>1. ~Win!Suivi(v14[Win!Evts])'
    BY <1>e, <1>h DEF Win!Suivi
  <2>2. \A x \in v4 : v3'[x] = v3[x] /\ v7'[v3[x]] = v7[v3[x]]
    BY <1>b, <1>d, <1>e DEF Win!Inductif, Win!TypeWindows
  <2>3. t # Rien
    BY <1>b
  <2> QED BY <1>a, <1>b, <1>e, <1>h, <2>1, <2>2, <2>3 DEF Win!Inductif, Win!Evenements
<1>3. ASSUME NEW g \in FWin PROVE Win!Fil(g)'
  <2>1. Win!Fil(g) /\ v14'[g] = v14[g] /\ (v14[g] # Rien => v14[g] \in TWin /\ v14[g] # t)
    BY <1>a, <1>c DEF Win!Inductif, Win!TypeWindows
  <2>2. v14[g] # Rien => /\ Win!Suivi(v14[g])' <=> Win!Suivi(v14[g])
                        /\ v5'[v14[g]] = v5[v14[g]]
    BY <1>e, <1>g, <2>1
  <2>3. v13[g] = "lance" => v3'[v16[g]] = v3[v16[g]]
    BY <1>d, <1>e, <2>1 DEF Win!Fil
  <2> QED BY <1>a, <1>e, <1>h, <2>1, <2>2, <2>3 DEF Win!Fil
<1>4. ASSUME NEW u \in TWin PROVE Win!Transfert(u)'
  <2>1. Win!Transfert(u) /\ (Win!Suivi(u)' <=> Win!Suivi(u) /\ u # t)
    BY <1>g DEF Win!Inductif
  <2>2. Win!Suivi(u) /\ u # t => /\ v5'[u] = v5[u]
                             /\ v3'[v5[u].fd] = v3[v5[u].fd]
                             /\ v7'[v5[u].overlapped] = v7[v5[u].overlapped]
    BY <1>d, <1>e, <2>1 DEF Win!Transfert
  <2> QED BY <1>a, <1>e, <2>1, <2>2 DEF Win!Transfert
<1>5. ASSUME NEW x \in 1..NFdWin PROVE Win!Entree(x)'
  <2>1. Win!Entree(x) /\ v1 \subseteq TWin
    BY DEF Win!Inductif, Win!TypeWindows
  <2>2. v5[t].fd = d
    BY DEF d
  <2> QED BY <1>a, <1>b, <1>e, <1>g, <2>1, <2>2 DEF Win!Entree
<1>6. ASSUME NEW i \in Win!I PROVE Win!Reclamation(i)'
  <2>1. Win!EnRelache(i)' <=> Win!EnRelache(i)
    BY <1>a, <1>e DEF Win!EnRelache
  <2>2. Win!Comptes(i) \subseteq Win!Comptes(i)'
    <3> SUFFICES ASSUME NEW u \in Win!Comptes(i) PROVE u \in Win!Comptes(i)'
      OBVIOUS
    <3>1. u \in TWin /\ u \in v1'
      BY <1>a DEF Win!Comptes, Win!Inductif, Win!TypeWindows
    <3>2. CASE u = t
      BY <1>a, <1>c, <1>e, <1>h, <3>1, <3>2 DEF Win!Comptes
    <3>3. CASE u # t
      BY <1>a, <1>e, <1>g, <3>1, <3>3 DEF Win!Comptes
    <3> QED BY <3>2, <3>3
  <2>3. \A g \in FWin : v13[g] = "compte" /\ v15[g] = i => v13'[g] = "compte" /\ v15'[g] = i
    BY <1>a, <1>e
  <2> QED BY <1>1, <1>a, <2>1, <2>2, <2>3, WinReclamation
<1> QED BY <1>1, <1>2, <1>3, <1>4, <1>5, <1>6 DEF Win!Inductif

(* What the last steps of a transfer leave alone. *)
LEMMA WinFin ==
    ASSUME Win!Hypotheses, Win!Inductif, v13[Win!Evts] \in {"libere", "relache"},
           UNCHANGED <<Win!soumis, Win!table, Win!locaux>>, v13'[Win!Evts] \in {"relache", "repond"},
           \A g \in FWin : v13'[g] = v13[g], v12 \in {Rien, Win!Evts},
           v12' = IF v13'[Win!Evts] = "relache" THEN Win!Evts ELSE Rien
    PROVE  /\ Win!Evenements' /\ (\A g \in FWin : Win!Fil(g)') /\ (\A t \in TWin : Win!Transfert(t)')
           /\ \A d \in 1..NFdWin : Win!Entree(d)'
<1> USE WinConstantes DEF Win!soumis, Win!table, Win!locaux
<1>1. \A t \in TWin : Win!Suivi(t)' <=> Win!Suivi(t)
  BY DEF Win!Suivi
<1>2. Win!Evenements'
  <2>1. Win!Suivi(v14[Win!Evts])' <=> Win!Suivi(v14[Win!Evts])
    BY DEF Win!Suivi
  <2> QED BY <2>1 DEF Win!Inductif, Win!Evenements
<1>3. ASSUME NEW g \in FWin PROVE Win!Fil(g)'
  <2>1. Win!Fil(g) /\ (Win!Suivi(v14[g])' <=> Win!Suivi(v14[g]))
    BY DEF Win!Inductif, Win!Suivi
  <2>2. v12 # g /\ v12' # g
    OBVIOUS
  <2> QED BY <2>1, <2>2 DEF Win!Fil
<1>4. ASSUME NEW t \in TWin PROVE Win!Transfert(t)'
  BY <1>1, <1>4 DEF Win!Inductif, Win!Transfert
<1>5. ASSUME NEW d \in 1..NFdWin PROVE Win!Entree(d)'
  BY <1>1, <1>5 DEF Win!Inductif, Win!Entree, Win!TypeWindows
<1> QED BY <1>2, <1>3, <1>4, <1>5

(* The interface counts one transfer less. *)
LEMMA WinDecompte ==
    ASSUME Win!Hypotheses, Win!Inductif, Win!auto_release
    PROVE  Win!Inductif'
<1> USE WinConstantes
<1> DEFINE t == v14[Win!Evts]
           i == v6[t]
           c == v11[i]
<1>a. /\ v13[Win!Evts] = "libere" /\ v12 = Rien
      /\ v11' = [v11 EXCEPT ![i] = IF @ > 0 THEN @ - 1 ELSE 0]
      /\ v12' = IF c = 1 THEN Win!Evts ELSE Rien
      /\ v13' = [v13 EXCEPT ![Win!Evts] = IF c = 1 THEN "relache" ELSE "repond"]
      /\ UNCHANGED <<Win!soumis, Win!table, v9, v10, Win!temoins, Win!locaux>>
  BY DEF Win!auto_release, Win!Va, Win!Dernier, Win!Retire, Win!Retrait, Win!table
<1>b. /\ t \in TWin /\ t \in v1 /\ ~Win!Suivi(t) /\ i \in Win!I /\ c \in Nat /\ \A g \in FWin : v14[g] # t
  <2>1. t \in TWin /\ t \in v1 /\ ~Win!Suivi(t)
    BY <1>a DEF Win!Inductif, Win!Evenements, Win!TypeWindows
  <2> QED BY <2>1, WinRepos DEF Win!Inductif, Win!Fil, Win!TypeWindows
<1>c. /\ v11'[i] = IF c > 0 THEN c - 1 ELSE 0
      /\ \A j \in Win!I : j # i => v11'[j] = v11[j]
      /\ v13'[Win!Evts] = (IF c = 1 THEN "relache" ELSE "repond") /\ \A g \in FWin : v13'[g] = v13[g]
  BY <1>a, <1>b DEF Win!Inductif, Win!TypeWindows
<1>1. Win!TypeWindows'
  <2>1. v11' \in [Win!I -> Nat]
    <3>1. (IF c > 0 THEN c - 1 ELSE 0) \in Nat /\ v11 \in [Win!I -> Nat]
      BY <1>b DEF Win!Inductif, Win!TypeWindows
    <3> QED BY <1>a, <3>1
  <2>2. v13' \in [FWin \cup {Win!Evts} -> {"repos", "reclame", "compte", "cree", "lance", "ajoute", "refuse",
                                 "poll", "trouve", "rend", "libere", "relache", "repond"}]
    BY <1>a DEF Win!Inductif, Win!TypeWindows
  <2> QED BY <1>a, <2>1, <2>2 DEF Win!Inductif, Win!TypeWindows, Win!soumis, Win!table, Win!temoins, Win!locaux
<1>2. /\ Win!Evenements' /\ (\A g \in FWin : Win!Fil(g)') /\ (\A u \in TWin : Win!Transfert(u)')
      /\ \A d \in 1..NFdWin : Win!Entree(d)'
  BY <1>a, <1>c, WinFin
<1> USE DEF Win!soumis, Win!table, Win!temoins, Win!locaux
<1>d. t' = t /\ i' = i
  BY <1>a
<1>3. ASSUME NEW j \in Win!I PROVE Win!Reclamation(j)'
  <2>1. Win!Reclamation(j) /\ ~Win!EnRelache(j)
    BY <1>a DEF Win!Inductif, Win!EnRelache
  <2>2. \A g \in FWin : v13[g] # "compte"
    BY <1>a DEF Win!Inductif, Win!Fil
  <2>3. CASE j = i
    <3>1. Win!EnRelache(j)' <=> c = 1
      BY <1>a, <1>c, <2>3 DEF Win!EnRelache
    <3>2. t \in Win!Comptes(j) /\ Win!Comptes(j)' = Win!Comptes(j) \ {t}
      <4>1. t \in Win!Comptes(j)
        BY <1>a, <1>b, <2>3 DEF Win!Comptes
      <4>2. t \notin Win!Comptes(j)'
        BY <1>a, <1>b, <1>c DEF Win!Comptes, Win!Suivi
      <4>3. ASSUME NEW u, u # t PROVE u \in Win!Comptes(j)' <=> u \in Win!Comptes(j)
        BY <1>a, <1>c, <4>3 DEF Win!Comptes, Win!Suivi
      <4> QED BY <4>1, <4>2, <4>3
    <3>3. Win!IsFiniteSet(Win!Comptes(j)) /\ Win!Cardinality(Win!Comptes(j)) \in Nat
      BY WinFini DEF Win!Inductif, Win!TypeWindows, Win!Comptes
    <3>4. Win!Cardinality(Win!Comptes(j)') = Win!Cardinality(Win!Comptes(j)) - 1 /\ Win!Cardinality(Win!Comptes(j)') \in Nat
      BY <3>2, <3>3, WinMoins, WinCardinal
    <3>5. j \notin v21 => v11'[j] <= Win!Cardinality(Win!Comptes(j)')
      <4>1. j \notin v21 => c <= Win!Cardinality(Win!Comptes(j))
        BY <2>1, <2>3 DEF Win!Reclamation
      <4>2. v11'[j] = IF c > 0 THEN c - 1 ELSE 0
        BY <1>c, <2>3
      <4> HIDE DEF c
      <4> QED BY <1>b, <3>3, <3>4, <4>1, <4>2
    <3>6. (v11'[j] > 0 \/ Win!EnRelache(j)') <=> v11[j] > 0
      BY <1>b, <1>c, <2>3, <3>1
    <3>7. Win!EnRelache(j)' => v11'[j] = 0
      BY <1>c, <2>3, <3>1
    <3> QED BY <1>a, <2>1, <2>2, <3>5, <3>6, <3>7 DEF Win!Reclamation
  <2>4. CASE j # i
    <3>1. ~Win!EnRelache(j)'
      BY <1>a, <2>4 DEF Win!EnRelache
    <3>2. Win!Comptes(j)' = Win!Comptes(j)
      BY <1>a, <1>c, <2>4 DEF Win!Comptes, Win!Suivi
    <3>3. v11'[j] = v11[j]
      BY <1>c, <2>4
    <3> QED BY <1>a, <2>1, <2>2, <3>1, <3>2, <3>3 DEF Win!Reclamation
  <2> QED BY <2>3, <2>4
<1> QED BY <1>1, <1>2, <1>3 DEF Win!Inductif

(* The last transfer of an interface releases it. *)
LEMMA WinRelache ==
    ASSUME Win!Hypotheses, Win!Inductif, Win!Relache
    PROVE  Win!Inductif'
<1> USE WinConstantes
<1> DEFINE i == v6[v14[Win!Evts]]
<1>a. /\ v13[Win!Evts] = "relache" /\ v12' = Rien /\ v21' = v21 \ {i}
      /\ v10' = v10 \ {i} /\ v9' \subseteq v9
      /\ v13' = [v13 EXCEPT ![Win!Evts] = "repond"]
      /\ UNCHANGED <<Win!soumis, Win!table, v11, v19, v20, v22, Win!locaux>>
  BY DEF Win!Relache, Win!Rend, Win!Va
<1>b. v13'[Win!Evts] = "repond" /\ (\A g \in FWin : v13'[g] = v13[g]) /\ v12 = Win!Evts
  BY <1>a DEF Win!Inductif, Win!TypeWindows, Win!Evenements
<1>1. Win!TypeWindows'
  <2>1. v13' \in [FWin \cup {Win!Evts} -> {"repos", "reclame", "compte", "cree", "lance", "ajoute", "refuse",
                                 "poll", "trouve", "rend", "libere", "relache", "repond"}]
    BY <1>a DEF Win!Inductif, Win!TypeWindows
  <2> QED BY <1>a, <2>1 DEF Win!Inductif, Win!TypeWindows, Win!soumis, Win!table, Win!locaux
<1>2. /\ Win!Evenements' /\ (\A g \in FWin : Win!Fil(g)') /\ (\A u \in TWin : Win!Transfert(u)')
      /\ \A d \in 1..NFdWin : Win!Entree(d)'
  BY <1>a, <1>b, WinFin
<1> USE DEF Win!soumis, Win!table, Win!locaux
<1>3. ASSUME NEW j \in Win!I PROVE Win!Reclamation(j)'
  <2>1. Win!Reclamation(j) /\ (Win!EnRelache(j) <=> j = i) /\ ~Win!EnRelache(j)'
    BY <1>a, <1>b DEF Win!Inductif, Win!EnRelache
  <2>2. \A g \in FWin : v13[g] # "compte"
    BY <1>b DEF Win!Inductif, Win!Fil
  <2>3. Win!Comptes(j)' = Win!Comptes(j)
    BY <1>a, <1>b DEF Win!Comptes, Win!Suivi
  <2>4. Win!Cardinality(Win!Comptes(j)) \in Nat
    BY WinFini DEF Win!Inductif, Win!TypeWindows, Win!Comptes
  <2> QED BY <1>a, <2>1, <2>2, <2>3, <2>4 DEF Win!Reclamation
<1> QED BY <1>1, <1>2, <1>3 DEF Win!Inductif

(* The transfer is over. *)
LEMMA WinRepond ==
    ASSUME Win!Hypotheses, Win!Inductif, Win!usbi_handle_transfer_completion
    PROVE  Win!Inductif'
<1> USE WinConstantes
<1> DEFINE t == v14[Win!Evts]
<1>a. /\ v13[Win!Evts] = "repond" /\ v1' = v1 \ {t}
      /\ v14' = [v14 EXCEPT ![Win!Evts] = Rien] /\ v18' = v18 \ {Win!Min(v18)}
      /\ v13' = [v13 EXCEPT ![Win!Evts] = IF v18' = {} THEN "poll" ELSE "trouve"]
      /\ UNCHANGED <<v2, v5, v6, v8, Win!table, Win!reclames, Win!temoins, v15, v16, v17>>
  BY DEF Win!usbi_handle_transfer_completion, Win!Va
<1>b. t \in TWin /\ t \in v1 /\ ~Win!Suivi(t) /\ \A g \in FWin : v14[g] # t
  <2>1. t \in TWin /\ t \in v1 /\ ~Win!Suivi(t)
    BY <1>a DEF Win!Inductif, Win!Evenements, Win!TypeWindows
  <2> QED BY <2>1, WinRepos DEF Win!Inductif, Win!Fil
<1>c. /\ v13'[Win!Evts] = (IF v18' = {} THEN "poll" ELSE "trouve") /\ v14'[Win!Evts] = Rien
      /\ \A g \in FWin : v13'[g] = v13[g] /\ v14'[g] = v14[g]
  BY <1>a DEF Win!Inductif, Win!TypeWindows
<1> USE DEF Win!table, Win!reclames, Win!temoins
<1>g. \A u \in TWin : Win!Suivi(u)' <=> Win!Suivi(u)
  BY <1>a, <1>b DEF Win!Suivi
<1> HIDE DEF t
<1>1. Win!TypeWindows'
  <2>1. v1' \in SUBSET TWin /\ Win!IsFiniteSet(v1')
    <3>1. Win!IsFiniteSet(v1) /\ v1 \subseteq TWin
      BY DEF Win!Inductif, Win!TypeWindows
    <3>2. Win!IsFiniteSet(v1')
      BY <1>a, <3>1, WinMoins
    <3> QED BY <1>a, <3>1, <3>2
  <2>2. /\ v13' \in [FWin \cup {Win!Evts} -> {"repos", "reclame", "compte", "cree", "lance", "ajoute", "refuse",
                                 "poll", "trouve", "rend", "libere", "relache", "repond"}]
        /\ v14' \in [FWin \cup {Win!Evts} -> TWin \cup {Rien}]
    BY <1>a DEF Win!Inductif, Win!TypeWindows
  <2>3. v18' \in SUBSET (1..NFdWin)
    BY <1>a DEF Win!Inductif, Win!TypeWindows
  <2> QED BY <1>a, <2>1, <2>2, <2>3 DEF Win!Inductif, Win!TypeWindows
<1>2. Win!Evenements'
  <2>1. \A x \in v18' : x \in v4 /\ v7[v3[x]] # "encours"
    BY <1>a DEF Win!Inductif, Win!Evenements
  <2>2. v12 # Win!Evts
    BY <1>a DEF Win!Inductif, Win!Evenements
  <2> QED BY <1>a, <1>c, <2>1, <2>2 DEF Win!Evenements
<1>3. ASSUME NEW g \in FWin PROVE Win!Fil(g)'
  <2>1. Win!Fil(g)
    BY DEF Win!Inductif
  <2>2. v14[g] # Rien => v14[g] \in TWin /\ v14[g] \in v1' /\ (Win!Suivi(v14[g])' <=> Win!Suivi(v14[g]))
    <3>1. v14[g] # Rien => v14[g] \in TWin /\ v14[g] \in v1'
      BY <1>a, <1>b, <2>1 DEF Win!Fil, Win!Inductif, Win!TypeWindows
    <3> QED BY <1>c, <1>g, <3>1 DEF Win!Suivi
  <2> QED BY <1>a, <1>c, <2>1, <2>2 DEF Win!Fil
<1>4. ASSUME NEW u \in TWin PROVE Win!Transfert(u)'
  <2>1. Win!Transfert(u) /\ (Win!Suivi(u)' <=> Win!Suivi(u)) /\ (Win!Suivi(u) => u # t)
    BY <1>b, <1>g DEF Win!Inductif
  <2>2. v14[Win!Evts] = u => u = t
    BY DEF t
  <2> QED BY <1>a, <1>c, <2>1, <2>2 DEF Win!Transfert
<1>5. ASSUME NEW x \in 1..NFdWin PROVE Win!Entree(x)'
  <2>1. Win!Entree(x) /\ v1 \subseteq TWin
    BY DEF Win!Inductif, Win!TypeWindows
  <2> QED BY <1>a, <1>b, <1>g, <2>1 DEF Win!Entree
<1>6. ASSUME NEW i \in Win!I PROVE Win!Reclamation(i)'
  <2>1. Win!EnRelache(i)' <=> Win!EnRelache(i)
    BY <1>a, <1>c DEF Win!EnRelache
  <2>2. Win!Comptes(i) \subseteq Win!Comptes(i)'
    <3> SUFFICES ASSUME NEW u \in Win!Comptes(i) PROVE u \in Win!Comptes(i)'
      OBVIOUS
    <3>1. u \in TWin /\ u \in v1 /\ u # t
      BY <1>a, <1>b DEF Win!Comptes, Win!Inductif, Win!TypeWindows
    <3> QED BY <1>a, <1>c, <1>g, <3>1 DEF Win!Comptes
  <2>3. \A g \in FWin : v13[g] = "compte" /\ v15[g] = i => v13'[g] = "compte" /\ v15'[g] = i
    BY <1>a, <1>c
  <2> QED BY <1>1, <1>a, <2>1, <2>2, <2>3, WinReclamation
<1> QED BY <1>1, <1>2, <1>3, <1>4, <1>5, <1>6 DEF Win!Inductif

(* A step of the part, or none. *)
LEMMA WinPreserve ==
    ASSUME Win!Hypotheses, Win!Inductif, Win!Next \/ UNCHANGED Win!vars
    PROVE  Win!Inductif'
<1>1. CASE UNCHANGED Win!vars
  <2> USE <1>1 DEF Win!vars, Win!soumis, Win!table, Win!reclames, Win!temoins, Win!locaux
  <2>1. Win!TypeWindows'
    BY DEF Win!Inductif, Win!TypeWindows
  <2>2. Win!Evenements'
    BY DEF Win!Inductif, Win!Evenements, Win!Suivi
  <2>3. ASSUME NEW g \in FWin PROVE Win!Fil(g)'
    BY <2>3 DEF Win!Inductif, Win!Fil, Win!Suivi
  <2>4. ASSUME NEW u \in TWin PROVE Win!Transfert(u)'
    BY <2>4 DEF Win!Inductif, Win!Transfert, Win!Suivi
  <2>5. ASSUME NEW x \in 1..NFdWin PROVE Win!Entree(x)'
    BY <2>5 DEF Win!Inductif, Win!Entree, Win!Suivi
  <2>6. ASSUME NEW i \in Win!I PROVE Win!Reclamation(i)'
    BY <2>1, <2>6, WinReclamation DEF Win!EnRelache, Win!Comptes, Win!Suivi
  <2> QED BY <2>1, <2>2, <2>3, <2>4, <2>5, <2>6 DEF Win!Inductif
<1>2. CASE \E f \in FWin : \E i \in Win!I : Win!libusb_claim_interface(f, i) \/ Win!libusb_release_interface(f, i)
  BY <1>2, WinApplication
<1>3. CASE \E f \in FWin, t \in TWin : Win!libusb_submit_transfer(f, t)
  BY <1>3, WinSoumet
<1>4. CASE (\E f \in FWin, t \in TWin : Win!windows_cancel_transfer(f, t)) \/ \E n \in Win!Ov : Win!Termine(n)
  BY <1>4, WinIo
<1>5. CASE \E f \in FWin : Win!auto_claim(f) \/ Win!Compte(f) \/ Win!usbi_create_fd(f)
  BY <1>5, WinReclame, WinCompte, WinCree
<1>6. CASE \E f \in FWin : Win!Lance(f) \/ Win!usbi_add_pollfd(f) \/ Win!Refuse(f)
  BY <1>6, WinLance, WinEchec, WinAjoute, WinRefuse
<1>7. CASE Win!usbi_poll \/ Win!windows_handle_events \/ Win!usbi_free_fd
  BY <1>7, WinPoll, WinTrouve, WinRend
<1>8. CASE Win!auto_release \/ Win!Relache \/ Win!usbi_handle_transfer_completion
  BY <1>8, WinDecompte, WinRelache, WinRepond
<1> QED BY <1>1, <1>2, <1>3, <1>4, <1>5, <1>6, <1>7, <1>8 DEF Win!Next

(* What the invariant is for. *)
LEMMA WinPromesse ==
    ASSUME Win!Hypotheses, Win!Inductif
    PROVE  Win!Surveille /\ Win!ReclameSolde
<1> USE WinConstantes
<1>1. Win!Surveille
  <2>1. ASSUME NEW t \in v1, v5[t] # Win!INVALID_WINFD
        PROVE  LET d == v5[t].fd  n == v5[t].overlapped IN
               /\ v3[d] = n /\ v8[n] = t /\ v7[n] # "libere"
               /\ d \in v4 \/ v14[Win!Evts] = t \/ \E f \in FWin : v14[f] = t /\ v13[f] = "ajoute"
    <3>1. Win!Transfert(t) /\ Win!Suivi(t)
      BY <2>1 DEF Win!Inductif, Win!TypeWindows, Win!Suivi
    <3> QED BY <3>1 DEF Win!Transfert
  <2>2. v13[Win!Evts] = "rend" => v7[v5[v14[Win!Evts]].overlapped] # "encours"
    BY DEF Win!Inductif, Win!Evenements
  <2> QED BY <2>1, <2>2 DEF Win!Surveille
<1>2. v19 \ v20 \subseteq v10
  BY DEF Win!Inductif, Win!Reclamation, Win!TypeWindows
<1>3. ASSUME v1 = {}, NEW i \in Win!I \ v21
      PROVE  v11[i] = 0 /\ (i \in v10 => i \in v19)
  <2>1. Win!Reclamation(i)
    BY DEF Win!Inductif
  <2>2. Win!Comptes(i) = {} /\ Win!Cardinality(Win!Comptes(i)) = 0
    BY <1>3, WinVide DEF Win!Comptes
  <2>3. v11[i] = 0
    BY <2>1, <2>2 DEF Win!Reclamation, Win!Inductif, Win!TypeWindows
  <2>4. ~Win!EnRelache(i)
    BY <1>3 DEF Win!Inductif, Win!Evenements, Win!EnRelache
  <2>5. \A f \in FWin : v13[f] # "compte"
    BY <1>3, WinRepos
  <2> QED BY <2>1, <2>3, <2>4, <2>5 DEF Win!Reclamation
<1>4. v10 \subseteq Win!I
  BY DEF Win!Inductif, Win!TypeWindows
<1> QED BY <1>1, <1>2, <1>3, <1>4 DEF Win!ReclameSolde


=============================================================================
