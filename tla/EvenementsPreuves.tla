------------------------- MODULE EvenementsPreuves -------------------------
(***************************************************************************)
(* Proofs about Evenements, for every set of threads, of devices and of    *)
(* teams.  The inductive invariant is built in layers, each of which uses  *)
(* the ones before it:                                                     *)
(*   TypeEvenements  the types, the steps each kind of thread can be at,   *)
(*                   and where a thread has a device to work on;           *)
(*   VerrouTenu      at which steps a thread holds events_lock, and how    *)
(*                   often;                                                *)
(*   Compte          device_close counts the handles that are being closed;*)
(*   TubeFidele      the event pipe;                                       *)
(*   CopieFidele     the copy of the descriptors that is polled;           *)
(*   HotplugTenu     who has linux_hotplug_lock, and what it is doing;     *)
(*   ListesTenues    what the device lists of the threads hold;            *)
(*   MessagesJustes  no message tells of a device nobody keeps alive;      *)
(*   References      a device's count is the number of those who hold it;  *)
(*   Annonce         where the news of a device is, for each callback.     *)
(***************************************************************************)
EXTENDS Evenements, FiniteSetTheorems, SequenceTheorems, TLAPS

-----------------------------------------------------------------------------
(* The steps of each kind of thread. *)
EtapesPerte == {"perdu", "depart", "rendre", "apres"}
EtapesLibere == {"libere", "rend", "diffuse"}

EtapesA ==
    {"boucle", "essaie", "tente", "active", "verifie", "prepare", "poll", "repoll", "tube",
     "message", "backend", "attend", "ferme?", "actif?", "dort", "reveil", "fin"}
        \cup EtapesPerte \cup EtapesLibere

EtapesC ==
    {"liste", "ouvre", "op_open", "ajoute", "inscrit", "echec", "sansliste", "utilise", "verrou",
     "desinscrit", "op_close", "close", "decompte", "fin"}
        \cup EtapesPerte \cup EtapesLibere

EtapesR == {"enregistre", "enumere", "rappelle", "sansliste", "fin"}
EtapesM == {"surveille", "arrive", "fin"} \cup EtapesPerte
Etapes == EtapesA \cup EtapesC \cup EtapesR \cup EtapesM

Messages == [event : {"ARRIVED", "LEFT"}, device : D]

TypePc ==
    /\ pc \in [Fils -> Etapes]
    /\ \A a \in A : pc[a] \in EtapesA
    /\ \A c \in C : pc[c] \in EtapesC
    /\ \A r \in R : pc[r] \in EtapesR
    /\ pc[Moniteur] \in EtapesM
    /\ dorment \subseteq {a \in A : pc[a] = "dort"}

TypePendants ==
    /\ device_close \in Int /\ pollfds_modified \in BOOLEAN
    /\ hotplug_msgs \in Seq(Messages)

TypeFds ==
    /\ ipollfds \subseteq C /\ pollfds \subseteq C /\ ouverts \subseteq C /\ open_devs \subseteq C
    /\ \A c \in open_devs : pc[c] \in {"sansliste", "utilise", "verrou", "desinscrit"} \cup EtapesLibere
    /\ \A c \in C : pc[c] \in {"utilise", "verrou", "desinscrit"} => c \in open_devs
    /\ \A c \in open_devs : c \in ouverts
    /\ \A c \in C : pc[c] \in {"ajoute", "inscrit", "op_close", "close"} => c \in ouverts
    /\ \A c \in ouverts :
           pc[c] \in {"ajoute", "inscrit", "op_close", "close"} \/ c \in open_devs

TypeObjet ==
    /\ objet \in [Fils -> D \cup {Personne}]
    /\ \A f \in A \cup {Moniteur} : pc[f] \in EtapesPerte \cup {"arrive"} => objet[f] \in D
    /\ \A c \in C : pc[c] \notin {"liste", "fin"} => objet[c] \in D

TypeMessage ==
    /\ message \in [A -> Messages \cup {Aucun}]
    /\ \A a \in A : pc[a] = "message" => message[a] \in Messages

TypeListe ==
    /\ liste \in [C \cup R -> SUBSET D]
    /\ annonces \in [R -> SUBSET D] /\ hotplug_cbs \subseteq R

TypePeripheriques ==
    /\ branche \in [D -> {"avant", "la", "parti"}] /\ attached \in [D -> BOOLEAN]
    /\ refcnt \in [D -> Int]
    /\ usb_devs \subseteq D /\ detruits \subseteq D

TypeEvenements ==
    TypePc /\ TypePendants /\ TypeFds /\ TypeObjet /\ TypeMessage /\ TypeListe /\ TypePeripheriques

-----------------------------------------------------------------------------
(* How often a thread has events_lock: a thread that handles events and a  *)
(* client that closes its handle have it once, the client twice from       *)
(* do_close to the first libusb_unlock_events.                             *)
EtapesTenues ==
    {"active", "verifie", "prepare", "poll", "repoll", "tube", "message", "backend", "libere", "rend"}
        \cup EtapesPerte

TientDeux(c) == c \in C /\ c \in open_devs /\ pc[c] \in {"libere", "rend"}

TientUn(f) ==
    \/ f \in A /\ pc[f] \in EtapesTenues
    \/ f \in C /\ f \notin open_devs /\ pc[f] \in {"libere", "rend", "op_close", "close", "decompte"}
    \/ f \in C /\ f \in open_devs /\ pc[f] \in {"diffuse", "desinscrit"}

VerrouTenu ==
    /\ \A f \in Fils : TientUn(f) => events_lock = [fil |-> f, fois |-> 1]
    /\ \A f \in Fils : TientDeux(f) => events_lock = [fil |-> f, fois |-> 2]

(* The handles that are being closed: from libusb_close to FinClose. *)
Ferme(c) ==
    \/ pc[c] \in {"verrou", "desinscrit", "op_close", "close", "decompte"}
    \/ pc[c] \in EtapesLibere /\ c \in open_devs

Fermants == {c \in C : Ferme(c)}

Compte == IsFiniteSet(Fermants) /\ device_close = Cardinality(Fermants)

(* The copy of the descriptors is the set of the clients' unless somebody  *)
(* has to take a new one, and those are of open handles.                   *)
CopieFidele ==
    /\ ~pollfds_modified => pollfds = ipollfds
    /\ ipollfds \subseteq ouverts
    /\ \A c \in C : pc[c] = "close" => c \notin ipollfds
    /\ \A a \in A : pc[a] \in {"poll", "tube", "message", "backend", "repoll"} \cup EtapesPerte
                        => pollfds \subseteq ouverts


-----------------------------------------------------------------------------
(* linux_hotplug_lock is with the thread that announces an arrival or a    *)
(* departure.                                                              *)
HotplugTenu ==
    /\ \A f \in Fils : pc[f] \in {"depart", "rendre"} => linux_hotplug_lock = f
    /\ pc[Moniteur] = "arrive" => linux_hotplug_lock = Moniteur /\ objet[Moniteur] \in usb_devs

(* The lists that clients and registrations have asked for. *)
ListesTenues ==
    /\ \A c \in C : pc[c] = "liste" => liste[c] = {}
    /\ \A c \in C : pc[c] = "ouvre" => objet[c] \in liste[c]
    /\ \A r \in R : pc[r] \in {"enregistre", "enumere"} => liste[r] = {}

(* The news of a device: a thread about to tell that it has left, a        *)
(* message in the list, a message that a thread handles.                   *)
Arrive(d) == [event |-> "ARRIVED", device |-> d]
Parti(d) == [event |-> "LEFT", device |-> d]
Annoncant(f, d) == pc[f] = "depart" /\ objet[f] = d
DansFile(m) == \E i \in DOMAIN hotplug_msgs : hotplug_msgs[i] = m
EnMain(a, m) == pc[a] = "message" /\ message[a] = m

(* The reference a device has had since its enumeration is still there.    *)
Retenu(d) ==
    \/ d \in usb_devs
    \/ \E f \in Fils : Annoncant(f, d)
    \/ DansFile(Parti(d))
    \/ \E a \in A : EnMain(a, Parti(d))

(* A device leaves once: these four exclude each other. *)
UnDepart ==
    \A d \in D :
        /\ d \in usb_devs => (\A f \in Fils : ~Annoncant(f, d)) /\ ~DansFile(Parti(d)) /\ \A a \in A : ~EnMain(a, Parti(d))
        /\ (\E f \in Fils : Annoncant(f, d)) => ~DansFile(Parti(d)) /\ \A a \in A : ~EnMain(a, Parti(d))
        /\ DansFile(Parti(d)) => \A a \in A : ~EnMain(a, Parti(d))
        /\ \A i, j \in DOMAIN hotplug_msgs : hotplug_msgs[i] = Parti(d) /\ hotplug_msgs[j] = Parti(d) => i = j

(* The news that a device has come is handled before the news that it has  *)
(* left, which keeps it alive.                                             *)
ArriveAvant ==
    \A d \in D :
        /\ \A i \in DOMAIN hotplug_msgs : hotplug_msgs[i] = Arrive(d) =>
               \/ d \in usb_devs \/ \E f \in Fils : Annoncant(f, d)
               \/ \E j \in DOMAIN hotplug_msgs : j > i /\ hotplug_msgs[j] = Parti(d)
        /\ \A a \in A : EnMain(a, Arrive(d)) =>
               d \in usb_devs \/ (\E f \in Fils : Annoncant(f, d)) \/ DansFile(Parti(d))

MessagesJustes == UnDepart /\ ArriveAvant

(* Who has a reference to a device: a device list, a handle from           *)
(* libusb_open to Close or Echec, a thread that has looked the device up   *)
(* by its session, and the context, as above.                              *)
Genres == {"liste", "poignee", "session", "contexte"}

Poignee(c) == c \in ouverts \/ pc[c] \in {"op_open", "echec"} \cup EtapesPerte

Porte(k, f, d) ==
    \/ k = "liste" /\ f \in C \cup R /\ d \in liste[f]
    \/ k = "poignee" /\ f \in C /\ Poignee(f) /\ objet[f] = d
    \/ k = "session" /\ pc[f] \in {"depart", "rendre"} /\ objet[f] = d
    \/ k = "contexte" /\ f = Moniteur /\ Retenu(d)

Porteurs(d) == {p \in Genres \X Fils : Porte(p[1], p[2], d)}

(* The count of a device is the number of those who have a reference, and  *)
(* none has one to a device that has been freed.                           *)
Juste(d) ==
    /\ IsFiniteSet(Porteurs(d))
    /\ refcnt[d] = Cardinality(Porteurs(d))
    /\ d \in detruits => Porteurs(d) = {}

References == \A d \in D : Juste(d)

(* Where the news of a device is, for a registered callback.               *)
Annonce ==
    \A r \in R :
        /\ pc[r] \in {"enumere", "rappelle", "sansliste"} => r \in hotplug_cbs
        /\ pc[r] = "enregistre" => r \notin hotplug_cbs
        /\ r \in hotplug_cbs /\ pc[r] # "enumere" =>
             \A d \in usb_devs :
                 \/ d \in annonces[r]
                 \/ pc[r] = "rappelle" /\ d \in liste[r]
                 \/ pc[Moniteur] = "arrive" /\ objet[Moniteur] = d
                 \/ DansFile(Arrive(d)) \/ \E a \in A : EnMain(a, Arrive(d))

(* The inductive invariant. *)
Inductif ==
    /\ TypeEvenements /\ VerrouTenu /\ Compte /\ TubeFidele /\ CopieFidele
    /\ HotplugTenu /\ ListesTenues /\ MessagesJustes /\ References /\ Annonce

-----------------------------------------------------------------------------
(* The steps of a registration, in their order. *)
LEMMA SuiteDe ==
    ASSUME NEW r \in R, Suite(r), pc[r] \in EtapesR
    PROVE  /\ pc[r] = "enregistre" => Va(r, "enumere")
           /\ pc[r] = "enumere" => Va(r, "rappelle")
           /\ pc[r] = "rappelle" => Va(r, "sansliste")
           /\ pc[r] = "sansliste" => Va(r, "fin")
<1> DEFINE rang == CHOOSE k \in DOMAIN OrdreInscription : OrdreInscription[k] = pc[r]
<1>1. /\ Len(OrdreInscription) = 4 /\ DOMAIN OrdreInscription = 1..4
      /\ OrdreInscription[1] = "enregistre" /\ OrdreInscription[2] = "enumere"
      /\ OrdreInscription[3] = "rappelle" /\ OrdreInscription[4] = "sansliste"
  BY DEF OrdreInscription
<1>2. ASSUME NEW j \in 1..4, pc[r] = OrdreInscription[j]
      PROVE  rang = j
  BY <1>1, <1>2
<1>3. Va(r, IF rang = 4 THEN "fin" ELSE OrdreInscription[rang + 1])
  BY <1>1 DEF Suite
<1> HIDE DEF rang
<1>4. CASE pc[r] = "enregistre"
  <2>1. rang = 1  BY <1>1, <1>2, <1>4
  <2> QED BY <1>1, <1>3, <1>4, <2>1
<1>5. CASE pc[r] = "enumere"
  <2>1. rang = 2  BY <1>1, <1>2, <1>5
  <2> QED BY <1>1, <1>3, <1>5, <2>1
<1>6. CASE pc[r] = "rappelle"
  <2>1. rang = 3  BY <1>1, <1>2, <1>6
  <2> QED BY <1>1, <1>3, <1>6, <2>1
<1>7. CASE pc[r] = "sansliste"
  <2>1. rang = 4  BY <1>1, <1>2, <1>7
  <2> QED BY <1>1, <1>3, <1>7, <2>1
<1> QED BY <1>4, <1>5, <1>6, <1>7

(* The kinds of threads exclude each other. *)
LEMMA Sortes ==
    /\ \A a \in A : a \in Fils /\ a \notin C /\ a \notin R /\ a # Moniteur
    /\ \A c \in C : c \in Fils /\ c \notin A /\ c \notin R /\ c # Moniteur
    /\ \A r \in R : r \in Fils /\ r \notin A /\ r \notin C /\ r # Moniteur
    /\ Moniteur \in Fils /\ Moniteur \notin A /\ Moniteur \notin C /\ Moniteur \notin R
    /\ \A f \in Fils : f \in A \/ f \in C \/ f \in R \/ f = Moniteur
    /\ Personne \notin Fils
BY EvenementsAssumption DEF Fils

(* One thread makes a step: the others stay where they are. *)
Bouge(f) == pc' = [pc EXCEPT ![f] = pc'[f]]

LEMMA PasDe ==
    ASSUME TypePc, NEW f \in Fils, Bouge(f),
           f \in A => pc'[f] \in EtapesA, f \in C => pc'[f] \in EtapesC,
           f \in R => pc'[f] \in EtapesR, f = Moniteur => pc'[f] \in EtapesM,
           dorment' \subseteq dorment \cup {f},
           f \in dorment' => f \in A /\ pc'[f] = "dort"
    PROVE  TypePc'
<1>1. pc'[f] \in Etapes
  BY Sortes DEF Etapes
<1> QED BY <1>1, Sortes DEF TypePc, Bouge

(* The steps of a thread that waits. *)
LEMMA PasAttente ==
    ASSUME TypePc,
           NEW a \in A, Attente(a) \/ Expire(a) \/ Finit(a)
    PROVE  /\ Bouge(a)
           /\ pc'[a] \in EtapesA
           /\ dorment' \subseteq dorment \cup {a} /\ (a \in dorment' => pc'[a] = "dort")
<1> USE DEF Va, verrous, Bouge, pendants, fds, transferts, locaux, peripheriques
<1>0. pc \in [Fils -> Etapes] /\ a \in Fils /\ dorment \subseteq {b \in A : pc[b] = "dort"}
  BY Sortes DEF TypePc
<1>1. CASE Boucle(a)
  BY <1>1, <1>0 DEF Boucle, EtapesA, EtapesPerte, EtapesLibere, Suivant
<1>2. CASE Essaie(a)
  BY <1>2, <1>0 DEF Essaie, LaissePasser, EtapesA, EtapesPerte, EtapesLibere, Suivant
<1>3. CASE Tente(a)
  BY <1>3, <1>0 DEF Tente, EtapesA, EtapesPerte, EtapesLibere, Suivant
<1>4. CASE Active(a)
  BY <1>4, <1>0 DEF Active, EtapesA, EtapesPerte, EtapesLibere, Suivant
<1>5. CASE Verifie(a)
  BY <1>5, <1>0 DEF Verifie, EtapesA, EtapesPerte, EtapesLibere, Suivant
<1>6. CASE Prepare(a)
  BY <1>6, <1>0 DEF Prepare, usbi_clear_event, Reste, EtapesA, EtapesPerte, EtapesLibere, Suivant
<1>7. CASE Poll(a)
  BY <1>7, <1>0 DEF Poll, EtapesA, EtapesPerte, EtapesLibere, Suivant
<1>8. CASE Repoll(a)
  BY <1>8, <1>0 DEF Repoll, EtapesA, EtapesPerte, EtapesLibere, Suivant
<1>9. CASE Tube(a)
  BY <1>9, <1>0 DEF Tube, usbi_clear_event, Reste, EtapesA, EtapesPerte, EtapesLibere, Suivant
<1>10. CASE Message(a)
  BY <1>10, <1>0 DEF Message, libusb_unref_device, EtapesA, EtapesPerte, EtapesLibere, Suivant
<1>11. CASE Reap(a)
  BY <1>11, <1>0 DEF Reap, EtapesA, EtapesPerte, EtapesLibere, Suivant
<1>12. CASE FinBackend(a)
  BY <1>12, <1>0 DEF FinBackend, EtapesA, EtapesPerte, EtapesLibere, Suivant
<1>13. CASE Attend(a)
  BY <1>13, <1>0 DEF Attend, EtapesA, EtapesPerte, EtapesLibere, Suivant
<1>14. CASE Occupe(a)
  BY <1>14, <1>0 DEF Occupe, EtapesA, EtapesPerte, EtapesLibere, Suivant
<1>15. CASE Reveil(a)
  BY <1>15, <1>0 DEF Reveil, EtapesA, EtapesPerte, EtapesLibere, Suivant
<1>16. CASE Expire(a)
  BY <1>16, <1>0 DEF Expire, EtapesA, EtapesPerte, EtapesLibere, Suivant
<1>17. CASE Finit(a)
  BY <1>17, <1>0 DEF Finit, TypePc
<1>18. CASE \E c \in C : PollErr(a, c)
  BY <1>18, <1>0 DEF PollErr, usbi_pollfd, usbi_signal_event, EtapesA, EtapesPerte, EtapesLibere, Suivant
<1> QED BY <1>1, <1>2, <1>3, <1>4, <1>5, <1>6, <1>7, <1>8, <1>9, <1>10, <1>11,
     <1>12, <1>13, <1>14, <1>15, <1>16, <1>17, <1>18 DEF Attente

(* The steps of a client. *)
LEMMA PasClient ==
    ASSUME TypePc,
           NEW c \in C, Client(c) \/ libusb_close(c)
    PROVE  /\ Bouge(c)
           /\ pc'[c] \in EtapesC /\ UNCHANGED dorment
<1> USE DEF Va, verrous, Bouge, pendants, fds, transferts, locaux, peripheriques
<1>0. pc \in [Fils -> Etapes] /\ c \in Fils /\ c \notin dorment /\ dorment \subseteq {b \in A : pc[b] = "dort"}
  BY Sortes DEF TypePc
<1>1. CASE Cherche(c)
  BY <1>1, <1>0 DEF Cherche, libusb_get_device_list, libusb_ref_device, EtapesC, EtapesPerte, EtapesLibere
<1>2. CASE libusb_open(c)
  BY <1>2, <1>0 DEF libusb_open, libusb_ref_device, EtapesC, EtapesPerte, EtapesLibere
<1>3. CASE op_open(c)
  BY <1>3, <1>0 DEF op_open, EtapesC, EtapesPerte, EtapesLibere
<1>4. CASE usbi_add_pollfd(c)
  BY <1>4, <1>0 DEF usbi_add_pollfd, usbi_pollfd, usbi_signal_event, EtapesC, EtapesPerte, EtapesLibere
<1>5. CASE Inscrit(c)
  BY <1>5, <1>0 DEF Inscrit, EtapesC, EtapesPerte, EtapesLibere
<1>6. CASE Echec(c)
  BY <1>6, <1>0 DEF Echec, libusb_unref_device, EtapesC, EtapesPerte, EtapesLibere
<1>7. CASE SansListe(c)
  BY <1>7, <1>0 DEF SansListe, libusb_free_device_list, libusb_unref_device, EtapesC, EtapesPerte, EtapesLibere
<1>8. CASE do_close(c)
  BY <1>8, <1>0 DEF do_close, EtapesC, EtapesPerte, EtapesLibere
<1>9. CASE Desinscrit(c)
  BY <1>9, <1>0 DEF Desinscrit, EtapesC, EtapesPerte, EtapesLibere
<1>10. CASE op_close(c)
  BY <1>10, <1>0 DEF op_close, usbi_pollfd, usbi_signal_event, EtapesC, EtapesPerte, EtapesLibere
<1>11. CASE Close(c)
  BY <1>11, <1>0 DEF Close, libusb_unref_device, EtapesC, EtapesPerte, EtapesLibere
<1>12. CASE FinClose(c)
  BY <1>12, <1>0 DEF FinClose, usbi_clear_event, Reste, EtapesC, EtapesPerte, EtapesLibere
<1>13. CASE libusb_close(c)
  BY <1>13, <1>0 DEF libusb_close, usbi_signal_event, EtapesC, EtapesPerte, EtapesLibere
<1> QED BY <1>1, <1>2, <1>3, <1>4, <1>5, <1>6, <1>7, <1>8, <1>9, <1>10, <1>11,
     <1>12, <1>13 DEF Client

(* The steps of a thread that gives events_lock up, or finds a device gone. *)
LEMMA PasCommun ==
    ASSUME TypePc,
           NEW f \in Fils, Commun(f), ~Diffuse(f)
    PROVE  /\ Bouge(f) /\ UNCHANGED dorment /\ f \notin dorment
           /\ f \in A => pc'[f] \in EtapesA
           /\ f \in C => pc'[f] \in EtapesC
           /\ f \in R => pc'[f] \in EtapesR
           /\ f = Moniteur => pc'[f] \in EtapesM
<1> USE DEF Va, verrous, Bouge
<1>0. /\ pc \in [Fils -> Etapes]
      /\ f \in A => pc[f] \in EtapesA
      /\ f \in C => pc[f] \in EtapesC
      /\ f \in R => pc[f] \in EtapesR
      /\ f = Moniteur => pc[f] \in EtapesM
      /\ f \in dorment => pc[f] = "dort"
  BY Sortes DEF TypePc
<1>1. CASE Libere(f)
  BY <1>1, <1>0, Sortes DEF Libere, EtapesA, EtapesC, EtapesR, EtapesM, EtapesPerte, EtapesLibere
<1>2. CASE Rend(f)
  BY <1>2, <1>0, Sortes DEF Rend, MoinsUn, EtapesA, EtapesC, EtapesR, EtapesM, EtapesPerte, EtapesLibere
<1>3. CASE Perdu(f)
  BY <1>3, <1>0, Sortes DEF Perdu, linux_device_disconnected, RefSession, peripheriques, EtapesA, EtapesC, EtapesR, EtapesM, EtapesPerte, EtapesLibere
<1>4. CASE AnnonceDepart(f)
  BY <1>4, <1>0, Sortes DEF AnnonceDepart, usbi_hotplug_notification, usbi_signal_event, EtapesA, EtapesC, EtapesR, EtapesM, EtapesPerte, EtapesLibere
<1>5. CASE Rendre(f)
  BY <1>5, <1>0, Sortes DEF Rendre, FinDisconnected, libusb_unref_device, EtapesA, EtapesC, EtapesR, EtapesM, EtapesPerte, EtapesLibere
<1>6. CASE Apres(f)
  BY <1>6, <1>0, Sortes DEF Apres, EtapesA, EtapesC, EtapesR, EtapesM, EtapesPerte, EtapesLibere
<1> QED BY <1>1, <1>2, <1>3, <1>4, <1>5, <1>6 DEF Commun

(* The steps of a registration. *)
LEMMA PasInscription ==
    ASSUME TypePc, NEW r \in R, Inscription(r)
    PROVE  Bouge(r) /\ pc'[r] \in EtapesR /\ UNCHANGED dorment /\ r \notin dorment
<1>0. pc \in [Fils -> Etapes] /\ r \in Fils /\ pc[r] \in EtapesR /\ r \notin dorment
  BY Sortes DEF TypePc
<1>1. Suite(r) /\ pc[r] # "fin" /\ UNCHANGED dorment
  BY DEF Inscription, Enregistre, Enumere, Rappelle, FinEnumere, verrous
<1>2. \E s \in EtapesR : Va(r, s)
  BY <1>0, <1>1, SuiteDe DEF EtapesR
<1> QED BY <1>0, <1>1, <1>2 DEF Bouge, Va

(* The steps of the monitor. *)
LEMMA PasSurveillance ==
    ASSUME TypePc, Surveillance
    PROVE  Bouge(Moniteur) /\ pc'[Moniteur] \in EtapesM /\ UNCHANGED dorment /\ Moniteur \notin dorment
<1>0. pc \in [Fils -> Etapes] /\ Moniteur \in Fils /\ Moniteur \notin dorment
  BY Sortes DEF TypePc
<1> QED BY <1>0 DEF Surveillance, Arrivee, Perte, AnnonceArrivee, Va, Bouge, verrous, EtapesM, EtapesPerte

(* The broadcast wakes the threads that wait, and its own thread goes on. *)
LEMMA PasDiffuse ==
    ASSUME TypePc, NEW f \in Fils, Diffuse(f)
    PROVE  /\ f \in A \cup C /\ dorment' = {}
           /\ pc' \in [Fils -> Etapes]
           /\ \A g \in Fils : g # f /\ g \notin dorment => pc'[g] = pc[g]
           /\ \A g \in dorment : g \in A /\ pc[g] = "dort" /\ pc'[g] = "reveil"
           /\ f \notin dorment /\ pc[f] = "diffuse"
           /\ f \in A => pc'[f] = "boucle"
           /\ f \in C => pc'[f] = IF f \in open_devs THEN "desinscrit" ELSE "fin"
<1>1. f \in A \cup C
  BY Sortes DEF TypePc, Diffuse, EtapesR, EtapesM, EtapesPerte
<1>2. dorment \subseteq {a \in A : pc[a] = "dort"} /\ dorment \subseteq Fils
  BY Sortes DEF TypePc
<1>3. /\ pc[f] = "diffuse" /\ dorment' = {}
      /\ pc' = [g \in Fils |-> IF g \in dorment THEN "reveil"
                  ELSE IF g # f THEN pc[g]
                  ELSE IF f \in A THEN "boucle" ELSE IF f \in open_devs THEN "desinscrit" ELSE "fin"]
  BY DEF Diffuse, Reveilles
<1>4. pc \in [Fils -> Etapes]
  BY DEF TypePc
<1>5. \A g \in Fils : g \in dorment => g # f
  BY <1>2, <1>3
<1>6. pc' \in [Fils -> Etapes]
  <2>1. {"reveil", "boucle", "desinscrit", "fin"} \subseteq Etapes
    BY DEF Etapes, EtapesA, EtapesC
  <2> QED BY <1>3, <1>4, <2>1
<1>7. \A g \in Fils : g # f /\ g \notin dorment => pc'[g] = pc[g]
  BY <1>3
<1>8. \A g \in dorment : g \in A /\ pc[g] = "dort" /\ pc'[g] = "reveil"
  BY <1>2, <1>3
<1>9. (f \in A => pc'[f] = "boucle") /\ (f \in C => pc'[f] = IF f \in open_devs THEN "desinscrit" ELSE "fin")
  BY <1>2, <1>3, <1>5, Sortes
<1> QED BY <1>1, <1>2, <1>3, <1>5, <1>6, <1>7, <1>8, <1>9

(* All of them are at steps of their kinds then. *)
LEMMA TypePcDiffuse ==
    ASSUME TypePc, NEW f \in Fils, Diffuse(f)
    PROVE  TypePc'
<1>1. /\ \A a \in A : pc'[a] \in EtapesA
      /\ \A c \in C : pc'[c] \in EtapesC
  BY PasDiffuse, Sortes DEF TypePc, EtapesA, EtapesC, EtapesLibere
<1>2. (\A r \in R : pc'[r] \in EtapesR) /\ pc'[Moniteur] \in EtapesM
  BY PasDiffuse, Sortes DEF TypePc
<1> QED BY <1>1, <1>2, PasDiffuse DEF TypePc

(* Each step keeps every thread at a step of its kind. *)
LEMMA TypePcPas ==
    ASSUME TypePc, Next
    PROVE  TypePc'
<1>1. ASSUME NEW a \in A, Attente(a) \/ Expire(a) \/ Finit(a) PROVE TypePc'
  BY <1>1, PasAttente, PasDe, Sortes
<1>2. ASSUME NEW c \in C, Client(c) \/ libusb_close(c) PROVE TypePc'
  <2>1. c \notin dorment
    BY Sortes DEF TypePc
  <2> QED BY <1>2, <2>1, PasClient, PasDe, Sortes
<1>3. ASSUME NEW f \in Fils, Commun(f) PROVE TypePc'
  <2>1. CASE Diffuse(f)
    BY <2>1, TypePcDiffuse
  <2>2. CASE ~Diffuse(f)
    BY <1>3, <2>2, PasCommun, PasDe, Sortes
  <2> QED BY <2>1, <2>2
<1>4. ASSUME NEW r \in R, Inscription(r) PROVE TypePc'
  BY <1>4, PasInscription, PasDe, Sortes
<1>5. CASE Surveillance
  BY <1>5, PasSurveillance, PasDe, Sortes
<1>6. CASE Prise
  BY <1>6 DEF Prise, verrous, TypePc
<1> QED BY <1>1, <1>2, <1>3, <1>4, <1>5, <1>6 DEF Next, Fil

-----------------------------------------------------------------------------
(* What the steps of a thread that waits leave alone. *)
LEMMA CadreAttente ==
    ASSUME NEW a \in A, Attente(a) \/ Expire(a) \/ Finit(a)
    PROVE  /\ UNCHANGED <<device_close, pollfds_modified, hotplug_msgs, tube>> \/ Prepare(a) \/ Tube(a) \/ (\E c \in C : PollErr(a, c))
           /\ UNCHANGED <<ipollfds, pollfds, ouverts, open_devs>> \/ Prepare(a) \/ (\E c \in C : PollErr(a, c))
           /\ UNCHANGED events_lock \/ Tente(a)
           /\ UNCHANGED message \/ Repoll(a) \/ Tube(a)
           /\ UNCHANGED objet \/ (\E c \in C : PollErr(a, c))
           /\ UNCHANGED liste
           /\ UNCHANGED <<hotplug_cbs, annonces>> \/ Message(a)
           /\ UNCHANGED <<branche, usb_devs, attached, refcnt, detruits, linux_hotplug_lock>> \/ Message(a)
<1> USE DEF pendants, fds, verrous, transferts, rappels, locaux, peripheriques
<1>1. CASE Boucle(a)
  BY <1>1 DEF Boucle
<1>2. CASE Essaie(a)
  BY <1>2 DEF Essaie, LaissePasser
<1>3. CASE Tente(a)
  BY <1>3 DEF Tente
<1>4. CASE Active(a)
  BY <1>4 DEF Active
<1>5. CASE Verifie(a)
  BY <1>5 DEF Verifie
<1>6. CASE Prepare(a)
  BY <1>6 DEF Prepare, usbi_clear_event, Reste
<1>7. CASE Poll(a)
  BY <1>7 DEF Poll
<1>8. CASE Repoll(a)
  BY <1>8 DEF Repoll
<1>9. CASE Tube(a)
  BY <1>9 DEF Tube, usbi_clear_event, Reste
<1>10. CASE Message(a)
  BY <1>10 DEF Message, libusb_unref_device
<1>11. CASE Reap(a)
  BY <1>11 DEF Reap
<1>12. CASE FinBackend(a)
  BY <1>12 DEF FinBackend
<1>13. CASE Attend(a)
  BY <1>13 DEF Attend
<1>14. CASE Occupe(a)
  BY <1>14 DEF Occupe
<1>15. CASE Reveil(a)
  BY <1>15 DEF Reveil
<1>16. CASE Expire(a)
  BY <1>16 DEF Expire
<1>17. CASE Finit(a)
  BY <1>17 DEF Finit
<1>18. CASE \E c \in C : PollErr(a, c)
  BY <1>18 DEF PollErr, usbi_pollfd, usbi_signal_event
<1> QED BY <1>1, <1>2, <1>3, <1>4, <1>5, <1>6, <1>7, <1>8, <1>9, <1>10, <1>11,
     <1>12, <1>13, <1>14, <1>15, <1>16, <1>17, <1>18 DEF Attente

(* What the steps of a client leave alone. *)
LEMMA CadreClient ==
    ASSUME NEW c \in C, Client(c) \/ libusb_close(c)
    PROVE  /\ UNCHANGED <<device_close, pollfds_modified, hotplug_msgs, tube>> \/ usbi_add_pollfd(c) \/ op_close(c) \/ FinClose(c) \/ libusb_close(c)
           /\ UNCHANGED <<ipollfds, pollfds, ouverts, open_devs>> \/ op_open(c) \/ usbi_add_pollfd(c) \/ Inscrit(c) \/ Desinscrit(c) \/ op_close(c) \/ Close(c)
           /\ UNCHANGED events_lock \/ do_close(c)
           /\ UNCHANGED message
           /\ UNCHANGED objet \/ Cherche(c)
           /\ UNCHANGED liste \/ Cherche(c) \/ SansListe(c)
           /\ UNCHANGED <<hotplug_cbs, annonces>>
           /\ UNCHANGED <<branche, usb_devs, attached, refcnt, detruits, linux_hotplug_lock>> \/ Cherche(c) \/ libusb_open(c) \/ Echec(c) \/ SansListe(c) \/ Close(c)
<1> USE DEF pendants, fds, verrous, transferts, rappels, locaux, peripheriques
<1>1. CASE Cherche(c)
  BY <1>1 DEF Cherche, libusb_get_device_list, libusb_ref_device
<1>2. CASE libusb_open(c)
  BY <1>2 DEF libusb_open, libusb_ref_device
<1>3. CASE op_open(c)
  BY <1>3 DEF op_open
<1>4. CASE usbi_add_pollfd(c)
  BY <1>4 DEF usbi_add_pollfd, usbi_pollfd, usbi_signal_event
<1>5. CASE Inscrit(c)
  BY <1>5 DEF Inscrit
<1>6. CASE Echec(c)
  BY <1>6 DEF Echec, libusb_unref_device
<1>7. CASE SansListe(c)
  BY <1>7 DEF SansListe, libusb_free_device_list, libusb_unref_device
<1>8. CASE do_close(c)
  BY <1>8 DEF do_close
<1>9. CASE Desinscrit(c)
  BY <1>9 DEF Desinscrit
<1>10. CASE op_close(c)
  BY <1>10 DEF op_close, usbi_pollfd, usbi_signal_event
<1>11. CASE Close(c)
  BY <1>11 DEF Close, libusb_unref_device
<1>12. CASE FinClose(c)
  BY <1>12 DEF FinClose, usbi_clear_event, Reste
<1>13. CASE libusb_close(c)
  BY <1>13 DEF libusb_close, usbi_signal_event
<1> QED BY <1>1, <1>2, <1>3, <1>4, <1>5, <1>6, <1>7, <1>8, <1>9, <1>10, <1>11,
     <1>12, <1>13 DEF Client

(* What the other steps of those two leave alone, and of the monitor. *)
LEMMA CadreCommun ==
    ASSUME NEW f \in Fils, Commun(f)
    PROVE  /\ UNCHANGED <<device_close, pollfds_modified, hotplug_msgs, tube>> \/ AnnonceDepart(f)
           /\ UNCHANGED <<ipollfds, pollfds, ouverts, open_devs>>
           /\ UNCHANGED events_lock \/ Rend(f)
           /\ UNCHANGED message
           /\ UNCHANGED objet
           /\ UNCHANGED liste
           /\ UNCHANGED <<hotplug_cbs, annonces>>
           /\ UNCHANGED <<branche, usb_devs, attached, refcnt, detruits, linux_hotplug_lock>> \/ Perdu(f) \/ Rendre(f)
<1> USE DEF pendants, fds, verrous, transferts, rappels, locaux, peripheriques
<1>1. CASE Libere(f)
  BY <1>1 DEF Libere
<1>2. CASE Rend(f)
  BY <1>2 DEF Rend, MoinsUn
<1>3. CASE Diffuse(f)
  BY <1>3 DEF Diffuse, Reveilles
<1>4. CASE Perdu(f)
  BY <1>4 DEF Perdu, linux_device_disconnected, RefSession, peripheriques
<1>5. CASE AnnonceDepart(f)
  BY <1>5 DEF AnnonceDepart, usbi_hotplug_notification, usbi_signal_event
<1>6. CASE Rendre(f)
  BY <1>6 DEF Rendre, FinDisconnected, libusb_unref_device
<1>7. CASE Apres(f)
  BY <1>7 DEF Apres
<1> QED BY <1>1, <1>2, <1>3, <1>4, <1>5, <1>6, <1>7 DEF Commun

(* What the steps of a registration leave alone. *)
LEMMA CadreInscription ==
    ASSUME NEW r \in R, Inscription(r)
    PROVE  /\ UNCHANGED <<device_close, pollfds_modified, hotplug_msgs, tube>>
           /\ UNCHANGED <<ipollfds, pollfds, ouverts, open_devs>>
           /\ UNCHANGED events_lock
           /\ UNCHANGED message
           /\ UNCHANGED objet
           /\ UNCHANGED liste \/ Enumere(r) \/ FinEnumere(r)
           /\ UNCHANGED <<hotplug_cbs, annonces>> \/ Enregistre(r) \/ Rappelle(r)
           /\ UNCHANGED <<branche, usb_devs, attached, refcnt, detruits, linux_hotplug_lock>> \/ Enumere(r) \/ FinEnumere(r)
<1> USE DEF pendants, fds, verrous, transferts, rappels, locaux, peripheriques
<1>1. CASE Enregistre(r)
  BY <1>1 DEF Enregistre
<1>2. CASE Enumere(r)
  BY <1>2 DEF Enumere, libusb_get_device_list, libusb_ref_device
<1>3. CASE Rappelle(r)
  BY <1>3 DEF Rappelle
<1>4. CASE FinEnumere(r)
  BY <1>4 DEF FinEnumere, libusb_free_device_list, libusb_unref_device
<1> QED BY <1>1, <1>2, <1>3, <1>4 DEF Inscription

(* What the steps of the monitor leave alone, and the devices themselves. *)
LEMMA CadreSurveillance ==
    ASSUME Surveillance \/ Prise
    PROVE  /\ UNCHANGED <<device_close, pollfds_modified, hotplug_msgs, tube>> \/ AnnonceArrivee
           /\ UNCHANGED <<ipollfds, pollfds, ouverts, open_devs>>
           /\ UNCHANGED events_lock
           /\ UNCHANGED message
           /\ UNCHANGED objet \/ (\E d \in D : Arrivee(d) \/ Perte(d))
           /\ UNCHANGED liste
           /\ UNCHANGED <<hotplug_cbs, annonces>>
           /\ UNCHANGED <<usb_devs, attached, refcnt, detruits, linux_hotplug_lock>> \/ AnnonceArrivee \/ (\E d \in D : Arrivee(d))
<1> USE DEF pendants, fds, verrous, transferts, rappels, locaux, peripheriques
<1>1. CASE \E d \in D : Arrivee(d)
  BY <1>1 DEF Arrivee, linux_enumerate_device
<1>2. CASE \E d \in D : Perte(d)
  BY <1>2 DEF Perte
<1>3. CASE AnnonceArrivee
  BY <1>3 DEF AnnonceArrivee, usbi_hotplug_notification, usbi_signal_event
<1>4. CASE Prise
  BY <1>4 DEF Prise, Branche, Debranche
<1> QED BY <1>1, <1>2, <1>3, <1>4 DEF Surveillance

-----------------------------------------------------------------------------
(* The pending events stay what they are: the messages are about devices.  *)
LEMMA TypePendantsPas ==
    ASSUME TypePc, TypePendants, TypeObjet, Next
    PROVE  TypePendants'
<1> USE DEF TypePendants
<1>0. ASSUME UNCHANGED <<device_close, pollfds_modified, hotplug_msgs, tube>>
      PROVE  TypePendants'
  BY <1>0
<1>1. ASSUME NEW a \in A, Attente(a) \/ Expire(a) \/ Finit(a) PROVE TypePendants'
  <2>1. CASE Prepare(a)
    BY <2>1 DEF Prepare
  <2>2. CASE Tube(a)
    <3>1. hotplug_msgs # <<>> => Tail(hotplug_msgs) \in Seq(Messages)
      BY HeadTailProperties
    <3> QED BY <2>2, <3>1 DEF Tube
  <2>3. CASE \E c \in C : PollErr(a, c)
    BY <2>3 DEF PollErr, usbi_pollfd, pendants
  <2> QED BY <1>0, <1>1, <2>1, <2>2, <2>3, CadreAttente
<1>2. ASSUME NEW c \in C, Client(c) \/ libusb_close(c) PROVE TypePendants'
  <2>1. CASE usbi_add_pollfd(c)
    BY <2>1 DEF usbi_add_pollfd, usbi_pollfd, pendants
  <2>2. CASE op_close(c)
    BY <2>2 DEF op_close, usbi_pollfd, pendants
  <2>3. CASE FinClose(c)
    BY <2>3 DEF FinClose
  <2>4. CASE libusb_close(c)
    BY <2>4 DEF libusb_close
  <2> QED BY <1>0, <1>2, <2>1, <2>2, <2>3, <2>4, CadreClient
<1>3. ASSUME NEW f \in Fils, Commun(f) PROVE TypePendants'
  <2>1. CASE AnnonceDepart(f)
    <3>1. pc[f] = "depart"
      BY <2>1 DEF AnnonceDepart
    <3>2. objet[f] \in D
      BY <3>1, Sortes DEF TypeObjet, TypePc, EtapesPerte, EtapesR
    <3>3. [event |-> "LEFT", device |-> objet[f]] \in Messages
      BY <3>2 DEF Messages
    <3> QED BY <2>1, <3>3 DEF AnnonceDepart, usbi_hotplug_notification
  <2> QED BY <1>0, <1>3, <2>1, CadreCommun
<1>4. ASSUME NEW r \in R, Inscription(r) PROVE TypePendants'
  BY <1>0, <1>4, CadreInscription
<1>5. CASE Surveillance \/ Prise
  <2>1. CASE AnnonceArrivee
    <3>1. objet[Moniteur] \in D
      BY <2>1 DEF AnnonceArrivee, TypeObjet
    <3>2. [event |-> "ARRIVED", device |-> objet[Moniteur]] \in Messages
      BY <3>1 DEF Messages
    <3> QED BY <2>1, <3>2 DEF AnnonceArrivee, usbi_hotplug_notification
  <2> QED BY <1>0, <1>5, <2>1, CadreSurveillance
<1> QED BY <1>1, <1>2, <1>3, <1>4, <1>5 DEF Next, Fil

(* Only a thread's own step moves it, but for the broadcast. *)
Acteur(f) ==
    /\ \A g \in Fils : g # f => \/ pc'[g] = pc[g]
                                \/ g \in A /\ pc[g] = "dort" /\ pc'[g] = "reveil"
    /\ \/ f \in A /\ (Attente(f) \/ Expire(f) \/ Finit(f))
       \/ f \in C /\ (Client(f) \/ libusb_close(f))
       \/ Commun(f)
       \/ f \in R /\ Inscription(f)
       \/ f = Moniteur /\ (Surveillance \/ Prise)

LEMMA Immobile ==
    ASSUME TypePc, Next
    PROVE  \E f \in Fils : Acteur(f)
<1> USE DEF Acteur
<1>0. pc \in [Fils -> Etapes]
  BY DEF TypePc
<1>1. ASSUME NEW a \in A, Attente(a) \/ Expire(a) \/ Finit(a), NEW g \in Fils, g # a
      PROVE  pc'[g] = pc[g]
  BY <1>0, <1>1, PasAttente DEF Bouge
<1>2. ASSUME NEW c \in C, Client(c) \/ libusb_close(c), NEW g \in Fils, g # c
      PROVE  pc'[g] = pc[g]
  BY <1>0, <1>2, PasClient DEF Bouge
<1>3. ASSUME NEW f \in Fils, Commun(f), NEW g \in Fils, g # f
      PROVE  pc'[g] = pc[g] \/ (g \in A /\ pc[g] = "dort" /\ pc'[g] = "reveil")
  <2>1. CASE Diffuse(f)
    BY <1>3, <2>1, PasDiffuse
  <2>2. CASE ~Diffuse(f)
    BY <1>0, <1>3, <2>2, PasCommun DEF Bouge
  <2> QED BY <2>1, <2>2
<1>4. ASSUME NEW r \in R, Inscription(r), NEW g \in Fils, g # r
      PROVE  pc'[g] = pc[g]
  BY <1>0, <1>4, PasInscription DEF Bouge
<1>5. ASSUME Surveillance \/ Prise, NEW g \in Fils, g # Moniteur
      PROVE  pc'[g] = pc[g]
  BY <1>0, <1>5, PasSurveillance DEF Bouge, Prise
<1> QED BY <1>1, <1>2, <1>3, <1>4, <1>5, Sortes DEF Next, Fil

(* The descriptors: a handle is open from op_open to Close, and in the     *)
(* list of handles from Inscrit to Desinscrit.                             *)
LEMMA TypeFdsPas ==
    ASSUME TypePc, TypeFds, Next
    PROVE  TypeFds'
<1> USE DEF Acteur
<1>0. PICK f \in Fils : Acteur(f)
  BY Immobile
<1>a. \A c \in C : c # f => pc'[c] = pc[c]
  BY <1>0, Sortes
<1>b. pc \in [Fils -> Etapes] /\ f \in Fils
  BY DEF TypePc
<1>c. (f \in C => pc[f] \in EtapesC) /\ (f \in R => pc[f] \in EtapesR) /\ (f = Moniteur => pc[f] \in EtapesM)
  BY DEF TypePc
<1>1. ASSUME UNCHANGED <<ouverts, open_devs>>, f \notin C, ipollfds' \subseteq C, pollfds' \subseteq C
      PROVE  TypeFds'
  BY <1>a, <1>1 DEF TypeFds
<1>2. CASE f \in A /\ (Attente(f) \/ Expire(f) \/ Finit(f))
  <2>1. CASE Prepare(f)
    BY <1>1, <1>2, <2>1, Sortes DEF Prepare, TypeFds
  <2>2. CASE \E c \in C : PollErr(f, c)
    BY <1>1, <1>2, <2>2, Sortes DEF PollErr, usbi_pollfd, TypeFds
  <2> QED BY <1>1, <1>2, <2>1, <2>2, CadreAttente, Sortes DEF TypeFds
<1>3. CASE f \in C /\ (Client(f) \/ libusb_close(f))
  <2> USE DEF Va, fds, TypeFds, EtapesLibere
  <2>1. CASE Cherche(f)
    BY <1>a, <1>b, <1>3, <2>1 DEF Cherche
  <2>2. CASE libusb_open(f)
    BY <1>a, <1>b, <1>3, <2>2 DEF libusb_open
  <2>3. CASE op_open(f)
    BY <1>a, <1>b, <1>3, <2>3 DEF op_open
  <2>4. CASE usbi_add_pollfd(f)
    BY <1>a, <1>b, <1>3, <2>4 DEF usbi_add_pollfd, usbi_pollfd
  <2>5. CASE Inscrit(f)
    BY <1>a, <1>b, <1>3, <2>5 DEF Inscrit
  <2>6. CASE Echec(f)
    BY <1>a, <1>b, <1>3, <2>6 DEF Echec
  <2>7. CASE SansListe(f)
    BY <1>a, <1>b, <1>3, <2>7 DEF SansListe
  <2>8. CASE do_close(f)
    BY <1>a, <1>b, <1>3, <2>8 DEF do_close
  <2>9. CASE Desinscrit(f)
    BY <1>a, <1>b, <1>3, <2>9 DEF Desinscrit
  <2>10. CASE op_close(f)
    BY <1>a, <1>b, <1>3, <2>10 DEF op_close, usbi_pollfd
  <2>11. CASE Close(f)
    BY <1>a, <1>b, <1>3, <2>11 DEF Close
  <2>12. CASE FinClose(f)
    BY <1>a, <1>b, <1>3, <2>12 DEF FinClose
  <2>13. CASE libusb_close(f)
    BY <1>a, <1>b, <1>3, <2>13 DEF libusb_close
  <2> QED BY <1>3, <2>1, <2>2, <2>3, <2>4, <2>5, <2>6, <2>7, <2>8, <2>9, <2>10, <2>11, <2>12, <2>13
        DEF Client
<1>4. CASE Commun(f)
  <2>0. UNCHANGED <<ipollfds, pollfds, ouverts, open_devs>>
    BY <1>4, CadreCommun
  <2>1. CASE f \notin C
    BY <1>1, <2>0, <2>1 DEF TypeFds
  <2>2. CASE f \in C
    <3> USE DEF Va, TypeFds, EtapesLibere
    <3>1. CASE Libere(f)
      BY <1>a, <1>b, <2>0, <2>2, <3>1 DEF Libere
    <3>2. CASE Rend(f)
      BY <1>a, <1>b, <2>0, <2>2, <3>2 DEF Rend
    <3>3. CASE Diffuse(f)
      <4>1. pc[f] = "diffuse" /\ pc'[f] = IF f \in open_devs THEN "desinscrit" ELSE "fin"
        BY <2>2, <3>3, PasDiffuse
      <4> QED BY <1>a, <1>b, <2>0, <2>2, <4>1
    <3>4. CASE Perdu(f)
      BY <1>a, <1>b, <2>0, <2>2, <3>4 DEF Perdu
    <3>5. CASE AnnonceDepart(f)
      BY <1>a, <1>b, <2>0, <2>2, <3>5 DEF AnnonceDepart
    <3>6. CASE Rendre(f)
      BY <1>a, <1>b, <2>0, <2>2, <3>6 DEF Rendre
    <3>7. CASE Apres(f)
      BY <1>a, <1>b, <2>0, <2>2, <3>7, Sortes DEF Apres
    <3> QED BY <1>4, <3>1, <3>2, <3>3, <3>4, <3>5, <3>6, <3>7 DEF Commun
  <2> QED BY <2>1, <2>2
<1>5. CASE f \in R /\ Inscription(f)
  BY <1>1, <1>5, CadreInscription, Sortes DEF TypeFds
<1>6. CASE f = Moniteur /\ (Surveillance \/ Prise)
  BY <1>1, <1>6, CadreSurveillance, Sortes DEF TypeFds
<1> QED BY <1>0, <1>2, <1>3, <1>4, <1>5, <1>6

(* Whoever has lost a device, and a client with a handle, knows which. *)
LEMMA TypeObjetPas ==
    ASSUME TypePc, TypeFds, TypeObjet, usb_devs \subseteq D, Next
    PROVE  TypeObjet'
<1> USE DEF Acteur
<1>0. PICK f \in Fils : Acteur(f)
  BY Immobile
<1>a. \A g \in Fils : g # f /\ pc'[g] # pc[g] => g \in A /\ pc'[g] = "reveil"
  BY <1>0
<1>b. pc \in [Fils -> Etapes] /\ f \in Fils
  BY DEF TypePc
<1>c. /\ f \in C => pc[f] \in EtapesC /\ pc'[f] \in EtapesC
      /\ f \in R => pc[f] \in EtapesR
      /\ f = Moniteur => pc[f] \in EtapesM
  BY TypePcPas DEF TypePc
<1>1. ASSUME objet' = [objet EXCEPT ![f] = objet'[f]], objet'[f] \in D \cup {Personne},
             f \in A \cup {Moniteur} /\ pc'[f] \in EtapesPerte \cup {"arrive"} => objet'[f] \in D,
             f \in C /\ pc'[f] \notin {"liste", "fin"} => objet'[f] \in D
      PROVE  TypeObjet'
  <2>1. objet \in [Fils -> D \cup {Personne}]
    BY DEF TypeObjet
  <2>2. objet' \in [Fils -> D \cup {Personne}] /\ \A g \in Fils : g # f => objet'[g] = objet[g]
    BY <1>1, <2>1
  <2>3. ASSUME NEW g \in A \cup {Moniteur}, pc'[g] \in EtapesPerte \cup {"arrive"}
        PROVE  objet'[g] \in D
    BY <1>1, <1>a, <2>2, <2>3, Sortes DEF TypeObjet, EtapesPerte
  <2>4. ASSUME NEW c \in C, pc'[c] \notin {"liste", "fin"}
        PROVE  objet'[c] \in D
    BY <1>1, <1>a, <2>2, <2>4, Sortes DEF TypeObjet
  <2> QED BY <2>2, <2>3, <2>4 DEF TypeObjet
<1>2. ASSUME UNCHANGED objet,
             f \in A \cup {Moniteur} /\ pc'[f] \in EtapesPerte \cup {"arrive"}
                => pc[f] \in EtapesPerte \cup {"arrive"},
             f \in C /\ pc'[f] \notin {"liste", "fin"} => pc[f] \notin {"liste", "fin"}
      PROVE  TypeObjet'
  <2>1. objet' = [objet EXCEPT ![f] = objet'[f]] /\ objet'[f] \in D \cup {Personne}
    BY <1>2 DEF TypeObjet
  <2> QED BY <1>1, <1>2, <2>1 DEF TypeObjet
<1>3. CASE f \in A /\ (Attente(f) \/ Expire(f) \/ Finit(f))
  <2>1. CASE \E c \in C : PollErr(f, c)
    <3>1. PICK c \in C : PollErr(f, c)
      BY <2>1
    <3>2. CASE c \in open_devs
      <4>1. objet[c] \in D
        BY <3>2 DEF TypeFds, TypeObjet, EtapesLibere
      <4> QED BY <1>1, <1>3, <1>b, <3>1, <3>2, <4>1, Sortes DEF PollErr, TypeObjet
    <3>3. CASE c \notin open_devs
      <4>1. UNCHANGED <<objet, pc>>
        BY <3>1, <3>3 DEF PollErr
      <4> QED BY <1>2, <4>1
    <3> QED BY <3>2, <3>3
  <2>2. CASE ~\E c \in C : PollErr(f, c)
    <3>1. UNCHANGED objet
      BY <1>3, <2>2, CadreAttente
    <3>2. pc'[f] \notin EtapesPerte \cup {"arrive"} \/ pc'[f] = pc[f]
      BY <1>3, <1>b, <2>2 DEF Attente, Boucle, Essaie, Tente, Active, Verifie, Prepare, Poll, Repoll,
         Tube, Message, Reap, FinBackend, Attend, Occupe, Reveil, Expire, Finit, Va, Suivant, EtapesPerte
    <3> QED BY <1>2, <1>3, <3>1, <3>2, Sortes
  <2> QED BY <2>1, <2>2
<1>4. CASE f \in C /\ (Client(f) \/ libusb_close(f))
  <2>1. CASE Cherche(f)
    BY <1>1, <1>4, <1>b, <2>1, Sortes DEF Cherche, Va, TypeObjet
  <2>2. CASE ~Cherche(f)
    <3>1. UNCHANGED objet
      BY <1>4, <2>2, CadreClient
    <3>2. pc[f] \notin {"liste", "fin"}
      BY <1>4, <2>2 DEF Client, libusb_open, op_open, usbi_add_pollfd, Inscrit, Echec, SansListe,
         do_close, Desinscrit, op_close, Close, FinClose, libusb_close
    <3> QED BY <1>2, <1>4, <3>1, <3>2, Sortes
  <2> QED BY <2>1, <2>2
<1>5. CASE Commun(f)
  <2>1. UNCHANGED objet
    BY <1>5, CadreCommun
  <2>2. pc[f] \in EtapesPerte \cup EtapesLibere
    BY <1>5 DEF Commun, Libere, Rend, Diffuse, Perdu, AnnonceDepart, Rendre, Apres, EtapesPerte, EtapesLibere
  <2>3. f \in A /\ pc'[f] \in EtapesPerte \cup {"arrive"} => pc[f] \in EtapesPerte
    <3>1. CASE Diffuse(f)
      BY <1>5, <3>1, PasDiffuse DEF EtapesPerte
    <3>2. CASE ~Diffuse(f)
      BY <1>5, <1>b, <3>2 DEF Commun, Libere, Rend, Perdu, AnnonceDepart, Rendre, Apres, Va, EtapesPerte
    <3> QED BY <3>1, <3>2
  <2>4. f = Moniteur => pc[f] \in EtapesPerte
    BY <1>c, <2>2 DEF EtapesM, EtapesPerte, EtapesLibere
  <2> QED BY <1>2, <2>1, <2>2, <2>3, <2>4, Sortes DEF EtapesPerte, EtapesLibere
<1>6. CASE f \in R /\ Inscription(f)
  BY <1>2, <1>6, CadreInscription, Sortes
<1>7. CASE f = Moniteur /\ (Surveillance \/ Prise)
  <2>1. CASE \E d \in D : Arrivee(d) \/ Perte(d)
    BY <1>1, <1>7, <1>b, <2>1, Sortes DEF Arrivee, Perte, TypeObjet
  <2>2. CASE Prise
    BY <1>2, <1>7, <2>2, Sortes DEF Prise, locaux
  <2>3. CASE AnnonceArrivee
    BY <1>2, <1>7, <2>3, Sortes DEF AnnonceArrivee, locaux
  <2> QED BY <1>7, <2>1, <2>2, <2>3 DEF Surveillance
<1> QED BY <1>0, <1>3, <1>4, <1>5, <1>6, <1>7

(* A thread that handles a message has one. *)
LEMMA TypeMessagePas ==
    ASSUME TypePc, TypePendants, TypeMessage, Next
    PROVE  TypeMessage'
<1> USE DEF Acteur
<1>0. PICK f \in Fils : Acteur(f)
  BY Immobile
<1>b. pc \in [Fils -> Etapes] /\ message \in [A -> Messages \cup {Aucun}]
  BY DEF TypePc, TypeMessage
<1>1. ASSUME UNCHANGED message, f \in A => pc'[f] # "message" \/ pc'[f] = pc[f]
      PROVE  TypeMessage'
  BY <1>0, <1>1, Sortes DEF TypeMessage
<1>2. CASE f \in A /\ (Attente(f) \/ Expire(f) \/ Finit(f))
  <2>1. CASE Tube(f)
    <3>1. hotplug_msgs # <<>> => Head(hotplug_msgs) \in Messages
      BY HeadTailProperties DEF TypePendants
    <3>2. /\ message' \in [A -> Messages \cup {Aucun}]
          /\ \A a \in A : a # f => message'[a] = message[a]
          /\ pc'[f] = "message" => message'[f] \in Messages
      BY <1>2, <1>b, <2>1, <3>1, Sortes DEF Tube, Va
    <3> QED BY <1>0, <3>2, Sortes DEF TypeMessage
  <2>2. CASE Repoll(f)
    <3>1. /\ message' \in [A -> Messages \cup {Aucun}]
          /\ \A a \in A : a # f => message'[a] = message[a]
          /\ pc'[f] # "message"
      BY <1>2, <1>b, <2>2, Sortes DEF Repoll, Va
    <3> QED BY <1>0, <3>1, Sortes DEF TypeMessage
  <2>3. CASE ~Tube(f) /\ ~Repoll(f)
    <3>1. UNCHANGED message
      BY <1>2, <2>3, CadreAttente
    <3>2. pc'[f] # "message" \/ pc'[f] = pc[f]
      BY <1>2, <1>b, <2>3 DEF Attente, Boucle, Essaie, Tente, Active, Verifie, Prepare, Poll,
         Message, Reap, PollErr, FinBackend, Attend, Occupe, Reveil, Expire, Finit, Va, Suivant
    <3> QED BY <1>1, <3>1, <3>2
  <2> QED BY <2>1, <2>2, <2>3
<1>3. CASE f \in C /\ (Client(f) \/ libusb_close(f))
  BY <1>1, <1>3, CadreClient, Sortes
<1>4. CASE Commun(f)
  <2>1. f \in A => pc'[f] # "message"
    <3>1. CASE Diffuse(f)
      BY <1>4, <3>1, PasDiffuse
    <3>2. CASE ~Diffuse(f)
      BY <1>4, <1>b, <3>2 DEF Commun, Libere, Rend, Perdu, AnnonceDepart, Rendre, Apres, Va
    <3> QED BY <3>1, <3>2
  <2> QED BY <1>1, <1>4, <2>1, CadreCommun
<1>5. CASE f \in R /\ Inscription(f)
  BY <1>1, <1>5, CadreInscription, Sortes
<1>6. CASE f = Moniteur /\ (Surveillance \/ Prise)
  BY <1>1, <1>6, CadreSurveillance, Sortes
<1> QED BY <1>0, <1>2, <1>3, <1>4, <1>5, <1>6

(* The lists of devices, and what the callbacks have been told. *)
LEMMA TypeListePas ==
    ASSUME TypePc, TypeMessage, TypeListe, usb_devs \subseteq D, Next
    PROVE  TypeListe'
<1> USE DEF TypeListe
<1>0. ASSUME UNCHANGED <<liste, hotplug_cbs, annonces>> PROVE TypeListe'
  BY <1>0
<1>1. ASSUME NEW a \in A, Attente(a) \/ Expire(a) \/ Finit(a) PROVE TypeListe'
  <2>1. CASE Message(a)
    <3>1. pc[a] = "message" /\ message[a].device \in D
      BY <2>1 DEF Message, TypeMessage, Messages
    <3>2. UNCHANGED <<liste, hotplug_cbs>>
      BY <2>1 DEF Message, locaux
    <3>3. annonces' = [r \in R |-> IF message[a].event = "ARRIVED" /\ r \in hotplug_cbs
                THEN annonces[r] \cup {message[a].device} ELSE annonces[r]]
      BY <2>1 DEF Message
    <3>4. annonces' \in [R -> SUBSET D]
      BY <3>1, <3>3
    <3> QED BY <3>2, <3>4
  <2> QED BY <1>0, <1>1, <2>1, CadreAttente
<1>2. ASSUME NEW c \in C, Client(c) \/ libusb_close(c) PROVE TypeListe'
  BY <1>0, <1>2, CadreClient DEF Cherche, SansListe, libusb_get_device_list, libusb_free_device_list, rappels
<1>3. ASSUME NEW f \in Fils, Commun(f) PROVE TypeListe'
  BY <1>0, <1>3, CadreCommun
<1>4. ASSUME NEW r \in R, Inscription(r) PROVE TypeListe'
  BY <1>0, <1>4, CadreInscription DEF Enregistre, Enumere, Rappelle, FinEnumere, libusb_get_device_list,
     libusb_free_device_list, rappels, locaux
<1>5. CASE Surveillance \/ Prise
  BY <1>0, <1>5, CadreSurveillance
<1> QED BY <1>1, <1>2, <1>3, <1>4, <1>5 DEF Next, Fil

(* The devices stay devices. *)
LEMMA TypePeripheriquesPas ==
    ASSUME TypeEvenements, Next
    PROVE  TypePeripheriques'
<1> USE DEF TypePeripheriques, libusb_ref_device, libusb_unref_device
<1>t. TypePc /\ TypeFds /\ TypeObjet /\ TypeMessage /\ TypeListe /\ TypePeripheriques
  BY DEF TypeEvenements
<1>0. ASSUME UNCHANGED <<branche, usb_devs, attached, refcnt, detruits>> PROVE TypePeripheriques'
  BY <1>0, <1>t
<1>1. ASSUME NEW a \in A, Attente(a) \/ Expire(a) \/ Finit(a) PROVE TypePeripheriques'
  <2>1. CASE Message(a)
    BY <1>t, <2>1 DEF Message, TypeMessage, Messages
  <2> QED BY <1>0, <1>1, <2>1, CadreAttente
<1>2. ASSUME NEW c \in C, Client(c) \/ libusb_close(c) PROVE TypePeripheriques'
  <2>1. CASE Cherche(c)
    BY <1>t, <2>1 DEF Cherche, libusb_get_device_list
  <2>2. CASE libusb_open(c)
    BY <1>t, <2>2 DEF libusb_open
  <2>3. CASE Echec(c)
    BY <1>t, <2>3 DEF Echec, TypeObjet
  <2>4. CASE SansListe(c)
    BY <1>t, <2>4 DEF SansListe, libusb_free_device_list, TypeListe
  <2>5. CASE Close(c)
    BY <1>t, <2>5 DEF Close, TypeObjet
  <2> QED BY <1>0, <1>2, <2>1, <2>2, <2>3, <2>4, <2>5, CadreClient
<1>3. ASSUME NEW f \in Fils, Commun(f) PROVE TypePeripheriques'
  <2>1. CASE Perdu(f)
    <3>1. CASE UNCHANGED peripheriques
      BY <1>0, <3>1 DEF peripheriques
    <3>2. CASE linux_device_disconnected(f, objet[f])
      <4>1. attached' = [attached EXCEPT ![objet[f]] = FALSE] /\ refcnt' = [refcnt EXCEPT ![objet[f]] = @ + 1]
        BY <3>2 DEF linux_device_disconnected, RefSession
      <4>4. objet[f] \in D
        BY <1>t, <3>2 DEF linux_device_disconnected
      <4>2. refcnt' \in [D -> Int]
        BY <1>t, <4>1, <4>4
      <4>3. attached' \in [D -> BOOLEAN]
        BY <1>t, <4>1, Zenon
      <4> QED BY <1>t, <3>2, <4>2, <4>3 DEF linux_device_disconnected
    <3> QED BY <2>1, <3>1, <3>2 DEF Perdu
  <2>2. CASE Rendre(f)
    <3>1. objet[f] \in D
      BY <1>t, <2>2, Sortes DEF Rendre, TypePc, TypeObjet, EtapesPerte, EtapesR
    <3> QED BY <1>t, <2>2, <3>1 DEF Rendre, FinDisconnected
  <2> QED BY <1>0, <1>3, <2>1, <2>2, CadreCommun
<1>4. ASSUME NEW r \in R, Inscription(r) PROVE TypePeripheriques'
  <2>1. CASE Enumere(r)
    BY <1>t, <2>1 DEF Enumere, libusb_get_device_list
  <2>2. CASE FinEnumere(r)
    BY <1>t, <2>2 DEF FinEnumere, libusb_free_device_list, TypeListe
  <2> QED BY <1>0, <1>4, <2>1, <2>2, CadreInscription
<1>5. CASE Surveillance \/ Prise
  <2>1. CASE \E d \in D : Arrivee(d)
    <3>1. PICK d \in D : linux_enumerate_device(Moniteur, d)
      BY <2>1 DEF Arrivee
    <3>2. \/ UNCHANGED <<attached, refcnt>>
          \/ attached' = [attached EXCEPT ![d] = TRUE] /\ refcnt' = [refcnt EXCEPT ![d] = 1]
      BY <3>1 DEF linux_enumerate_device
    <3>3. refcnt' \in [D -> Int]
      BY <1>t, <3>2
    <3>5. attached' \in [D -> BOOLEAN]
      BY <1>t, <3>2, Zenon
    <3>4. branche' = branche /\ usb_devs' \subseteq D /\ detruits' \subseteq D
      BY <1>t, <3>1 DEF linux_enumerate_device
    <3> QED BY <1>t, <3>3, <3>4, <3>5
  <2>2. CASE \E d \in D : Perte(d)
    BY <1>t, <2>2, <1>0 DEF Perte, peripheriques
  <2>3. CASE AnnonceArrivee
    BY <1>t, <1>0, <2>3 DEF AnnonceArrivee
  <2>4. CASE Prise
    BY <1>t, <2>4 DEF Prise, Branche, Debranche
  <2> QED BY <1>5, <2>1, <2>2, <2>3, <2>4 DEF Surveillance
<1> QED BY <1>1, <1>2, <1>3, <1>4, <1>5 DEF Next, Fil

(* Together: every step keeps the types. *)
LEMMA TypePas ==
    ASSUME TypeEvenements, [Next]_vars
    PROVE  TypeEvenements'
<1>1. CASE Next
  <2>1. TypePc /\ TypePendants /\ TypeFds /\ TypeObjet /\ TypeMessage /\ TypeListe /\ usb_devs \subseteq D
    BY DEF TypeEvenements, TypePeripheriques
  <2>2. TypePeripheriques'
    BY <1>1, TypePeripheriquesPas
  <2> QED BY <1>1, <2>1, <2>2, TypePcPas, TypePendantsPas, TypeFdsPas, TypeObjetPas, TypeMessagePas,
             TypeListePas DEF TypeEvenements
<1>2. CASE UNCHANGED vars
  BY <1>2 DEF vars, pendants, fds, verrous, rappels, locaux, peripheriques, TypeEvenements, TypePc,
     TypePendants, TypeFds, TypeObjet, TypeMessage, TypeListe, TypePeripheriques
<1> QED BY <1>1, <1>2

-----------------------------------------------------------------------------
(* events_lock is with the thread that is at a step that needs it: a step  *)
(* of a thread that does not have it moves nobody who has.                 *)
LEMMA VerrouPas ==
    ASSUME TypeEvenements, VerrouTenu, Next
    PROVE  VerrouTenu'
<1>t. TypePc /\ TypeFds /\ TypePc' /\ TypeFds'
  BY TypePas DEF TypeEvenements
<1> USE DEF Acteur
<1>0. PICK f \in Fils : Acteur(f)
  BY <1>t, Immobile
<1>b. pc \in [Fils -> Etapes] /\ f \in Fils
  BY <1>t DEF TypePc
<1>a. ASSUME NEW g \in Fils, g # f, g \in open_devs' <=> g \in open_devs
      PROVE  (TientUn(g)' => TientUn(g)) /\ (TientDeux(g)' => TientDeux(g))
  BY <1>0, <1>a, Sortes DEF TientUn, TientDeux, EtapesTenues, EtapesPerte
<1>o. \A g \in Fils : g # f => (g \in open_devs' <=> g \in open_devs)
  BY <1>0, CadreAttente, CadreClient, CadreCommun, CadreInscription, CadreSurveillance
     DEF Prepare, PollErr, op_open, usbi_add_pollfd, Inscrit, Desinscrit, op_close, Close
(* A step that leaves the lock alone, and after which its thread has it    *)
(* only if it had it before.                                               *)
<1>1. ASSUME UNCHANGED events_lock,
             TientUn(f)' => TientUn(f), TientDeux(f)' => TientDeux(f)
      PROVE  VerrouTenu'
  BY <1>1, <1>a, <1>o DEF VerrouTenu
(* A step that takes the lock when nobody has it, or changes how often its *)
(* owner has it.                                                           *)
<1>2. ASSUME events_lock.fois = 0 \/ TientUn(f) \/ TientDeux(f),
             TientUn(f)' => events_lock' = [fil |-> f, fois |-> 1],
             TientDeux(f)' => events_lock' = [fil |-> f, fois |-> 2]
      PROVE  VerrouTenu'
  <2>1. ASSUME NEW g \in Fils, g # f PROVE ~TientUn(g) /\ ~TientDeux(g)
    BY <1>2, <2>1 DEF VerrouTenu
  <2> QED BY <1>2, <1>a, <1>o, <2>1 DEF VerrouTenu
<1>3. CASE f \in A /\ (Attente(f) \/ Expire(f) \/ Finit(f))
  <2>0. ~TientDeux(f)'
    BY <1>3, Sortes DEF TientDeux
  <2>1. CASE Tente(f)
    <3>1. CASE events_lock.fois = 0
      BY <1>2, <2>0, <2>1, <3>1 DEF Tente
    <3>2. CASE events_lock.fois # 0
      BY <1>1, <1>3, <1>b, <2>0, <2>1, <3>2, Sortes DEF Tente, Va, TientUn, EtapesTenues, EtapesPerte
    <3> QED BY <3>1, <3>2
  <2>2. CASE ~Tente(f)
    <3>1. UNCHANGED events_lock
      BY <1>3, <2>2, CadreAttente
    <3>2. pc'[f] \notin EtapesTenues \/ pc[f] \in EtapesTenues
      BY <1>3, <1>b, <2>2 DEF Attente, Boucle, Essaie, Active, Verifie, Prepare, Poll, Repoll, Tube,
         Message, Reap, PollErr, FinBackend, Attend, Occupe, Reveil, Expire, Finit, Va, Suivant, EtapesTenues, EtapesPerte
    <3> QED BY <1>1, <1>3, <2>0, <3>1, <3>2, Sortes DEF TientUn
  <2> QED BY <2>1, <2>2
<1>4. CASE f \in C /\ (Client(f) \/ libusb_close(f))
  <2>0. f \notin A
    BY <1>4, Sortes
  <2>1. CASE do_close(f)
    <3>1. f \in open_devs /\ open_devs' = open_devs /\ pc'[f] = "libere"
      BY <1>4, <1>b, <1>t, <2>1 DEF do_close, TypeFds, Va, fds
    <3> QED BY <1>2, <2>0, <2>1, <3>1 DEF do_close, TientUn, TientDeux
  <2>2. CASE Desinscrit(f)
    BY <1>1, <1>4, <1>b, <1>t, <2>0, <2>2 DEF Desinscrit, Va, TientUn, TientDeux, TypeFds, verrous
  <2>3. CASE op_close(f) \/ Close(f) \/ FinClose(f)
    <3>1. open_devs' = open_devs /\ f \notin open_devs /\ UNCHANGED events_lock
      BY <1>4, <1>t, <2>3 DEF op_close, Close, FinClose, TypeFds, verrous, fds, EtapesLibere
    <3>2. TientUn(f)
      BY <1>4, <2>3, <3>1 DEF TientUn, op_close, Close, FinClose
    <3>3. ~TientDeux(f)'
      BY <3>1 DEF TientDeux
    <3> QED BY <1>1, <3>1, <3>2, <3>3
  <2>4. CASE ~do_close(f) /\ ~Desinscrit(f) /\ ~op_close(f) /\ ~Close(f) /\ ~FinClose(f)
    <3>1. UNCHANGED events_lock
      BY <1>4, <2>4, CadreClient
    <3>2. pc'[f] \notin {"libere", "rend", "diffuse", "desinscrit", "op_close", "close", "decompte"}
      BY <1>4, <1>b, <2>4 DEF Client, Cherche, libusb_open, op_open, usbi_add_pollfd, Inscrit, Echec,
         SansListe, libusb_close, Va
    <3> QED BY <1>1, <2>0, <3>1, <3>2 DEF TientUn, TientDeux
  <2> QED BY <2>1, <2>2, <2>3, <2>4
<1>5. CASE Commun(f)
  <2>0. open_devs' = open_devs
    BY <1>5, CadreCommun
  <2>k. f \in A \/ f \in C \/ (f \notin A /\ f \notin C)
    OBVIOUS
  <2>1. CASE Rend(f)
    <3>1. pc[f] = "rend" /\ pc'[f] = "diffuse" /\ events_lock' = [fil |-> IF events_lock.fois - 1 = 0 THEN Personne ELSE f, fois |-> events_lock.fois - 1]
      BY <1>b, <2>1 DEF Rend, Va, MoinsUn
    <3>2. CASE f \in A
      <4>1. TientUn(f) /\ ~TientUn(f)' /\ ~TientDeux(f)'
        BY <3>1, <3>2, Sortes DEF TientUn, TientDeux, EtapesTenues, EtapesPerte
      <4> QED BY <1>2, <4>1
    <3>3. CASE f \in C
      <4>1. CASE f \in open_devs
        <5>1. TientDeux(f) /\ ~TientDeux(f)'
          BY <3>1, <3>3, <4>1 DEF TientDeux
        <5>2. events_lock = [fil |-> f, fois |-> 2]
          BY <5>1 DEF VerrouTenu
        <5>3. events_lock' = [fil |-> f, fois |-> 1]
          BY <3>1, <5>2
        <5> QED BY <1>2, <5>1, <5>3
      <4>2. CASE f \notin open_devs
        <5>1. TientUn(f) /\ ~TientUn(f)' /\ ~TientDeux(f)'
          BY <2>0, <3>1, <3>3, <4>2, Sortes DEF TientUn, TientDeux
        <5> QED BY <1>2, <5>1
      <4> QED BY <4>1, <4>2
    <3>4. CASE f \notin A /\ f \notin C
      <4>1. ~TientUn(f)' /\ ~TientDeux(f)' /\ pc[f] \in EtapesR \cup EtapesM
        BY <1>t, <3>4, Sortes DEF TientUn, TientDeux, TypePc
      <4> QED BY <3>1, <4>1 DEF EtapesR, EtapesM, EtapesPerte
    <3> QED BY <3>2, <3>3, <3>4
  <2>2. CASE ~Rend(f)
    <3>1. UNCHANGED events_lock
      BY <1>5, <2>2, CadreCommun
    <3>2. CASE Diffuse(f)
      <4>1. /\ pc[f] = "diffuse" /\ f \in A \cup C
            /\ f \in A => pc'[f] = "boucle"
            /\ f \in C => pc'[f] = IF f \in open_devs THEN "desinscrit" ELSE "fin"
        BY <1>t, <3>2, PasDiffuse
      <4> QED BY <1>1, <2>0, <3>1, <4>1, Sortes DEF TientUn, TientDeux, EtapesTenues, EtapesPerte
    <3>3. CASE Libere(f)
      BY <1>1, <1>b, <2>0, <3>1, <3>3, Sortes DEF Libere, Va, TientUn, TientDeux, EtapesTenues, EtapesPerte
    <3>4. CASE Perdu(f) \/ AnnonceDepart(f) \/ Rendre(f)
      <4>1. pc[f] \in EtapesPerte /\ pc'[f] \in EtapesPerte
        BY <1>b, <3>4 DEF Perdu, AnnonceDepart, Rendre, Va, EtapesPerte
      <4> QED BY <1>1, <2>0, <3>1, <4>1, Sortes DEF TientUn, TientDeux, EtapesTenues, EtapesPerte
    <3>5. CASE Apres(f)
      <4>1. pc[f] = "apres" /\ (f \in A => pc'[f] = "backend") /\ (f \in C => pc'[f] = "echec")
        BY <1>b, <3>5, Sortes DEF Apres, Va
      <4> QED BY <1>1, <2>0, <3>1, <4>1, Sortes DEF TientUn, TientDeux, EtapesTenues, EtapesPerte
    <3> QED BY <1>5, <2>2, <3>2, <3>3, <3>4, <3>5 DEF Commun
  <2> QED BY <2>1, <2>2
<1>6. CASE f \in R /\ Inscription(f)
  BY <1>1, <1>6, CadreInscription, Sortes DEF TientUn, TientDeux
<1>7. CASE f = Moniteur /\ (Surveillance \/ Prise)
  BY <1>1, <1>7, CadreSurveillance, Sortes DEF TientUn, TientDeux
<1> QED BY <1>0, <1>3, <1>4, <1>5, <1>6, <1>7

-----------------------------------------------------------------------------
(* device_close counts the handles that are being closed. *)
LEMMA ComptePas ==
    ASSUME TypeEvenements, Compte, Next
    PROVE  Compte'
<1>t. TypePc /\ TypeFds /\ TypePc' /\ TypeFds'
  BY TypePas DEF TypeEvenements
<1> USE DEF Acteur
<1>0. PICK f \in Fils : Acteur(f)
  BY <1>t, Immobile
<1>b. pc \in [Fils -> Etapes] /\ f \in Fils
  BY <1>t DEF TypePc
<1>o. \A c \in C : c # f => (c \in open_devs' <=> c \in open_devs) /\ pc'[c] = pc[c]
  BY <1>0, Sortes, CadreAttente, CadreClient, CadreCommun, CadreInscription, CadreSurveillance
     DEF Prepare, PollErr, op_open, usbi_add_pollfd, Inscrit, Desinscrit, op_close, Close
<1>1. ASSUME device_close' = device_close, f \in C => (Ferme(f)' <=> Ferme(f))
      PROVE  Compte'
  <2>1. Fermants' = Fermants
    BY <1>1, <1>o DEF Fermants, Ferme
  <2> QED BY <1>1, <2>1 DEF Compte
<1>2. CASE f \notin C
  <2>1. device_close' = device_close
    BY <1>0, <1>2, CadreAttente, CadreCommun, CadreInscription, CadreSurveillance
       DEF Prepare, Tube, PollErr, usbi_pollfd, pendants, AnnonceDepart, AnnonceArrivee, usbi_hotplug_notification
  <2> QED BY <1>1, <1>2, <2>1
<1>3. CASE f \in C /\ libusb_close(f)
  <2>1. pc[f] = "utilise" /\ pc'[f] = "verrou" /\ device_close' = device_close + 1
    BY <1>b, <1>3 DEF libusb_close, Va
  <2>2. Fermants' = Fermants \cup {f} /\ f \notin Fermants
    BY <1>3, <1>o, <2>1 DEF Fermants, Ferme, EtapesLibere
  <2>3. IsFiniteSet(Fermants') /\ Cardinality(Fermants') = Cardinality(Fermants) + 1
    BY <2>2, FS_AddElement DEF Compte
  <2> QED BY <2>1, <2>3 DEF Compte
<1>4. CASE f \in C /\ FinClose(f)
  <2>1. pc[f] = "decompte" /\ pc'[f] = "libere" /\ device_close' = device_close - 1 /\ UNCHANGED open_devs
    BY <1>b, <1>4 DEF FinClose, Va, fds
  <2>2. f \notin open_devs
    BY <1>t, <2>1 DEF TypeFds, EtapesLibere
  <2>3. Fermants' = Fermants \ {f} /\ f \in Fermants
    BY <1>4, <1>o, <2>1, <2>2 DEF Fermants, Ferme, EtapesLibere
  <2>4. IsFiniteSet(Fermants') /\ Cardinality(Fermants') = Cardinality(Fermants) - 1
    BY <2>3, FS_RemoveElement DEF Compte
  <2> QED BY <2>1, <2>4 DEF Compte
<1>5. CASE f \in C /\ Client(f) /\ ~FinClose(f)
  <2>1. device_close' = device_close
    BY <1>5, CadreClient DEF usbi_add_pollfd, op_close, usbi_pollfd, pendants, libusb_close, Client, Va,
       do_close, Cherche, libusb_open, op_open, Inscrit, Echec, SansListe, Desinscrit, Close
  <2>2. Ferme(f)' <=> Ferme(f)
    <3> USE DEF Ferme, EtapesLibere, TypeFds, Va, fds
    <3>1. CASE Cherche(f) \/ libusb_open(f) \/ op_open(f) \/ usbi_add_pollfd(f) \/ Inscrit(f) \/ Echec(f) \/ SansListe(f)
      BY <1>b, <1>t, <1>5, <3>1 DEF Cherche, libusb_open, op_open, usbi_add_pollfd, Inscrit, Echec, SansListe
    <3>2. CASE do_close(f) \/ Desinscrit(f) \/ op_close(f) \/ Close(f)
      BY <1>b, <1>t, <1>5, <3>2 DEF do_close, Desinscrit, op_close, Close
    <3> QED BY <1>5, <3>1, <3>2 DEF Client
  <2> QED BY <1>1, <2>1, <2>2
<1>6. CASE f \in C /\ Commun(f)
  <2>1. device_close' = device_close /\ open_devs' = open_devs
    BY <1>6, CadreCommun DEF AnnonceDepart, usbi_hotplug_notification
  <2>2. Ferme(f)' <=> Ferme(f)
    <3>1. CASE Diffuse(f)
      <4>1. pc[f] = "diffuse" /\ pc'[f] = IF f \in open_devs THEN "desinscrit" ELSE "fin"
        BY <1>6, <1>t, <3>1, PasDiffuse
      <4> QED BY <2>1, <4>1 DEF Ferme, EtapesLibere
    <3>2. CASE ~Diffuse(f)
      BY <1>b, <1>t, <1>6, <2>1, <3>2, Sortes DEF Commun, Libere, Rend, Perdu, AnnonceDepart, Rendre, Apres, Va,
         Ferme, EtapesLibere
    <3> QED BY <3>1, <3>2
  <2> QED BY <1>1, <2>1, <2>2
<1> QED BY <1>0, <1>2, <1>3, <1>4, <1>5, <1>6, Sortes

(* A signal leaves one byte in the pipe; the last event that is handled    *)
(* takes it.                                                               *)
LEMMA Signal ==
    ASSUME TubeFidele, usbi_signal_event
    PROVE  tube' = 1
BY DEF TubeFidele, usbi_signal_event

LEMMA TubePas ==
    ASSUME TypeEvenements, Compte, TubeFidele, Next
    PROVE  TubeFidele'
<1>t. TypePendants /\ TypePc /\ TypeFds
  BY DEF TypeEvenements
<1>0. ASSUME UNCHANGED <<device_close, pollfds_modified, hotplug_msgs, tube>>
      PROVE  TubeFidele'
  BY <1>0 DEF TubeFidele, Pendant, usbi_pending_events
<1>1. ASSUME tube' = 1, pollfds_modified' \/ hotplug_msgs' # <<>> \/ device_close' > 0
      PROVE  TubeFidele'
  BY <1>1 DEF TubeFidele, Pendant, usbi_pending_events
<1>2. ASSUME NEW ens, usbi_pollfd(ens) PROVE TubeFidele'
  <2>1. CASE ens = ipollfds
    BY <1>0, <1>2, <2>1 DEF usbi_pollfd, pendants
  <2>2. CASE ens # ipollfds
    BY <1>1, <1>2, <2>2, Signal DEF usbi_pollfd
  <2> QED BY <2>1, <2>2
<1>3. ASSUME NEW e, NEW d, usbi_hotplug_notification(e, d), hotplug_msgs' # <<>> PROVE TubeFidele'
  BY <1>1, <1>3, Signal DEF usbi_hotplug_notification
<1>4. ASSUME NEW e \in {"ARRIVED", "LEFT"}, NEW d, usbi_hotplug_notification(e, d) PROVE TubeFidele'
  <2>1. hotplug_msgs' = Append(hotplug_msgs, [event |-> e, device |-> d])
    BY <1>4 DEF usbi_hotplug_notification
  <2>2. hotplug_msgs' # <<>>
    BY <1>t, <2>1 DEF TypePendants
  <2> QED BY <1>3, <1>4, <2>2
<1>5. ASSUME NEW a \in A, Attente(a) \/ Expire(a) \/ Finit(a) PROVE TubeFidele'
  <2>1. CASE Prepare(a)
    BY <1>0, <1>t, <2>1 DEF Prepare, usbi_clear_event, Reste, TubeFidele, Pendant, usbi_pending_events, TypePendants
  <2>2. CASE Tube(a)
    BY <1>t, <2>2 DEF Tube, usbi_clear_event, Reste, TubeFidele, Pendant, usbi_pending_events, TypePendants
  <2>3. CASE \E c \in C : PollErr(a, c)
    BY <1>0, <1>2, <2>3 DEF PollErr, pendants
  <2> QED BY <1>0, <1>5, <2>1, <2>2, <2>3, CadreAttente
<1>6. ASSUME NEW c \in C, Client(c) \/ libusb_close(c) PROVE TubeFidele'
  <2>1. CASE usbi_add_pollfd(c) \/ op_close(c)
    BY <1>2, <2>1 DEF usbi_add_pollfd, op_close
  <2>2. CASE FinClose(c)
    <3>1. c \in Fermants
      BY <2>2 DEF FinClose, Fermants, Ferme
    <3>2. device_close \in Nat /\ device_close # 0
      BY <3>1, FS_CardinalityType, FS_EmptySet DEF Compte
    <3> QED BY <2>2, <3>2 DEF FinClose, usbi_clear_event, Reste, TubeFidele, Pendant, usbi_pending_events
  <2>3. CASE libusb_close(c)
    <3>1. device_close \in Nat
      BY FS_CardinalityType DEF Compte
    <3> QED BY <1>1, <2>3, <3>1, Signal DEF libusb_close
  <2> QED BY <1>0, <1>6, <2>1, <2>2, <2>3, CadreClient
<1>7. ASSUME NEW f \in Fils, Commun(f) PROVE TubeFidele'
  BY <1>0, <1>4, <1>7, CadreCommun DEF AnnonceDepart
<1>8. ASSUME NEW r \in R, Inscription(r) PROVE TubeFidele'
  BY <1>0, <1>8, CadreInscription
<1>9. CASE Surveillance \/ Prise
  BY <1>0, <1>4, <1>9, CadreSurveillance DEF AnnonceArrivee
<1> QED BY <1>5, <1>6, <1>7, <1>8, <1>9 DEF Next, Fil

(* The copy that is polled is of open handles as long as a thread polls:   *)
(* only Close closes one, and the thread that closes has events_lock.      *)
LEMMA CopiePas ==
    ASSUME TypeEvenements, VerrouTenu, CopieFidele, Next
    PROVE  CopieFidele'
<1>t. TypePc /\ TypeFds /\ TypePendants /\ TypePc' /\ TypeFds'
  BY TypePas DEF TypeEvenements
<1> USE DEF Acteur
<1>0. PICK f \in Fils : Acteur(f)
  BY <1>t, Immobile
<1>b. pc \in [Fils -> Etapes] /\ f \in Fils
  BY <1>t DEF TypePc
<1> DEFINE Sonde(a) == pc[a] \in {"poll", "tube", "message", "backend", "repoll"} \cup EtapesPerte
<1>a. \A a \in A : a # f /\ Sonde(a)' => Sonde(a)
  BY <1>0, Sortes DEF EtapesPerte
<1>c. \A c \in C : c # f => pc'[c] = pc[c]
  BY <1>0, Sortes
<1>1. ASSUME UNCHANGED <<pollfds_modified, ipollfds, pollfds, ouverts>>,
             f \in A /\ Sonde(f)' => Sonde(f),
             f \in C => pc'[f] # "close"
      PROVE  CopieFidele'
  BY <1>1, <1>a, <1>c DEF CopieFidele
<1>2. ASSUME pollfds_modified', UNCHANGED <<pollfds, ouverts>>, ipollfds' \subseteq ouverts,
             \A c \in C : pc'[c] = "close" => c \notin ipollfds',
             f \in A /\ Sonde(f)' => Sonde(f)
      PROVE  CopieFidele'
  BY <1>2, <1>a DEF CopieFidele
<1>m. UNCHANGED pendants => pollfds_modified' = pollfds_modified
  BY DEF pendants
<1>3. CASE f \in A /\ (Attente(f) \/ Expire(f) \/ Finit(f))
  <2>1. CASE Prepare(f)
    <3>1. /\ pollfds' = ipollfds /\ UNCHANGED <<ipollfds, ouverts>>
      BY <2>1 DEF Prepare, CopieFidele
    <3> QED BY <1>3, <1>c, <3>1, Sortes DEF CopieFidele
  <2>2. CASE \E c \in C : PollErr(f, c)
    <3>1. PICK c \in C : PollErr(f, c)
      BY <2>2
    <3>2. Sonde(f) /\ UNCHANGED <<pollfds, ouverts>> /\ \A g \in C : pc'[g] = pc[g]
      BY <1>3, <1>c, <3>1, Sortes DEF PollErr, usbi_pollfd
    <3>3. \/ pollfds_modified' /\ ipollfds' = ipollfds \ {c}
          \/ pollfds_modified' = pollfds_modified /\ ipollfds' = ipollfds
      BY <3>1, <1>m DEF PollErr, usbi_pollfd
    <3> HIDE DEF Sonde
    <3> QED BY <1>1, <1>2, <1>3, <3>2, <3>3, Sortes DEF CopieFidele
  <2>3. CASE ~Prepare(f) /\ ~\E c \in C : PollErr(f, c)
    <3>1. UNCHANGED <<ipollfds, pollfds, ouverts>>
      BY <1>3, <2>3, CadreAttente
    <3>2. UNCHANGED pollfds_modified
      BY <1>3, <2>3, CadreAttente DEF Tube
    <3>3. Sonde(f)' => Sonde(f)
      BY <1>3, <1>b, <2>3 DEF Attente, Boucle, Essaie, Tente, Active, Verifie, Poll, Repoll, Tube,
         Message, Reap, FinBackend, Attend, Occupe, Reveil, Expire, Finit, Va, Suivant, EtapesPerte
    <3> QED BY <1>1, <1>3, <3>1, <3>2, <3>3, Sortes
  <2> QED BY <2>1, <2>2, <2>3
<1>4. CASE f \in C /\ (Client(f) \/ libusb_close(f))
  <2>0. f \notin A
    BY <1>4, Sortes
  <2>1. CASE usbi_add_pollfd(f) \/ op_close(f)
    <3>1. PICK ens : /\ usbi_pollfd(ens)
                     /\ \/ ens = ipollfds \cup {f} /\ pc[f] = "ajoute" /\ pc'[f] = "inscrit"
                        \/ ens = ipollfds \ {f} /\ pc'[f] = "close"
      BY <1>b, <2>1 DEF usbi_add_pollfd, op_close, Va
    <3>2. ipollfds' = ens /\ ens \subseteq ouverts /\ UNCHANGED <<pollfds, ouverts>>
      BY <1>t, <1>4, <3>1 DEF usbi_pollfd, CopieFidele, TypeFds
    <3>3. \A c \in C : pc'[c] = "close" => c \notin ens
      BY <1>c, <3>1 DEF CopieFidele
    <3>4. CASE ens = ipollfds
      <4>1. pollfds_modified' = pollfds_modified
        BY <1>m, <3>1, <3>4 DEF usbi_pollfd
      <4> QED BY <1>a, <2>0, <3>2, <3>3, <3>4, <4>1 DEF CopieFidele
    <3>5. CASE ens # ipollfds
      <4>1. pollfds_modified'
        BY <3>1, <3>5 DEF usbi_pollfd
      <4> QED BY <1>2, <2>0, <3>2, <3>3, <4>1
    <3> QED BY <3>4, <3>5
  <2>2. CASE op_open(f)
    <3>1. UNCHANGED <<pollfds_modified, ipollfds, pollfds>> /\ ouverts \subseteq ouverts' /\ pc'[f] # "close"
      BY <1>b, <2>2 DEF op_open, Va, pendants
    <3> QED BY <1>a, <1>c, <2>0, <3>1 DEF CopieFidele
  <2>3. CASE Close(f)
    <3>1. /\ pc[f] = "close" /\ pc'[f] = "decompte" /\ ouverts' = ouverts \ {f}
          /\ UNCHANGED <<pollfds_modified, ipollfds, pollfds>>
      BY <1>b, <2>3 DEF Close, Va, pendants
    <3>2. TientUn(f)
      BY <1>4, <1>t, <3>1 DEF TientUn, TypeFds, EtapesLibere
    <3>3. ASSUME NEW a \in A, Sonde(a)' PROVE FALSE
      <4>1. a # f /\ Sonde(a)
        BY <1>a, <2>0, <3>3
      <4>2. TientUn(a)
        BY <4>1 DEF TientUn, EtapesTenues, EtapesPerte
      <4> QED BY <3>2, <4>1, <4>2, Sortes DEF VerrouTenu
    <3> QED BY <1>4, <1>c, <3>1, <3>3 DEF CopieFidele
  <2>4. CASE ~usbi_add_pollfd(f) /\ ~op_close(f) /\ ~op_open(f) /\ ~Close(f)
    <3>1. UNCHANGED <<ipollfds, pollfds, ouverts>>
      BY <1>4, <2>4, CadreClient DEF Inscrit, Desinscrit
    <3>2. UNCHANGED pollfds_modified
      BY <1>4, <2>4, CadreClient DEF FinClose, libusb_close
    <3>3. pc'[f] # "close"
      BY <1>b, <1>4, <2>4 DEF Client, Cherche, libusb_open, Inscrit, Echec, SansListe, do_close, Desinscrit,
         FinClose, libusb_close, Va
    <3> HIDE DEF Sonde
    <3> QED BY <1>1, <2>0, <3>1, <3>2, <3>3
  <2> QED BY <2>1, <2>2, <2>3, <2>4
<1>5. CASE Commun(f)
  <2>1. UNCHANGED <<ipollfds, pollfds, ouverts, pollfds_modified>>
    BY <1>5, CadreCommun DEF AnnonceDepart, usbi_hotplug_notification
  <2>2. pc'[f] # "close" /\ (f \in A /\ Sonde(f)' => Sonde(f))
    <3>1. CASE Diffuse(f)
      <4>1. pc'[f] \in {"boucle", "desinscrit", "fin"}
        BY <1>5, <1>t, <3>1, PasDiffuse
      <4> QED BY <4>1 DEF EtapesPerte
    <3>2. CASE ~Diffuse(f)
      BY <1>b, <1>5, <3>2, Sortes DEF Commun, Libere, Rend, Perdu, AnnonceDepart, Rendre, Apres, Va, EtapesPerte
    <3> QED BY <3>1, <3>2
  <2> HIDE DEF Sonde
  <2> QED BY <1>1, <2>1, <2>2
<1>6. CASE f \in R /\ Inscription(f)
  <2> HIDE DEF Sonde
  <2> QED BY <1>1, <1>6, CadreInscription, Sortes
<1>7. CASE f = Moniteur /\ (Surveillance \/ Prise)
  <2>1. UNCHANGED <<ipollfds, pollfds, ouverts, pollfds_modified>>
    BY <1>7, CadreSurveillance DEF AnnonceArrivee, usbi_hotplug_notification
  <2> HIDE DEF Sonde
  <2> QED BY <1>1, <1>7, <2>1, Sortes
<1> HIDE DEF Sonde
<1> QED BY <1>0, <1>3, <1>4, <1>5, <1>6, <1>7

-----------------------------------------------------------------------------
(* A device that somebody holds has a count, and has not been freed. *)
LEMMA Compte0 ==
    ASSUME NEW d \in D, Juste(d), \E k \in Genres, f \in Fils : Porte(k, f, d)
    PROVE  refcnt[d] \in Nat /\ refcnt[d] > 0 /\ d \notin detruits
<1>1. PICK k \in Genres, f \in Fils : Porte(k, f, d)
  OBVIOUS
<1>2. <<k, f>> \in Porteurs(d)
  BY <1>1 DEF Porteurs
<1> QED BY <1>2, FS_CardinalityType, FS_EmptySet DEF Juste

LEMMA CompteContexte ==
    ASSUME NEW d \in D, Juste(d), Retenu(d)
    PROVE  refcnt[d] \in Nat /\ refcnt[d] > 0 /\ d \notin detruits
<1>1. Porte("contexte", Moniteur, d) /\ "contexte" \in Genres
  BY DEF Porte, Genres
<1> QED BY <1>1, Compte0, Sortes

(* linux_hotplug_lock. *)
LEMMA HotplugPas ==
    ASSUME TypeEvenements, HotplugTenu, References, Next
    PROVE  HotplugTenu'
<1>t. TypePc /\ TypeObjet /\ TypePc'
  BY TypePas DEF TypeEvenements
<1> USE DEF Acteur
<1>0. PICK f \in Fils : Acteur(f)
  BY <1>t, Immobile
<1>b. pc \in [Fils -> Etapes] /\ f \in Fils
  BY <1>t DEF TypePc
<1>1. ASSUME linux_hotplug_lock' = linux_hotplug_lock, usb_devs \subseteq usb_devs',
             pc'[f] \in {"depart", "rendre"} => pc[f] \in {"depart", "rendre"},
             f # Moniteur => objet'[Moniteur] = objet[Moniteur],
             f = Moniteur => pc'[f] # "arrive" \/ (pc'[f] = pc[f] /\ objet' = objet)
      PROVE  HotplugTenu'
  BY <1>0, <1>1, Sortes DEF HotplugTenu
<1>2. CASE f \in A /\ (Attente(f) \/ Expire(f) \/ Finit(f))
  <2>1. linux_hotplug_lock' = linux_hotplug_lock /\ usb_devs \subseteq usb_devs'
    BY <1>2, CadreAttente DEF Message
  <2>2. pc'[f] \notin {"depart", "rendre"} \/ pc'[f] = pc[f]
    BY <1>2, <1>b DEF Attente, Boucle, Essaie, Tente, Active, Verifie, Prepare, Poll, Repoll, Tube,
       Message, Reap, PollErr, FinBackend, Attend, Occupe, Reveil, Expire, Finit, Va, Suivant
  <2>3. objet'[Moniteur] = objet[Moniteur]
    <3>1. f \in Fils /\ Moniteur \in Fils /\ f # Moniteur
      BY <1>2, Sortes
    <3>2. objet' = objet \/ \E x : objet' = [objet EXCEPT ![f] = x]
      BY <1>2, CadreAttente DEF PollErr
    <3>3. objet \in [Fils -> D \cup {Personne}]
      BY <1>t DEF TypeObjet
    <3> QED BY <3>1, <3>2, <3>3
  <2> QED BY <1>1, <1>2, <2>1, <2>2, <2>3, Sortes
<1>3. CASE f \in C /\ (Client(f) \/ libusb_close(f))
  <2>1. linux_hotplug_lock' = linux_hotplug_lock /\ usb_devs \subseteq usb_devs'
    BY <1>3, CadreClient DEF Cherche, libusb_open, Echec, SansListe, Close, libusb_get_device_list, libusb_free_device_list
  <2>2. pc'[f] \notin {"depart", "rendre"}
    BY <1>3, <1>b DEF Client, Cherche, libusb_open, op_open, usbi_add_pollfd, Inscrit, Echec, SansListe, do_close,
       Desinscrit, op_close, Close, FinClose, libusb_close, Va
  <2>3. objet'[Moniteur] = objet[Moniteur]
    <3>1. CASE Cherche(f)
      BY <1>3, <1>t, <3>1, Sortes DEF Cherche, TypeObjet
    <3> QED BY <1>3, <3>1, CadreClient
  <2> QED BY <1>1, <1>3, <2>1, <2>2, <2>3, Sortes
<1>4. CASE Commun(f)
  <2>0. UNCHANGED objet
    BY <1>4, CadreCommun
  <2>k. f = Moniteur => pc'[f] # "arrive"
    <3>1. CASE f = Moniteur
      <4>1. ~Diffuse(f)
        BY <1>t, <3>1, PasDiffuse, Sortes
      <4> QED BY <1>4, <1>b, <3>1, <4>1, Sortes DEF Commun, Libere, Rend, Perdu, AnnonceDepart, Rendre, Apres, Va
    <3> QED BY <3>1
  <2>1. CASE Perdu(f)
    <3>1. CASE objet[f] \in usb_devs
      <4>1. /\ linux_hotplug_lock = Personne /\ linux_hotplug_lock' = f /\ pc'[f] = "depart"
        BY <1>b, <2>1, <3>1 DEF Perdu, linux_device_disconnected, Va
      <4>2. \A g \in Fils : pc[g] \notin {"depart", "rendre"}
        BY <4>1, Sortes DEF HotplugTenu
      <4>3. pc[Moniteur] # "arrive"
        BY <4>1, Sortes DEF HotplugTenu
      <4> QED BY <1>0, <2>k, <4>1, <4>2, <4>3, Sortes DEF HotplugTenu
    <3>2. CASE objet[f] \notin usb_devs
      <4>1. pc'[f] = "apres" /\ UNCHANGED peripheriques
        BY <1>b, <2>1, <3>2 DEF Perdu, Va
      <4> QED BY <1>1, <2>0, <2>k, <4>1 DEF peripheriques
    <3> QED BY <3>1, <3>2
  <2>2. CASE Rendre(f)
    <3>1. pc[f] = "rendre" /\ pc'[f] = "apres" /\ UNCHANGED usb_devs /\ linux_hotplug_lock = f
      BY <1>b, <2>2 DEF Rendre, FinDisconnected, Va, HotplugTenu
    <3>2. \A g \in Fils : g # f => pc[g] \notin {"depart", "rendre"} /\ (pc[Moniteur] # "arrive" \/ f = Moniteur)
      BY <3>1, Sortes DEF HotplugTenu
    <3> QED BY <1>0, <2>0, <2>k, <3>1, <3>2, Sortes DEF HotplugTenu
  <2>3. CASE ~Perdu(f) /\ ~Rendre(f)
    <3>1. linux_hotplug_lock' = linux_hotplug_lock /\ usb_devs' = usb_devs
      BY <1>4, <2>3, CadreCommun
    <3>2. pc'[f] \in {"depart", "rendre"} => pc[f] \in {"depart", "rendre"}
      <4>1. CASE Diffuse(f)
        BY <1>t, <1>4, <4>1, PasDiffuse
      <4>2. CASE ~Diffuse(f)
        BY <1>4, <1>b, <2>3, <4>2 DEF Commun, Libere, Rend, AnnonceDepart, Apres, Va
      <4> QED BY <4>1, <4>2
    <3> QED BY <1>1, <2>0, <2>k, <3>1, <3>2
  <2> QED BY <2>1, <2>2, <2>3
<1>5. CASE f \in R /\ Inscription(f)
  <2>1. pc'[f] \in EtapesR
    BY <1>t, <1>5, PasInscription
  <2> QED BY <1>1, <1>5, <2>1, CadreInscription, Sortes
      DEF EtapesR, Enumere, FinEnumere, libusb_get_device_list, libusb_free_device_list
<1>6. CASE f = Moniteur /\ (Surveillance \/ Prise)
  <2>1. CASE \E d \in D : Arrivee(d)
    <3>1. PICK d \in D : Arrivee(d)
      BY <2>1
    <3>2. linux_hotplug_lock = Personne /\ objet'[Moniteur] = d
          /\ pc'[Moniteur] = IF d \in usb_devs' THEN "arrive" ELSE "surveille"
      BY <1>b, <1>6, <1>t, <3>1 DEF Arrivee, linux_enumerate_device, Va, TypeObjet
    <3>3. \A g \in Fils : pc[g] \notin {"depart", "rendre"}
      BY <3>2, Sortes DEF HotplugTenu
    <3>4. CASE d \in usb_devs'
      <4>1. linux_hotplug_lock' = Moniteur \/ d \in usb_devs
        BY <3>1, <3>4 DEF Arrivee, linux_enumerate_device
      <4>2. d \notin usb_devs
        BY <3>1, CompteContexte DEF Arrivee, References, Retenu
      <4> QED BY <1>0, <1>6, <3>2, <3>3, <3>4, <4>1, <4>2, Sortes DEF HotplugTenu
    <3>5. CASE d \notin usb_devs'
      BY <1>0, <1>6, <3>2, <3>3, <3>5, Sortes DEF HotplugTenu
    <3> QED BY <3>4, <3>5
  <2>2. CASE \E d \in D : Perte(d)
    <3>1. UNCHANGED <<linux_hotplug_lock, usb_devs>> /\ pc'[Moniteur] = "perdu"
      BY <1>b, <1>6, <2>2 DEF Perte, Va, peripheriques
    <3> QED BY <1>1, <1>6, <3>1
  <2>3. CASE AnnonceArrivee
    <3>1. pc[Moniteur] = "arrive" /\ pc'[Moniteur] = "surveille" /\ linux_hotplug_lock = Moniteur
      BY <1>b, <1>6, <2>3 DEF AnnonceArrivee, Va, HotplugTenu
    <3>2. \A g \in Fils : g # Moniteur => pc[g] \notin {"depart", "rendre"}
      BY <3>1 DEF HotplugTenu
    <3> QED BY <1>0, <1>6, <3>1, <3>2, Sortes DEF HotplugTenu
  <2>4. CASE Prise
    BY <1>1, <1>6, <2>4 DEF Prise, Branche, Debranche, locaux
  <2> QED BY <1>6, <2>1, <2>2, <2>3, <2>4 DEF Surveillance
<1> QED BY <1>0, <1>2, <1>3, <1>4, <1>5, <1>6

-----------------------------------------------------------------------------
(* Most steps leave the news of the devices where they are. *)
Stables ==
    /\ UNCHANGED <<usb_devs, hotplug_msgs>>
    /\ \A f \in Fils, d \in D : Annoncant(f, d)' <=> Annoncant(f, d)
    /\ \A a \in A, m \in Messages : EnMain(a, m)' <=> EnMain(a, m)

LEMMA QuiAnnonce ==
    ASSUME TypeEvenements, NEW f \in Fils, Acteur(f)
    PROVE  \/ Stables
           \/ f \in A /\ (Tube(f) \/ Message(f))
           \/ (Perdu(f) /\ objet[f] \in usb_devs) \/ AnnonceDepart(f)
           \/ f = Moniteur /\ ((\E d \in D : Arrivee(d)) \/ AnnonceArrivee)
<1>t. TypePc /\ TypeObjet /\ TypeMessage
  BY DEF TypeEvenements
<1> USE DEF Acteur
<1>0. Acteur(f)
  OBVIOUS
<1>b. /\ pc \in [Fils -> Etapes] /\ f \in Fils
      /\ objet \in [Fils -> D \cup {Personne}] /\ message \in [A -> Messages \cup {Aucun}]
  BY <1>t DEF TypePc, TypeObjet, TypeMessage
<1>1. ASSUME UNCHANGED <<usb_devs, hotplug_msgs>>,
             \A g \in Fils : g # f => objet'[g] = objet[g],
             \A a \in A : a # f => message'[a] = message[a],
             (pc[f] = "depart") = (pc'[f] = "depart"), pc[f] = "depart" => objet' = objet,
             f \in A => (pc[f] = "message") = (pc'[f] = "message"), pc[f] = "message" => message' = message
      PROVE  Stables
  BY <1>0, <1>1, Sortes DEF Stables, Annoncant, EnMain
<1>2. CASE f \in A /\ (Attente(f) \/ Expire(f) \/ Finit(f)) /\ ~Tube(f) /\ ~Message(f)
  <2>1. UNCHANGED <<usb_devs, hotplug_msgs>>
    BY <1>2, CadreAttente DEF Prepare, PollErr, usbi_pollfd, pendants
  <2>2. /\ \A g \in Fils : g # f => objet'[g] = objet[g]
        /\ \A a \in A : a # f => message'[a] = message[a]
    BY <1>2, <1>b, CadreAttente DEF PollErr, Repoll
  <2>3. \/ UNCHANGED pc /\ UNCHANGED <<objet, message>>
        \/ pc[f] \notin {"depart", "message"} /\ pc'[f] \notin {"depart", "message"}
    BY <1>2, <1>b DEF Attente, Boucle, Essaie, Tente, Active, Verifie, Prepare, Poll, Repoll, locaux,
         Reap, PollErr, FinBackend, Attend, Occupe, Reveil, Expire, Finit, Va, Suivant
  <2> QED BY <1>1, <2>1, <2>2, <2>3
<1>3. CASE f \in C /\ (Client(f) \/ libusb_close(f))
  <2>1. UNCHANGED <<usb_devs, hotplug_msgs>>
    BY <1>3, CadreClient DEF Cherche, libusb_open, Echec, SansListe, Close, libusb_get_device_list,
       libusb_free_device_list, usbi_add_pollfd, op_close, FinClose, libusb_close, usbi_pollfd, pendants
  <2>2. (\A g \in Fils : g # f => objet'[g] = objet[g]) /\ message' = message
    BY <1>3, <1>b, CadreClient DEF Cherche
  <2>3. pc[f] \notin {"depart", "message"} /\ pc'[f] \notin {"depart", "message"}
    BY <1>3, <1>b DEF Client, Cherche, libusb_open, op_open, usbi_add_pollfd, Inscrit, Echec, SansListe, do_close,
       Desinscrit, op_close, Close, FinClose, libusb_close, Va
  <2> QED BY <1>1, <2>1, <2>2, <2>3
<1>4. CASE Commun(f) /\ ~(Perdu(f) /\ objet[f] \in usb_devs) /\ ~AnnonceDepart(f)
  <2>1. UNCHANGED <<usb_devs, hotplug_msgs, objet, message>>
    BY <1>4, CadreCommun DEF Perdu, Rendre, FinDisconnected, peripheriques
  <2>2. pc[f] \notin {"depart", "message"} /\ pc'[f] \notin {"depart", "message"}
    <3>1. CASE Diffuse(f)
      BY <1>t, <1>4, <3>1, PasDiffuse
    <3>2. CASE ~Diffuse(f)
      BY <1>4, <1>b, <3>2 DEF Commun, Libere, Rend, Perdu, Rendre, Apres, Va
    <3> QED BY <3>1, <3>2
  <2> QED BY <1>1, <2>1, <2>2
<1>5. CASE f \in R /\ Inscription(f)
  <2>1. UNCHANGED <<usb_devs, hotplug_msgs, objet, message>>
    BY <1>5, CadreInscription DEF Enumere, FinEnumere, libusb_get_device_list, libusb_free_device_list
  <2>2. pc[f] \in EtapesR /\ pc'[f] \in EtapesR
    BY <1>t, <1>5, PasInscription DEF TypePc
  <2> QED BY <1>1, <1>5, <2>1, <2>2, Sortes DEF EtapesR
<1>6. CASE f = Moniteur /\ (Surveillance \/ Prise) /\ (~\E d \in D : Arrivee(d)) /\ ~AnnonceArrivee
  <2>1. UNCHANGED <<usb_devs, hotplug_msgs, message>>
    BY <1>6, CadreSurveillance
  <2>2. \/ pc[f] = "surveille" /\ pc'[f] = "perdu"
        \/ UNCHANGED <<pc, objet>>
    BY <1>6, <1>b DEF Surveillance, Perte, Prise, Va, locaux
  <2>3. \A g \in Fils : g # f => objet'[g] = objet[g]
    BY <1>6, <1>b DEF Surveillance, Perte, Prise, locaux
  <2> QED BY <1>1, <1>6, <2>1, <2>2, <2>3, Sortes
<1> QED BY <1>0, <1>2, <1>3, <1>4, <1>5, <1>6 DEF Surveillance

(* The messages are about devices. *)
LEMMA Avis == ASSUME NEW d \in D PROVE Arrive(d) \in Messages /\ Parti(d) \in Messages /\ Arrive(d) # Parti(d)
BY DEF Arrive, Parti, Messages

LEMMA NouvellesStables ==
    ASSUME MessagesJustes, Stables
    PROVE  MessagesJustes' /\ \A d \in D : Retenu(d)' <=> Retenu(d)
<1>1. \A m : DansFile(m)' <=> DansFile(m)
  BY DEF Stables, DansFile
<1>2. \A d \in D : /\ (\E f \in Fils : Annoncant(f, d))' <=> \E f \in Fils : Annoncant(f, d)
                   /\ \A a \in A : EnMain(a, Parti(d))' <=> EnMain(a, Parti(d))
                   /\ \A a \in A : EnMain(a, Arrive(d))' <=> EnMain(a, Arrive(d))
  BY Avis DEF Stables
<1>3. UnDepart'
  BY <1>1, <1>2 DEF MessagesJustes, UnDepart, Stables
<1>4. ArriveAvant'
  BY <1>1, <1>2 DEF MessagesJustes, ArriveAvant, Stables
<1> QED BY <1>1, <1>2, <1>3, <1>4 DEF MessagesJustes, Retenu, Stables

(* Of two threads that wait, one at most handles events. *)
LEMMA UnSeul ==
    ASSUME VerrouTenu, NEW a \in A, NEW b \in A,
           pc[a] \in EtapesTenues, pc[b] \in EtapesTenues
    PROVE  a = b
<1>1. TientUn(a) /\ TientUn(b)
  BY DEF TientUn
<1> QED BY <1>1, Sortes DEF VerrouTenu

(* A message is taken from the list. *)
LEMMA NouvellesTube ==
    ASSUME TypeEvenements, VerrouTenu, MessagesJustes, NEW a \in A, Tube(a)
    PROVE  MessagesJustes' /\ \A d \in D : Retenu(d)' <=> Retenu(d)
<1>b. /\ pc \in [Fils -> Etapes] /\ a \in Fils /\ message \in [A -> Messages \cup {Aucun}]
      /\ hotplug_msgs \in Seq(Messages)
  BY Sortes DEF TypeEvenements, TypePc, TypeMessage, TypePendants
<1>1. /\ pc[a] = "tube" /\ UNCHANGED <<usb_devs, objet>>
      /\ \A g \in Fils : g # a => pc'[g] = pc[g]
      /\ \A b \in A : b # a => message'[b] = message[b]
      /\ pc'[a] # "depart"
  BY <1>b DEF Tube, Va, peripheriques
<1>2. \A b \in A : pc[b] # "message"
  BY <1>1, UnSeul DEF EtapesTenues
<1>3. \A f \in Fils, d \in D : Annoncant(f, d)' <=> Annoncant(f, d)
  BY <1>1 DEF Annoncant
<1>4. CASE hotplug_msgs = <<>>
  <2>1. hotplug_msgs' = hotplug_msgs /\ pc'[a] # "message"
    BY <1>b, <1>4 DEF Tube, Va
  <2>2. Stables
    BY <1>1, <1>2, <1>3, <2>1, Sortes DEF Stables, EnMain
  <2> QED BY <2>2, NouvellesStables
<1>5. CASE hotplug_msgs # <<>>
  <2>1. /\ hotplug_msgs' = Tail(hotplug_msgs)
        /\ pc'[a] = "message" /\ message'[a] = Head(hotplug_msgs)
    BY <1>b, <1>5 DEF Tube, Va
  <2> DEFINE n == Len(hotplug_msgs)
  <2>2. /\ n \in Nat /\ n >= 1 /\ DOMAIN hotplug_msgs = 1..n /\ Head(hotplug_msgs) = hotplug_msgs[1]
        /\ DOMAIN hotplug_msgs' = 1..(n - 1)
        /\ \A i \in 1..(n - 1) : hotplug_msgs'[i] = hotplug_msgs[i + 1]
    BY <1>b, <1>5, <2>1
  <2> HIDE DEF n
  <2>3. ASSUME NEW m, NEW b \in A PROVE EnMain(b, m)' <=> b = a /\ hotplug_msgs[1] = m
    BY <1>1, <1>2, <2>1, <2>2, Sortes DEF EnMain
  <2>4. ASSUME NEW m PROVE DansFile(m)' <=> \E i \in 2..n : hotplug_msgs[i] = m
    <3>1. \A i \in 2..n : i - 1 \in 1..(n - 1) /\ hotplug_msgs'[i - 1] = hotplug_msgs[i]
      BY <2>2
    <3>2. \A i \in 1..(n - 1) : i + 1 \in 2..n /\ hotplug_msgs'[i] = hotplug_msgs[i + 1]
      BY <2>2
    <3> QED BY ZenonT(60), <2>2, <3>1, <3>2 DEF DansFile
  <2>5. ASSUME NEW m PROVE DansFile(m) <=> hotplug_msgs[1] = m \/ \E i \in 2..n : hotplug_msgs[i] = m
    BY <2>2 DEF DansFile
  <2>6. ASSUME NEW d \in D
        PROVE  Retenu(d)' <=> Retenu(d)
    BY <1>1, <1>2, <1>3, <2>3, <2>4, <2>5 DEF Retenu, EnMain
  <2>7. UnDepart'
    <3>1. ASSUME NEW d \in D, \E i \in 2..n : hotplug_msgs[i] = Parti(d) PROVE hotplug_msgs[1] # Parti(d)
      BY <2>2, <3>1 DEF MessagesJustes, UnDepart
    <3>2. ASSUME NEW d \in D, NEW i \in DOMAIN hotplug_msgs', NEW j \in DOMAIN hotplug_msgs',
                 hotplug_msgs'[i] = Parti(d), hotplug_msgs'[j] = Parti(d)
          PROVE  i = j
      <4>1. /\ i + 1 \in DOMAIN hotplug_msgs /\ hotplug_msgs[i + 1] = Parti(d)
            /\ j + 1 \in DOMAIN hotplug_msgs /\ hotplug_msgs[j + 1] = Parti(d)
        BY <2>2, <3>2
      <4>2. i + 1 = j + 1
        BY <4>1 DEF MessagesJustes, UnDepart
      <4> QED BY <2>2, <4>2
    <3>3. ASSUME NEW d \in D, d \in usb_devs \/ \E f \in Fils : Annoncant(f, d)
          PROVE  ~DansFile(Parti(d))' /\ \A b \in A : ~EnMain(b, Parti(d))'
      BY <2>3, <2>4, <2>5, <3>3 DEF MessagesJustes, UnDepart
    <3>4. ASSUME NEW d \in D, d \in usb_devs PROVE \A f \in Fils : ~Annoncant(f, d)
      BY <3>4 DEF MessagesJustes, UnDepart
    <3>5. ASSUME NEW d \in D, DansFile(Parti(d))' PROVE \A b \in A : ~EnMain(b, Parti(d))'
      BY <2>3, <2>4, <3>1, <3>5
    <3> QED BY <1>1, <1>3, <3>2, <3>3, <3>4, <3>5 DEF UnDepart
  <2>8. ArriveAvant'
    <3>1. ASSUME NEW d \in D, NEW i \in DOMAIN hotplug_msgs', hotplug_msgs'[i] = Arrive(d)
          PROVE  \/ d \in usb_devs \/ \E f \in Fils : Annoncant(f, d)
                 \/ \E j \in DOMAIN hotplug_msgs' : j > i /\ hotplug_msgs'[j] = Parti(d)
      <4>1. i \in 1..(n - 1) /\ i + 1 \in DOMAIN hotplug_msgs /\ hotplug_msgs[i + 1] = Arrive(d)
        BY <2>2, <3>1
      <4>2. CASE \E j \in DOMAIN hotplug_msgs : j > i + 1 /\ hotplug_msgs[j] = Parti(d)
        <5>1. PICK j \in 1..n : j > i + 1 /\ hotplug_msgs[j] = Parti(d)
          BY <2>2, <4>2
        <5>2. j - 1 \in 1..(n - 1) /\ j - 1 > i /\ hotplug_msgs'[j - 1] = Parti(d)
          BY <2>2, <4>1, <5>1
        <5> QED BY <2>2, <5>2
      <4> QED BY <4>1, <4>2 DEF MessagesJustes, ArriveAvant
    <3>2. ASSUME NEW d \in D, NEW b \in A, EnMain(b, Arrive(d))'
          PROVE  d \in usb_devs \/ (\E f \in Fils : Annoncant(f, d)) \/ DansFile(Parti(d))'
      <4>1. hotplug_msgs[1] = Arrive(d) /\ 1 \in DOMAIN hotplug_msgs
        BY <2>2, <2>3, <3>2
      <4>2. CASE \E j \in DOMAIN hotplug_msgs : j > 1 /\ hotplug_msgs[j] = Parti(d)
        BY <2>2, <2>4, <4>2
      <4> QED BY <4>1, <4>2 DEF MessagesJustes, ArriveAvant
    <3> QED BY <1>1, <1>3, <3>1, <3>2 DEF ArriveAvant
  <2> QED BY <2>6, <2>7, <2>8 DEF MessagesJustes
<1> QED BY <1>4, <1>5

(* A message is handled: a device that has left is not kept any more. *)
LEMMA NouvellesMessage ==
    ASSUME TypeEvenements, VerrouTenu, MessagesJustes, NEW a \in A, Message(a)
    PROVE  /\ MessagesJustes'
           /\ message[a] \in Messages
           /\ \A d \in D : Retenu(d)' <=> Retenu(d) /\ message[a] # Parti(d)
           /\ \A d \in D : message[a] = Parti(d) => Retenu(d)
           /\ UNCHANGED <<usb_devs, hotplug_msgs, objet>> /\ pc'[a] \notin {"message", "depart"}
<1>b. /\ pc \in [Fils -> Etapes] /\ a \in Fils /\ message[a] \in Messages
  BY Sortes DEF TypeEvenements, TypePc, TypeMessage, Message
<1>1. /\ pc[a] = "message" /\ UNCHANGED <<usb_devs, hotplug_msgs, objet, message>>
      /\ \A g \in Fils : g # a => pc'[g] = pc[g]
      /\ pc'[a] \notin {"message", "depart"}
  BY <1>b DEF Message, Va, pendants, locaux, Suivant
<1>2. \A b \in A : b # a => pc[b] # "message"
  BY <1>1, UnSeul DEF EtapesTenues
<1>3. \A f \in Fils, d \in D : Annoncant(f, d)' <=> Annoncant(f, d)
  BY <1>1 DEF Annoncant
<1>4. ASSUME NEW b \in A, NEW m PROVE ~EnMain(b, m)' /\ (EnMain(b, m) <=> b = a /\ message[a] = m)
  BY <1>1, <1>2, Sortes DEF EnMain
<1>5. \A m : DansFile(m)' <=> DansFile(m)
  BY <1>1 DEF DansFile
<1>6. UnDepart'
  BY <1>1, <1>3, <1>4, <1>5 DEF MessagesJustes, UnDepart
<1>7. ArriveAvant'
  BY <1>1, <1>3, <1>4, <1>5 DEF MessagesJustes, ArriveAvant
<1>8. ASSUME NEW d \in D, message[a] = Parti(d)
      PROVE  d \notin usb_devs /\ ~DansFile(Parti(d)) /\ \A f \in Fils : ~Annoncant(f, d)
  BY <1>4, <1>8 DEF MessagesJustes, UnDepart
<1>9. ASSUME NEW d \in D
      PROVE (Retenu(d)' <=> Retenu(d) /\ message[a] # Parti(d)) /\ (message[a] = Parti(d) => Retenu(d))
  BY <1>1, <1>3, <1>4, <1>5, <1>8 DEF Retenu
<1> QED BY <1>b, <1>1, <1>6, <1>7, <1>9 DEF MessagesJustes

(* A device is found gone. *)
LEMMA NouvellesPerdu ==
    ASSUME TypeEvenements, HotplugTenu, MessagesJustes, NEW f \in Fils, Perdu(f), objet[f] \in usb_devs
    PROVE  MessagesJustes' /\ \A d \in D : Retenu(d)' <=> Retenu(d)
<1>b. pc \in [Fils -> Etapes] /\ usb_devs \subseteq D
  BY DEF TypeEvenements, TypePc, TypePeripheriques
<1>1. /\ pc[f] = "perdu" /\ pc'[f] = "depart" /\ linux_hotplug_lock = Personne
      /\ usb_devs' = usb_devs \ {objet[f]}
      /\ UNCHANGED <<hotplug_msgs, objet, message>>
      /\ \A g \in Fils : g # f => pc'[g] = pc[g]
  BY <1>b DEF Perdu, linux_device_disconnected, Va, pendants, locaux
<1>2. \A g \in Fils : pc[g] # "depart"
  BY <1>1, Sortes DEF HotplugTenu
<1>3. \A g \in Fils, d \in D : (Annoncant(g, d)' <=> g = f /\ d = objet[f]) /\ ~Annoncant(g, d)
  BY <1>1, <1>2 DEF Annoncant
<1>4. \A b \in A, m \in Messages : EnMain(b, m)' <=> EnMain(b, m)
  BY <1>1, Sortes DEF EnMain
<1>5. \A m : DansFile(m)' <=> DansFile(m)
  BY <1>1 DEF DansFile
<1>6. UnDepart'
  BY <1>b, <1>1, <1>3, <1>4, <1>5, Avis DEF MessagesJustes, UnDepart
<1>7. ArriveAvant'
  <2>1. \A d \in D : d \in usb_devs => d \in usb_devs' \/ \E g \in Fils : Annoncant(g, d)'
    BY <1>1, <1>3
  <2> QED BY <1>1, <1>3, <1>4, <1>5, <2>1, Avis DEF MessagesJustes, ArriveAvant
<1>8. \A d \in D : Retenu(d)' <=> Retenu(d)
  BY <1>b, <1>1, <1>3, <1>4, <1>5, Avis DEF Retenu
<1> QED BY <1>6, <1>7, <1>8 DEF MessagesJustes

(* A sequence with one more element. *)
LEMMA UnDePlus ==
    ASSUME NEW S, NEW s \in Seq(S), NEW x \in S
    PROVE  /\ Len(s) \in Nat /\ DOMAIN s = 1..Len(s)
           /\ DOMAIN Append(s, x) = 1..(Len(s) + 1)
           /\ \A i \in 1..Len(s) : Append(s, x)[i] = s[i]
           /\ Append(s, x)[Len(s) + 1] = x
OBVIOUS

(* A departure is told: its message takes over. *)
LEMMA NouvellesDepart ==
    ASSUME TypeEvenements, HotplugTenu, MessagesJustes, NEW f \in Fils, AnnonceDepart(f)
    PROVE  MessagesJustes' /\ \A d \in D : Retenu(d)' <=> Retenu(d)
<1>b. pc \in [Fils -> Etapes] /\ usb_devs \subseteq D /\ hotplug_msgs \in Seq(Messages)
  BY DEF TypeEvenements, TypePc, TypePeripheriques, TypePendants
<1>1. /\ pc[f] = "depart" /\ pc'[f] = "rendre"
      /\ hotplug_msgs' = Append(hotplug_msgs, Parti(objet[f]))
      /\ UNCHANGED <<usb_devs, objet, message>>
      /\ \A g \in Fils : g # f => pc'[g] = pc[g]
  BY <1>b DEF AnnonceDepart, usbi_hotplug_notification, Va, peripheriques, locaux, Parti
<1>d. objet[f] \in D /\ Parti(objet[f]) \in Messages
  <2>1. objet[f] \in D
    BY <1>1, Sortes DEF TypeEvenements, TypePc, TypeObjet, EtapesPerte, EtapesR
  <2> QED BY <2>1, Avis
<1>2. \A g \in Fils : pc[g] = "depart" => g = f
  BY <1>1 DEF HotplugTenu
<1>3. \A g \in Fils, d \in D : ~Annoncant(g, d)' /\ (Annoncant(g, d) <=> g = f /\ d = objet[f])
  BY <1>1, <1>2 DEF Annoncant
<1>4. \A b \in A, m \in Messages : EnMain(b, m)' <=> EnMain(b, m)
  BY <1>1, Sortes DEF EnMain
<1> DEFINE n == Len(hotplug_msgs)
<1>5. /\ n \in Nat /\ DOMAIN hotplug_msgs = 1..n /\ DOMAIN hotplug_msgs' = 1..(n + 1)
      /\ \A i \in 1..n : hotplug_msgs'[i] = hotplug_msgs[i]
      /\ hotplug_msgs'[n + 1] = Parti(objet[f])
  BY <1>b, <1>d, <1>1, UnDePlus
<1> HIDE DEF n
<1>6. ASSUME NEW m PROVE DansFile(m)' <=> DansFile(m) \/ m = Parti(objet[f])
  <2>1. 1..(n + 1) = (1..n) \cup {n + 1}
    BY <1>5
  <2> QED BY <1>5, <2>1 DEF DansFile
<1>7. ~DansFile(Parti(objet[f])) /\ objet[f] \notin usb_devs /\ \A b \in A : ~EnMain(b, Parti(objet[f]))
  BY <1>d, <1>3 DEF MessagesJustes, UnDepart
<1>p. \A d \in D : Parti(d) = Parti(objet[f]) => d = objet[f]
  BY DEF Parti
<1>q. \A d \in D : Arrive(d) # Parti(objet[f])
  BY DEF Arrive, Parti
<1>8. UnDepart'
  <2>1. ASSUME NEW d \in D, NEW i \in DOMAIN hotplug_msgs', NEW j \in DOMAIN hotplug_msgs',
               hotplug_msgs'[i] = Parti(d), hotplug_msgs'[j] = Parti(d)
        PROVE  i = j
    <3>1. CASE d = objet[f]
      <4>1. \A k \in 1..n : hotplug_msgs'[k] # Parti(d)
        BY <1>5, <1>7, <3>1 DEF DansFile
      <4>2. \A k \in 1..(n + 1) : k \in 1..n \/ k = n + 1
        BY <1>5
      <4> QED BY <1>5, <2>1, <4>1, <4>2
    <3>2. CASE d # objet[f]
      <4>1. i \in 1..n /\ j \in 1..n
        BY <1>5, <1>p, <2>1, <3>2
      <4> QED BY <1>5, <2>1, <4>1 DEF MessagesJustes, UnDepart
    <3> QED BY <3>1, <3>2
  <2>2. ASSUME NEW d \in D
        PROVE  /\ d \in usb_devs => ~DansFile(Parti(d))' /\ \A b \in A : ~EnMain(b, Parti(d))'
               /\ DansFile(Parti(d))' => \A b \in A : ~EnMain(b, Parti(d))'
    BY <1>4, <1>6, <1>7, <1>p, Avis DEF MessagesJustes, UnDepart
  <2> QED BY <1>1, <1>3, <2>1, <2>2 DEF UnDepart
<1>9. ArriveAvant'
  <2>1. ASSUME NEW d \in D, NEW i \in DOMAIN hotplug_msgs', hotplug_msgs'[i] = Arrive(d)
        PROVE  d \in usb_devs \/ \E j \in DOMAIN hotplug_msgs' : j > i /\ hotplug_msgs'[j] = Parti(d)
    <3>1. i \in 1..n /\ hotplug_msgs[i] = Arrive(d)
      BY <1>5, <1>q, <2>1
    <3>2. CASE \E g \in Fils : Annoncant(g, d)
      <4>1. d = objet[f] /\ n + 1 \in DOMAIN hotplug_msgs' /\ n + 1 > i
        BY <1>3, <1>5, <3>1, <3>2
      <4> QED BY <1>5, <4>1
    <3>3. CASE \E j \in DOMAIN hotplug_msgs : j > i /\ hotplug_msgs[j] = Parti(d)
      <4>1. PICK j \in 1..n : j > i /\ hotplug_msgs[j] = Parti(d)
        BY <1>5, <3>3
      <4>2. j \in DOMAIN hotplug_msgs' /\ hotplug_msgs'[j] = Parti(d)
        BY <1>5, <4>1
      <4> QED BY <4>1, <4>2
    <3> QED BY <1>5, <3>1, <3>2, <3>3 DEF MessagesJustes, ArriveAvant
  <2>2. ASSUME NEW d \in D, NEW b \in A, EnMain(b, Arrive(d))'
        PROVE  d \in usb_devs \/ DansFile(Parti(d))'
    BY <1>3, <1>4, <1>6, <2>2, Avis DEF MessagesJustes, ArriveAvant
  <2> QED BY <1>1, <2>1, <2>2 DEF ArriveAvant
<1>10. \A d \in D : Retenu(d)' <=> Retenu(d)
  BY <1>1, <1>3, <1>4, <1>6, <1>p, Avis DEF Retenu
<1> QED BY <1>8, <1>9, <1>10 DEF MessagesJustes

(* A device that comes has not been here. *)
LEMMA NouvellesArrivee ==
    ASSUME TypeEvenements, MessagesJustes, References, NEW d0 \in D, Arrivee(d0)
    PROVE  MessagesJustes' /\ \A d \in D : Retenu(d)' <=> Retenu(d) \/ (d = d0 /\ d \in usb_devs')
<1>b. pc \in [Fils -> Etapes] /\ usb_devs \subseteq D /\ objet \in [Fils -> D \cup {Personne}] /\ Moniteur \in Fils
  BY Sortes DEF TypeEvenements, TypePc, TypePeripheriques, TypeObjet
<1>1. /\ pc[Moniteur] = "surveille" /\ pc'[Moniteur] \in {"arrive", "surveille"}
      /\ UNCHANGED <<hotplug_msgs, message>>
      /\ usb_devs' \in {usb_devs, usb_devs \cup {d0}}
      /\ \A g \in Fils : g # Moniteur => pc'[g] = pc[g] /\ objet'[g] = objet[g]
  BY <1>b DEF Arrivee, linux_enumerate_device, Va, pendants
<1>2. ~Retenu(d0)
  BY CompteContexte DEF Arrivee, References
<1>3. \A g \in Fils, d \in D : Annoncant(g, d)' <=> Annoncant(g, d)
  BY <1>1 DEF Annoncant
<1>4. \A b \in A, m \in Messages : EnMain(b, m)' <=> EnMain(b, m)
  BY <1>1, Sortes DEF EnMain
<1>5. \A m : DansFile(m)' <=> DansFile(m)
  BY <1>1 DEF DansFile
<1>6. UnDepart'
  <2>1. ASSUME NEW d \in D, d \in usb_devs'
        PROVE  (\A f \in Fils : ~Annoncant(f, d)) /\ ~DansFile(Parti(d)) /\ \A a \in A : ~EnMain(a, Parti(d))
    BY <1>1, <1>2, <2>1 DEF MessagesJustes, UnDepart, Retenu
  <2>2. ASSUME NEW d \in D
        PROVE  \A i, j \in DOMAIN hotplug_msgs' : hotplug_msgs'[i] = Parti(d) /\ hotplug_msgs'[j] = Parti(d) => i = j
    BY <1>1 DEF MessagesJustes, UnDepart
  <2> QED BY <1>3, <1>4, <1>5, <2>1, <2>2, Avis DEF MessagesJustes, UnDepart
<1>7. ArriveAvant'
  BY <1>1, <1>3, <1>4, <1>5, Avis DEF MessagesJustes, ArriveAvant
<1>8. \A d \in D : Retenu(d)' <=> Retenu(d) \/ (d = d0 /\ d \in usb_devs')
  BY <1>b, <1>1, <1>3, <1>4, <1>5, Avis DEF Retenu
<1> QED BY <1>6, <1>7, <1>8 DEF MessagesJustes

(* An arrival is told. *)
LEMMA NouvellesAnnonce ==
    ASSUME TypeEvenements, HotplugTenu, MessagesJustes, AnnonceArrivee
    PROVE  MessagesJustes' /\ \A d \in D : Retenu(d)' <=> Retenu(d)
<1>b. pc \in [Fils -> Etapes] /\ usb_devs \subseteq D /\ hotplug_msgs \in Seq(Messages) /\ Moniteur \in Fils
  BY Sortes DEF TypeEvenements, TypePc, TypePeripheriques, TypePendants
<1> DEFINE d0 == objet[Moniteur]
<1>1. /\ pc[Moniteur] = "arrive" /\ pc'[Moniteur] = "surveille"
      /\ hotplug_msgs' = Append(hotplug_msgs, Arrive(d0))
      /\ UNCHANGED <<usb_devs, objet, message>>
      /\ \A g \in Fils : g # Moniteur => pc'[g] = pc[g]
      /\ d0 \in usb_devs
  BY <1>b DEF AnnonceArrivee, usbi_hotplug_notification, Va, locaux, Arrive, HotplugTenu
<1>d. d0 \in D /\ Arrive(d0) \in Messages
  BY <1>b, <1>1, Avis
<1> HIDE DEF d0
<1>3. \A g \in Fils, d \in D : Annoncant(g, d)' <=> Annoncant(g, d)
  BY <1>1 DEF Annoncant
<1>4. \A b \in A, m \in Messages : EnMain(b, m)' <=> EnMain(b, m)
  BY <1>1, Sortes DEF EnMain
<1> DEFINE n == Len(hotplug_msgs)
<1>5. /\ n \in Nat /\ DOMAIN hotplug_msgs = 1..n /\ DOMAIN hotplug_msgs' = 1..(n + 1)
      /\ \A i \in 1..n : hotplug_msgs'[i] = hotplug_msgs[i]
      /\ hotplug_msgs'[n + 1] = Arrive(d0)
  BY <1>b, <1>d, <1>1, UnDePlus
<1> HIDE DEF n
<1>p. \A d \in D : Parti(d) # Arrive(d0)
  BY DEF Parti, Arrive
<1>q. \A d \in D : Arrive(d) = Arrive(d0) => d = d0
  BY DEF Arrive
<1>6. ASSUME NEW d \in D PROVE DansFile(Parti(d))' <=> DansFile(Parti(d))
  <2>1. 1..(n + 1) = (1..n) \cup {n + 1}
    BY <1>5
  <2> QED BY <1>5, <1>p, <2>1 DEF DansFile
<1>8. UnDepart'
  <2>1. ASSUME NEW d \in D, NEW i \in DOMAIN hotplug_msgs', NEW j \in DOMAIN hotplug_msgs',
               hotplug_msgs'[i] = Parti(d), hotplug_msgs'[j] = Parti(d)
        PROVE  i = j
    <3>1. i \in 1..n /\ j \in 1..n
      BY <1>5, <1>p, <2>1
    <3> QED BY <1>5, <2>1, <3>1 DEF MessagesJustes, UnDepart
  <2> QED BY <1>1, <1>3, <1>4, <1>6, <2>1, Avis DEF MessagesJustes, UnDepart
<1>9. ArriveAvant'
  <2>1. ASSUME NEW d \in D, NEW i \in DOMAIN hotplug_msgs', hotplug_msgs'[i] = Arrive(d)
        PROVE  \/ d \in usb_devs \/ \E g \in Fils : Annoncant(g, d)
               \/ \E j \in DOMAIN hotplug_msgs' : j > i /\ hotplug_msgs'[j] = Parti(d)
    <3>1. CASE i = n + 1
      BY <1>1, <1>5, <1>q, <2>1, <3>1
    <3>2. CASE i # n + 1
      <4>1. i \in 1..n /\ hotplug_msgs[i] = Arrive(d)
        BY <1>5, <2>1, <3>2
      <4>2. CASE \E j \in DOMAIN hotplug_msgs : j > i /\ hotplug_msgs[j] = Parti(d)
        <5>1. PICK j \in 1..n : j > i /\ hotplug_msgs[j] = Parti(d)
          BY <1>5, <4>2
        <5>2. j \in DOMAIN hotplug_msgs' /\ hotplug_msgs'[j] = Parti(d)
          BY <1>5, <5>1
        <5> QED BY <5>1, <5>2
      <4> QED BY <1>5, <4>1, <4>2 DEF MessagesJustes, ArriveAvant
    <3> QED BY <3>1, <3>2
  <2>2. ASSUME NEW d \in D, NEW b \in A, EnMain(b, Arrive(d))'
        PROVE  d \in usb_devs \/ (\E g \in Fils : Annoncant(g, d)) \/ DansFile(Parti(d))'
    BY <1>4, <1>6, <2>2, Avis DEF MessagesJustes, ArriveAvant
  <2> QED BY <1>1, <1>3, <2>1, <2>2 DEF ArriveAvant
<1>10. \A d \in D : Retenu(d)' <=> Retenu(d)
  BY <1>1, <1>3, <1>4, <1>6, Avis DEF Retenu
<1> QED BY <1>8, <1>9, <1>10 DEF MessagesJustes

LEMMA MessagesPas ==
    ASSUME TypeEvenements, VerrouTenu, HotplugTenu, MessagesJustes, References, Next
    PROVE  MessagesJustes'
<1>1. PICK f \in Fils : Acteur(f)
  BY Immobile DEF TypeEvenements
<1> QED BY <1>1, QuiAnnonce, NouvellesStables, NouvellesTube, NouvellesMessage, NouvellesPerdu, NouvellesDepart,
           NouvellesArrivee, NouvellesAnnonce

-----------------------------------------------------------------------------
(* What the device lists of the threads hold. *)
LEMMA ListesPas ==
    ASSUME TypeEvenements, ListesTenues, Next
    PROVE  ListesTenues'
<1>t. TypePc /\ TypeObjet /\ TypeListe
  BY DEF TypeEvenements
<1> USE DEF Acteur
<1>0. PICK f \in Fils : Acteur(f)
  BY <1>t, Immobile
<1>b. /\ pc \in [Fils -> Etapes] /\ f \in Fils
      /\ objet \in [Fils -> D \cup {Personne}] /\ liste \in [C \cup R -> SUBSET D]
  BY <1>t DEF TypePc, TypeObjet, TypeListe
<1>1. ASSUME \A g \in C \cup R : g # f => liste'[g] = liste[g],
             \A g \in C : g # f => objet'[g] = objet[g],
             f \in C => pc'[f] \notin {"liste", "ouvre"},
             f \in R => pc'[f] \notin {"enregistre", "enumere"}
      PROVE  ListesTenues'
  BY <1>0, <1>1, Sortes DEF ListesTenues
<1>2. CASE f \in A /\ (Attente(f) \/ Expire(f) \/ Finit(f))
  <2>1. liste' = liste /\ \A g \in C : objet'[g] = objet[g]
    <3>1. liste' = liste /\ \A g \in Fils : g # f => objet'[g] = objet[g]
      BY <1>2, <1>b, CadreAttente DEF PollErr
    <3> QED BY <1>2, <3>1, Sortes
  <2> QED BY <1>1, <1>2, <2>1, Sortes
<1>3. CASE f \in C /\ (Client(f) \/ libusb_close(f))
  <2>1. CASE Cherche(f)
    <3>1. /\ \A g \in C \cup R : g # f => liste'[g] = liste[g]
          /\ \A g \in C : g # f => objet'[g] = objet[g]
          /\ liste'[f] = usb_devs
      <4>1. liste' = [liste EXCEPT ![f] = usb_devs]
        BY <2>1 DEF Cherche, libusb_get_device_list
      <4>2. \A g \in Fils : g # f => objet'[g] = objet[g]
        BY <1>b, <2>1 DEF Cherche
      <4> QED BY <1>3, <1>b, <4>1, <4>2, Sortes
    <3>2. pc'[f] = "fin" \/ (pc'[f] = "ouvre" /\ objet'[f] \in usb_devs)
      BY <1>b, <2>1 DEF Cherche, Va
    <3> QED BY <1>0, <1>3, <3>1, <3>2, Sortes DEF ListesTenues
  <2>2. CASE ~Cherche(f)
    <3>1. /\ \A g \in C \cup R : g # f => liste'[g] = liste[g]
          /\ objet' = objet
      BY <1>3, <1>b, <2>2, CadreClient DEF SansListe, libusb_free_device_list
    <3>2. pc'[f] \notin {"liste", "ouvre"}
      BY <1>3, <1>b, <2>2 DEF Client, libusb_open, op_open, usbi_add_pollfd, Inscrit, Echec, SansListe, do_close,
       Desinscrit, op_close, Close, FinClose, libusb_close, Va
    <3> QED BY <1>1, <1>3, <3>1, <3>2, Sortes
  <2> QED BY <2>1, <2>2
<1>4. CASE Commun(f)
  <2>1. f \in C => pc'[f] \notin {"liste", "ouvre"}
    <3>1. CASE Diffuse(f)
      BY <1>t, <3>1, PasDiffuse
    <3>2. CASE ~Diffuse(f)
      BY <1>4, <1>b, <3>2, Sortes DEF Commun, Libere, Rend, Perdu, AnnonceDepart, Rendre, Apres, Va
    <3> QED BY <3>1, <3>2
  <2>2. f \notin R
    BY <1>t, <1>4, Sortes DEF TypePc, EtapesR, Commun, Libere, Rend, Diffuse, Perdu, AnnonceDepart, Rendre, Apres
  <2> QED BY <1>1, <1>4, <2>1, <2>2, CadreCommun
<1>5. CASE f \in R /\ Inscription(f)
  <2>0. objet' = objet /\ \A g \in C \cup R : g # f => liste'[g] = liste[g]
    BY <1>5, <1>b, CadreInscription DEF Enumere, FinEnumere, libusb_get_device_list, libusb_free_device_list
  <2>s. Suite(f) /\ pc[f] \in EtapesR
    BY <1>5, <1>t DEF Inscription, Enregistre, Enumere, Rappelle, FinEnumere, TypePc
  <2>1. CASE Enregistre(f)
    <3>1. pc[f] = "enregistre" /\ liste' = liste
      BY <2>1 DEF Enregistre, locaux
    <3> QED BY <1>0, <1>5, <2>0, <3>1, Sortes DEF ListesTenues
  <2>2. CASE ~Enregistre(f)
    <3>1. pc'[f] \notin {"enregistre", "enumere"}
      BY <1>5, <1>b, <2>2, <2>s, SuiteDe DEF Inscription, Enumere, Rappelle, FinEnumere, Va
    <3> QED BY <1>1, <1>5, <2>0, <3>1, Sortes
  <2> QED BY <2>1, <2>2
<1>6. CASE f = Moniteur /\ (Surveillance \/ Prise)
  <2>1. liste' = liste /\ \A g \in C : objet'[g] = objet[g]
    BY <1>6, <1>b, CadreSurveillance, Sortes DEF Arrivee, Perte
  <2> QED BY <1>1, <1>6, <2>1, Sortes
<1> QED BY <1>0, <1>2, <1>3, <1>4, <1>5, <1>6

-----------------------------------------------------------------------------
(* The count of one device, when the same threads hold it, one more does,  *)
(* or one less.                                                            *)
LEMMA PorteursEgaux ==
    ASSUME NEW d \in D, Juste(d), \A k \in Genres, g \in Fils : Porte(k, g, d)' <=> Porte(k, g, d),
           refcnt'[d] = refcnt[d], d \in detruits' => d \in detruits
    PROVE  Juste(d)'
<1>1. Porteurs(d)' = Porteurs(d)
  BY DEF Porteurs
<1> QED BY <1>1 DEF Juste

LEMMA PorteurAjoute ==
    ASSUME NEW d \in D, Juste(d), NEW k0 \in Genres, NEW f0 \in Fils,
           \A k \in Genres, g \in Fils : Porte(k, g, d)' <=> (Porte(k, g, d) \/ (k = k0 /\ g = f0)),
           ~Porte(k0, f0, d), refcnt'[d] = refcnt[d] + 1, d \notin detruits'
    PROVE  Juste(d)'
<1>1. PICK p : p = <<k0, f0>>
  OBVIOUS
<1>2. Porteurs(d)' = Porteurs(d) \cup {p}
  BY <1>1 DEF Porteurs
<1>3. p \notin Porteurs(d)
  BY <1>1 DEF Porteurs
<1>4. IsFiniteSet(Porteurs(d)) /\ refcnt[d] = Cardinality(Porteurs(d))
  BY DEF Juste
<1>5. IsFiniteSet(Porteurs(d)') /\ Cardinality(Porteurs(d)') = Cardinality(Porteurs(d)) + 1
  BY <1>2, <1>3, <1>4, FS_AddElement
<1> QED BY <1>4, <1>5 DEF Juste

LEMMA PorteurOte ==
    ASSUME NEW d \in D, Juste(d), NEW k0 \in Genres, NEW f0 \in Fils,
           \A k \in Genres, g \in Fils : Porte(k, g, d)' <=> (Porte(k, g, d) /\ ~(k = k0 /\ g = f0)),
           Porte(k0, f0, d), refcnt'[d] = refcnt[d] - 1,
           d \in detruits' => d \in detruits \/ refcnt[d] = 1
    PROVE  Juste(d)'
<1>1. Porteurs(d)' = Porteurs(d) \ {<<k0, f0>>}
  BY DEF Porteurs
<1>2. <<k0, f0>> \in Porteurs(d)
  BY DEF Porteurs
<1>3. IsFiniteSet(Porteurs(d)') /\ Cardinality(Porteurs(d)') = Cardinality(Porteurs(d)) - 1
  BY <1>1, <1>2, FS_RemoveElement DEF Juste
<1>4. d \in detruits' => Porteurs(d)' = {}
  <2>1. d \notin detruits
    BY <1>2 DEF Juste
  <2>2. refcnt[d] = 1 => Cardinality(Porteurs(d)') = 0
    BY <1>3 DEF Juste
  <2> QED BY <1>3, <2>1, <2>2, FS_EmptySet
<1>5. refcnt'[d] = Cardinality(Porteurs(d)')
  BY <1>3 DEF Juste
<1> QED BY <1>3, <1>4, <1>5 DEF Juste

(* Those kinds, one by one. *)
LEMMA Porte4 ==
    ASSUME NEW f \in Fils, NEW d \in D
    PROVE  /\ Porte("liste", f, d) <=> f \in C \cup R /\ d \in liste[f]
           /\ Porte("poignee", f, d) <=> f \in C /\ Poignee(f) /\ objet[f] = d
           /\ Porte("session", f, d) <=> pc[f] \in {"depart", "rendre"} /\ objet[f] = d
           /\ Porte("contexte", f, d) <=> f = Moniteur /\ Retenu(d)
           /\ Genres = {"liste", "poignee", "session", "contexte"}
BY DEF Porte, Genres

LEMMA Porte4Apres ==
    ASSUME NEW f \in Fils, NEW d \in D
    PROVE  /\ Porte("liste", f, d)' <=> f \in C \cup R /\ d \in liste'[f]
           /\ Porte("poignee", f, d)' <=> f \in C /\ Poignee(f)' /\ objet'[f] = d
           /\ Porte("session", f, d)' <=> pc'[f] \in {"depart", "rendre"} /\ objet'[f] = d
           /\ Porte("contexte", f, d)' <=> f = Moniteur /\ Retenu(d)'
BY DEF Porte

(* When the context's reference stays. *)
LEMMA RetenuPas ==
    ASSUME TypeEvenements, VerrouTenu, HotplugTenu, MessagesJustes, References, NEW f \in Fils, Acteur(f),
           f \in A => ~Message(f), f = Moniteur => ~\E d \in D : Arrivee(d)
    PROVE  \A d \in D : Retenu(d)' <=> Retenu(d)
BY QuiAnnonce, NouvellesStables, NouvellesTube, NouvellesPerdu, NouvellesDepart, NouvellesAnnonce

(* What a step of f leaves to the others. *)
Ailleurs(f) ==
    \A g \in Fils : g # f =>
        /\ pc'[g] = pc[g] \/ (g \in A /\ pc[g] = "dort" /\ pc'[g] = "reveil")
        /\ objet'[g] = objet[g]
        /\ g \in C \cup R => liste'[g] = liste[g]
        /\ g \in C => (g \in ouverts' <=> g \in ouverts)

LEMMA PorteAilleurs ==
    ASSUME NEW f \in Fils, Ailleurs(f), NEW g \in Fils, g # f, NEW d \in D, NEW k \in Genres \ {"contexte"}
    PROVE  Porte(k, g, d)' <=> Porte(k, g, d)
<1>1. g \in C => (Poignee(g)' <=> Poignee(g))
  BY Sortes DEF Ailleurs, Poignee
<1> QED BY <1>1, Sortes DEF Ailleurs, Porte, Genres

(* A step of f that leaves what f holds: only the context's reference may  *)
(* change.                                                                 *)
LEMMA PorteSaufContexte ==
    ASSUME NEW f \in Fils, Ailleurs(f), NEW d \in D,
           f \in C \cup R => (d \in liste'[f] <=> d \in liste[f]),
           f \in C => (Poignee(f)' /\ objet'[f] = d <=> Poignee(f) /\ objet[f] = d),
           pc'[f] \in {"depart", "rendre"} /\ objet'[f] = d <=> pc[f] \in {"depart", "rendre"} /\ objet[f] = d
    PROVE  \A k \in Genres, g \in Fils : ~(k = "contexte" /\ g = Moniteur) => (Porte(k, g, d)' <=> Porte(k, g, d))
<1>1. ASSUME NEW k \in Genres, NEW g \in Fils, ~(k = "contexte" /\ g = Moniteur)
      PROVE  Porte(k, g, d)' <=> Porte(k, g, d)
  <2>1. CASE g = f
    BY <1>1, <2>1, Porte4, Porte4Apres
  <2>2. CASE g # f /\ k # "contexte"
    BY <2>2, PorteAilleurs
  <2>3. CASE g # Moniteur /\ k = "contexte"
    BY <2>3, Porte4, Porte4Apres
  <2> QED BY <1>1, <2>1, <2>2, <2>3
<1> QED BY <1>1

(* ... or nothing does. *)
LEMMA PorteDeF ==
    ASSUME NEW f \in Fils, Ailleurs(f), NEW d \in D,
           f \in C \cup R => (d \in liste'[f] <=> d \in liste[f]),
           f \in C => (Poignee(f)' /\ objet'[f] = d <=> Poignee(f) /\ objet[f] = d),
           pc'[f] \in {"depart", "rendre"} /\ objet'[f] = d <=> pc[f] \in {"depart", "rendre"} /\ objet[f] = d,
           Retenu(d)' <=> Retenu(d)
    PROVE  \A k \in Genres, g \in Fils : Porte(k, g, d)' <=> Porte(k, g, d)
<1>1. Porte("contexte", Moniteur, d)' <=> Porte("contexte", Moniteur, d)
  BY Porte4, Porte4Apres, Sortes
<1> QED BY <1>1, PorteSaufContexte

(* A step of f that changes one of its references. *)
LEMMA PorteDeFSauf ==
    ASSUME NEW f \in Fils, Ailleurs(f), NEW d \in D, NEW k0 \in {"liste", "poignee", "session"},
           k0 # "liste" /\ f \in C \cup R => (d \in liste'[f] <=> d \in liste[f]),
           k0 # "poignee" /\ f \in C => (Poignee(f)' /\ objet'[f] = d <=> Poignee(f) /\ objet[f] = d),
           k0 # "session" => (pc'[f] \in {"depart", "rendre"} /\ objet'[f] = d <=> pc[f] \in {"depart", "rendre"} /\ objet[f] = d),
           Retenu(d)' <=> Retenu(d)
    PROVE  \A k \in Genres, g \in Fils : ~(k = k0 /\ g = f) => (Porte(k, g, d)' <=> Porte(k, g, d))
<1>1. ASSUME NEW k \in Genres, NEW g \in Fils, ~(k = k0 /\ g = f)
      PROVE  Porte(k, g, d)' <=> Porte(k, g, d)
  <2>1. CASE g = f
    BY <1>1, <2>1, Porte4, Porte4Apres
  <2>2. CASE g # f /\ k # "contexte"
    BY <2>2, PorteAilleurs
  <2>3. CASE k = "contexte"
    BY <2>3, Porte4, Porte4Apres
  <2> QED BY <2>1, <2>2, <2>3
<1> QED BY <1>1

(* What the counts rest on. *)
Appuis ==
    TypeEvenements /\ VerrouTenu /\ HotplugTenu /\ ListesTenues /\ MessagesJustes /\ References

(* The counts stay right when a thread that waits makes a step: only a     *)
(* message that a device has left changes one.                             *)
LEMMA ReferencesAttente ==
    ASSUME Appuis, NEW f \in A, Acteur(f), Attente(f) \/ Expire(f) \/ Finit(f)
    PROVE  References'
<1>t. /\ TypePc /\ TypeObjet /\ TypeMessage /\ TypeEvenements
      /\ VerrouTenu /\ HotplugTenu /\ MessagesJustes /\ References
  BY DEF Appuis, TypeEvenements
<1>b. /\ pc \in [Fils -> Etapes] /\ objet \in [Fils -> D \cup {Personne}]
      /\ f \in Fils /\ f \notin C \cup R /\ f # Moniteur
  BY <1>t, Sortes DEF TypePc, TypeObjet
<1>1. Ailleurs(f)
  <2>1. /\ \A g \in Fils : g # f => objet'[g] = objet[g]
        /\ liste' = liste /\ ouverts' = ouverts
    BY <1>b, CadreAttente DEF PollErr, usbi_pollfd, Prepare
  <2>2. \A g \in Fils : g # f => pc'[g] = pc[g]
    BY <1>b, <1>t, PasAttente DEF Bouge
  <2> QED BY <2>1, <2>2 DEF Ailleurs
<1>2. (pc'[f] \notin {"depart", "rendre"} /\ pc[f] \notin {"depart", "rendre"}) \/ UNCHANGED <<pc, objet>>
  BY <1>b DEF Attente, Boucle, Essaie, Tente, Active, Verifie, Prepare, Poll, Repoll, Tube, Message, locaux,
       Reap, PollErr, FinBackend, Attend, Occupe, Reveil, Expire, Finit, Va, Suivant
<1>3. CASE ~Message(f)
  <2>1. UNCHANGED <<refcnt, detruits>>
    BY <1>3, CadreAttente
  <2>2. \A d \in D : Retenu(d)' <=> Retenu(d)
    BY <1>3, <1>t, <1>b, RetenuPas
  <2>3. ASSUME NEW d \in D PROVE Juste(d)'
    <3>1. \A k \in Genres, g \in Fils : Porte(k, g, d)' <=> Porte(k, g, d)
      BY <1>1, <1>2, <1>b, <2>2, PorteDeF
    <3> QED BY <1>t, <2>1, <3>1, PorteursEgaux DEF References
  <2> QED BY <2>3 DEF References
<1>4. CASE Message(f)
  <2> DEFINE m == message[f]
  <2>1. /\ m \in Messages
        /\ \A d \in D : (Retenu(d)' <=> Retenu(d) /\ m # Parti(d)) /\ (m = Parti(d) => Retenu(d))
    BY <1>t, <1>4, NouvellesMessage
  <2>2. IF m.event = "LEFT" THEN libusb_unref_device({m.device}) ELSE UNCHANGED <<refcnt, detruits>>
    BY <1>4 DEF Message
  <2>3. ASSUME NEW d \in D PROVE m = Parti(d) <=> m.event = "LEFT" /\ m.device = d
    BY <2>1 DEF Parti, Messages
  <2> HIDE DEF m
  <2>4. ASSUME NEW d \in D PROVE Juste(d)'
    <3>0. Juste(d) /\ Moniteur \in Fils /\ "contexte" \in Genres
      BY <1>t, Sortes DEF References, Genres
    <3>1. \A k \in Genres, g \in Fils : ~(k = "contexte" /\ g = Moniteur) => (Porte(k, g, d)' <=> Porte(k, g, d))
      BY <1>1, <1>2, <1>b, PorteSaufContexte
    <3>2. /\ Porte("contexte", Moniteur, d) <=> Retenu(d)
          /\ Porte("contexte", Moniteur, d)' <=> Retenu(d)'
      BY <3>0, Porte4, Porte4Apres
    <3>3. CASE m = Parti(d)
      <4>1. refcnt'[d] = refcnt[d] - 1 /\ (d \in detruits' => d \in detruits \/ refcnt[d] = 1)
        BY <2>2, <2>3, <3>3 DEF libusb_unref_device
      <4>2. Porte("contexte", Moniteur, d) /\ ~Porte("contexte", Moniteur, d)'
        BY <2>1, <3>2, <3>3
      <4> QED BY <3>0, <3>1, <4>1, <4>2, PorteurOte
    <3>4. CASE m # Parti(d)
      <4>1. refcnt'[d] = refcnt[d] /\ (d \in detruits' => d \in detruits)
        BY <2>2, <2>3, <3>4 DEF libusb_unref_device
      <4>2. Porte("contexte", Moniteur, d)' <=> Porte("contexte", Moniteur, d)
        BY <2>1, <3>2, <3>4
      <4> QED BY <3>0, <3>1, <4>1, <4>2, PorteursEgaux
    <3> QED BY <3>3, <3>4
  <2> QED BY <2>4 DEF References
<1> QED BY <1>3, <1>4

(* A list of devices is asked for, or given back. *)
LEMMA ReferencesListe ==
    ASSUME References, NEW f \in C \cup R, f \in Fils, Ailleurs(f),
           \A d \in D : Retenu(d)' <=> Retenu(d),
           \A d \in D : f \in C => (Poignee(f)' /\ objet'[f] = d <=> Poignee(f) /\ objet[f] = d),
           pc[f] \notin {"depart", "rendre"}, pc'[f] \notin {"depart", "rendre"},
           \/ /\ liste[f] = {} /\ liste'[f] = usb_devs
              /\ libusb_ref_device(usb_devs) /\ UNCHANGED detruits
           \/ /\ liste'[f] = {}
              /\ libusb_unref_device(liste[f])
    PROVE  References'
<1>1. ASSUME NEW d \in D PROVE Juste(d)'
  <2>0. Juste(d) /\ "liste" \in Genres
    BY DEF References, Genres
  <2>1. \A k \in Genres, g \in Fils : ~(k = "liste" /\ g = f) => (Porte(k, g, d)' <=> Porte(k, g, d))
    BY PorteDeFSauf
  <2>2. /\ Porte("liste", f, d) <=> d \in liste[f]
        /\ Porte("liste", f, d)' <=> d \in liste'[f]
    BY Porte4, Porte4Apres
  <2>3. CASE liste[f] = {} /\ liste'[f] = usb_devs /\ libusb_ref_device(usb_devs) /\ UNCHANGED detruits
    <3>1. CASE d \in usb_devs
      <4>1. refcnt'[d] = refcnt[d] + 1
        BY <2>3, <3>1 DEF libusb_ref_device
      <4>2. d \notin detruits'
        BY <2>0, <2>3, <3>1, CompteContexte DEF Retenu
      <4> QED BY <2>0, <2>1, <2>2, <2>3, <3>1, <4>1, <4>2, PorteurAjoute
    <3>2. CASE d \notin usb_devs
      <4>1. refcnt'[d] = refcnt[d]
        BY <2>3, <3>2 DEF libusb_ref_device
      <4>2. \A k \in Genres, g \in Fils : Porte(k, g, d)' <=> Porte(k, g, d)
        BY <2>1, <2>2, <2>3, <3>2
      <4> QED BY <2>0, <2>3, <4>1, <4>2, PorteursEgaux
    <3> QED BY <3>1, <3>2
  <2>4. CASE liste'[f] = {} /\ libusb_unref_device(liste[f])
    <3>1. CASE d \in liste[f]
      <4>1. refcnt'[d] = refcnt[d] - 1 /\ (d \in detruits' => d \in detruits \/ refcnt[d] = 1)
        BY <2>4, <3>1 DEF libusb_unref_device
      <4> QED BY <2>0, <2>1, <2>2, <2>4, <3>1, <4>1, PorteurOte
    <3>2. CASE d \notin liste[f]
      <4>1. refcnt'[d] = refcnt[d] /\ (d \in detruits' => d \in detruits)
        BY <2>4, <3>2 DEF libusb_unref_device
      <4>2. \A k \in Genres, g \in Fils : Porte(k, g, d)' <=> Porte(k, g, d)
        BY <2>1, <2>2, <2>4, <3>2
      <4> QED BY <2>0, <4>1, <4>2, PorteursEgaux
    <3> QED BY <3>1, <3>2
  <2> QED BY <2>3, <2>4
<1> QED BY <1>1 DEF References

(* One thread takes a reference to the device it works on, or gives it     *)
(* back: its handle, or the one it got by looking the device up.           *)
LEMMA ReferencesUne ==
    ASSUME References, NEW f \in Fils, Ailleurs(f), NEW k0 \in {"poignee", "session"},
           \A d \in D : Retenu(d)' <=> Retenu(d),
           UNCHANGED objet, objet[f] \in D,
           f \in C \cup R => liste'[f] = liste[f],
           k0 = "session" /\ f \in C => (Poignee(f)' <=> Poignee(f)),
           k0 = "poignee" => pc'[f] \notin {"depart", "rendre"} /\ pc[f] \notin {"depart", "rendre"},
           \/ /\ ~Porte(k0, f, objet[f]) /\ Porte(k0, f, objet[f])'
              /\ refcnt' = [d \in D |-> IF d = objet[f] THEN refcnt[d] + 1 ELSE refcnt[d]]
              /\ UNCHANGED detruits /\ \E k \in Genres, g \in Fils : Porte(k, g, objet[f])
           \/ /\ Porte(k0, f, objet[f]) /\ ~Porte(k0, f, objet[f])'
              /\ libusb_unref_device({objet[f]})
    PROVE  References'
<1>1. ASSUME NEW d \in D PROVE Juste(d)'
  <2>0. Juste(d) /\ k0 \in Genres
    BY DEF References, Genres
  <2>1. \A k \in Genres, g \in Fils : ~(k = k0 /\ g = f) => (Porte(k, g, d)' <=> Porte(k, g, d))
    BY PorteDeFSauf
  <2>2. CASE d # objet[f]
    <3>1. ~Porte(k0, f, d) /\ ~Porte(k0, f, d)'
      BY <2>2, Porte4, Porte4Apres
    <3>2. \A k \in Genres, g \in Fils : Porte(k, g, d)' <=> Porte(k, g, d)
      BY <2>1, <3>1
    <3>3. refcnt'[d] = refcnt[d] /\ (d \in detruits' => d \in detruits)
      BY <2>2 DEF libusb_unref_device
    <3> QED BY <2>0, <3>2, <3>3, PorteursEgaux
  <2>3. CASE d = objet[f] /\ ~Porte(k0, f, objet[f])
    <3>1. refcnt'[d] = refcnt[d] + 1 /\ Porte(k0, f, d)' /\ ~Porte(k0, f, d) /\ d \notin detruits'
      BY <2>0, <2>3, Compte0
    <3> QED BY <2>0, <2>1, <3>1, PorteurAjoute
  <2>4. CASE d = objet[f] /\ Porte(k0, f, objet[f])
    <3>1. /\ refcnt'[d] = refcnt[d] - 1 /\ (d \in detruits' => d \in detruits \/ refcnt[d] = 1)
          /\ ~Porte(k0, f, d)' /\ Porte(k0, f, d)
      BY <2>4 DEF libusb_unref_device
    <3> QED BY <2>0, <2>1, <3>1, PorteurOte
  <2> QED BY <2>2, <2>3, <2>4
<1> QED BY <1>1 DEF References

(* Nobody takes a reference, nobody gives one back. *)
LEMMA ReferencesAucune ==
    ASSUME References, NEW f \in Fils, Ailleurs(f),
           \A d \in D : Retenu(d)' <=> Retenu(d), UNCHANGED <<refcnt, detruits>>,
           f \in C \cup R => liste'[f] = liste[f],
           f \in C => objet'[f] = objet[f] /\ (Poignee(f)' <=> Poignee(f)),
           \/ pc'[f] \notin {"depart", "rendre"} /\ pc[f] \notin {"depart", "rendre"}
           \/ pc'[f] \in {"depart", "rendre"} /\ pc[f] \in {"depart", "rendre"} /\ objet'[f] = objet[f]
    PROVE  References'
<1>1. ASSUME NEW d \in D PROVE Juste(d)'
  <2>1. \A k \in Genres, g \in Fils : Porte(k, g, d)' <=> Porte(k, g, d)
    BY PorteDeF
  <2> QED BY <2>1, PorteursEgaux DEF References
<1> QED BY <1>1 DEF References

(* The steps of a client. *)
LEMMA ReferencesClient ==
    ASSUME Appuis, NEW f \in C, Acteur(f), Client(f) \/ libusb_close(f)
    PROVE  References'
<1>t. /\ TypePc /\ TypeObjet /\ TypeFds /\ TypeListe /\ TypeEvenements
      /\ VerrouTenu /\ HotplugTenu /\ MessagesJustes /\ References /\ ListesTenues
  BY DEF Appuis, TypeEvenements
<1>b. /\ pc \in [Fils -> Etapes] /\ objet \in [Fils -> D \cup {Personne}]
      /\ liste \in [C \cup R -> SUBSET D]
      /\ f \in Fils /\ f \notin A /\ f # Moniteur
  BY <1>t, Sortes DEF TypePc, TypeObjet, TypeListe
<1>1. Ailleurs(f)
  <2>1. \A g \in Fils : g # f => objet'[g] = objet[g]
    BY <1>b, CadreClient DEF Cherche
  <2>2. \A g \in C \cup R : g # f => liste'[g] = liste[g]
    BY <1>b, CadreClient DEF Cherche, SansListe, libusb_get_device_list, libusb_free_device_list
  <2>3. \A g \in C : g # f => (g \in ouverts' <=> g \in ouverts)
    <3>1. ouverts' = ouverts \/ op_open(f) \/ Close(f)
      BY CadreClient DEF usbi_add_pollfd, Inscrit, Desinscrit, op_close, usbi_pollfd
    <3>2. ouverts' \in {ouverts, ouverts \cup {f}, ouverts \ {f}}
      BY <3>1 DEF op_open, Close
    <3> QED BY <3>2
  <2> QED BY <2>1, <2>2, <2>3 DEF Ailleurs, Acteur
<1>2. \A d \in D : Retenu(d)' <=> Retenu(d)
  BY <1>t, <1>b, RetenuPas
<1>3. pc'[f] \notin {"depart", "rendre"} /\ pc[f] \notin {"depart", "rendre"}
  BY <1>b DEF Client, Cherche, libusb_open, op_open, usbi_add_pollfd, Inscrit, Echec, SansListe, do_close,
     Desinscrit, op_close, Close, FinClose, libusb_close, Va
<1>4. f \in ouverts => pc[f] \in {"ajoute", "inscrit", "op_close", "close", "sansliste", "utilise", "verrou", "desinscrit"} \cup EtapesLibere
  BY <1>t DEF TypeFds
<1>5. CASE Cherche(f)
  <2>1. liste[f] = {} /\ liste'[f] = usb_devs /\ libusb_ref_device(usb_devs) /\ UNCHANGED <<detruits, ouverts>>
    <3>1. liste' = [liste EXCEPT ![f] = usb_devs]
      BY <1>5 DEF Cherche, libusb_get_device_list
    <3> QED BY <1>b, <1>t, <1>5, <3>1 DEF Cherche, libusb_get_device_list, ListesTenues, fds
  <2>2. ~Poignee(f) /\ ~Poignee(f)'
    BY <1>b, <1>4, <1>5, <2>1 DEF Cherche, Va, Poignee, EtapesPerte, EtapesLibere
  <2> QED BY <1>t, <1>b, <1>1, <1>2, <1>3, <2>1, <2>2, ReferencesListe
<1>6. CASE libusb_open(f)
  <2>0. UNCHANGED <<objet, liste, ouverts, detruits>> /\ pc[f] = "ouvre" /\ objet[f] \in D
    BY <1>t, <1>6 DEF libusb_open, locaux, fds, TypeObjet
  <2>1. ~Poignee(f)
    BY <1>4, <2>0 DEF Poignee, EtapesPerte, EtapesLibere
  <2>2. CASE attached[objet[f]]
    <3>1. /\ pc'[f] = "op_open" /\ libusb_ref_device({objet[f]})
      BY <1>b, <1>6, <2>2 DEF libusb_open, Va
    <3>2. ~Porte("poignee", f, objet[f]) /\ Porte("poignee", f, objet[f])'
      BY <1>b, <2>0, <2>1, <3>1, Porte4, Porte4Apres DEF Poignee
    <3>3. Porte("liste", f, objet[f])
      BY <1>t, <1>b, <2>0, Porte4 DEF ListesTenues
    <3>4. \E k \in Genres, g \in Fils : Porte(k, g, objet[f])
      BY <1>b, <3>3 DEF Genres
    <3>5. refcnt' = [d \in D |-> IF d = objet[f] THEN refcnt[d] + 1 ELSE refcnt[d]]
      BY <3>1 DEF libusb_ref_device
    <3> QED BY <1>t, <1>b, <1>1, <1>2, <1>3, <2>0, <3>2, <3>4, <3>5, ReferencesUne
  <2>3. CASE ~attached[objet[f]]
    <3>1. pc'[f] = "sansliste" /\ UNCHANGED refcnt
      BY <1>b, <1>6, <2>3 DEF libusb_open, Va
    <3>2. ~Poignee(f)'
      BY <1>4, <2>0, <3>1 DEF Poignee, EtapesPerte, EtapesLibere
    <3> QED BY <1>t, <1>b, <1>1, <1>2, <1>3, <2>0, <2>1, <3>1, <3>2, ReferencesAucune
  <2> QED BY <2>2, <2>3
<1>7. CASE Echec(f)
  <2>0. /\ UNCHANGED <<objet, liste, ouverts>> /\ pc[f] = "echec" /\ pc'[f] = "sansliste" /\ objet[f] \in D
        /\ libusb_unref_device({objet[f]})
    BY <1>t, <1>b, <1>7 DEF Echec, locaux, fds, TypeObjet, Va
  <2>1. Poignee(f) /\ ~Poignee(f)'
    BY <1>4, <2>0 DEF Poignee, EtapesPerte, EtapesLibere
  <2>2. Porte("poignee", f, objet[f]) /\ ~Porte("poignee", f, objet[f])'
    BY <1>b, <2>0, <2>1, Porte4, Porte4Apres
  <2> QED BY <1>t, <1>b, <1>1, <1>2, <1>3, <2>0, <2>2, ReferencesUne
<1>8. CASE Close(f)
  <2>0. /\ UNCHANGED <<objet, liste>> /\ pc[f] = "close" /\ pc'[f] = "decompte" /\ objet[f] \in D
        /\ libusb_unref_device({objet[f]}) /\ ouverts' = ouverts \ {f} /\ f \in ouverts
    BY <1>t, <1>b, <1>8 DEF Close, locaux, TypeObjet, TypeFds, Va
  <2>1. Poignee(f) /\ ~Poignee(f)'
    BY <2>0 DEF Poignee, EtapesPerte
  <2>2. Porte("poignee", f, objet[f]) /\ ~Porte("poignee", f, objet[f])'
    BY <1>b, <2>0, <2>1, Porte4, Porte4Apres
  <2> QED BY <1>t, <1>b, <1>1, <1>2, <1>3, <2>0, <2>2, ReferencesUne
<1>9. CASE SansListe(f)
  <2>0. /\ UNCHANGED <<objet, ouverts>> /\ pc[f] = "sansliste" /\ pc'[f] \in {"utilise", "fin"}
        /\ libusb_unref_device(liste[f]) /\ liste'[f] = {}
    BY <1>t, <1>b, <1>9 DEF SansListe, libusb_free_device_list, fds, Va
  <2>1. Poignee(f)' <=> Poignee(f)
    BY <2>0 DEF Poignee, EtapesPerte
  <2> QED BY <1>t, <1>b, <1>1, <1>2, <1>3, <2>0, <2>1, ReferencesListe
<1>10. CASE op_open(f)
  <2>0. /\ UNCHANGED <<objet, liste, refcnt, detruits>> /\ pc[f] = "op_open"
        /\ \/ f \in ouverts'
           \/ pc'[f] \in {"perdu", "echec"}
    BY <1>b, <1>10 DEF op_open, locaux, peripheriques, Va
  <2>1. Poignee(f)' /\ Poignee(f)
    BY <2>0 DEF Poignee, EtapesPerte
  <2> QED BY <1>t, <1>b, <1>1, <1>2, <1>3, <2>0, <2>1, ReferencesAucune
<1>11. CASE usbi_add_pollfd(f) \/ Inscrit(f) \/ do_close(f) \/ Desinscrit(f) \/ op_close(f) \/ FinClose(f) \/ libusb_close(f)
  <2>0. /\ UNCHANGED <<objet, liste, refcnt, detruits, ouverts>>
        /\ pc[f] \notin {"op_open", "echec"} \cup EtapesPerte
        /\ pc'[f] \notin {"op_open", "echec"} \cup EtapesPerte
    BY <1>b, <1>11 DEF usbi_add_pollfd, Inscrit, do_close, Desinscrit, op_close, FinClose, libusb_close, usbi_pollfd,
       locaux, peripheriques, fds, Va, EtapesPerte
  <2>1. Poignee(f)' <=> Poignee(f)
    BY <2>0 DEF Poignee
  <2> QED BY <1>t, <1>b, <1>1, <1>2, <1>3, <2>0, <2>1, ReferencesAucune
<1> QED BY <1>5, <1>6, <1>7, <1>8, <1>9, <1>10, <1>11 DEF Client

(* A thread that gives events_lock up, or that finds a device gone. *)
LEMMA ReferencesCommun ==
    ASSUME Appuis, NEW f \in Fils, Acteur(f), Commun(f)
    PROVE  References'
<1>t. /\ TypePc /\ TypeObjet /\ TypeFds /\ TypeListe /\ TypeEvenements /\ TypePeripheriques
      /\ VerrouTenu /\ HotplugTenu /\ MessagesJustes /\ References /\ ListesTenues
  BY DEF Appuis, TypeEvenements
<1>b. /\ pc \in [Fils -> Etapes] /\ UNCHANGED <<objet, liste, ouverts>>
  BY <1>t, CadreCommun DEF TypePc
<1>1. Ailleurs(f)
  BY <1>b DEF Ailleurs, Acteur
<1>r. f \notin R
  BY <1>t, Sortes DEF TypePc, EtapesR, Commun, Libere, Rend, Diffuse, Perdu, AnnonceDepart, Rendre, Apres
<1>2. \A d \in D : Retenu(d)' <=> Retenu(d)
  <2>1. f \in A => pc[f] # "message"
    BY DEF Commun, Libere, Rend, Diffuse, Perdu, AnnonceDepart, Rendre, Apres
  <2>2. f = Moniteur => pc[f] # "surveille"
    BY DEF Commun, Libere, Rend, Diffuse, Perdu, AnnonceDepart, Rendre, Apres
  <2> QED BY <1>t, <2>1, <2>2, RetenuPas DEF Message, Arrivee
<1>3. pc[f] \in EtapesPerte => objet[f] \in D
  BY <1>t, <1>r, Sortes DEF TypeObjet, EtapesPerte
<1>4. CASE Perdu(f) /\ objet[f] \in usb_devs
  <2>1. /\ pc[f] = "perdu" /\ pc'[f] = "depart" /\ linux_device_disconnected(f, objet[f]) /\ objet[f] \in D
        /\ refcnt' = [refcnt EXCEPT ![objet[f]] = @ + 1] /\ UNCHANGED detruits
    BY <1>b, <1>3, <1>4 DEF Perdu, Va, linux_device_disconnected, RefSession, EtapesPerte
  <2>2. refcnt' = [d \in D |-> IF d = objet[f] THEN refcnt[d] + 1 ELSE refcnt[d]]
    BY <1>t, <2>1 DEF TypePeripheriques
  <2>3. Poignee(f)' /\ Poignee(f)
    BY <2>1 DEF Poignee, EtapesPerte
  <2>4. ~Porte("session", f, objet[f]) /\ Porte("session", f, objet[f])'
    BY <1>b, <2>1, Porte4, Porte4Apres
  <2>5. Porte("contexte", Moniteur, objet[f])
    BY <1>4, <2>1, Porte4, Sortes DEF Retenu
  <2>6. \E k \in Genres, g \in Fils : Porte(k, g, objet[f])
    BY <2>5, Sortes DEF Genres
  <2> QED BY <1>t, <1>b, <1>1, <1>2, <2>1, <2>2, <2>3, <2>4, <2>6, ReferencesUne
<1>5. CASE Rendre(f)
  <2>1. pc[f] = "rendre" /\ pc'[f] = "apres" /\ libusb_unref_device({objet[f]}) /\ objet[f] \in D
    BY <1>b, <1>3, <1>5 DEF Rendre, Va, FinDisconnected, EtapesPerte
  <2>2. Poignee(f)' /\ Poignee(f)
    BY <2>1 DEF Poignee, EtapesPerte
  <2>3. Porte("session", f, objet[f]) /\ ~Porte("session", f, objet[f])'
    BY <1>b, <2>1, Porte4, Porte4Apres
  <2> QED BY <1>t, <1>b, <1>1, <1>2, <2>1, <2>2, <2>3, ReferencesUne
<1>6. CASE ~(Perdu(f) /\ objet[f] \in usb_devs) /\ ~Rendre(f)
  <2>1. UNCHANGED <<refcnt, detruits>>
    BY <1>6, CadreCommun DEF Perdu, peripheriques
  <2>2. CASE Diffuse(f)
    <3>1. pc[f] = "diffuse" /\ pc'[f] \in {"boucle", "desinscrit", "fin"}
      BY <1>t, <2>2, PasDiffuse
    <3>2. Poignee(f)' <=> Poignee(f)
      BY <1>b, <3>1 DEF Poignee, EtapesPerte
    <3> QED BY <1>t, <1>b, <1>1, <1>2, <2>1, <3>1, <3>2, ReferencesAucune
  <2>3. CASE Libere(f) \/ Rend(f)
    <3>1. pc[f] \in {"libere", "rend"} /\ pc'[f] \in {"rend", "diffuse"}
      BY <1>b, <2>3 DEF Libere, Rend, Va
    <3>2. Poignee(f)' <=> Poignee(f)
      BY <1>b, <3>1 DEF Poignee, EtapesPerte
    <3> QED BY <1>t, <1>b, <1>1, <1>2, <2>1, <3>1, <3>2, ReferencesAucune
  <2>4. CASE Perdu(f) /\ objet[f] \notin usb_devs
    <3>1. pc[f] = "perdu" /\ pc'[f] = "apres"
      BY <1>b, <2>4 DEF Perdu, Va
    <3>2. Poignee(f)' /\ Poignee(f)
      BY <3>1 DEF Poignee, EtapesPerte
    <3> QED BY <1>t, <1>b, <1>1, <1>2, <2>1, <3>1, <3>2, ReferencesAucune
  <2>5. CASE AnnonceDepart(f)
    <3>1. pc[f] = "depart" /\ pc'[f] = "rendre"
      BY <1>b, <2>5 DEF AnnonceDepart, Va
    <3>2. Poignee(f)' /\ Poignee(f)
      BY <3>1 DEF Poignee, EtapesPerte
    <3> QED BY <1>t, <1>b, <1>1, <1>2, <2>1, <3>1, <3>2, ReferencesAucune
  <2>6. CASE Apres(f)
    <3>1. pc[f] = "apres" /\ pc'[f] \in {"backend", "echec", "surveille"} /\ (f \in C => pc'[f] = "echec")
      BY <1>b, <2>6, Sortes DEF Apres, Va
    <3>2. f \in C => Poignee(f)' /\ Poignee(f)
      BY <3>1 DEF Poignee, EtapesPerte
    <3> QED BY <1>t, <1>b, <1>1, <1>2, <2>1, <3>1, <3>2, ReferencesAucune
  <2> QED BY <1>6, <2>2, <2>3, <2>4, <2>5, <2>6 DEF Commun
<1> QED BY <1>4, <1>5, <1>6

(* A registration. *)
LEMMA ReferencesInscription ==
    ASSUME Appuis, NEW f \in R, Acteur(f), Inscription(f)
    PROVE  References'
<1>t. /\ TypePc /\ TypeListe /\ TypeEvenements
      /\ VerrouTenu /\ HotplugTenu /\ MessagesJustes /\ References /\ ListesTenues
  BY DEF Appuis, TypeEvenements
<1>b. /\ liste \in [C \cup R -> SUBSET D] /\ UNCHANGED <<objet, ouverts>>
      /\ f \in Fils /\ f \notin A /\ f \notin C /\ f # Moniteur
      /\ pc[f] \in EtapesR /\ pc'[f] \in EtapesR
  BY <1>t, CadreInscription, PasInscription, Sortes DEF TypePc, TypeListe
<1>1. Ailleurs(f)
  <2>1. \A g \in C \cup R : g # f => liste'[g] = liste[g]
    BY <1>b, CadreInscription DEF Enumere, FinEnumere, libusb_get_device_list, libusb_free_device_list
  <2> QED BY <1>b, <2>1 DEF Ailleurs, Acteur
<1>2. \A d \in D : Retenu(d)' <=> Retenu(d)
  BY <1>t, <1>b, RetenuPas
<1>3. pc'[f] \notin {"depart", "rendre"} /\ pc[f] \notin {"depart", "rendre"}
  BY <1>b DEF EtapesR
<1>4. CASE Enumere(f)
  <2>1. liste' = [liste EXCEPT ![f] = usb_devs]
    BY <1>4 DEF Enumere, libusb_get_device_list
  <2>2. liste[f] = {} /\ liste'[f] = usb_devs /\ libusb_ref_device(usb_devs) /\ UNCHANGED detruits
    BY <1>b, <1>t, <1>4, <2>1 DEF Enumere, libusb_get_device_list, ListesTenues
  <2> QED BY <1>t, <1>b, <1>1, <1>2, <1>3, <2>2, ReferencesListe
<1>5. CASE FinEnumere(f)
  <2>1. liste' = [liste EXCEPT ![f] = {}] /\ libusb_unref_device(liste[f])
    BY <1>5 DEF FinEnumere, libusb_free_device_list
  <2>2. liste'[f] = {}
    BY <1>b, <2>1
  <2> QED BY <1>t, <1>b, <1>1, <1>2, <1>3, <2>1, <2>2, ReferencesListe
<1>6. CASE ~Enumere(f) /\ ~FinEnumere(f)
  <2>1. UNCHANGED <<refcnt, detruits, liste>>
    BY <1>6, CadreInscription
  <2> QED BY <1>t, <1>b, <1>1, <1>2, <1>3, <2>1, ReferencesAucune
<1> QED BY <1>4, <1>5, <1>6

(* The monitor: a device that comes has one reference. *)
LEMMA ReferencesSurveillance ==
    ASSUME Appuis, Acteur(Moniteur), Surveillance \/ Prise
    PROVE  References'
<1>t. /\ TypePc /\ TypeObjet /\ TypeEvenements /\ TypePeripheriques
      /\ VerrouTenu /\ HotplugTenu /\ MessagesJustes /\ References
  BY DEF Appuis, TypeEvenements
<1>b. /\ pc \in [Fils -> Etapes] /\ UNCHANGED <<liste, ouverts>> /\ objet \in [Fils -> D \cup {Personne}]
      /\ Moniteur \in Fils /\ Moniteur \notin A /\ Moniteur \notin C /\ Moniteur \notin R
  BY <1>t, CadreSurveillance, Sortes DEF TypePc, TypeObjet
<1>1. Ailleurs(Moniteur)
  <2>1. \A g \in Fils : g # Moniteur => objet'[g] = objet[g]
    BY <1>b, CadreSurveillance DEF Arrivee, Perte
  <2> QED BY <1>b, <2>1 DEF Ailleurs, Acteur
<1>3. \/ pc'[Moniteur] \notin {"depart", "rendre"} /\ pc[Moniteur] \notin {"depart", "rendre"}
      \/ UNCHANGED <<pc, objet>>
  BY <1>b DEF Surveillance, Arrivee, Perte, AnnonceArrivee, Prise, Va, locaux
<1>4. CASE \E d \in D : Arrivee(d)
  <2>1. PICK d0 \in D : Arrivee(d0)
    BY <1>4
  <2>2. \A d \in D : Retenu(d)' <=> Retenu(d) \/ (d = d0 /\ d \in usb_devs')
    BY <1>t, <2>1, NouvellesArrivee
  <2>3. refcnt[d0] = 0 /\ d0 \notin detruits /\ linux_enumerate_device(Moniteur, d0)
    BY <2>1 DEF Arrivee
  <2>4. Porteurs(d0) = {} /\ Juste(d0)
    BY <1>t, <2>3, FS_EmptySet DEF References, Juste
  <2>5. ASSUME NEW d \in D PROVE Juste(d)'
    <3>0. Juste(d) /\ "contexte" \in Genres
      BY <1>t DEF References, Genres
    <3>1. \A k \in Genres, g \in Fils : ~(k = "contexte" /\ g = Moniteur) => (Porte(k, g, d)' <=> Porte(k, g, d))
      BY <1>1, <1>3, <1>b, PorteSaufContexte
    <3>2. /\ Porte("contexte", Moniteur, d) <=> Retenu(d)
          /\ Porte("contexte", Moniteur, d)' <=> Retenu(d)'
      BY <1>b, Porte4, Porte4Apres
    <3>3. CASE d # d0
      <4>1. refcnt'[d] = refcnt[d] /\ (d \in detruits' => d \in detruits)
        BY <1>t, <2>3, <3>3 DEF linux_enumerate_device, TypePeripheriques
      <4>2. \A k \in Genres, g \in Fils : Porte(k, g, d)' <=> Porte(k, g, d)
        BY <2>2, <3>1, <3>2, <3>3
      <4> QED BY <3>0, <4>1, <4>2, PorteursEgaux
    <3>4. CASE d = d0
      <4>1. ~Retenu(d0)
        BY <2>3, <2>4, CompteContexte
      <4>2. CASE d0 \in usb_devs'
        <5>1. refcnt'[d] = refcnt[d] + 1 /\ d \notin detruits'
          BY <1>t, <2>3, <3>4, <4>1, <4>2 DEF linux_enumerate_device, TypePeripheriques, Retenu
        <5> QED BY <1>b, <2>2, <3>0, <3>1, <3>2, <3>4, <4>1, <4>2, <5>1, PorteurAjoute
      <4>3. CASE d0 \notin usb_devs'
        <5>1. refcnt' = refcnt
          BY <2>3, <4>3 DEF linux_enumerate_device
        <5>2. \A k \in Genres, g \in Fils : Porte(k, g, d)' <=> Porte(k, g, d)
          BY <2>2, <3>1, <3>2, <4>3, <3>4
        <5>3. Porteurs(d)' = Porteurs(d)
          BY <5>2 DEF Porteurs
        <5> QED BY <2>4, <3>4, <5>1, <5>3 DEF Juste
      <4> QED BY <4>2, <4>3
    <3> QED BY <3>3, <3>4
  <2> QED BY <2>5 DEF References
<1>5. CASE ~\E d \in D : Arrivee(d)
  <2>1. UNCHANGED <<refcnt, detruits>>
    BY <1>5, CadreSurveillance DEF AnnonceArrivee
  <2>2. \A d \in D : Retenu(d)' <=> Retenu(d)
    BY <1>t, <1>b, <1>5, RetenuPas
  <2> QED BY <1>t, <1>b, <1>1, <1>3, <2>1, <2>2, ReferencesAucune
<1> QED BY <1>4, <1>5

LEMMA ReferencesPas ==
    ASSUME Appuis, Next
    PROVE  References'
<1>1. PICK f \in Fils : Acteur(f)
  BY Immobile DEF Appuis, TypeEvenements
<1> QED BY <1>1, ReferencesAttente, ReferencesClient, ReferencesCommun, ReferencesInscription, ReferencesSurveillance
        DEF Acteur

-----------------------------------------------------------------------------
(* The news of a device for the callbacks: it is in a list that a callback *)
(* is about to be called with, in the monitor's hands, in the list of      *)
(* messages or in the hands of the thread that handles events.             *)
Nouvelle(r, d) ==
    \/ d \in annonces[r]
    \/ pc[r] = "rappelle" /\ d \in liste[r]
    \/ pc[Moniteur] = "arrive" /\ objet[Moniteur] = d
    \/ DansFile(Arrive(d)) \/ \E a \in A : EnMain(a, Arrive(d))

LEMMA NouvelleReste ==
    ASSUME TypeEvenements, VerrouTenu, HotplugTenu, Annonce, NEW f \in Fils, Acteur(f),
           NEW r \in R, NEW d \in D, Nouvelle(r, d), r \in hotplug_cbs
    PROVE  Nouvelle(r, d)' \/ pc'[r] = "enumere"
<1>t. TypePc /\ TypeObjet /\ TypeMessage /\ TypeListe /\ TypePendants
  BY DEF TypeEvenements
<1>b. /\ pc \in [Fils -> Etapes] /\ annonces \in [R -> SUBSET D] /\ r \in Fils
      /\ liste \in [C \cup R -> SUBSET D] /\ hotplug_msgs \in Seq(Messages)
  BY <1>t, Sortes DEF TypePc, TypeListe, TypePendants
<1>1. d \in annonces[r] => d \in annonces'[r]
  <2>1. CASE UNCHANGED annonces
    BY <2>1
  <2>2. CASE f \in A /\ Message(f)
    BY <1>b, <2>2 DEF Message
  <2>3. CASE f \in R /\ Rappelle(f)
    BY <1>b, <2>3 DEF Rappelle
  <2> QED BY <2>1, <2>2, <2>3, CadreAttente, CadreClient, CadreCommun, CadreInscription, CadreSurveillance
          DEF Acteur, Enregistre, Prise, rappels
<1>2. ASSUME d \in annonces[r] PROVE Nouvelle(r, d)'
  BY <1>1, <1>2 DEF Nouvelle
<1>3. ASSUME pc[r] = "rappelle", d \in liste[r] PROVE Nouvelle(r, d)'
  <2>1. CASE f # r
    <3>1. pc'[r] = pc[r]
      BY <1>b, <2>1, Sortes DEF Acteur
    <3>2. liste'[r] = liste[r]
      <4>1. liste' = liste \/ (f \in C \cup R /\ \E S : liste' = [liste EXCEPT ![f] = S])
        BY CadreAttente, CadreClient, CadreCommun, CadreInscription, CadreSurveillance
           DEF Acteur, Cherche, SansListe, Enumere, FinEnumere, libusb_get_device_list, libusb_free_device_list
      <4> QED BY <1>b, <2>1, <4>1
    <3> QED BY <1>3, <3>1, <3>2 DEF Nouvelle
  <2>2. CASE f = r
    <3>1. Rappelle(r)
      BY <1>3, <2>2, Sortes DEF Acteur, Inscription, Enregistre, Enumere, FinEnumere, Commun, Libere, Rend, Diffuse,
         Perdu, AnnonceDepart, Rendre, Apres
    <3>2. d \in annonces'[r]
      BY <1>3, <1>b, <3>1 DEF Rappelle
    <3> QED BY <3>2 DEF Nouvelle
  <2> QED BY <2>1, <2>2
<1>4. ASSUME pc[Moniteur] = "arrive", objet[Moniteur] = d PROVE Nouvelle(r, d)'
  <2>1. CASE f = Moniteur /\ AnnonceArrivee
    <3>1. hotplug_msgs' = Append(hotplug_msgs, Arrive(d))
      BY <1>4, <2>1 DEF AnnonceArrivee, usbi_hotplug_notification, Arrive
    <3>2. Len(hotplug_msgs) + 1 \in DOMAIN hotplug_msgs' /\ hotplug_msgs'[Len(hotplug_msgs) + 1] = Arrive(d)
      BY <1>b, <3>1, UnDePlus, Avis
    <3> QED BY <3>2 DEF Nouvelle, DansFile
  <2>2. CASE ~(f = Moniteur /\ AnnonceArrivee)
    <3>1. pc'[Moniteur] = pc[Moniteur] /\ objet'[Moniteur] = objet[Moniteur]
      <4>1. CASE f = Moniteur
        <5>1. Prise
          BY <1>4, <2>2, <4>1, Sortes DEF Acteur, Surveillance, Arrivee, Perte, Commun, Libere, Rend, Diffuse,
             Perdu, AnnonceDepart, Rendre, Apres
        <5> QED BY <5>1 DEF Prise, locaux
      <4>2. CASE f # Moniteur
        <5>1. pc'[Moniteur] = pc[Moniteur]
          BY <1>b, <4>2, Sortes DEF Acteur
        <5>2. \A g \in Fils : g # f => objet'[g] = objet[g]
          BY <1>t, CadreAttente, CadreClient, CadreCommun, CadreInscription, <4>2
             DEF Acteur, PollErr, Cherche, TypeObjet
        <5> QED BY <4>2, <5>1, <5>2, Sortes
      <4> QED BY <4>1, <4>2
    <3> QED BY <1>4, <3>1 DEF Nouvelle
  <2> QED BY <2>1, <2>2
<1>5. ASSUME DansFile(Arrive(d)) PROVE Nouvelle(r, d)'
  <2>0. PICK i \in DOMAIN hotplug_msgs : hotplug_msgs[i] = Arrive(d)
    BY <1>5 DEF DansFile
  <2>1. CASE f \in A /\ Tube(f)
    <3>1. /\ hotplug_msgs # <<>> /\ hotplug_msgs' = Tail(hotplug_msgs)
          /\ pc'[f] = "message" /\ message'[f] = Head(hotplug_msgs)
      BY <1>t, <1>b, <2>0, <2>1, Sortes DEF Tube, Va, TypeMessage
    <3>2. CASE i = 1
      BY <2>0, <2>1, <3>1, <3>2 DEF Nouvelle, EnMain
    <3>3. CASE i # 1
      <4>1. i - 1 \in DOMAIN hotplug_msgs' /\ hotplug_msgs'[i - 1] = Arrive(d)
        BY <1>b, <2>0, <3>1, <3>3
      <4> QED BY <4>1 DEF Nouvelle, DansFile
    <3> QED BY <3>2, <3>3
  <2>2. CASE UNCHANGED hotplug_msgs
    BY <2>0, <2>2 DEF Nouvelle, DansFile
  <2>3. CASE \E x : hotplug_msgs' = Append(hotplug_msgs, x)
    <3>1. i \in DOMAIN hotplug_msgs' /\ hotplug_msgs'[i] = Arrive(d)
      BY <1>b, <2>0, <2>3
    <3> QED BY <3>1 DEF Nouvelle, DansFile
  <2> QED BY <2>1, <2>2, <2>3, CadreAttente, CadreClient, CadreCommun, CadreInscription, CadreSurveillance
          DEF Acteur, Prepare, PollErr, usbi_pollfd, pendants, usbi_add_pollfd, op_close, FinClose, libusb_close,
              AnnonceDepart, AnnonceArrivee, usbi_hotplug_notification
<1>6. ASSUME NEW a \in A, EnMain(a, Arrive(d)) PROVE Nouvelle(r, d)'
  <2>0. pc[a] = "message" /\ message[a] = Arrive(d)
    BY <1>6 DEF EnMain
  <2>1. CASE f = a /\ Message(a)
    <3>1. annonces' = [s \in R |-> IF s \in hotplug_cbs THEN annonces[s] \cup {d} ELSE annonces[s]]
      BY <2>0, <2>1 DEF Message, Arrive
    <3> QED BY <1>b, <3>1 DEF Nouvelle
  <2>2. CASE f = a /\ ~Message(a)
    <3>1. UNCHANGED <<pc, message>>
      BY <2>0, <2>2, Sortes DEF Acteur, Attente, Boucle, Essaie, Tente, Active, Verifie, Prepare, Poll, Repoll, Tube,
         Reap, PollErr, FinBackend, Attend, Occupe, Reveil, Expire, Finit, locaux, Commun, Libere, Rend, Diffuse,
         Perdu, AnnonceDepart, Rendre, Apres
    <3> QED BY <2>0, <3>1 DEF Nouvelle, EnMain
  <2>3. CASE f # a
    <3>1. pc'[a] = pc[a]
      BY <2>0, <2>3, Sortes DEF Acteur
    <3>2. message'[a] = message[a]
      BY <1>t, <2>3, CadreAttente, CadreClient, CadreCommun, CadreInscription, CadreSurveillance
         DEF Acteur, Repoll, Tube, TypeMessage
    <3> QED BY <2>0, <3>1, <3>2 DEF Nouvelle, EnMain
  <2> QED BY <2>1, <2>2, <2>3
<1> QED BY <1>2, <1>3, <1>4, <1>5, <1>6 DEF Nouvelle

(* A registration goes on by its own steps only. *)
LEMMA PasDInscription ==
    ASSUME TypePc, NEW f \in Fils, Acteur(f), NEW r \in R
    PROVE  pc'[r] = pc[r] \/ (f = r /\ Inscription(r))
<1>1. r \in Fils /\ pc[r] \in EtapesR
  BY Sortes DEF TypePc
<1>2. CASE f = r
  <2>1. ~Commun(r)
    BY <1>1 DEF EtapesR, Commun, Libere, Rend, Diffuse, Perdu, AnnonceDepart, Rendre, Apres
  <2> QED BY <1>2, <2>1, Sortes DEF Acteur
<1>3. CASE f # r
  BY <1>1, <1>3, Sortes DEF Acteur
<1> QED BY <1>2, <1>3

(* A device comes to the list of devices in the monitor's hands. *)
LEMMA NouveauPeripherique ==
    ASSUME TypeEvenements, NEW f \in Fils, Acteur(f), NEW d \in usb_devs', d \notin usb_devs
    PROVE  pc'[Moniteur] = "arrive" /\ objet'[Moniteur] = d
<1>b. pc \in [Fils -> Etapes] /\ objet \in [Fils -> D \cup {Personne}] /\ Moniteur \in Fils
  BY Sortes DEF TypeEvenements, TypePc, TypeObjet
<1>1. \E e \in D : Arrivee(e)
  <2>1. CASE usb_devs' \subseteq usb_devs
    BY <2>1
  <2> QED BY <2>1, CadreAttente, CadreClient, CadreCommun, CadreInscription, CadreSurveillance
          DEF Acteur, Message, Cherche, libusb_open, Echec, SansListe, Close, Perdu, Rendre, Enumere, FinEnumere,
              AnnonceArrivee, libusb_get_device_list, libusb_free_device_list, linux_device_disconnected, FinDisconnected,
              peripheriques
<1>2. PICK e \in D : Arrivee(e)
  BY <1>1
<1>3. d = e
  BY <1>2 DEF Arrivee, linux_enumerate_device
<1> QED BY <1>2, <1>3, <1>b DEF Arrivee, Va

(* Where the news is. *)
LEMMA AnnoncePas ==
    ASSUME TypeEvenements, VerrouTenu, HotplugTenu, Annonce, Next
    PROVE  Annonce'
<1>t. TypePc /\ TypeListe
  BY DEF TypeEvenements
<1>0. PICK f \in Fils : Acteur(f)
  BY <1>t, Immobile
<1>b. pc \in [Fils -> Etapes] /\ liste \in [C \cup R -> SUBSET D] /\ usb_devs \subseteq D
  BY DEF TypeEvenements, TypePc, TypeListe, TypePeripheriques
<1>1. ASSUME NEW r \in R
      PROVE  /\ pc'[r] \in {"enumere", "rappelle", "sansliste"} => r \in hotplug_cbs'
             /\ pc'[r] = "enregistre" => r \notin hotplug_cbs'
             /\ r \in hotplug_cbs' /\ pc'[r] # "enumere" => \A d \in usb_devs' : Nouvelle(r, d)'
  <2>0. /\ pc[r] \in {"enumere", "rappelle", "sansliste"} => r \in hotplug_cbs
        /\ pc[r] = "enregistre" => r \notin hotplug_cbs
        /\ r \in hotplug_cbs /\ pc[r] # "enumere" => \A d \in usb_devs : Nouvelle(r, d)
        /\ r \in Fils /\ pc[r] \in EtapesR
    BY <1>t, Sortes DEF Annonce, Nouvelle, TypePc
  <2>p. pc'[r] = pc[r] \/ (f = r /\ Inscription(r))
    BY <1>0, <1>t, PasDInscription
  <2>c. hotplug_cbs' = hotplug_cbs \/ (f \in R /\ Enregistre(f))
    BY <1>0, CadreAttente, CadreClient, CadreCommun, CadreInscription, CadreSurveillance
       DEF Acteur, Message, Rappelle, Prise, rappels
  <2>s. /\ Enregistre(r) => pc[r] = "enregistre" /\ pc'[r] = "enumere" /\ r \in hotplug_cbs'
        /\ Enumere(r) => pc[r] = "enumere" /\ pc'[r] = "rappelle" /\ liste'[r] = usb_devs /\ usb_devs' = usb_devs
        /\ Rappelle(r) => pc[r] = "rappelle" /\ pc'[r] = "sansliste"
        /\ FinEnumere(r) => pc[r] = "sansliste" /\ pc'[r] = "fin"
    <3>1. Suite(r) => /\ pc[r] = "enregistre" => pc'[r] = "enumere"
                      /\ pc[r] = "enumere" => pc'[r] = "rappelle"
                      /\ pc[r] = "rappelle" => pc'[r] = "sansliste"
                      /\ pc[r] = "sansliste" => pc'[r] = "fin"
      BY <1>b, <2>0, SuiteDe DEF Va
    <3> QED BY <1>b, <3>1 DEF Enregistre, Enumere, Rappelle, FinEnumere, libusb_get_device_list
  <2>1. r \in hotplug_cbs => r \in hotplug_cbs'
    BY <2>c DEF Enregistre
  <2>2. r \in hotplug_cbs' /\ r \notin hotplug_cbs => pc'[r] = "enumere"
    BY <2>c, <2>s DEF Enregistre
  <2>3. pc'[r] \in {"enumere", "rappelle", "sansliste"} => r \in hotplug_cbs'
    BY <2>0, <2>1, <2>p, <2>s DEF Inscription
  <2>4. pc'[r] = "enregistre" => r \notin hotplug_cbs'
    BY <2>0, <2>2, <2>p, <2>s DEF Inscription
  <2>5. ASSUME r \in hotplug_cbs', pc'[r] # "enumere", NEW d \in usb_devs'
        PROVE  Nouvelle(r, d)'
    <3>1. r \in hotplug_cbs
      BY <2>2, <2>5
    <3>2. CASE d \notin usb_devs
      BY <1>0, <3>2, NouveauPeripherique DEF Nouvelle
    <3>3. CASE d \in usb_devs /\ pc[r] = "enumere"
      <4>1. Enumere(r)
        BY <2>5, <2>p, <2>s, <3>3 DEF Inscription
      <4> QED BY <2>s, <3>3, <4>1 DEF Nouvelle
    <3>4. CASE d \in usb_devs /\ pc[r] # "enumere"
      <4>1. Nouvelle(r, d) /\ d \in D
        BY <1>b, <2>0, <3>1, <3>4
      <4> QED BY <1>0, <2>5, <3>1, <4>1, NouvelleReste
    <3> QED BY <3>2, <3>3, <3>4
  <2> QED BY <2>3, <2>4, <2>5
<1> QED BY <1>1 DEF Annonce, Nouvelle

-----------------------------------------------------------------------------
(* Every layer holds at the start. *)
LEMMA AuDepart == ASSUME Init PROVE Inductif
<1> USE DEF Init, PeripheriquesInit
<1>p. PICK e \in Equipes : pc = [f \in Fils |-> IF f \in e THEN Depart(f) ELSE "fin"]
  OBVIOUS
<1>d. /\ \A a \in A : pc[a] \in {"boucle", "fin"}
      /\ \A c \in C : pc[c] \in {"liste", "fin"}
      /\ \A r \in R : pc[r] \in {"enregistre", "fin"}
      /\ pc[Moniteur] \in {"surveille", "fin"}
      /\ pc \in [Fils -> Etapes]
  <2>1. /\ \A a \in A : Depart(a) = "boucle"
        /\ \A c \in C : Depart(c) = "liste"
        /\ \A r \in R : Depart(r) = "enregistre"
        /\ Depart(Moniteur) = "surveille"
    BY Sortes DEF Depart, OrdreInscription
  <2>2. /\ \A a \in A : pc[a] \in {"boucle", "fin"}
        /\ \A c \in C : pc[c] \in {"liste", "fin"}
        /\ \A r \in R : pc[r] \in {"enregistre", "fin"}
        /\ pc[Moniteur] \in {"surveille", "fin"}
    BY <1>p, <2>1, Sortes
  <2>3. pc = [f \in Fils |-> pc[f]]
    BY <1>p
  <2>4. \A f \in Fils : pc[f] \in Etapes
    BY <2>2, Sortes DEF Etapes, EtapesA, EtapesC, EtapesR, EtapesM
  <2> QED BY <2>2, <2>3, <2>4
<1>1. TypeEvenements
  <2>1. TypePc
    BY <1>d DEF TypePc, EtapesA, EtapesC, EtapesR, EtapesM
  <2>2. TypePendants /\ TypePeripheriques
    <3>1. hotplug_msgs = <<>> /\ device_close = 0 /\ pollfds_modified = FALSE
      OBVIOUS
    <3>2. hotplug_msgs \in Seq(Messages) /\ device_close \in Int /\ pollfds_modified \in BOOLEAN
      <4> HIDE DEF Init, PeripheriquesInit
      <4>1. <<>> \in Seq(Messages)
        OBVIOUS
      <4>2. device_close \in Int
        BY <3>1
      <4> QED BY <3>1, <4>1, <4>2
    <3>4. TypePendants
      BY <3>2 DEF TypePendants
    <3>3. TypePeripheriques
      BY DEF TypePeripheriques
    <3> QED BY <3>3, <3>4
  <2>3. TypeFds
    BY <1>d DEF TypeFds
  <2>4. TypeObjet
    BY <1>d, Sortes DEF TypeObjet, EtapesPerte
  <2>5. TypeMessage
    BY <1>d DEF TypeMessage
  <2>6. TypeListe
    BY DEF TypeListe
  <2> QED BY <2>1, <2>2, <2>3, <2>4, <2>5, <2>6 DEF TypeEvenements
<1>2. VerrouTenu
  BY <1>d, Sortes DEF VerrouTenu, TientUn, TientDeux, EtapesTenues, EtapesPerte
<1>3. Compte
  <2>1. Fermants = {}
    BY <1>d DEF Fermants, Ferme, EtapesLibere
  <2> QED BY <2>1, FS_EmptySet DEF Compte
<1>4. TubeFidele
  BY DEF TubeFidele, Pendant, usbi_pending_events
<1>5. CopieFidele
  BY <1>d DEF CopieFidele
<1>6. HotplugTenu /\ ListesTenues
  BY <1>d, Sortes DEF HotplugTenu, ListesTenues
<1>m. /\ \A m : ~DansFile(m)
      /\ \A a \in A : \A m : ~EnMain(a, m)
      /\ \A f \in Fils, d \in D : ~Annoncant(f, d)
  <2>1. hotplug_msgs = <<>>
    OBVIOUS
  <2>2. DOMAIN hotplug_msgs = {}
    BY <2>1
  <2>3. \A m : ~DansFile(m)
    BY <2>2 DEF DansFile
  <2>4. \A a \in A : \A m : ~EnMain(a, m)
    BY <1>d DEF EnMain
  <2>5. \A f \in Fils, d \in D : ~Annoncant(f, d)
    BY <1>d, Sortes DEF Annoncant
  <2> QED BY <2>3, <2>4, <2>5
<1>7. MessagesJustes
  BY <1>m DEF MessagesJustes, UnDepart, ArriveAvant
<1>8. References
  <2>1. ASSUME NEW d \in D PROVE Juste(d)
    <3>1. Retenu(d) <=> d \in usb_devs
      BY <1>m DEF Retenu
    <3>2. ASSUME NEW k \in Genres, NEW f \in Fils, Porte(k, f, d)
          PROVE  k = "contexte" /\ f = Moniteur /\ d \in usb_devs
      BY <1>d, <3>1, <3>2, Sortes DEF Porte, Poignee, EtapesPerte
    <3>3. CASE d \in usb_devs
      <4>1. Porteurs(d) = {<<"contexte", Moniteur>>}
        BY <3>1, <3>2, <3>3, Sortes DEF Porteurs, Porte, Genres
      <4> QED BY <3>3, <4>1, FS_Singleton DEF Juste
    <3>4. CASE d \notin usb_devs
      <4>1. Porteurs(d) = {}
        BY <3>2, <3>4 DEF Porteurs
      <4> QED BY <3>4, <4>1, FS_EmptySet DEF Juste
    <3> QED BY <3>3, <3>4
  <2> QED BY <2>1 DEF References
<1>9. Annonce
  BY <1>d DEF Annonce
<1> QED BY <1>1, <1>2, <1>3, <1>4, <1>5, <1>6, <1>7, <1>8, <1>9 DEF Inductif

-----------------------------------------------------------------------------
(* Every step keeps every layer. *)
LEMMA Etape == ASSUME Inductif, [Next]_vars PROVE Inductif'
<1>1. CASE Next
  <2>1. TypeEvenements /\ VerrouTenu /\ Compte /\ TubeFidele /\ CopieFidele
        /\ HotplugTenu /\ ListesTenues /\ MessagesJustes /\ References /\ Annonce
    BY DEF Inductif
  <2>2. Appuis
    BY <2>1 DEF Appuis
  <2>3. TypeEvenements'
    BY <2>1, TypePas
  <2>4. VerrouTenu'
    BY <1>1, <2>1, VerrouPas
  <2>5. Compte'
    BY <1>1, <2>1, ComptePas
  <2>6. TubeFidele'
    BY <1>1, <2>1, TubePas
  <2>7. CopieFidele'
    BY <1>1, <2>1, CopiePas
  <2>8. HotplugTenu'
    BY <1>1, <2>1, HotplugPas
  <2>9. ListesTenues'
    BY <1>1, <2>1, ListesPas
  <2>10. MessagesJustes'
    BY <1>1, <2>1, MessagesPas
  <2>11. References'
    BY <1>1, <2>2, ReferencesPas
  <2>12. Annonce'
    BY <1>1, <2>1, AnnoncePas
  <2> QED BY <2>3, <2>4, <2>5, <2>6, <2>7, <2>8, <2>9, <2>10, <2>11, <2>12 DEF Inductif
<1>2. CASE UNCHANGED vars
  <2> USE <1>2 DEF vars, pendants, fds, verrous, transferts, rappels, locaux, peripheriques
  <2>1. TypeEvenements' = TypeEvenements
    BY DEF TypeEvenements, TypePc, TypePendants, TypeFds, TypeObjet, TypeMessage, TypeListe, TypePeripheriques
  <2>2. VerrouTenu' = VerrouTenu /\ TubeFidele' = TubeFidele /\ CopieFidele' = CopieFidele
    BY DEF VerrouTenu, TientUn, TientDeux, TubeFidele, Pendant, usbi_pending_events, CopieFidele
  <2>3. Compte' = Compte
    BY DEF Compte, Fermants, Ferme
  <2>4. HotplugTenu' = HotplugTenu /\ ListesTenues' = ListesTenues
    BY DEF HotplugTenu, ListesTenues
  <2>5. MessagesJustes' = MessagesJustes
    BY DEF MessagesJustes, UnDepart, ArriveAvant, Annoncant, DansFile, EnMain
  <2>6. References' = References
    BY DEF References, Juste, Porteurs, Porte, Poignee, Retenu, Annoncant, DansFile, EnMain
  <2>7. Annonce' = Annonce
    BY DEF Annonce, DansFile, EnMain
  <2> QED BY <2>1, <2>2, <2>3, <2>4, <2>5, <2>6, <2>7 DEF Inductif
<1> QED BY <1>1, <1>2

(* The inductive invariant holds in every state: the types, who has        *)
(* events_lock, the count of handles that are being closed, the event      *)
(* pipe, the copy of the descriptors, linux_hotplug_lock, the device       *)
(* lists, the order of the messages, the references to every device and    *)
(* the news of every arrival.                                              *)
THEOREM InvariantEvenements == Spec => []Inductif
<1>1. Init => Inductif
  BY AuDepart
<1>2. Inductif /\ [Next]_vars => Inductif'
  BY Etape
<1> QED BY <1>1, <1>2, PTL DEF Spec

(* A thread polls descriptors that are open, and the event pipe holds a    *)
(* byte exactly when an event is pending, for any number of threads that   *)
(* handle events, open and close devices and call back.                    *)
THEOREM TubeEtPollCorrect == Spec => []TubeEtPoll
<1>1. Inductif => TubeEtPoll
  BY DEF Inductif, TubeEtPoll, PollValide, CopieFidele
<1> QED BY <1>1, InvariantEvenements, PTL

(* No thread holds a device object that has been freed, whatever the order *)
(* of arrivals, departures, enumerations, openings and closings: the       *)
(* references of a device are exactly those of its holders, and the        *)
(* message that tells of its departure comes last.                         *)
THEOREM PeripheriqueVivantCorrect == Spec => []PeripheriqueVivant
<1>1. Inductif => PeripheriqueVivant
  <2> SUFFICES ASSUME Inductif, NEW d \in detruits
               PROVE  /\ d \notin usb_devs
                      /\ \A i \in DOMAIN hotplug_msgs : hotplug_msgs[i].device # d
                      /\ \A a \in A : pc[a] = "message" => message[a].device # d
                      /\ \A f \in C \cup R : d \notin liste[f]
                      /\ \A c \in ouverts : objet[c] # d
                      /\ \A f \in Fils : pc[f] \in {"depart", "rendre", "op_open", "echec"} => objet[f] # d
    BY DEF PeripheriqueVivant
  <2>1. /\ d \in D /\ Juste(d) /\ MessagesJustes
        /\ hotplug_msgs \in Seq(Messages) /\ ouverts \subseteq C
        /\ \A a \in A : pc[a] = "message" => message[a] \in Messages
        /\ \A a \in A : pc[a] \in EtapesA
        /\ \A r \in R : pc[r] \in EtapesR
        /\ pc[Moniteur] \in EtapesM
    BY DEF Inductif, References, TypeEvenements, TypePeripheriques, TypePendants, TypeMessage, TypeFds, TypePc
  <2>2. ~Retenu(d)
    BY <2>1, CompteContexte
  <2>3. \A k \in Genres, f \in Fils : ~Porte(k, f, d)
    BY <2>1, Compte0
  <2>4. /\ \A i \in DOMAIN hotplug_msgs : hotplug_msgs[i] # Parti(d) /\ hotplug_msgs[i] # Arrive(d)
        /\ \A a \in A : ~EnMain(a, Parti(d)) /\ ~EnMain(a, Arrive(d))
    BY <2>1, <2>2 DEF Retenu, DansFile, MessagesJustes, ArriveAvant
  <2>5. \A m \in Messages : m.device = d => m = Parti(d) \/ m = Arrive(d)
    BY DEF Messages, Parti, Arrive
  <2>6. \A i \in DOMAIN hotplug_msgs : hotplug_msgs[i].device # d
    BY <2>1, <2>4, <2>5
  <2>7. \A a \in A : pc[a] = "message" => message[a].device # d
    BY <2>1, <2>4, <2>5 DEF EnMain
  <2>8. \A f \in C \cup R : d \notin liste[f]
    <3>1. \A f \in C \cup R : d \in liste[f] => Porte("liste", f, d)
      BY DEF Porte
    <3> QED BY <2>3, <3>1, Sortes DEF Genres
  <2>9. \A c \in C : Poignee(c) => objet[c] # d
    <3>1. \A c \in C : Poignee(c) /\ objet[c] = d => Porte("poignee", c, d)
      BY DEF Porte
    <3> QED BY <2>3, <3>1, Sortes DEF Genres
  <2>10. \A f \in Fils : pc[f] \in {"depart", "rendre"} => objet[f] # d
    <3>1. \A f \in Fils : pc[f] \in {"depart", "rendre"} /\ objet[f] = d => Porte("session", f, d)
      BY DEF Porte
    <3> QED BY <2>3, <3>1 DEF Genres
  <2>11. \A f \in Fils : pc[f] \in {"op_open", "echec"} => f \in C
    BY <2>1, Sortes DEF EtapesA, EtapesR, EtapesM, EtapesPerte, EtapesLibere
  <2>12. \A f \in Fils : pc[f] \in {"depart", "rendre", "op_open", "echec"} => objet[f] # d
    BY <2>9, <2>10, <2>11 DEF Poignee
  <2>13. \A c \in ouverts : objet[c] # d
    BY <2>1, <2>9 DEF Poignee
  <2> QED BY <2>2, <2>6, <2>7, <2>8, <2>12, <2>13 DEF Retenu
<1> QED BY <1>1, InvariantEvenements, PTL

(* A callback registered with the flag ENUMERATE misses no device,         *)
(* whenever the device came: it has been called for it, or a message that  *)
(* tells of it is on its way.                                              *)
THEOREM ArriveeAnnonceeCorrecte == Spec => []ArriveeAnnoncee
<1>1. Inductif => ArriveeAnnoncee
  <2> SUFFICES ASSUME Inductif, NEW r \in R, pc[r] = "fin", r \in hotplug_cbs, NEW d \in usb_devs,
                      d \notin annonces[r], ~(pc[Moniteur] = "arrive" /\ objet[Moniteur] = d)
               PROVE  \E m \in {hotplug_msgs[i] : i \in DOMAIN hotplug_msgs} \cup {message[a] : a \in {b \in A : pc[b] = "message"}} :
                          m = [event |-> "ARRIVED", device |-> d]
    BY DEF ArriveeAnnoncee
  <2>1. DansFile(Arrive(d)) \/ \E a \in A : EnMain(a, Arrive(d))
    BY DEF Inductif, Annonce
  <2> QED BY <2>1 DEF DansFile, EnMain, Arrive
<1> QED BY <1>1, InvariantEvenements, PTL

=============================================================================
