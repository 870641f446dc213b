--------------------------- MODULE ContextesPreuves ---------------------------
(***************************************************************************)
(* Proofs about the two components that MCMateriel instantiates twice, to  *)
(* be instantiated as often: the contexts of libusb and their monitor      *)
(* (Contextes), for any contexts and parts of the program, and any tree of *)
(* devices, and the pipes of Darwin (DarwinPipes).  Their invariants       *)
(* (Inductif) are stated in these modules.                                 *)
(***************************************************************************)
EXTENDS Contextes, FiniteSetTheorems, TLAPS

CONSTANTS FDarwin, HDarwin, NIDarwin, TuyauxDe, InterruptionDarwin, TTuyaux, DeTuyaux, NCDarwin
VARIABLES v1, v2, v3, v4, v5, v6, v7, v8, v9, v10, v11, v12, v13, v14, v15, v16, v17, v18, v19, v20

Pipe == INSTANCE DarwinPipes WITH
    F <- FDarwin, H <- HDarwin, Ensemble <- FALSE, NI <- NIDarwin, Tuyaux <- TuyauxDe,
    Interruption <- InterruptionDarwin, T <- TTuyaux, De <- DeTuyaux, NC <- NCDarwin, Rien
    <- Rien, open_count <- v1, seize <- v2, sources <- v3, poignee <- v4, is_open <- v5,
    cfSource <- v6, configuration <- v7, active_config <- v8, alt <- v9, tenant <- v10,
    claimed_interfaces <- v11, interface <- v12, pc <- v13, de <- v14, etat <- v15, tuyau
    <- v16, resultat <- v17, annule <- v18, expire <- v19, demande <- v20

-----------------------------------------------------------------------------
(* What the proofs need of the constants. *)
LEMMA ContextesConstantes ==
    ASSUME Hypotheses
    PROVE  /\ Moniteur \notin F /\ Moniteur \in Fils /\ Fils = F \cup {Moniteur} /\ Rien \notin X /\ Rien \notin Fils
           /\ "default" \in Verrous /\ "startstop" \in Verrous /\ "hotplug" \in Verrous /\ "active" \in Verrous
BY DEF Hypotheses, Fils, Verrous

Compte(f) == pc[f] \in Vives \cup {"io", "tube", "retire", "sort"}

(* The contexts that are counted are those of a part of the program that is *)
(* between the start of the monitor and its own exit. *)
LEMMA ContextesComptes == \A x : x \in Comptes <=> \E f \in F : Compte(f) /\ ctx[f] = x
BY DEF Comptes, Compte

(* No thread, no context. *)
LEMMA ContextesDepart == ASSUME Hypotheses, Init PROVE Inductif
<1> USE ContextesConstantes DEF Init
<1>1. TypeContextes
  <2>1. /\ pc \in [Fils -> EtapesMoniteur \cup Vives \cup Creation \cup Fin \cup {"dehors"}]
        /\ pc[Moniteur] \in EtapesMoniteur /\ \A f \in F : pc[f] \in Vives \cup Creation \cup Fin \cup {"dehors"}
    BY DEF EtapesMoniteur
  <2>2. verrou \in [Verrous -> Fils \cup {Rien}] /\ controle \in BOOLEAN /\ ctx \in [F -> X \cup {Rien}]
    OBVIOUS
  <2>3. tube \in [X -> {"calloc", "sans", "vide", "octet"}] /\ pendants \in [X -> BOOLEAN] /\ tropTot \in [X -> BOOLEAN]
    OBVIOUS
  <2>4. usbi_default_context \in X \cup {Rien} /\ default_context_refcnt \in Int /\ active_contexts_list \in SUBSET X /\ init_count \in Int
    OBVIOUS
  <2> QED BY <2>1, <2>2, <2>3, <2>4 DEF TypeContextes
<1>2. ASSUME NEW f \in F PROVE pc[f] = "dehors" /\ ctx[f] = Rien /\ verrou["default"] = Rien /\ verrou["startstop"] = Rien
  OBVIOUS
<1>3. ASSUME NEW f \in F PROVE Verrouille(f) /\ Possede(f) /\ \A g \in F \ {f} : Partage(f, g)
  BY <1>2 DEF Verrouille, Possede, Partage, Creation, Bascule, EnListe, Vives
<1>4. ParDefaut
  <2>1. Usagers = {}
    BY DEF Usagers
  <2> QED BY <2>1, FS_EmptySet DEF ParDefaut
<1>5. Surveillance
  <2>1. Comptes = {}
    BY <1>2 DEF Comptes, Vives
  <2>2. pc[Moniteur] = "absent" /\ ~controle /\ init_count = 0
    OBVIOUS
  <2>3. \A f \in F : pc[f] = "dehors"
    BY <1>2
  <2> QED BY <2>1, <2>2, <2>3, FS_EmptySet DEF Surveillance, Bascule
<1>6. ASSUME NEW x \in X PROVE Tuyau(x)
  BY DEF Tuyau
<1> QED BY <1>1, <1>3, <1>4, <1>5, <1>6 DEF Inductif

-----------------------------------------------------------------------------
(* The users of the default context do not change. *)
LEMMA UsagersCadre ==
    ASSUME ParDefaut, default_context_refcnt' = default_context_refcnt,
           usbi_default_context' = usbi_default_context, \A g \in F : ctx'[g] = ctx[g]
    PROVE  ParDefaut'
<1>1. Usagers' = Usagers
  BY DEF Usagers
<1> QED BY <1>1 DEF ParDefaut

(* The contexts that are counted do not change. *)
LEMMA ComptesCadre ==
    ASSUME \A g \in F : (Compte(g)' <=> Compte(g)) /\ (Compte(g) => ctx'[g] = ctx[g])
    PROVE  Comptes' = Comptes
<1>1. \A x : x \in Comptes' <=> \E f \in F : Compte(f)' /\ ctx'[f] = x
  BY DEF Comptes, Compte
<1>2. \A x : x \in Comptes' <=> x \in Comptes
  BY <1>1, ContextesComptes
<1> QED BY <1>2

(* A pending event has its byte, and no event is pending without a list.   *)
Message(x) ==
    /\ pendants[x] /\ ~tropTot[x] => tube[x] = "octet"
    /\ tube[x] = "calloc" => ~pendants[x]

Semblables(a, b) == a = b \/ (a \in Vives /\ b \in Vives) \/ (a = "demarre" /\ b = "cherche")

(* A step in which every part of the program stays where it is, or between *)
(* the calls of a context in use, or in the start of the monitor.          *)
LEMMA ContextesCadre ==
    ASSUME Hypotheses, Inductif, TypeContextes', UNCHANGED <<ctx, globales, controle>>,
           verrou'["default"] = verrou["default"], verrou'["startstop"] = verrou["startstop"],
           \A f \in F : Semblables(pc[f], pc'[f]),
           \/ pc'[Moniteur] = pc[Moniteur]
           \/ pc[Moniteur] # "absent" /\ pc'[Moniteur] \notin {"absent", "termine"}
           \/ pc[Moniteur] # "absent" /\ pc'[Moniteur] = "termine" /\ controle,
           \A x \in X : Message(x)' /\ (tube'[x] = "calloc" <=> tube[x] = "calloc") /\ (tube[x] = "sans" => tube'[x] = "sans")
    PROVE  Inductif'
<1> USE ContextesConstantes DEF globales, Semblables
<1>1. ASSUME NEW f \in F
      PROVE  /\ pc'[f] \in Vives <=> pc[f] \in Vives
             /\ \A e \in {"ajoute", "backend", "io", "tube", "echec", "retire", "sort", "joint", "dehors"} : pc'[f] = e <=> pc[f] = e
             /\ pc'[f] \in {"demarre", "cherche"} <=> pc[f] \in {"demarre", "cherche"}
  BY DEF Vives
<1>2. ASSUME NEW f \in F PROVE Verrouille(f)'
  <2>1. Verrouille(f)
    BY DEF Inductif
  <2> QED BY <1>1, <2>1 DEF Verrouille, Creation, Bascule
<1>3. ASSUME NEW f \in F PROVE Possede(f)'
  <2>1. Possede(f)
    BY DEF Inductif
  <2>2. ctx[f] \in X \/ pc[f] = "dehors"
    BY <2>1 DEF Possede, Inductif, TypeContextes
  <2> QED BY <1>1, <2>1, <2>2 DEF Possede, EnListe
<1>4. ASSUME NEW f \in F, NEW g \in F \ {f} PROVE Partage(f, g)'
  BY <1>1 DEF Inductif, Partage
<1>5. ParDefaut'
  BY UsagersCadre DEF Inductif
<1>6. Comptes' = Comptes
  BY <1>1, ComptesCadre DEF Compte
<1>7. Surveillance'
  <2>1. Surveillance
    BY DEF Inductif
  <2>2. \A f \in F : (pc'[f] \in Bascule <=> pc[f] \in Bascule) /\ (pc'[f] = "joint" <=> pc[f] = "joint")
    BY <1>1 DEF Bascule
  <2> QED BY <1>6, <2>1, <2>2 DEF Surveillance
<1>8. ASSUME NEW x \in X PROVE Tuyau(x)'
  <2>1. Tuyau(x)
    BY DEF Inductif
  <2>2. \A f \in F : Equipe(f)' <=> Equipe(f)
    BY <1>1 DEF Equipe
  <2> QED BY <2>1, <2>2 DEF Tuyau, Message
<1> QED BY <1>2, <1>3, <1>4, <1>5, <1>7, <1>8 DEF Inductif

(* usbi_hotplug_notification. *)
LEMMA NotifieTuyau ==
    ASSUME TypeContextes, \A y \in X : Tuyau(y), NEW x, Notifie(x)
    PROVE  /\ tube' \in [X -> {"calloc", "sans", "vide", "octet"}]
           /\ pendants' \in [X -> BOOLEAN] /\ tropTot' \in [X -> BOOLEAN]
           /\ \A y \in X : /\ Message(y)'
                           /\ tube'[y] = "calloc" <=> tube[y] = "calloc"
                           /\ tube[y] = "sans" => tube'[y] = "sans"
<1>1. /\ tube' \in [X -> {"calloc", "sans", "vide", "octet"}]
      /\ pendants' \in [X -> BOOLEAN] /\ tropTot' \in [X -> BOOLEAN]
  BY DEF TypeContextes, Notifie, Pret
<1>2. ASSUME NEW y \in X, y # x PROVE tube'[y] = tube[y] /\ pendants'[y] = pendants[y] /\ tropTot'[y] = tropTot[y]
  BY <1>2 DEF TypeContextes, Notifie
<1>3. ASSUME x \in X
      PROVE  /\ pendants'[x] = (pendants[x] \/ tube[x] # "calloc")
             /\ tube'[x] = IF ~pendants[x] /\ tube[x] = "vide" THEN "octet" ELSE tube[x]
             /\ tropTot'[x] = (tropTot[x] \/ tube[x] = "sans")
  BY <1>3 DEF TypeContextes, Notifie, Pret
<1>4. ASSUME NEW y \in X
      PROVE  /\ Message(y)'
             /\ tube'[y] = "calloc" <=> tube[y] = "calloc"
             /\ tube[y] = "sans" => tube'[y] = "sans"
  <2>1. Tuyau(y) /\ tube[y] \in {"calloc", "sans", "vide", "octet"}
    BY DEF TypeContextes
  <2>2. CASE y # x
    BY <1>2, <2>1, <2>2 DEF Tuyau, Message
  <2>3. CASE y = x
    BY <1>3, <2>1, <2>3 DEF Tuyau, Message
  <2> QED BY <2>2, <2>3
<1> QED BY <1>1, <1>4

-----------------------------------------------------------------------------
(* The steps that leave the contexts where they are. *)
LEMMA ImmobilePreserve ==
    ASSUME Hypotheses, Inductif, UNCHANGED <<ctx, globales, controle, verrou, pc, tube, pendants, tropTot>>
    PROVE  Inductif'
<1>1. TypeContextes'
  BY DEF Inductif, TypeContextes, globales
<1>2. \A f \in F : Semblables(pc[f], pc'[f])
  BY DEF Semblables
<1>3. \A x \in X : Message(x)' /\ (tube'[x] = "calloc" <=> tube[x] = "calloc") /\ (tube[x] = "sans" => tube'[x] = "sans")
  BY DEF Inductif, Tuyau, Message
<1> QED BY <1>1, <1>2, <1>3, ContextesCadre

(* A device comes or goes, or a message does; a scan goes on. *)
LEMMA PrisesPreserve ==
    ASSUME Hypotheses, Inductif,
           \/ \E s \in S : Branche(s) \/ Debranche(s)
           \/ AutreMessage
           \/ \E f \in Fils : Enumere(f) \/ linux_get_parent_info(f) \/ Arrivee(f)
           \/ \E f \in F : Cherche(f)
    PROVE  Inductif'
<1>1. UNCHANGED <<ctx, globales, controle, verrou, pc, tube, pendants, tropTot>>
  BY DEF Branche, Debranche, AutreMessage, Reste, Enumere, linux_get_parent_info, Arrivee, Cherche, locaux, listes
<1> QED BY <1>1, ImmobilePreserve

(* A device goes to a list or leaves it: its context may be told. *)
LEMMA ListePreserve ==
    ASSUME Hypotheses, Inductif, NEW f \in Fils, usbi_connect_device(f) \/ Depart(f)
    PROVE  Inductif'
<1>1. UNCHANGED <<ctx, globales, controle, verrou, pc>>
  BY DEF usbi_connect_device, Depart
<1>2. (\E x : Notifie(x)) \/ UNCHANGED <<tube, pendants, tropTot>>
  BY DEF usbi_connect_device, Depart, listes
<1>3. CASE UNCHANGED <<tube, pendants, tropTot>>
  BY <1>1, <1>3, ImmobilePreserve
<1>4. ASSUME NEW x, Notifie(x) PROVE Inductif'
  <2>1. /\ tube' \in [X -> {"calloc", "sans", "vide", "octet"}]
        /\ pendants' \in [X -> BOOLEAN] /\ tropTot' \in [X -> BOOLEAN]
        /\ \A y \in X : /\ Message(y)'
                        /\ tube'[y] = "calloc" <=> tube[y] = "calloc"
                        /\ tube[y] = "sans" => tube'[y] = "sans"
    BY <1>4, NotifieTuyau DEF Inductif
  <2>2. TypeContextes'
    BY <1>1, <2>1 DEF Inductif, TypeContextes, globales
  <2>3. \A g \in F : Semblables(pc[g], pc'[g])
    BY <1>1 DEF Semblables
  <2> QED BY <1>1, <2>1, <2>2, <2>3, ContextesCadre
<1> QED BY <1>2, <1>3, <1>4

(* A step from one place to a similar one, with or without the locks of    *)
(* the hotplug and of the list of contexts. *)
LEMMA DeplacePreserve ==
    ASSUME Hypotheses, Inductif, NEW f \in Fils, NEW e, Va(f, e), UNCHANGED <<ctx, globales, controle, tube, pendants, tropTot>>,
           verrou' \in [Verrous -> Fils \cup {Rien}],
           verrou'["default"] = verrou["default"], verrou'["startstop"] = verrou["startstop"],
           IF f = Moniteur
           THEN /\ pc[f] # "absent" /\ e \in EtapesMoniteur \ {"absent"}
                /\ e = "termine" => controle
           ELSE (pc[f] \in Vives /\ e \in Vives) \/ (pc[f] = "demarre" /\ e = "cherche")
    PROVE  Inductif'
<1> USE ContextesConstantes
<1>1. pc'[f] = e /\ (\A g \in Fils : g # f => pc'[g] = pc[g])
      /\ pc' \in [Fils -> EtapesMoniteur \cup Vives \cup Creation \cup Fin \cup {"dehors"}]
  <2>1. e \in EtapesMoniteur \cup Vives \cup Creation
    BY DEF Creation
  <2>2. pc \in [Fils -> EtapesMoniteur \cup Vives \cup Creation \cup Fin \cup {"dehors"}]
    BY DEF Inductif, TypeContextes
  <2> QED BY <2>1, <2>2 DEF Va
<1>2. pc'[Moniteur] \in EtapesMoniteur /\ \A g \in F : pc'[g] \in Vives \cup Creation \cup Fin \cup {"dehors"}
  <2>1. pc[Moniteur] \in EtapesMoniteur /\ \A g \in F : pc[g] \in Vives \cup Creation \cup Fin \cup {"dehors"}
    BY DEF Inductif, TypeContextes
  <2>2. f # Moniteur => e \in Vives \cup Creation
    BY DEF Creation
  <2> QED BY <1>1, <2>1, <2>2
<1>3. TypeContextes'
  BY <1>1, <1>2 DEF Inductif, TypeContextes, globales
<1>4. \A g \in F : Semblables(pc[g], pc'[g])
  BY <1>1 DEF Semblables
<1>5. \/ pc'[Moniteur] = pc[Moniteur]
      \/ pc[Moniteur] # "absent" /\ pc'[Moniteur] \notin {"absent", "termine"}
      \/ pc[Moniteur] # "absent" /\ pc'[Moniteur] = "termine" /\ controle
  BY <1>1
<1>6. \A x \in X : Message(x)' /\ (tube'[x] = "calloc" <=> tube[x] = "calloc") /\ (tube[x] = "sans" => tube'[x] = "sans")
  BY DEF Inductif, Tuyau, Message
<1> QED BY <1>3, <1>4, <1>5, <1>6, ContextesCadre

(* The locks of the hotplug and of the list are taken and given back. *)
LEMMA VerrousCadre ==
    ASSUME Hypotheses, TypeContextes, NEW f \in Fils,
           \/ UNCHANGED verrou
           \/ \E l \in {"hotplug", "active"} : Prend(f, l) \/ verrou' = [verrou EXCEPT ![l] = f]
           \/ \E ls \in SUBSET {"hotplug", "active"} : Rend(ls)
    PROVE  /\ verrou' \in [Verrous -> Fils \cup {Rien}]
           /\ verrou'["default"] = verrou["default"] /\ verrou'["startstop"] = verrou["startstop"]
<1>1. verrou \in [Verrous -> Fils \cup {Rien}]
  BY DEF TypeContextes
<1>2. CASE \E l \in {"hotplug", "active"} : Prend(f, l) \/ verrou' = [verrou EXCEPT ![l] = f]
  BY <1>1, <1>2, ContextesConstantes DEF Prend
<1>3. CASE \E ls \in SUBSET {"hotplug", "active"} : Rend(ls)
  BY <1>1, <1>3, ContextesConstantes DEF Rend, Verrous
<1> QED BY <1>1, <1>2, <1>3

(* A call of a context in use goes on, or the monitor does. *)
LEMMA AppelsPreserve ==
    ASSUME Hypotheses, Inductif,
           \/ \E f \in F : \/ linux_scan_devices(f) \/ libusb_get_device_list(f) \/ op_hotplug_poll(f)
                           \/ Copie(f)
           \/ Reveille \/ Lit
    PROVE  Inductif'
<1> USE ContextesConstantes DEF Vives
<1>0. TypeContextes
  BY DEF Inductif
<1>1. ASSUME NEW f \in F, linux_scan_devices(f) PROVE Inductif'
  <2>1. Prend(f, "hotplug") /\ Va(f, "cherche") /\ pc[f] = "demarre"
        /\ UNCHANGED <<ctx, globales, controle, tube, pendants, tropTot>>
    BY <1>1 DEF linux_scan_devices, listes
  <2> QED BY <1>0, <2>1, VerrousCadre, DeplacePreserve
<1>2. ASSUME NEW f \in F, libusb_get_device_list(f) PROVE Inductif'
  <2>1. Va(f, "sonde") /\ pc[f] = "vit" /\ UNCHANGED <<ctx, globales, controle, tube, pendants, tropTot, verrou>>
    BY <1>2 DEF libusb_get_device_list, listes
  <2> QED BY <1>0, <2>1, VerrousCadre, DeplacePreserve
<1>3. ASSUME NEW f \in F, op_hotplug_poll(f) PROVE Inductif'
  <2>1. pc[f] = "sonde" /\ UNCHANGED <<ctx, globales, controle, tube, pendants, tropTot>>
    BY <1>3 DEF op_hotplug_poll, listes
  <2>2. CASE Va(f, "copie") /\ Rend({"hotplug"})
    BY <1>0, <2>1, <2>2, VerrousCadre, DeplacePreserve
  <2>3. CASE verrou' = [verrou EXCEPT !["hotplug"] = f] /\ (UNCHANGED pc \/ Va(f, "diffuse"))
    <3>1. UNCHANGED pc => Va(f, "sonde")
      BY <1>0, <2>1 DEF TypeContextes, Va
    <3> QED BY <1>0, <2>1, <2>3, <3>1, VerrousCadre, DeplacePreserve
  <2> QED BY <1>3, <2>2, <2>3 DEF op_hotplug_poll
<1>4. ASSUME NEW f \in F, Copie(f) PROVE Inductif'
  <2>1. Va(f, "vit") /\ pc[f] = "copie" /\ UNCHANGED <<ctx, globales, controle, tube, pendants, tropTot, verrou>>
    BY <1>4 DEF Copie, listes
  <2> QED BY <1>0, <2>1, VerrousCadre, DeplacePreserve
<1>5. ASSUME Reveille PROVE Inductif'
  <2>1. pc[Moniteur] = "attend" /\ UNCHANGED <<ctx, globales, controle, tube, pendants, tropTot, verrou>>
        /\ ((controle /\ Va(Moniteur, "termine")) \/ Va(Moniteur, "reveille"))
    BY <1>5 DEF Reveille, listes, locaux
  <2> QED BY <1>0, <2>1, VerrousCadre, DeplacePreserve DEF EtapesMoniteur
<1>6. ASSUME Lit PROVE Inductif'
  <2>1. /\ pc[Moniteur] = "reveille" /\ UNCHANGED <<ctx, globales, controle, tube, pendants, tropTot>>
        /\ \/ Va(Moniteur, "attend") /\ UNCHANGED verrou
           \/ Va(Moniteur, "diffuse") /\ Prend(Moniteur, "hotplug")
    BY <1>6 DEF Lit, listes
  <2> QED BY <1>0, <2>1, VerrousCadre, DeplacePreserve DEF EtapesMoniteur
<1> QED BY <1>1, <1>2, <1>3, <1>4, <1>5, <1>6

(* An event is given to the contexts of the list. *)
LEMMA DiffusePreserve ==
    ASSUME Hypotheses, Inductif, NEW f \in Fils, Diffuse(f) \/ FinDiffuse(f)
    PROVE  Inductif'
<1> USE ContextesConstantes DEF Vives
<1>0. TypeContextes
  BY DEF Inductif
<1>1. CASE Diffuse(f)
  <2>1. pc[f] = "diffuse" /\ Va(f, "donne") /\ Prend(f, "active") /\ UNCHANGED <<ctx, globales, controle, tube, pendants, tropTot>>
    BY <1>1 DEF Diffuse, listes
  <2> QED BY <1>0, <2>1, VerrousCadre, DeplacePreserve DEF EtapesMoniteur
<1>2. CASE FinDiffuse(f)
  <2>1. pc[f] = "donne" /\ UNCHANGED <<ctx, globales, controle, tube, pendants, tropTot>>
        /\ IF f = Moniteur THEN Rend({"active", "hotplug"}) /\ Va(f, "attend") ELSE Rend({"active"}) /\ Va(f, "sonde")
    BY <1>2 DEF FinDiffuse, listes
  <2> QED BY <1>0, <2>1, VerrousCadre, DeplacePreserve DEF EtapesMoniteur
<1> QED BY <1>1, <1>2

(* Pending events are handled. *)
LEMMA TraitePreserve == ASSUME Hypotheses, Inductif, NEW f \in F, Traite(f) PROVE Inductif'
<1> USE ContextesConstantes
<1> DEFINE x == ctx[f]
<1>1. /\ tube[x] = "octet" /\ UNCHANGED <<ctx, globales, controle, verrou, pc, tropTot>>
      /\ tube' = [tube EXCEPT ![x] = "vide"] /\ pendants' = [pendants EXCEPT ![x] = FALSE]
  BY DEF Traite, locaux
<1>2. TypeContextes'
  BY <1>1 DEF Inductif, TypeContextes, globales
<1>3. ASSUME NEW y \in X
      PROVE  Message(y)' /\ (tube'[y] = "calloc" <=> tube[y] = "calloc") /\ (tube[y] = "sans" => tube'[y] = "sans")
  <2>1. Tuyau(y) /\ tube \in [X -> {"calloc", "sans", "vide", "octet"}] /\ pendants \in [X -> BOOLEAN]
    BY DEF Inductif, TypeContextes
  <2>2. CASE y = x
    BY <1>1, <2>1, <2>2 DEF Message
  <2>3. CASE y # x
    BY <1>1, <2>1, <2>3 DEF Tuyau, Message
  <2> QED BY <2>2, <2>3
<1>4. \A g \in F : Semblables(pc[g], pc'[g])
  BY <1>1 DEF Semblables
<1> QED BY <1>1, <1>2, <1>3, <1>4, ContextesCadre

-----------------------------------------------------------------------------
(* A part of the program that is neither outside nor in a call of a        *)
(* context in use has its context for itself. *)
LEMMA ContexteSeul ==
    ASSUME Hypotheses, Inductif, NEW f \in F, pc[f] \notin Vives, pc[f] # "dehors"
    PROVE  ctx[f] \in X /\ \A g \in F : g # f => ctx[g] # ctx[f]
<1>1. ctx[f] # Rien /\ ctx[f] \in X
  BY DEF Inductif, Possede, TypeContextes
<1>2. ASSUME NEW g \in F, g # f PROVE ctx[g] # ctx[f]
  BY <1>1, <1>2 DEF Inductif, Partage
<1> QED BY <1>1, <1>2

(* A step of a part of the program on the context that it has for itself.  *)
LEMMA SeulPreserve ==
    ASSUME Hypotheses, Inductif, TypeContextes', NEW f \in F, NEW c \in X, ctx[f] = c, ctx'[f] \in {c, Rien},
           \A g \in F : g # f => ctx[g] # c /\ pc'[g] = pc[g] /\ ctx'[g] = ctx[g],
           usbi_default_context' = usbi_default_context
               \/ (usbi_default_context = c /\ usbi_default_context' = Rien),
           \A x \in active_contexts_list : x # c => x \in active_contexts_list',
           \A l \in {"default", "startstop"} :
               verrou'[l] = verrou[l] \/ (verrou[l] \in {f, Rien} /\ verrou'[l] \in {f, Rien}),
           Verrouille(f)', Possede(f)', ParDefaut', Surveillance', Tuyau(c)',
           \A x \in X : x # c => tube'[x] = tube[x] /\ pendants'[x] = pendants[x] /\ tropTot'[x] = tropTot[x]
    PROVE  Inductif'
<1> USE ContextesConstantes
<1>1. ASSUME NEW g \in F, g # f PROVE Verrouille(g)' /\ Possede(g)'
  <2>1. Verrouille(g) /\ Possede(g) /\ ctx[g] \in X \cup {Rien} /\ g # Rien
    BY DEF Inductif, TypeContextes, Fils
  <2>2. \A l \in {"default", "startstop"} : verrou'[l] = g <=> verrou[l] = g
    BY <1>1, <2>1
  <2>3. Verrouille(g)'
    BY <1>1, <2>1, <2>2 DEF Verrouille
  <2>4. Possede(g)'
    BY <1>1, <2>1, <2>2 DEF Possede, EnListe, Vives
  <2> QED BY <2>3, <2>4
<1>2. ASSUME NEW g \in F, NEW h \in F \ {g} PROVE Partage(g, h)'
  <2>1. CASE g = f \/ h = f
    BY <1>2, <2>1 DEF Partage
  <2>2. CASE g # f /\ h # f
    <3>1. Partage(g, h)
      BY DEF Inductif
    <3> QED BY <1>2, <2>2, <3>1 DEF Partage
  <2> QED BY <2>1, <2>2
<1>3. ASSUME NEW x \in X, x # c PROVE Tuyau(x)'
  <2>1. Tuyau(x)
    BY DEF Inductif
  <2>2. ASSUME NEW g \in F, ctx[g] = x, Equipe(g) PROVE ctx'[g] = x /\ Equipe(g)'
    BY <1>3, <2>2 DEF Equipe, Fils
  <2> QED BY <1>3, <2>1, <2>2 DEF Tuyau
<1>4. \A g \in F : Verrouille(g)' /\ Possede(g)'
  BY <1>1
<1>5. \A g \in F : \A h \in F \ {g} : Partage(g, h)'
  BY <1>2
<1>6. \A x \in X : Tuyau(x)'
  BY <1>3
<1> QED BY <1>4, <1>5, <1>6 DEF Inductif

(* One context more is counted. *)
LEMMA ComptesPlus ==
    ASSUME IsFiniteSet(Comptes), NEW f \in F, ~Compte(f), Compte(f)', ctx'[f] = ctx[f],
           \A g \in F : g # f => ctx[g] # ctx[f] /\ pc'[g] = pc[g] /\ ctx'[g] = ctx[g]
    PROVE  IsFiniteSet(Comptes') /\ Cardinality(Comptes') = Cardinality(Comptes) + 1 /\ Cardinality(Comptes) \in Nat
<1>1. \A x : x \in Comptes' <=> \E g \in F : Compte(g)' /\ ctx'[g] = x
  BY DEF Comptes, Compte
<1>2. \A g \in F : g # f => (Compte(g)' <=> Compte(g))
  BY DEF Compte
<1>3. Comptes' = Comptes \cup {ctx[f]} /\ ctx[f] \notin Comptes
  BY <1>1, <1>2, ContextesComptes
<1> QED BY <1>3, FS_AddElement, FS_CardinalityType

(* One context less is counted. *)
LEMMA ComptesMoins ==
    ASSUME IsFiniteSet(Comptes), NEW f \in F, Compte(f), ~Compte(f)',
           \A g \in F : g # f => ctx[g] # ctx[f] /\ pc'[g] = pc[g] /\ ctx'[g] = ctx[g]
    PROVE  IsFiniteSet(Comptes') /\ Cardinality(Comptes') = Cardinality(Comptes) - 1 /\ Cardinality(Comptes') \in Nat
<1>1. \A x : x \in Comptes' <=> \E g \in F : Compte(g)' /\ ctx'[g] = x
  BY DEF Comptes, Compte
<1>2. \A g \in F : g # f => (Compte(g)' <=> Compte(g))
  BY DEF Compte
<1>3. Comptes' = Comptes \ {ctx[f]} /\ ctx[f] \in Comptes
  BY <1>1, <1>2, ContextesComptes
<1> QED BY <1>3, FS_RemoveElement, FS_CardinalityType

(* A step that neither starts nor stops the monitor, nor changes who is    *)
(* counted. *)
LEMMA SurveillanceCadre ==
    ASSUME Inductif, NEW f \in F, UNCHANGED <<init_count, controle>>, pc'[Moniteur] = pc[Moniteur],
           Compte(f)' <=> Compte(f), Compte(f) => ctx'[f] = ctx[f],
           pc[f] # "joint", pc'[f] # "joint", pc'[f] \in Bascule => pc[f] \in Bascule,
           \A g \in F : g # f => pc'[g] = pc[g] /\ ctx'[g] = ctx[g]
    PROVE  Surveillance'
<1>1. Comptes' = Comptes
  BY ComptesCadre DEF Compte
<1>2. Surveillance
  BY DEF Inductif
<1> QED BY <1>1, <1>2 DEF Surveillance

(* The types, when a part of the program steps. *)
LEMMA EtapeType ==
    ASSUME Hypotheses, TypeContextes, NEW f \in F, NEW e \in Vives \cup Creation \cup Fin \cup {"dehors"},
           pc' = [pc EXCEPT ![f] = e], NEW c \in X \cup {Rien}, ctx' = [ctx EXCEPT ![f] = c],
           usbi_default_context' \in X \cup {Rien}, default_context_refcnt' \in Int,
           active_contexts_list' \in SUBSET X, init_count' \in Int,
           tube' \in [X -> {"calloc", "sans", "vide", "octet"}],
           pendants' \in [X -> BOOLEAN], tropTot' \in [X -> BOOLEAN],
           verrou' \in [Verrous -> Fils \cup {Rien}], controle' \in BOOLEAN
    PROVE  /\ TypeContextes'
           /\ pc'[f] = e /\ ctx'[f] = c /\ pc'[Moniteur] = pc[Moniteur]
           /\ \A g \in F : g # f => pc'[g] = pc[g] /\ ctx'[g] = ctx[g]
<1> USE ContextesConstantes
<1>1. pc' \in [Fils -> EtapesMoniteur \cup Vives \cup Creation \cup Fin \cup {"dehors"}]
  BY DEF TypeContextes
<1>2. /\ pc'[f] = e /\ pc'[Moniteur] = pc[Moniteur]
      /\ \A g \in F : g # f => pc'[g] = pc[g]
  BY DEF TypeContextes
<1>3. /\ ctx' \in [F -> X \cup {Rien}] /\ ctx'[f] = c
      /\ \A g \in F : g # f => ctx'[g] = ctx[g]
  BY DEF TypeContextes
<1>4. pc'[Moniteur] \in EtapesMoniteur /\ \A g \in F : pc'[g] \in Vives \cup Creation \cup Fin \cup {"dehors"}
  BY <1>2 DEF TypeContextes
<1> QED BY <1>1, <1>2, <1>3, <1>4 DEF TypeContextes

(* The list of messages of a context, when its only owner steps. *)
LEMMA TuyauSeul ==
    ASSUME Inductif, NEW f \in F, NEW c \in X, ctx[f] = c, \A g \in F : g # f => ctx[g] # c
    PROVE  Tuyau(c) /\ (tube[c] # "calloc" => Equipe(f))
BY DEF Inductif, Tuyau

(* It stays right if it does not change and its owner keeps the context. *)
LEMMA TuyauCadre ==
    ASSUME Inductif, NEW f \in F, NEW c \in X, ctx[f] = c, \A g \in F : g # f => ctx[g] # c,
           tube'[c] = tube[c], pendants'[c] = pendants[c], tropTot'[c] = tropTot[c],
           Equipe(f) => ctx'[f] = c /\ Equipe(f)'
    PROVE  Tuyau(c)'
BY TuyauSeul DEF Tuyau

(* The context is added to the list. *)
LEMMA AjoutePreserve == ASSUME Hypotheses, Inductif, NEW f \in F, Ajoute(f) PROVE Inductif'
<1> USE ContextesConstantes
<1>1. /\ pc[f] = "ajoute" /\ pc' = [pc EXCEPT ![f] = "backend"]
      /\ active_contexts_list' = active_contexts_list \cup {ctx[f]}
      /\ UNCHANGED <<usbi_default_context, default_context_refcnt, init_count, verrou, controle, ctx, tube, pendants, tropTot>>
  BY DEF Ajoute, Va, listes, locaux
<1>2. PICK c \in X : ctx[f] = c /\ \A g \in F : g # f => ctx[g] # c
  BY <1>1, ContexteSeul DEF Vives
<1>3. TypeContextes /\ ctx' = [ctx EXCEPT ![f] = c]
  BY <1>1, <1>2 DEF Inductif, TypeContextes
<1>4. TypeContextes' /\ pc'[f] = "backend" /\ ctx'[f] = c /\ pc'[Moniteur] = pc[Moniteur]
      /\ \A g \in F : g # f => pc'[g] = pc[g] /\ ctx'[g] = ctx[g]
  <2>1. "backend" \in Vives \cup Creation \cup Fin \cup {"dehors"} /\ active_contexts_list' \in SUBSET X
    BY <1>1, <1>2, <1>3 DEF Creation, TypeContextes
  <2> QED BY <1>1, <1>3, <2>1, EtapeType DEF TypeContextes
<1>5. Verrouille(f)' /\ Possede(f)'
  <2>1. Verrouille(f) /\ Possede(f)
    BY DEF Inductif
  <2>2. c \in active_contexts_list'
    BY <1>1, <1>2
  <2> QED BY <1>1, <1>2, <1>4, <2>1, <2>2 DEF Verrouille, Possede, Creation, Bascule, EnListe, Vives
<1>6. ParDefaut'
  BY <1>1, UsagersCadre DEF Inductif
<1>7. Surveillance'
  BY <1>1, <1>4, SurveillanceCadre DEF Compte, Vives, Bascule
<1>8. Tuyau(c)'
  BY <1>1, <1>2, <1>4, TuyauCadre DEF Equipe, Vives
<1> QED BY <1>1, <1>2, <1>4, <1>5, <1>6, <1>7, <1>8, SeulPreserve

VaEtMet(f, e, m) == pc' = [pc EXCEPT ![f] = e, ![Moniteur] = m]

(* The types, when the monitor is started or joined by a part of the       *)
(* program. *)
LEMMA BasculeType ==
    ASSUME Hypotheses, TypeContextes, NEW f \in F, NEW e \in Vives \cup Creation \cup Fin \cup {"dehors"}, NEW m \in EtapesMoniteur,
           VaEtMet(f, e, m), NEW c \in X \cup {Rien}, ctx' = [ctx EXCEPT ![f] = c],
           UNCHANGED <<globales, tube, pendants, tropTot>>,
           verrou' \in [Verrous -> Fils \cup {Rien}], controle' \in BOOLEAN
    PROVE  /\ TypeContextes'
           /\ pc'[f] = e /\ ctx'[f] = c
           /\ \A g \in F : g # f => pc'[g] = pc[g] /\ ctx'[g] = ctx[g]
<1> USE ContextesConstantes
<1>1. pc' \in [Fils -> EtapesMoniteur \cup Vives \cup Creation \cup Fin \cup {"dehors"}]
  BY DEF TypeContextes, VaEtMet
<1>2. /\ pc'[f] = e /\ pc'[Moniteur] = m
      /\ \A g \in F : g # f => pc'[g] = pc[g]
  BY DEF TypeContextes, VaEtMet
<1>3. /\ ctx' \in [F -> X \cup {Rien}] /\ ctx'[f] = c
      /\ \A g \in F : g # f => ctx'[g] = ctx[g]
  BY DEF TypeContextes
<1>4. pc'[Moniteur] \in EtapesMoniteur /\ \A g \in F : pc'[g] \in Vives \cup Creation \cup Fin \cup {"dehors"}
  BY <1>2 DEF TypeContextes
<1> QED BY <1>1, <1>2, <1>3, <1>4 DEF TypeContextes, globales

(* Nobody starts or stops the monitor while the lock is free: nobody joins *)
(* it, and nothing has told it to stop. *)
LEMMA SansBascule ==
    ASSUME Hypotheses, Inductif, Libre("startstop")
    PROVE  (\A g \in F : pc[g] \notin Bascule) /\ ~controle /\ pc[Moniteur] # "termine"
<1>1. ASSUME NEW g \in F PROVE pc[g] \notin Bascule /\ pc[g] # "joint"
  BY ContextesConstantes DEF Inductif, Verrouille, Libre, Bascule, Fils
<1> QED BY <1>1 DEF Inductif, Surveillance

(* op_init: the first context starts the monitor. *)
LEMMA OpInitPreserve == ASSUME Hypotheses, Inductif, NEW f \in F, op_init(f) PROVE Inductif'
<1> USE ContextesConstantes
<1>1. /\ pc[f] = "backend" /\ Libre("startstop")
      /\ UNCHANGED <<globales, controle, ctx, tube, pendants, tropTot>>
  BY DEF op_init, locaux
<1>2. PICK c \in X : ctx[f] = c /\ \A g \in F : g # f => ctx[g] # c
  BY <1>1, ContexteSeul DEF Vives
<1>3. TypeContextes /\ ctx' = [ctx EXCEPT ![f] = c] /\ Verrouille(f) /\ Possede(f)
  BY <1>1, <1>2 DEF Inductif, TypeContextes
<1>4. ParDefaut'
  BY <1>1, UsagersCadre DEF Inductif, globales
<1>5. CASE Va(f, "echec") /\ UNCHANGED verrou
  <2>1. TypeContextes' /\ pc'[f] = "echec" /\ ctx'[f] = c /\ pc'[Moniteur] = pc[Moniteur]
        /\ \A g \in F : g # f => pc'[g] = pc[g] /\ ctx'[g] = ctx[g]
    <3>1. "echec" \in Vives \cup Creation \cup Fin \cup {"dehors"} /\ pc' = [pc EXCEPT ![f] = "echec"]
      BY <1>5 DEF Creation, Va
    <3> QED BY <1>1, <1>3, <1>5, <3>1, EtapeType DEF TypeContextes, globales
  <2>2. Verrouille(f)' /\ Possede(f)'
    BY <1>1, <1>2, <1>3, <1>5, <2>1 DEF Verrouille, Possede, Creation, Bascule, EnListe, Vives, globales
  <2>3. Surveillance'
    BY <1>1, <2>1, SurveillanceCadre DEF Compte, Vives, Bascule, globales
  <2>4. Tuyau(c)'
    BY <1>1, <1>2, <1>3, <2>1, TuyauCadre DEF Equipe, Vives
  <2> QED BY <1>1, <1>2, <1>4, <1>5, <2>1, <2>2, <2>3, <2>4, SeulPreserve DEF globales
<1>6. CASE /\ Prend(f, "startstop")
           /\ pc' = [pc EXCEPT ![f] = "demarre", ![Moniteur] = IF init_count = 0 THEN "attend" ELSE @]
  <2>0. PICK m \in EtapesMoniteur : m = (IF init_count = 0 THEN "attend" ELSE pc[Moniteur]) /\ VaEtMet(f, "demarre", m)
    BY <1>3, <1>6 DEF VaEtMet, EtapesMoniteur, TypeContextes
  <2>1. verrou' \in [Verrous -> Fils \cup {Rien}] /\ verrou["startstop"] = Rien /\ verrou'["startstop"] = f
        /\ verrou'["default"] = verrou["default"]
    BY <1>3, <1>6 DEF TypeContextes, Prend, Libre
  <2>2. TypeContextes' /\ pc'[f] = "demarre" /\ ctx'[f] = c /\ pc'[Moniteur] = m
        /\ \A g \in F : g # f => pc'[g] = pc[g] /\ ctx'[g] = ctx[g]
    <3>1. "demarre" \in Vives \cup Creation \cup Fin \cup {"dehors"} /\ controle' \in BOOLEAN
      BY <1>1, <1>3 DEF Creation, TypeContextes
    <3>2. UNCHANGED <<globales, tube, pendants, tropTot>> /\ c \in X \cup {Rien}
      BY <1>1
    <3>3. VaEtMet(f, "demarre", m) /\ ctx' = [ctx EXCEPT ![f] = c] /\ m \in EtapesMoniteur /\ TypeContextes
          /\ verrou' \in [Verrous -> Fils \cup {Rien}] /\ controle' \in BOOLEAN
      BY <1>3, <2>0, <2>1, <3>1
    <3>4. TypeContextes' /\ ctx'[f] = c
      BY <3>1, <3>2, <3>3, BasculeType
    <3>5. pc'[f] = "demarre"
      BY <3>1, <3>2, <3>3, BasculeType
    <3>7. pc'[Moniteur] = m
      BY <3>3 DEF VaEtMet, TypeContextes
    <3>6. \A g \in F : g # f => pc'[g] = pc[g] /\ ctx'[g] = ctx[g]
      BY <3>1, <3>2, <3>3, BasculeType
    <3> QED BY <3>4, <3>5, <3>6, <3>7
  <2>3. Verrouille(f)' /\ Possede(f)'
    BY <1>1, <1>2, <1>3, <2>1, <2>2 DEF Verrouille, Possede, Creation, Bascule, EnListe, Vives, globales
  <2>4. Surveillance'
    <3>1. Comptes' = Comptes
      BY <1>1, <2>2, ComptesCadre DEF Compte, Vives
    <3>2. (\A g \in F : pc[g] \notin Bascule) /\ ~controle /\ pc[Moniteur] # "termine" /\ Surveillance
      BY <1>1, SansBascule DEF Inductif
    <3>3. \A g \in F : pc'[g] # "joint"
      BY <2>2, <3>2 DEF Bascule
    <3>4. m # "absent" /\ m # "termine"
      BY <2>0, <3>2 DEF Surveillance
    <3> QED BY <1>1, <2>2, <3>1, <3>2, <3>3, <3>4 DEF Surveillance, globales
  <2>5. Tuyau(c)'
    BY <1>1, <1>2, <1>3, <2>2, TuyauCadre DEF Equipe, Vives
  <2> QED BY <1>1, <1>2, <1>4, <2>1, <2>2, <2>3, <2>4, <2>5, SeulPreserve DEF globales
<1> QED BY <1>5, <1>6 DEF op_init

(* While a part of the program starts or stops the monitor, it does it     *)
(* alone. *)
LEMMA BasculeSeule ==
    ASSUME Hypotheses, Inductif, NEW f \in F, pc[f] \in Bascule
    PROVE  verrou["startstop"] = f /\ pc[Moniteur] # "absent"
           /\ \A g \in F : g # f => pc[g] \notin Bascule
<1>1. verrou["startstop"] = f /\ \A g \in F : pc[g] \in Bascule => verrou["startstop"] = g
  BY DEF Inductif, Verrouille
<1>2. pc[Moniteur] # "absent"
  BY DEF Inductif, Surveillance
<1> QED BY <1>1, <1>2

(* Locks are given back. *)
LEMMA RendType ==
    ASSUME Hypotheses, TypeContextes, NEW ls \in SUBSET Verrous, Rend(ls)
    PROVE  /\ verrou' \in [Verrous -> Fils \cup {Rien}]
           /\ \A l \in Verrous : verrou'[l] = IF l \in ls THEN Rien ELSE verrou[l]
BY DEF TypeContextes, Rend

(* A scan ends, with or without a device. *)
LEMMA FinCherchePreserve == ASSUME Hypotheses, Inductif, NEW f \in F, FinCherche(f) PROVE Inductif'
<1> USE ContextesConstantes
<1>1. /\ pc[f] = "cherche"
      /\ UNCHANGED <<usbi_default_context, default_context_refcnt, active_contexts_list, ctx, tube, pendants, tropTot>>
  BY DEF FinCherche, listes
<1>2. PICK c \in X : ctx[f] = c /\ \A g \in F : g # f => ctx[g] # c
  BY <1>1, ContexteSeul DEF Vives
<1>3. TypeContextes /\ ctx' = [ctx EXCEPT ![f] = c] /\ Verrouille(f) /\ Possede(f) /\ Surveillance
  BY <1>1, <1>2 DEF Inductif, TypeContextes
<1>4. ParDefaut'
  BY <1>1, UsagersCadre DEF Inductif
<1>5. verrou["startstop"] = f /\ verrou["default"] = f /\ pc[Moniteur] # "absent"
      /\ \A g \in F : g # f => pc[g] \notin Bascule /\ pc[g] # "joint"
  BY <1>1, <1>3, BasculeSeule DEF Bascule, Creation, Verrouille
<1>6. ASSUME NEW e \in {"io", "joint", "echec"}, Va(f, e), init_count' \in Int, controle' \in BOOLEAN,
             verrou' \in [Verrous -> Fils \cup {Rien}],
             verrou'["default"] = f, verrou'["startstop"] = IF e = "joint" THEN f ELSE Rien
      PROVE  /\ TypeContextes' /\ pc'[f] = e /\ ctx'[f] = c /\ pc'[Moniteur] = pc[Moniteur]
             /\ \A g \in F : g # f => pc'[g] = pc[g] /\ ctx'[g] = ctx[g]
             /\ Surveillance' => Inductif'
  <2>1. /\ TypeContextes' /\ pc'[f] = e /\ ctx'[f] = c /\ pc'[Moniteur] = pc[Moniteur]
        /\ \A g \in F : g # f => pc'[g] = pc[g] /\ ctx'[g] = ctx[g]
    <3>1. e \in Vives \cup Creation \cup Fin \cup {"dehors"} /\ pc' = [pc EXCEPT ![f] = e]
      BY <1>6 DEF Creation, Fin, Va
    <3> QED BY <1>1, <1>3, <1>6, <3>1, EtapeType DEF TypeContextes
  <2>2. Verrouille(f)' /\ Possede(f)'
    BY <1>1, <1>2, <1>3, <1>6, <2>1 DEF Verrouille, Possede, Creation, Bascule, EnListe, Vives
  <2>3. Tuyau(c)'
    BY <1>1, <1>2, <1>3, <2>1, TuyauCadre DEF Equipe, Vives
  <2>4. \A l \in {"default", "startstop"} : verrou[l] \in {f, Rien} /\ verrou'[l] \in {f, Rien}
    BY <1>5, <1>6
  <2> QED BY <1>1, <1>2, <1>4, <2>1, <2>2, <2>3, <2>4, SeulPreserve
<1>7. CASE init_count' = init_count + 1 /\ Rend({"hotplug", "startstop"}) /\ Va(f, "io") /\ UNCHANGED controle
  <2>1. /\ verrou' \in [Verrous -> Fils \cup {Rien}]
        /\ verrou'["default"] = f /\ verrou'["startstop"] = Rien
    BY <1>3, <1>5, <1>7, RendType
  <2>2. /\ TypeContextes' /\ pc'[f] = "io" /\ ctx'[f] = c /\ pc'[Moniteur] = pc[Moniteur]
        /\ \A g \in F : g # f => pc'[g] = pc[g] /\ ctx'[g] = ctx[g]
        /\ Surveillance' => Inductif'
    BY <1>3, <1>6, <1>7, <2>1 DEF TypeContextes
  <2>3. /\ IsFiniteSet(Comptes') /\ Cardinality(Comptes') = Cardinality(Comptes) + 1
    BY <1>1, <1>2, <1>3, <2>2, ComptesPlus DEF Compte, Vives, Surveillance
  <2>4. ~controle /\ pc[Moniteur] # "termine"
    BY <1>1, <1>3, <1>5 DEF Surveillance
  <2>5. \A g \in F : pc'[g] # "joint"
    BY <1>5, <2>2
  <2>6. Surveillance'
    BY <1>3, <1>5, <1>7, <2>2, <2>3, <2>4, <2>5 DEF Surveillance
  <2> QED BY <2>2, <2>6
<1>8. CASE init_count = 0 /\ controle' = TRUE /\ Rend({"hotplug"}) /\ Va(f, "joint") /\ UNCHANGED init_count
  <2>1. /\ verrou' \in [Verrous -> Fils \cup {Rien}]
        /\ verrou'["default"] = f /\ verrou'["startstop"] = f
    BY <1>3, <1>5, <1>8, RendType
  <2>2. /\ TypeContextes' /\ pc'[f] = "joint" /\ ctx'[f] = c /\ pc'[Moniteur] = pc[Moniteur]
        /\ \A g \in F : g # f => pc'[g] = pc[g] /\ ctx'[g] = ctx[g]
        /\ Surveillance' => Inductif'
    BY <1>3, <1>6, <1>8, <2>1 DEF TypeContextes
  <2>3. Comptes' = Comptes
    BY <1>1, <1>2, <2>2, ComptesCadre DEF Compte, Vives
  <2>4. Surveillance'
    BY <1>3, <1>5, <1>8, <2>2, <2>3 DEF Surveillance
  <2> QED BY <2>2, <2>4
<1>9. CASE Rend({"hotplug", "startstop"}) /\ Va(f, "echec") /\ UNCHANGED <<init_count, controle>>
  <2>1. /\ verrou' \in [Verrous -> Fils \cup {Rien}]
        /\ verrou'["default"] = f /\ verrou'["startstop"] = Rien
    BY <1>3, <1>5, <1>9, RendType
  <2>2. /\ TypeContextes' /\ pc'[f] = "echec" /\ ctx'[f] = c /\ pc'[Moniteur] = pc[Moniteur]
        /\ \A g \in F : g # f => pc'[g] = pc[g] /\ ctx'[g] = ctx[g]
        /\ Surveillance' => Inductif'
    BY <1>3, <1>6, <1>9, <2>1 DEF TypeContextes
  <2>3. Surveillance'
    BY <1>1, <1>9, <2>2, SurveillanceCadre DEF Compte, Vives, Bascule
  <2> QED BY <2>2, <2>3
<1> QED BY <1>7, <1>8, <1>9 DEF FinCherche

(* The list of messages is initialised. *)
LEMMA IoInitPreserve == ASSUME Hypotheses, Inductif, NEW f \in F, IoInit(f) PROVE Inductif'
<1> USE ContextesConstantes
<1>1. /\ pc[f] = "io" /\ pc' = [pc EXCEPT ![f] = "tube"] /\ tube' = [tube EXCEPT ![ctx[f]] = "sans"]
      /\ UNCHANGED <<globales, ctx, verrou, controle, pendants, tropTot>>
  BY DEF IoInit, Va, locaux
<1>2. PICK c \in X : ctx[f] = c /\ \A g \in F : g # f => ctx[g] # c
  BY <1>1, ContexteSeul DEF Vives
<1>3. TypeContextes /\ ctx' = [ctx EXCEPT ![f] = c] /\ Verrouille(f) /\ Possede(f)
  BY <1>1, <1>2 DEF Inductif, TypeContextes
<1>4. tube' \in [X -> {"calloc", "sans", "vide", "octet"}] /\ tube'[c] = "sans" /\ \A x \in X : x # c => tube'[x] = tube[x]
  BY <1>1, <1>2, <1>3 DEF TypeContextes
<1>5. TypeContextes' /\ pc'[f] = "tube" /\ ctx'[f] = c /\ pc'[Moniteur] = pc[Moniteur]
      /\ \A g \in F : g # f => pc'[g] = pc[g] /\ ctx'[g] = ctx[g]
  <2>1. "tube" \in Vives \cup Creation \cup Fin \cup {"dehors"}
    BY DEF Creation
  <2> QED BY <1>1, <1>3, <1>4, <2>1, EtapeType DEF TypeContextes, globales
<1>6. Verrouille(f)' /\ Possede(f)'
  BY <1>1, <1>2, <1>3, <1>4, <1>5 DEF Verrouille, Possede, Creation, Bascule, EnListe, Vives, globales
<1>7. ParDefaut'
  BY <1>1, UsagersCadre DEF Inductif, globales
<1>8. Surveillance'
  BY <1>1, <1>5, SurveillanceCadre DEF Compte, Vives, Bascule, globales
<1>9. Tuyau(c)'
  <2>1. ~pendants[c]
    BY <1>1, <1>2, TuyauSeul DEF Tuyau, Equipe, Vives
  <2> QED BY <1>1, <1>4, <1>5, <2>1 DEF Tuyau, Equipe
<1> QED BY <1>1, <1>2, <1>4, <1>5, <1>6, <1>7, <1>8, <1>9, SeulPreserve DEF globales

(* usbi_io_init: the event pipe, whose descriptor is an event, or a failure. *)
LEMMA UsbiIoInitPreserve == ASSUME Hypotheses, Inductif, NEW f \in F, usbi_io_init(f) PROVE Inductif'
<1> USE ContextesConstantes
<1>1. /\ pc[f] = "tube"
      /\ UNCHANGED <<globales, ctx, controle, tropTot>>
  BY DEF usbi_io_init, locaux
<1>2. PICK c \in X : ctx[f] = c /\ \A g \in F : g # f => ctx[g] # c
  BY <1>1, ContexteSeul DEF Vives
<1>3. TypeContextes /\ ctx' = [ctx EXCEPT ![f] = c] /\ Verrouille(f) /\ Possede(f)
  BY <1>1, <1>2 DEF Inductif, TypeContextes
<1>4. verrou["default"] = f /\ verrou["startstop"] # f /\ tube[c] = "sans"
  BY <1>1, <1>2, <1>3 DEF Verrouille, Possede, Creation, Bascule
<1>5. ParDefaut'
  BY <1>1, UsagersCadre DEF Inductif, globales
<1>6. CASE /\ tube' = [tube EXCEPT ![c] = IF pendants[c] THEN "vide" ELSE "octet"]
           /\ pendants' = [pendants EXCEPT ![c] = TRUE]
           /\ Rend({"default"}) /\ Va(f, "vit")
  <2>1. /\ tube' \in [X -> {"calloc", "sans", "vide", "octet"}] /\ pendants' \in [X -> BOOLEAN]
        /\ tube'[c] = IF pendants[c] THEN "vide" ELSE "octet"
        /\ \A x \in X : x # c => tube'[x] = tube[x] /\ pendants'[x] = pendants[x]
    BY <1>3, <1>6 DEF TypeContextes
  <2>2. /\ verrou' \in [Verrous -> Fils \cup {Rien}]
        /\ verrou'["default"] = Rien /\ verrou'["startstop"] = verrou["startstop"]
    BY <1>3, <1>6, RendType
  <2>3. /\ TypeContextes' /\ pc'[f] = "vit" /\ ctx'[f] = c /\ pc'[Moniteur] = pc[Moniteur]
        /\ \A g \in F : g # f => pc'[g] = pc[g] /\ ctx'[g] = ctx[g]
    <3>1. "vit" \in Vives \cup Creation \cup Fin \cup {"dehors"} /\ pc' = [pc EXCEPT ![f] = "vit"]
      BY <1>6 DEF Vives, Va
    <3> QED BY <1>1, <1>3, <2>1, <2>2, <3>1, EtapeType DEF TypeContextes, globales
  <2>4. Verrouille(f)' /\ Possede(f)'
    BY <1>1, <1>2, <1>3, <1>4, <2>2, <2>3 DEF Verrouille, Possede, Creation, Bascule, EnListe, Vives, Fils, globales
  <2>5. Surveillance'
    BY <1>1, <2>3, SurveillanceCadre DEF Compte, Vives, Bascule, globales
  <2>6. Tuyau(c)'
    <3>1. pendants[c] => tropTot[c]
      BY <1>4 DEF Inductif, Tuyau
    <3>2. Equipe(f)'
      BY <2>3 DEF Equipe, Vives
    <3> QED BY <1>1, <2>1, <2>3, <3>1, <3>2 DEF Tuyau
  <2> QED BY <1>1, <1>2, <1>4, <1>5, <2>1, <2>2, <2>3, <2>4, <2>5, <2>6, SeulPreserve DEF globales
<1>7. CASE Va(f, "sort") /\ UNCHANGED <<tube, pendants, verrou>>
  <2>1. /\ TypeContextes' /\ pc'[f] = "sort" /\ ctx'[f] = c /\ pc'[Moniteur] = pc[Moniteur]
        /\ \A g \in F : g # f => pc'[g] = pc[g] /\ ctx'[g] = ctx[g]
    <3>1. "sort" \in Vives \cup Creation \cup Fin \cup {"dehors"} /\ pc' = [pc EXCEPT ![f] = "sort"]
      BY <1>7 DEF Fin, Va
    <3> QED BY <1>1, <1>3, <1>7, <3>1, EtapeType DEF TypeContextes, globales
  <2>2. Verrouille(f)' /\ Possede(f)'
    BY <1>1, <1>2, <1>3, <1>4, <1>7, <2>1 DEF Verrouille, Possede, Creation, Bascule, EnListe, Vives, globales
  <2>3. Surveillance'
    BY <1>1, <2>1, SurveillanceCadre DEF Compte, Vives, Bascule, globales
  <2>4. Tuyau(c)'
    BY <1>1, <1>2, <1>4, <1>7, <2>1, TuyauCadre DEF Equipe, Vives
  <2> QED BY <1>1, <1>2, <1>5, <1>7, <2>1, <2>2, <2>3, <2>4, SeulPreserve DEF globales
<1> QED BY <1>2, <1>6, <1>7 DEF usbi_io_init

(* The only user of a context leaves it. *)
LEMMA UsagersFin ==
    ASSUME ParDefaut, NEW f \in F, NEW c, c # Rien, ctx[f] = c, \A g \in F : g # f => ctx[g] # c /\ ctx'[g] = ctx[g],
           ctx'[f] \in {c, Rien},
           usbi_default_context' = IF usbi_default_context = c THEN Rien ELSE usbi_default_context,
           default_context_refcnt' = IF usbi_default_context = c THEN default_context_refcnt - 1 ELSE default_context_refcnt
    PROVE  ParDefaut' /\ (usbi_default_context = c => default_context_refcnt = 1)
<1>1. CASE usbi_default_context = c
  <2>1. Usagers = {f} /\ Usagers' = {}
    BY <1>1 DEF Usagers
  <2>2. Cardinality({f}) = 1 /\ Cardinality({}) = 0 /\ IsFiniteSet({})
    BY FS_Singleton, FS_EmptySet
  <2> QED BY <1>1, <2>1, <2>2 DEF ParDefaut
<1>2. CASE usbi_default_context # c
  <2>1. Usagers' = Usagers
    BY <1>2 DEF Usagers
  <2> QED BY <1>2, <2>1 DEF ParDefaut
<1> QED BY <1>1, <1>2

(* A context that is given up has no list of messages any more. *)
LEMMA EffaceTuyau ==
    ASSUME TypeContextes, NEW c \in X, Efface(c)
    PROVE  /\ tube' \in [X -> {"calloc", "sans", "vide", "octet"}]
           /\ pendants' \in [X -> BOOLEAN] /\ tropTot' \in [X -> BOOLEAN]
           /\ \A x \in X : x # c => tube'[x] = tube[x] /\ pendants'[x] = pendants[x] /\ tropTot'[x] = tropTot[x]
           /\ Tuyau(c)'
BY DEF TypeContextes, Efface, Tuyau

(* A context that could not be created is given up. *)
LEMMA EchecPreserve == ASSUME Hypotheses, Inductif, NEW f \in F, Echec(f) PROVE Inductif'
<1> USE ContextesConstantes
<1>1. pc[f] = "echec" /\ UNCHANGED <<init_count, controle>>
  BY DEF Echec
<1>2. PICK c \in X : ctx[f] = c /\ \A g \in F : g # f => ctx[g] # c
  BY <1>1, ContexteSeul DEF Vives
<1>3. TypeContextes /\ Verrouille(f) /\ Possede(f)
  BY DEF Inductif
<1>4. /\ usbi_default_context' = IF usbi_default_context = c THEN Rien ELSE usbi_default_context
      /\ default_context_refcnt' =
             IF usbi_default_context = c THEN default_context_refcnt - 1 ELSE default_context_refcnt
      /\ active_contexts_list' = active_contexts_list \ {c}
      /\ Efface(c)
      /\ ctx' = [ctx EXCEPT ![f] = Rien] /\ Rend({"default"}) /\ pc' = [pc EXCEPT ![f] = "dehors"]
  BY <1>2 DEF Echec, Va
<1>5. /\ verrou' \in [Verrous -> Fils \cup {Rien}] /\ verrou["default"] = f /\ verrou["startstop"] # f
      /\ verrou'["default"] = Rien /\ verrou'["startstop"] = verrou["startstop"]
  BY <1>1, <1>3, <1>4, RendType DEF Verrouille, Creation, Bascule
<1>6. /\ TypeContextes' /\ pc'[f] = "dehors" /\ ctx'[f] = Rien /\ pc'[Moniteur] = pc[Moniteur]
      /\ \A g \in F : g # f => pc'[g] = pc[g] /\ ctx'[g] = ctx[g]
  <2>1. "dehors" \in Vives \cup Creation \cup Fin \cup {"dehors"}
    OBVIOUS
  <2>2. /\ usbi_default_context' \in X \cup {Rien} /\ default_context_refcnt' \in Int
        /\ active_contexts_list' \in SUBSET X /\ init_count' \in Int /\ controle' \in BOOLEAN
    BY <1>1, <1>3, <1>4 DEF TypeContextes
  <2>3. Rien \in X \cup {Rien}
    OBVIOUS
  <2>4. /\ tube' \in [X -> {"calloc", "sans", "vide", "octet"}]
        /\ pendants' \in [X -> BOOLEAN] /\ tropTot' \in [X -> BOOLEAN]
    BY <1>3, <1>4, EffaceTuyau
  <2>5. pc' = [pc EXCEPT ![f] = "dehors"] /\ ctx' = [ctx EXCEPT ![f] = Rien] /\ verrou' \in [Verrous -> Fils \cup {Rien}]
    BY <1>4, <1>5
  <2> QED BY <1>3, <2>1, <2>2, <2>3, <2>4, <2>5, EtapeType
<1>7. Verrouille(f)' /\ Possede(f)'
  BY <1>5, <1>6 DEF Verrouille, Possede, Creation, Bascule, EnListe, Vives, Fils
<1>8. ParDefaut'
  BY <1>2, <1>4, <1>6, UsagersFin DEF Inductif
<1>9. Surveillance'
  BY <1>1, <1>6, SurveillanceCadre DEF Compte, Vives, Bascule
<1>10. \A l \in {"default", "startstop"} : verrou'[l] = verrou[l] \/ (verrou[l] \in {f, Rien} /\ verrou'[l] \in {f, Rien})
  BY <1>5
<1> QED BY <1>2, <1>3, <1>4, <1>6, <1>7, <1>8, <1>9, <1>10, EffaceTuyau, SeulPreserve

-----------------------------------------------------------------------------
(* The last user of a context is alone. *)
LEMMA DernierSeul ==
    ASSUME Hypotheses, Inductif, NEW f \in F, pc[f] = "vit", ctx[f] = usbi_default_context => default_context_refcnt = 1
    PROVE  ctx[f] \in X /\ \A g \in F : g # f => ctx[g] # ctx[f]
<1>1. ctx[f] # Rien /\ ctx[f] \in X
  BY DEF Inductif, Possede, TypeContextes
<1>2. CASE ctx[f] = usbi_default_context
  <2>1. f \in Usagers /\ IsFiniteSet(Usagers) /\ Cardinality(Usagers) = 1
    BY <1>1, <1>2 DEF Usagers, Inductif, ParDefaut
  <2>2. PICK u : Usagers = {u}
    BY <2>1, FS_Singleton
  <2>3. ASSUME NEW g \in F, ctx[g] = ctx[f] PROVE g = f
    <3>1. g \in Usagers
      BY <1>1, <1>2, <2>3 DEF Usagers
    <3> QED BY <2>1, <2>2, <3>1
  <2> QED BY <1>1, <2>3
<1>3. CASE ctx[f] # usbi_default_context
  <2>1. ASSUME NEW g \in F, g # f PROVE ctx[g] # ctx[f]
    <3>1. Partage(f, g)
      BY <2>1 DEF Inductif
    <3> QED BY <1>1, <1>3, <3>1 DEF Partage
  <2> QED BY <1>1, <2>1
<1> QED BY <1>2, <1>3

(* libusb_exit, for the last user of a context. *)
LEMMA ExitSeulPreserve ==
    ASSUME Hypotheses, Inductif, NEW f \in F, libusb_exit(f),
           ctx[f] = usbi_default_context => default_context_refcnt = 1
    PROVE  Inductif'
<1> USE ContextesConstantes
<1>1. /\ pc[f] = "vit" /\ pc' = [pc EXCEPT ![f] = "retire"] /\ Libre("default")
      /\ UNCHANGED <<active_contexts_list, init_count, controle, verrou, ctx, tube, pendants, tropTot>>
  BY DEF libusb_exit, Dernier, Va, listes
<1>2. PICK c \in X : ctx[f] = c /\ \A g \in F : g # f => ctx[g] # c
  BY <1>1, DernierSeul
<1>3. TypeContextes /\ ctx' = [ctx EXCEPT ![f] = c] /\ Verrouille(f) /\ Possede(f)
  BY <1>1, <1>2 DEF Inductif, TypeContextes
<1>4. /\ usbi_default_context' = IF usbi_default_context = c THEN Rien ELSE usbi_default_context
      /\ default_context_refcnt' =
             IF usbi_default_context = c THEN default_context_refcnt - 1 ELSE default_context_refcnt
  BY <1>2 DEF libusb_exit, Dernier
<1>5. TypeContextes' /\ pc'[f] = "retire" /\ ctx'[f] = c /\ pc'[Moniteur] = pc[Moniteur]
      /\ \A g \in F : g # f => pc'[g] = pc[g] /\ ctx'[g] = ctx[g]
  <2>1. "retire" \in Vives \cup Creation \cup Fin \cup {"dehors"}
    BY DEF Fin
  <2>2. usbi_default_context' \in X \cup {Rien} /\ default_context_refcnt' \in Int
    BY <1>3, <1>4 DEF TypeContextes
  <2> QED BY <1>1, <1>3, <2>1, <2>2, EtapeType DEF TypeContextes
<1>6. Verrouille(f)' /\ Possede(f)'
  <2>1. c # usbi_default_context'
    BY <1>4
  <2> QED BY <1>1, <1>2, <1>3, <1>5, <2>1 DEF Verrouille, Possede, Creation, Bascule, EnListe, Vives, Libre, Fils
<1>7. ParDefaut'
  BY <1>2, <1>4, <1>5, UsagersFin DEF Inductif
<1>8. Surveillance'
  BY <1>1, <1>5, SurveillanceCadre DEF Compte, Vives, Bascule
<1>9. Tuyau(c)'
  BY <1>1, <1>2, <1>5, TuyauCadre DEF Equipe, Vives
<1>10. usbi_default_context' = usbi_default_context \/ (usbi_default_context = c /\ usbi_default_context' = Rien)
  BY <1>4
<1> QED BY <1>1, <1>2, <1>5, <1>6, <1>7, <1>8, <1>9, <1>10, SeulPreserve

(* libusb_exit, for a user of the default context that others still use. *)
LEMMA ExitPartagePreserve ==
    ASSUME Hypotheses, Inductif, NEW f \in F, libusb_exit(f),
           ctx[f] = usbi_default_context, default_context_refcnt # 1
    PROVE  Inductif'
<1> USE ContextesConstantes
<1>1. /\ pc[f] = "vit" /\ pc' = [pc EXCEPT ![f] = "dehors"] /\ ctx' = [ctx EXCEPT ![f] = Rien]
      /\ default_context_refcnt' = default_context_refcnt - 1 /\ UNCHANGED usbi_default_context
      /\ UNCHANGED <<active_contexts_list, init_count, controle, verrou, tube, pendants, tropTot>>
  BY DEF libusb_exit, Dernier, Va, listes
<1>2. TypeContextes /\ Verrouille(f) /\ Possede(f) /\ ParDefaut /\ Surveillance
  BY DEF Inductif
<1>3. TypeContextes' /\ pc'[f] = "dehors" /\ ctx'[f] = Rien /\ pc'[Moniteur] = pc[Moniteur]
      /\ \A g \in F : g # f => pc'[g] = pc[g] /\ ctx'[g] = ctx[g]
  <2>1. "dehors" \in Vives \cup Creation \cup Fin \cup {"dehors"} /\ Rien \in X \cup {Rien}
    OBVIOUS
  <2>2. default_context_refcnt' \in Int
    BY <1>1, <1>2 DEF TypeContextes
  <2> QED BY <1>1, <1>2, <2>1, <2>2, EtapeType DEF TypeContextes
<1>4. ctx[f] # Rien /\ f \in Usagers
  BY <1>1, <1>2 DEF Possede, Usagers
<1>5. ParDefaut'
  <2>1. Usagers' = Usagers \ {f}
    BY <1>1, <1>3 DEF Usagers
  <2>2. IsFiniteSet(Usagers') /\ Cardinality(Usagers') = Cardinality(Usagers) - 1
    BY <1>2, <1>4, <2>1, FS_RemoveElement DEF ParDefaut
  <2>3. Usagers' # {}
    BY <1>2, <2>2, FS_EmptySet DEF ParDefaut, TypeContextes
  <2> QED BY <1>1, <1>2, <2>2, <2>3 DEF ParDefaut
<1>6. PICK h \in F : h # f /\ ctx[h] = ctx[f]
  <2>1. Usagers' # {}
    BY <1>1, <1>4, <1>5 DEF ParDefaut
  <2>2. PICK h \in F : ctx'[h] # Rien /\ ctx'[h] = usbi_default_context'
    BY <2>1 DEF Usagers
  <2> QED BY <1>1, <1>3, <2>2
<1>7. pc[h] \in Vives
  <2>1. Partage(f, h)
    BY <1>6 DEF Inductif
  <2> QED BY <1>4, <1>6, <2>1 DEF Partage
<1>8. Comptes' = Comptes
  <2>1. \A x : x \in Comptes' <=> \E g \in F : Compte(g)' /\ ctx'[g] = x
    BY DEF Comptes, Compte
  <2>2. \A g \in F : g # f => (Compte(g)' <=> Compte(g))
    BY <1>3 DEF Compte
  <2>3. ~Compte(f)' /\ Compte(h) /\ Compte(h)'
    BY <1>3, <1>6, <1>7 DEF Compte, Vives
  <2>4. \A x : x \in Comptes' <=> x \in Comptes
    BY <1>3, <1>6, <2>1, <2>2, <2>3, ContextesComptes
  <2> QED BY <2>4
<1>9. Surveillance'
  <2>1. \A g \in F : (pc'[g] \in Bascule <=> pc[g] \in Bascule) /\ (pc'[g] = "joint" <=> pc[g] = "joint")
    BY <1>1, <1>3 DEF Bascule
  <2> QED BY <1>1, <1>2, <1>3, <1>8, <2>1 DEF Surveillance
<1>10. ASSUME NEW g \in F PROVE Verrouille(g)' /\ Possede(g)'
  <2>1. Verrouille(g) /\ Possede(g)
    BY DEF Inductif
  <2>2. CASE g = f
    BY <1>1, <1>2, <1>3, <2>2 DEF Verrouille, Possede, Creation, Bascule, EnListe, Vives
  <2>3. CASE g # f
    BY <1>1, <1>3, <2>1, <2>3 DEF Verrouille, Possede
  <2> QED BY <2>2, <2>3
<1>11. ASSUME NEW g \in F, NEW k \in F \ {g} PROVE Partage(g, k)'
  <2>1. Partage(g, k)
    BY DEF Inductif
  <2> QED BY <1>1, <1>3, <2>1 DEF Partage
<1>12. ASSUME NEW x \in X PROVE Tuyau(x)'
  <2>1. Tuyau(x)
    BY DEF Inductif
  <2>2. Equipe(h)' /\ ctx'[h] = ctx[f]
    BY <1>3, <1>6, <1>7 DEF Equipe
  <2>3. ASSUME NEW g \in F, g # f, ctx[g] = x, Equipe(g) PROVE ctx'[g] = x /\ Equipe(g)'
    BY <1>1, <1>3, <2>3 DEF Equipe
  <2>4. (\E g \in F : ctx[g] = x /\ Equipe(g)) => \E g \in F : (ctx[g] = x /\ Equipe(g))'
    BY <1>6, <2>2, <2>3
  <2> QED BY <1>1, <2>1, <2>4 DEF Tuyau
<1> QED BY <1>3, <1>5, <1>9, <1>10, <1>11, <1>12 DEF Inductif

(* The context leaves the list. *)
LEMMA RetirePreserve == ASSUME Hypotheses, Inductif, NEW f \in F, Retire(f) PROVE Inductif'
<1> USE ContextesConstantes
<1>1. /\ pc[f] = "retire" /\ pc' = [pc EXCEPT ![f] = "sort"]
      /\ UNCHANGED <<usbi_default_context, default_context_refcnt, init_count, verrou, controle, ctx>>
  BY DEF Retire, Va, locaux
<1>2. PICK c \in X : ctx[f] = c /\ \A g \in F : g # f => ctx[g] # c
  BY <1>1, ContexteSeul DEF Vives
<1>3. TypeContextes /\ ctx' = [ctx EXCEPT ![f] = c] /\ Verrouille(f) /\ Possede(f)
  BY <1>1, <1>2 DEF Inductif, TypeContextes
<1>4. active_contexts_list' = active_contexts_list \ {c} /\ Efface(c)
  BY <1>2 DEF Retire
<1>5. TypeContextes' /\ pc'[f] = "sort" /\ ctx'[f] = c /\ pc'[Moniteur] = pc[Moniteur]
      /\ \A g \in F : g # f => pc'[g] = pc[g] /\ ctx'[g] = ctx[g]
  <2>1. "sort" \in Vives \cup Creation \cup Fin \cup {"dehors"}
    BY DEF Fin
  <2>2. active_contexts_list' \in SUBSET X
    BY <1>3, <1>4 DEF TypeContextes
  <2>3. /\ tube' \in [X -> {"calloc", "sans", "vide", "octet"}]
        /\ pendants' \in [X -> BOOLEAN] /\ tropTot' \in [X -> BOOLEAN]
    BY <1>3, <1>4, EffaceTuyau
  <2> QED BY <1>1, <1>3, <2>1, <2>2, <2>3, EtapeType DEF TypeContextes
<1>6. Verrouille(f)' /\ Possede(f)'
  BY <1>1, <1>2, <1>3, <1>5 DEF Verrouille, Possede, Creation, Bascule, EnListe, Vives
<1>7. ParDefaut'
  BY <1>1, UsagersCadre DEF Inductif
<1>8. Surveillance'
  BY <1>1, <1>5, SurveillanceCadre DEF Compte, Vives, Bascule
<1>9. \A x \in active_contexts_list : x # c => x \in active_contexts_list'
  BY <1>4
<1> QED BY <1>1, <1>2, <1>3, <1>4, <1>5, <1>6, <1>7, <1>8, <1>9, EffaceTuyau, SeulPreserve

(* A part of the program that gives up its context, or keeps it after a    *)
(* creation that failed. *)
LEMMA QuitteContexte ==
    ASSUME Hypotheses, Inductif, NEW f \in F, NEW c \in X, ctx[f] = c, pc[f] \in {"sort", "joint"},
           \A g \in F : g # f => ctx[g] # c, Quitte(f),
           UNCHANGED <<usbi_default_context, default_context_refcnt>>
    PROVE  /\ ctx' = [ctx EXCEPT ![f] = IF verrou["default"] = f THEN c ELSE Rien]
           /\ ParDefaut'
           /\ verrou["default"] # f => c # usbi_default_context
<1> USE ContextesConstantes
<1>1. ctx' = [ctx EXCEPT ![f] = IF verrou["default"] = f THEN c ELSE Rien]
  BY DEF Quitte, Inductif, TypeContextes
<1>2. verrou["default"] # f => c # usbi_default_context
  BY DEF Inductif, Possede, Vives
<1>3. ctx'[f] = (IF verrou["default"] = f THEN c ELSE Rien) /\ \A g \in F : g # f => ctx'[g] = ctx[g]
  BY <1>1 DEF Inductif, TypeContextes
<1>4. ParDefaut'
  <2>1. CASE verrou["default"] = f
    BY <1>3, <2>1, UsagersCadre DEF Inductif
  <2>2. CASE verrou["default"] # f
    BY <1>2, <1>3, <2>2, UsagersFin DEF Inductif
  <2> QED BY <2>1, <2>2
<1> QED BY <1>1, <1>2, <1>4

(* op_exit: the last context stops the monitor. *)
LEMMA OpExitPreserve == ASSUME Hypotheses, Inductif, NEW f \in F, op_exit(f) PROVE Inductif'
<1> USE ContextesConstantes
<1>1. /\ pc[f] = "sort" /\ Libre("startstop") /\ init_count' = init_count - 1
      /\ UNCHANGED <<usbi_default_context, default_context_refcnt, active_contexts_list, tube, pendants, tropTot>>
  BY DEF op_exit, listes
<1>2. PICK c \in X : ctx[f] = c /\ \A g \in F : g # f => ctx[g] # c
  BY <1>1, ContexteSeul DEF Vives
<1>3. TypeContextes /\ Verrouille(f) /\ Possede(f) /\ Surveillance
  BY DEF Inductif
<1>4. (\A g \in F : pc[g] \notin Bascule) /\ ~controle /\ pc[Moniteur] # "termine"
  BY <1>1, SansBascule
<1>5. c # usbi_default_context \/ verrou["default"] = f
  BY <1>1, <1>2, <1>3 DEF Possede, Vives
<1>6. ASSUME NEW e \in {"joint", "echec", "dehors"}, pc'[f] = e,
             \A g \in F : g # f => pc'[g] = pc[g] /\ ctx'[g] = ctx[g]
      PROVE  /\ IsFiniteSet(Comptes') /\ init_count' = Cardinality(Comptes') /\ init_count' \in Nat
             /\ pc[Moniteur] # "absent"
  <2>1. Compte(f) /\ ~Compte(f)'
    BY <1>1, <1>6 DEF Compte, Vives
  <2>2. IsFiniteSet(Comptes') /\ Cardinality(Comptes') = Cardinality(Comptes) - 1 /\ Cardinality(Comptes') \in Nat
    BY <1>2, <1>3, <1>6, <2>1, ComptesMoins DEF Surveillance
  <2>3. init_count \in Int /\ init_count' \in Nat /\ init_count' = Cardinality(Comptes')
    BY <1>1, <1>3, <2>2 DEF Surveillance, TypeContextes
  <2>4. init_count # 0
    BY <1>1, <2>3
  <2> QED BY <1>3, <2>2, <2>3, <2>4 DEF Surveillance
<1>7. CASE init_count = 1 /\ controle' = TRUE /\ Prend(f, "startstop") /\ Va(f, "joint") /\ UNCHANGED ctx
  <2>1. verrou' \in [Verrous -> Fils \cup {Rien}] /\ verrou["startstop"] = Rien /\ verrou'["startstop"] = f
        /\ verrou'["default"] = verrou["default"]
    BY <1>3, <1>7 DEF TypeContextes, Prend, Libre
  <2>2. TypeContextes' /\ pc'[f] = "joint" /\ ctx'[f] = c /\ pc'[Moniteur] = pc[Moniteur]
        /\ \A g \in F : g # f => pc'[g] = pc[g] /\ ctx'[g] = ctx[g]
    <3>1. "joint" \in Vives \cup Creation \cup Fin \cup {"dehors"} /\ pc' = [pc EXCEPT ![f] = "joint"]
      BY <1>7 DEF Fin, Va
    <3>2. init_count' \in Int /\ controle' \in BOOLEAN /\ ctx' = [ctx EXCEPT ![f] = c]
      BY <1>1, <1>2, <1>3, <1>7 DEF TypeContextes
    <3> QED BY <1>1, <1>3, <2>1, <3>1, <3>2, EtapeType DEF TypeContextes
  <2>3. Verrouille(f)' /\ Possede(f)'
    BY <1>1, <1>2, <1>3, <1>5, <2>1, <2>2 DEF Verrouille, Possede, Creation, Bascule, EnListe, Vives
  <2>4. ParDefaut'
    BY <1>1, <1>7, UsagersCadre DEF Inductif
  <2>5. Surveillance'
    <3>1. init_count' = 0
      BY <1>1, <1>7
    <3> QED BY <1>6, <1>7, <2>2, <3>1 DEF Surveillance
  <2>6. Tuyau(c)'
    BY <1>1, <1>2, <2>1, <2>2, TuyauCadre DEF Equipe, Vives
  <2> QED BY <1>1, <1>2, <2>1, <2>2, <2>3, <2>4, <2>5, <2>6, SeulPreserve
<1>8. CASE Va(f, Apres(f)) /\ Quitte(f) /\ UNCHANGED <<controle, verrou>>
  <2>1. PICK e \in {"echec", "dehors"} : e = Apres(f)
    BY DEF Apres
  <2>2. PICK d \in {c, Rien} : d = IF verrou["default"] = f THEN c ELSE Rien
    OBVIOUS
  <2>3. ctx' = [ctx EXCEPT ![f] = d] /\ ParDefaut'
    BY <1>1, <1>2, <1>8, <2>2, QuitteContexte
  <2>4. TypeContextes' /\ pc'[f] = e /\ ctx'[f] = d /\ pc'[Moniteur] = pc[Moniteur]
        /\ \A g \in F : g # f => pc'[g] = pc[g] /\ ctx'[g] = ctx[g]
    <3>1. e \in Vives \cup Creation \cup Fin \cup {"dehors"} /\ pc' = [pc EXCEPT ![f] = e]
      BY <1>8, <2>1 DEF Creation, Va
    <3>2. init_count' \in Int /\ d \in X \cup {Rien}
      BY <1>1, <1>3, <2>2 DEF TypeContextes
    <3> QED BY <1>1, <1>3, <1>8, <2>3, <3>1, <3>2, EtapeType DEF TypeContextes
  <2>5. (verrou["default"] = f /\ e = "echec" /\ d = c) \/ (verrou["default"] # f /\ e = "dehors" /\ d = Rien)
    BY <2>1, <2>2 DEF Apres
  <2>6. Verrouille(f)' /\ Possede(f)'
    BY <1>1, <1>2, <1>3, <1>5, <1>8, <2>4, <2>5 DEF Verrouille, Possede, Creation, Bascule, EnListe, Vives
  <2>7. Surveillance'
    <3>1. \A g \in F : pc'[g] # "joint"
      BY <1>4, <2>4, <2>5 DEF Bascule
    <3>2. IsFiniteSet(Comptes') /\ init_count' = Cardinality(Comptes') /\ pc[Moniteur] # "absent"
      BY <1>6, <2>4
    <3> QED BY <1>4, <1>8, <2>4, <3>1, <3>2 DEF Surveillance
  <2>8. Tuyau(c)'
    BY <1>1, <1>2, <1>8, <2>4, <2>5, TuyauCadre DEF Equipe, Vives
  <2> QED BY <1>1, <1>2, <1>8, <2>3, <2>4, <2>5, <2>6, <2>7, <2>8, SeulPreserve
<1> QED BY <1>7, <1>8 DEF op_exit

(* The monitor's thread is joined. *)
LEMMA JointPreserve == ASSUME Hypotheses, Inductif, NEW f \in F, Joint(f) PROVE Inductif'
<1> USE ContextesConstantes
<1>1. /\ pc[f] = "joint" /\ controle' = FALSE /\ Quitte(f) /\ Rend({"startstop"})
      /\ VaEtMet(f, Apres(f), "absent")
      /\ UNCHANGED <<globales, tube, pendants, tropTot>>
  BY DEF Joint, VaEtMet, listes
<1>2. PICK c \in X : ctx[f] = c /\ \A g \in F : g # f => ctx[g] # c
  BY <1>1, ContexteSeul DEF Vives
<1>3. TypeContextes /\ Verrouille(f) /\ Possede(f) /\ Surveillance
  BY DEF Inductif
<1>4. verrou["startstop"] = f /\ \A g \in F : g # f => pc[g] \notin Bascule
  BY <1>1, BasculeSeule DEF Bascule
<1>5. /\ verrou' \in [Verrous -> Fils \cup {Rien}]
      /\ verrou'["default"] = verrou["default"] /\ verrou'["startstop"] = Rien
  BY <1>1, <1>3, RendType
<1>6. PICK e \in {"echec", "dehors"} : e = Apres(f)
  BY DEF Apres
<1>7. PICK d \in {c, Rien} : d = IF verrou["default"] = f THEN c ELSE Rien
  OBVIOUS
<1>8. ctx' = [ctx EXCEPT ![f] = d] /\ ParDefaut' /\ (verrou["default"] # f => c # usbi_default_context)
  BY <1>1, <1>2, <1>7, QuitteContexte DEF globales
<1>9. TypeContextes' /\ pc'[f] = e /\ ctx'[f] = d
      /\ \A g \in F : g # f => pc'[g] = pc[g] /\ ctx'[g] = ctx[g]
  <2>1. e \in Vives \cup Creation \cup Fin \cup {"dehors"} /\ "absent" \in EtapesMoniteur /\ d \in X \cup {Rien} /\ controle' \in BOOLEAN
    BY <1>1 DEF Creation, EtapesMoniteur
  <2>2. VaEtMet(f, e, "absent") /\ UNCHANGED <<globales, tube, pendants, tropTot>>
    BY <1>1, <1>6
  <2> QED BY <1>3, <1>5, <1>8, <2>1, <2>2, BasculeType
<1>10. pc'[Moniteur] = "absent"
  BY <1>1, <1>3 DEF VaEtMet, TypeContextes
<1>11. (verrou["default"] = f /\ e = "echec" /\ d = c) \/ (verrou["default"] # f /\ e = "dehors" /\ d = Rien)
  BY <1>6, <1>7 DEF Apres
<1>12. Verrouille(f)' /\ Possede(f)'
  BY <1>1, <1>2, <1>3, <1>5, <1>8, <1>9, <1>11 DEF Verrouille, Possede, Creation, Bascule, EnListe, Vives, Fils, globales
<1>13. Surveillance'
  <2>1. Comptes' = Comptes
    BY <1>1, <1>9, <1>11, ComptesCadre DEF Compte, Vives
  <2>2. \A g \in F : pc'[g] \notin Bascule /\ pc'[g] # "joint"
    BY <1>4, <1>9, <1>11 DEF Bascule
  <2>3. init_count' = 0
    BY <1>1, <1>3 DEF Surveillance, globales
  <2> QED BY <1>1, <1>3, <1>10, <2>1, <2>2, <2>3 DEF Surveillance, globales
<1>14. Tuyau(c)'
  BY <1>1, <1>2, <1>5, <1>9, <1>11, TuyauCadre DEF Equipe, Vives
<1>15. \A l \in {"default", "startstop"} : verrou'[l] = verrou[l] \/ (verrou[l] \in {f, Rien} /\ verrou'[l] \in {f, Rien})
  BY <1>4, <1>5
<1> QED BY <1>1, <1>2, <1>8, <1>9, <1>12, <1>13, <1>14, <1>15, SeulPreserve DEF globales

-----------------------------------------------------------------------------
(* libusb_init, which shares the default context: it is in use, for nobody *)
(* creates or destroys it while the lock is free. *)
LEMMA InitPartagePreserve ==
    ASSUME Hypotheses, Inductif, NEW f \in F, pc[f] = "dehors", Libre("default"), usbi_default_context # Rien,
           default_context_refcnt' = default_context_refcnt + 1,
           ctx' = [ctx EXCEPT ![f] = usbi_default_context], Va(f, "vit"),
           UNCHANGED <<usbi_default_context, active_contexts_list, init_count, verrou, controle, tube, pendants, tropTot>>
    PROVE  Inductif'
<1> USE ContextesConstantes
<1>2. TypeContextes /\ Verrouille(f) /\ Possede(f) /\ ParDefaut /\ Surveillance
  BY DEF Inductif
<1>0. PICK c \in X : c = usbi_default_context
  BY <1>2 DEF TypeContextes
<1>3. TypeContextes' /\ pc'[f] = "vit" /\ ctx'[f] = c /\ pc'[Moniteur] = pc[Moniteur]
      /\ \A g \in F : g # f => pc'[g] = pc[g] /\ ctx'[g] = ctx[g]
  <2>1. "vit" \in Vives \cup Creation \cup Fin \cup {"dehors"} /\ pc' = [pc EXCEPT ![f] = "vit"]
    BY DEF Vives, Va
  <2>2. default_context_refcnt' \in Int /\ c \in X \cup {Rien} /\ ctx' = [ctx EXCEPT ![f] = c]
    BY <1>0, <1>2 DEF TypeContextes
  <2> QED BY <1>2, <2>1, <2>2, EtapeType DEF TypeContextes
<1>4. ASSUME NEW h \in F, ctx[h] = c PROVE pc[h] \in Vives
  BY <1>0, <1>4 DEF Inductif, Possede, Libre, Fils
<1>5. PICK h \in F : ctx[h] = c /\ pc[h] \in Vives /\ h # f
  <2>1. PICK h \in F : ctx[h] = c
    BY <1>0, <1>2 DEF ParDefaut, Usagers
  <2> QED BY <1>4, <2>1 DEF Vives
<1>6. ParDefaut'
  <2>1. Usagers' = Usagers \cup {f} /\ f \notin Usagers
    BY <1>0, <1>2, <1>3 DEF Usagers, Possede
  <2>2. IsFiniteSet(Usagers') /\ Cardinality(Usagers') = Cardinality(Usagers) + 1
    BY <1>2, <2>1, FS_AddElement DEF ParDefaut
  <2> QED BY <1>2, <2>1, <2>2 DEF ParDefaut
<1>7. Comptes' = Comptes
  <2>1. \A x : x \in Comptes' <=> \E g \in F : Compte(g)' /\ ctx'[g] = x
    BY DEF Comptes, Compte
  <2>2. \A g \in F : g # f => (Compte(g)' <=> Compte(g))
    BY <1>3 DEF Compte
  <2>3. ~Compte(f) /\ Compte(h) /\ Compte(h)'
    BY <1>3, <1>5 DEF Compte, Vives
  <2>4. \A x : x \in Comptes' <=> x \in Comptes
    BY <1>3, <1>5, <2>1, <2>2, <2>3, ContextesComptes
  <2> QED BY <2>4
<1>8. Surveillance'
  <2>1. \A g \in F : (pc'[g] \in Bascule <=> pc[g] \in Bascule) /\ (pc'[g] = "joint" <=> pc[g] = "joint")
    BY <1>3 DEF Bascule
  <2> QED BY <1>2, <1>3, <1>7, <2>1 DEF Surveillance
<1>9. c \in active_contexts_list
  BY <1>5 DEF Inductif, Possede, EnListe
<1>10. ASSUME NEW g \in F PROVE Verrouille(g)' /\ Possede(g)'
  <2>1. Verrouille(g) /\ Possede(g)
    BY DEF Inductif
  <2>2. CASE g = f
    BY <1>0, <1>2, <1>3, <1>9, <2>2 DEF Verrouille, Possede, Creation, Bascule, EnListe, Vives, Libre, Fils
  <2>3. CASE g # f
    BY <1>3, <2>1, <2>3 DEF Verrouille, Possede
  <2> QED BY <2>2, <2>3
<1>11. ASSUME NEW g \in F, NEW k \in F \ {g} PROVE Partage(g, k)'
  <2>1. Partage(g, k) /\ pc'[f] \in Vives
    BY <1>3 DEF Inductif, Vives
  <2>2. CASE g # f /\ k # f
    BY <1>3, <2>1, <2>2 DEF Partage
  <2>3. CASE g = f
    BY <1>0, <1>3, <1>4, <2>1, <2>3 DEF Partage
  <2>4. CASE k = f
    BY <1>0, <1>3, <1>4, <2>1, <2>4 DEF Partage
  <2> QED BY <2>2, <2>3, <2>4
<1>12. ASSUME NEW x \in X PROVE Tuyau(x)'
  <2>1. Tuyau(x)
    BY DEF Inductif
  <2>2. ASSUME NEW g \in F, ctx[g] = x, Equipe(g) PROVE ctx'[g] = x /\ Equipe(g)'
    BY <1>3, <2>2 DEF Equipe, Vives
  <2> QED BY <2>1, <2>2 DEF Tuyau
<1> QED BY <1>3, <1>6, <1>8, <1>10, <1>11, <1>12 DEF Inductif

NouveauDefaut(c) ==
    /\ usbi_default_context' = IF usbi_default_context = Rien THEN c ELSE usbi_default_context
    /\ default_context_refcnt' =
           IF usbi_default_context = Rien THEN default_context_refcnt + 1 ELSE default_context_refcnt

(* libusb_init, which creates a context. *)
LEMMA InitNouveauPreserve ==
    ASSUME Hypotheses, Inductif, NEW f \in F, pc[f] = "dehors", NEW c \in X, \A g \in F : ctx[g] # c,
           Prend(f, "default"), ctx' = [ctx EXCEPT ![f] = c],
           NouveauDefaut(c), Va(f, "ajoute"),
           UNCHANGED <<active_contexts_list, init_count, controle, tube, pendants, tropTot>>
    PROVE  Inductif'
<1> USE ContextesConstantes
<1>1. TypeContextes /\ Verrouille(f) /\ Possede(f) /\ ParDefaut /\ Surveillance
  BY DEF Inductif
<1>2. verrou' \in [Verrous -> Fils \cup {Rien}] /\ verrou["default"] = Rien /\ verrou'["default"] = f
      /\ verrou'["startstop"] = verrou["startstop"]
  BY <1>1 DEF TypeContextes, Prend, Libre
<1>3. TypeContextes' /\ pc'[f] = "ajoute" /\ ctx'[f] = c /\ pc'[Moniteur] = pc[Moniteur]
      /\ \A g \in F : g # f => pc'[g] = pc[g] /\ ctx'[g] = ctx[g]
  <2>1. "ajoute" \in Vives \cup Creation \cup Fin \cup {"dehors"} /\ pc' = [pc EXCEPT ![f] = "ajoute"] /\ c \in X \cup {Rien}
    BY DEF Creation, Va
  <2>2. default_context_refcnt' \in Int /\ usbi_default_context' \in X \cup {Rien}
    BY <1>1 DEF TypeContextes, NouveauDefaut
  <2>3. ctx' = [ctx EXCEPT ![f] = c]
    OBVIOUS
  <2>4. /\ active_contexts_list' \in SUBSET X /\ init_count' \in Int /\ controle' \in BOOLEAN
        /\ tube' \in [X -> {"calloc", "sans", "vide", "octet"}]
        /\ pendants' \in [X -> BOOLEAN] /\ tropTot' \in [X -> BOOLEAN]
    BY <1>1 DEF TypeContextes
  <2>5. TypeContextes /\ verrou' \in [Verrous -> Fils \cup {Rien}]
    BY <1>1, <1>2
  <2>6. TypeContextes'
    BY <2>1, <2>2, <2>3, <2>4, <2>5, EtapeType
  <2>7. pc'[f] = "ajoute" /\ pc'[Moniteur] = pc[Moniteur]
        /\ \A g \in F : g # f => pc'[g] = pc[g]
    BY <2>1, <2>5 DEF TypeContextes
  <2>8. ctx'[f] = c /\ \A g \in F : g # f => ctx'[g] = ctx[g]
    BY <2>3, <2>5 DEF TypeContextes
  <2> QED BY <2>6, <2>7, <2>8
<1>4. ctx[f] = Rien /\ c # Rien
  BY <1>1 DEF Possede
<1>5. ParDefaut'
  <2>1. CASE usbi_default_context = Rien
    <3>1. Usagers = {} /\ Usagers' = {f}
      BY <1>3, <1>4, <2>1 DEF Usagers, NouveauDefaut
    <3>2. default_context_refcnt = 0
      BY <1>1, <3>1, FS_EmptySet DEF ParDefaut
    <3>3. usbi_default_context' = c /\ default_context_refcnt' = 1
      BY <2>1, <3>2 DEF NouveauDefaut
    <3>4. IsFiniteSet({f}) /\ Cardinality({f}) = 1
      BY FS_Singleton
    <3> QED BY <3>1, <3>3, <3>4 DEF ParDefaut
  <2>2. CASE usbi_default_context # Rien
    <3>1. c # usbi_default_context
      BY <1>1, <2>2 DEF ParDefaut, Usagers
    <3>2. UNCHANGED <<usbi_default_context, default_context_refcnt>>
      BY <2>2 DEF NouveauDefaut
    <3>3. Usagers' = Usagers
      BY <1>3, <1>4, <2>2, <3>1, <3>2 DEF Usagers
    <3> QED BY <1>1, <2>2, <3>2, <3>3 DEF ParDefaut
  <2> QED BY <2>1, <2>2
<1>6. Surveillance'
  BY <1>3, SurveillanceCadre DEF Compte, Vives, Bascule
<1>7. ASSUME NEW g \in F PROVE Verrouille(g)' /\ Possede(g)'
  <2>1. Verrouille(g) /\ Possede(g)
    BY DEF Inductif
  <2>2. CASE g = f
    BY <1>1, <1>2, <1>3, <1>4, <2>2 DEF NouveauDefaut, Verrouille, Possede, Creation, Bascule, EnListe, Vives
  <2>3. CASE g # f
    <3>1. g # Rien /\ ctx[g] # c
      BY DEF Fils
    <3>2. ctx[g] # Rien /\ ctx[g] = usbi_default_context' => pc[g] \in Vives
      BY <1>2, <2>1, <3>1 DEF Possede, NouveauDefaut
    <3> QED BY <1>2, <1>3, <2>1, <2>3, <3>1, <3>2 DEF Verrouille, Possede
  <2> QED BY <2>2, <2>3
<1>8. ASSUME NEW g \in F, NEW k \in F \ {g} PROVE Partage(g, k)'
  <2>1. Partage(g, k)
    BY DEF Inductif
  <2>2. CASE g # f /\ k # f
    <3>1. usbi_default_context # Rien => usbi_default_context' = usbi_default_context
      BY DEF NouveauDefaut
    <3> QED BY <1>3, <2>1, <2>2, <3>1 DEF Partage
  <2>3. CASE g = f
    BY <1>3, <2>3 DEF Partage
  <2>4. CASE k = f
    <3>1. ctx'[g] = ctx[g] /\ ctx[g] # c /\ ctx'[k] = c
      BY <1>3, <2>4
    <3> QED BY <3>1 DEF Partage
  <2> QED BY <2>2, <2>3, <2>4
<1>9. ASSUME NEW x \in X PROVE Tuyau(x)'
  <2>1. Tuyau(x)
    BY DEF Inductif
  <2>2. ASSUME NEW g \in F, ctx[g] = x, Equipe(g) PROVE ctx'[g] = x /\ Equipe(g)'
    <3>1. g # f /\ g # Rien
      BY <2>2 DEF Equipe, Vives, Fils
    <3> QED BY <1>2, <1>3, <2>2, <3>1 DEF Equipe
  <2> QED BY <2>1, <2>2 DEF Tuyau
<1> QED BY <1>3, <1>5, <1>6, <1>7, <1>8, <1>9 DEF Inductif

(* libusb_init shares the default context or creates one. *)
LEMMA InitPreserve == ASSUME Hypotheses, Inductif, NEW f \in F, NEW b \in BOOLEAN, libusb_init(f, b) PROVE Inductif'
<1>1. /\ pc[f] = "dehors" /\ Libre("default")
      /\ UNCHANGED <<active_contexts_list, init_count, controle, tube, pendants, tropTot>>
  BY DEF libusb_init, listes
<1>2. CASE ~b /\ usbi_default_context # Rien
  <2>1. /\ default_context_refcnt' = default_context_refcnt + 1 /\ usbi_default_context # Rien
        /\ ctx' = [ctx EXCEPT ![f] = usbi_default_context] /\ Va(f, "vit") /\ UNCHANGED <<usbi_default_context, verrou>>
    BY <1>2 DEF libusb_init
  <2> QED BY <1>1, <2>1, InitPartagePreserve
<1>3. CASE ~(~b /\ usbi_default_context # Rien)
  <2>1. PICK c \in Nouveaux :
            /\ Prend(f, "default") /\ ctx' = [ctx EXCEPT ![f] = c]
            /\ NouveauDefaut(c) /\ Va(f, "ajoute")
    BY <1>3 DEF libusb_init, NouveauDefaut
  <2>2. c \in X /\ \A g \in F : ctx[g] # c
    BY DEF Nouveaux
  <2> QED BY <1>1, <2>1, <2>2, InitNouveauPreserve
<1> QED BY <1>2, <1>3

(* libusb_exit, for the last user of a context or for another one. *)
LEMMA ExitPreserve == ASSUME Hypotheses, Inductif, NEW f \in F, libusb_exit(f) PROVE Inductif'
BY ExitSeulPreserve, ExitPartagePreserve

-----------------------------------------------------------------------------
(* Every step preserves the invariant. *)
LEMMA ContextesPreserve == ASSUME Hypotheses, Inductif, Next \/ UNCHANGED vars PROVE Inductif'
<1>1. CASE UNCHANGED vars
  <2>1. UNCHANGED <<ctx, globales, controle, verrou, pc, tube, pendants, tropTot>>
    BY <1>1 DEF vars, listes, locaux
  <2> QED BY <2>1, ImmobilePreserve
<1>2. CASE (\E s \in S : Branche(s) \/ Debranche(s)) \/ AutreMessage
  BY <1>2, PrisesPreserve
<1>3. ASSUME NEW f \in F, Programme(f) PROVE Inductif'
  <2>1. CASE \E b \in BOOLEAN : libusb_init(f, b)
    BY <2>1, InitPreserve
  <2>2. CASE Ajoute(f) \/ op_init(f) \/ FinCherche(f)
    BY <2>2, AjoutePreserve, OpInitPreserve, FinCherchePreserve
  <2>3. CASE linux_scan_devices(f) \/ libusb_get_device_list(f) \/ op_hotplug_poll(f) \/ Copie(f)
    BY <2>3, AppelsPreserve
  <2>4. CASE Cherche(f)
    BY <2>4, PrisesPreserve
  <2>5. CASE IoInit(f) \/ usbi_io_init(f) \/ Echec(f)
    BY <2>5, IoInitPreserve, UsbiIoInitPreserve, EchecPreserve
  <2>6. CASE libusb_exit(f) \/ Retire(f) \/ op_exit(f) \/ Joint(f)
    BY <2>6, ExitPreserve, RetirePreserve, OpExitPreserve, JointPreserve
  <2>7. CASE Traite(f)
    BY <2>7, TraitePreserve
  <2> QED BY <1>3, <2>1, <2>2, <2>3, <2>4, <2>5, <2>6, <2>7 DEF Programme
<1>4. ASSUME NEW f \in Fils, Commun(f) PROVE Inductif'
  <2>1. CASE Enumere(f) \/ linux_get_parent_info(f) \/ Arrivee(f)
    BY <2>1, PrisesPreserve
  <2>2. CASE usbi_connect_device(f) \/ Depart(f)
    BY <2>2, ListePreserve
  <2>3. CASE Diffuse(f) \/ FinDiffuse(f)
    BY <2>3, DiffusePreserve
  <2> QED BY <1>4, <2>1, <2>2, <2>3 DEF Commun
<1>5. CASE Reveille \/ Lit
  BY <1>5, AppelsPreserve
<1> QED BY <1>1, <1>2, <1>3, <1>4, <1>5 DEF Next

(* The invariant says that the contexts in use are alive. *)
LEMMA ContextesPromesse == ASSUME Hypotheses, Inductif PROVE ContexteVivant
<1> USE ContextesConstantes
<1>1. SUFFICES ASSUME NEW f \in F, Vivant(f), NEW c, c = ctx[f]
      PROVE  /\ c \in active_contexts_list /\ init_count > 0
             /\ pc[Moniteur] \notin {"absent", "termine"} /\ ~controle
             /\ c = usbi_default_context => default_context_refcnt = Cardinality({g \in F : ctx[g] = c})
             /\ c # usbi_default_context => \A g \in F \ {f} : ctx[g] # c
             /\ pendants[c] /\ ~tropTot[c] => tube[c] = "octet"
  BY DEF ContexteVivant
<1>2. pc[f] \in Vives
  BY <1>1 DEF Vivant, Vives
<1>3. Verrouille(f) /\ Possede(f) /\ TypeContextes /\ ParDefaut /\ Surveillance
  BY DEF Inductif
<1>4. c # Rien /\ c \in X /\ c \in active_contexts_list
  BY <1>1, <1>2, <1>3 DEF Possede, TypeContextes, Vives, EnListe
<1>5. init_count > 0
  <2>1. c \in Comptes
    BY <1>1, <1>2, ContextesComptes DEF Compte
  <2>2. Cardinality(Comptes) \in Nat /\ Cardinality(Comptes) # 0
    BY <1>3, <2>1, FS_CardinalityType, FS_EmptySet DEF Surveillance
  <2> QED BY <1>3, <2>2 DEF Surveillance
<1>6. pc[Moniteur] \notin {"absent", "termine"} /\ ~controle
  BY <1>3, <1>5 DEF Surveillance
<1>7. c = usbi_default_context => default_context_refcnt = Cardinality({g \in F : ctx[g] = c})
  <2>1. c = usbi_default_context => {g \in F : ctx[g] = c} = Usagers
    BY <1>4 DEF Usagers
  <2> QED BY <1>3, <2>1 DEF ParDefaut
<1>8. ASSUME c # usbi_default_context, NEW g \in F \ {f} PROVE ctx[g] # c
  <2>1. Partage(f, g)
    BY DEF Inductif
  <2> QED BY <1>1, <1>4, <1>8, <2>1 DEF Partage
<1>9. pendants[c] /\ ~tropTot[c] => tube[c] = "octet"
  BY <1>4 DEF Inductif, Tuyau
<1> QED BY <1>4, <1>5, <1>6, <1>7, <1>8, <1>9

-----------------------------------------------------------------------------
(* The pipes of Darwin: while one thread at a time opens and closes, the   *)
(* device is open as long as a handle is, and each transfer in progress is *)
(* on the pipe of its endpoint, will be answered, and is aborted only on   *)
(* demand, for any threads, handles, interfaces and transfers.             *)
(* v1 is open_count, v2 is seize, v3 is sources, v4 is poignee, v5 is      *)
(* is_open, v6 is cfSource, v7 is configuration, v8 is active_config, v9   *)
(* is alt, v10 is tenant, v11 is claimed_interfaces, v12 is interface, v13 *)
(* is pc, v14 is de, v15 is etat, v16 is tuyau, v17 is resultat, v18 is    *)
(* annule, v19 is expire, v20 is demande.                                  *)

(* The cardinality that DarwinPipes extends is that of the theorems.       *)
LEMMA PipeCardinal ==
    \A E : Pipe!Cardinality(E) = Cardinality(E) /\ (Pipe!IsFiniteSet(E) <=> IsFiniteSet(E))
BY DEF Pipe!Cardinality, Cardinality, Pipe!IsFiniteSet, IsFiniteSet

(* What the proofs use of the constants. *)
LEMMA TuyauxConstantes ==
    ASSUME Pipe!Hypotheses
    PROVE
    /\ Rien \notin FDarwin /\ Rien \notin HDarwin /\ "autre" \notin HDarwin /\ "autre" # Rien
    /\ \A t \in TTuyaux : DeTuyaux[t].h \in HDarwin
    /\ \A i \in Pipe!I : 0 \in Pipe!Reglages(i)
    /\ <<>> \in Pipe!Tables
    /\ \A i \in Pipe!I : \A a \in Pipe!Reglages(i) : TuyauxDe[i][a] \in Pipe!Tables
BY DEF Pipe!Hypotheses, Pipe!Tables

(* The invariant holds at first. *)
LEMMA TuyauxDepart == ASSUME Pipe!Hypotheses, Pipe!Init PROVE Pipe!Inductif
<1> USE TuyauxConstantes DEF Pipe!Init
<1>1. Pipe!TypeTuyaux
  <2>1. Pipe!Nulle \in Pipe!Fiches
    BY DEF Pipe!Nulle, Pipe!Fiches
  <2>2. v9 \in [Pipe!I -> UNION {Pipe!Reglages(i) : i \in Pipe!I}] /\ \A i \in Pipe!I : v9[i] \in Pipe!Reglages(i)
    OBVIOUS
  <2>3. v12 \in [HDarwin -> [Pipe!I -> Pipe!Fiches]]
    BY <2>1
  <2> QED BY <2>2, <2>3 DEF Pipe!TypeTuyaux
<1>2. Pipe!Comptee
  <2>1. Pipe!Ouvertes = {}
    BY DEF Pipe!Ouvertes
  <2> QED BY <2>1, FS_EmptySet, PipeCardinal DEF Pipe!Comptee
<1>3. ASSUME NEW f \in FDarwin PROVE Pipe!Passage(f)
  BY DEF Pipe!Passage
<1>4. ASSUME NEW h \in HDarwin PROVE Pipe!Ouvreuse(h) /\ \A i \in Pipe!I : Pipe!Objet(h, i)
  BY DEF Pipe!Ouvreuse, Pipe!Objet, Pipe!Nulle
<1>5. ASSUME NEW t \in TTuyaux PROVE Pipe!Transport(t) /\ Pipe!Issue(t)
  BY DEF Pipe!Transport, Pipe!Issue, Pipe!EnVol
<1> QED BY <1>1, <1>2, <1>3, <1>4, <1>5 DEF Pipe!Inductif

-----------------------------------------------------------------------------
(* The objects of the interfaces, when neither they nor the kernel change. *)
LEMMA ObjetsCadre ==
    ASSUME NEW h \in HDarwin, NEW i \in Pipe!I, Pipe!Objet(h, i), UNCHANGED <<Pipe!noyau, Pipe!prises>>
    PROVE  Pipe!Objet(h, i)'
BY DEF Pipe!Objet, Pipe!noyau, Pipe!prises

(* A transfer that does not change, whose handle stays open, on interfaces *)
(* that do not change. *)
LEMMA TransportCadre ==
    ASSUME NEW t \in TTuyaux, Pipe!Transport(t), Pipe!Issue(t), UNCHANGED <<Pipe!transferts, v12, v9>>,
           t \in Pipe!EnVol /\ DeTuyaux[t].h \in Pipe!Ouvertes => DeTuyaux[t].h \in Pipe!Ouvertes'
    PROVE  Pipe!Transport(t)' /\ Pipe!Issue(t)'
BY DEF Pipe!Transport, Pipe!Issue, Pipe!EnVol, Pipe!SurTuyau, Pipe!transferts

(* The first step of an open preserves the types. *)
LEMMA OuvreType ==
    ASSUME Pipe!Hypotheses, Pipe!TypeTuyaux, NEW f \in FDarwin, NEW h \in HDarwin, Pipe!darwin_open(f, h)
    PROVE  Pipe!TypeTuyaux'
<1>0. /\ v2 \in BOOLEAN /\ v3 \subseteq HDarwin /\ v5 \in [HDarwin -> BOOLEAN] /\ v6 \in [HDarwin -> BOOLEAN]
      /\ v13 \in [FDarwin -> {"repos", "compte", "refuse", "ferme"}]
  BY DEF Pipe!TypeTuyaux
<1>1. v2' \in BOOLEAN /\ v3' \subseteq HDarwin /\ v5' \in [HDarwin -> BOOLEAN] /\ v6' \in [HDarwin -> BOOLEAN]
  <2>1. CASE v1 # 0
    BY <1>0, <2>1 DEF Pipe!darwin_open
  <2>2. CASE v1 = 0
    <3>1. PICK ouvre \in {"oui", "occupe", "non"}, source \in BOOLEAN :
              /\ v5' = [v5 EXCEPT ![h] = ouvre = "oui" /\ source]
              /\ v6' = [v6 EXCEPT ![h] = ouvre # "non" /\ source]
              /\ v3' = IF ouvre # "non" /\ source THEN v3 \cup {h} ELSE v3
              /\ v2' = ((v2 \/ ouvre = "oui") /\ ~(ouvre = "oui" /\ ~source))
      BY <2>2 DEF Pipe!darwin_open
    <3>2. v2' \in BOOLEAN
      BY <3>1
    <3>3. v3' \subseteq HDarwin
      BY <1>0, <3>1
    <3>4. v5' \in [HDarwin -> BOOLEAN] /\ v6' \in [HDarwin -> BOOLEAN]
      BY <1>0, <3>1
    <3> QED BY <3>2, <3>3, <3>4
  <2> QED BY <2>1, <2>2
<1>2. v13' \in [FDarwin -> {"repos", "compte", "refuse", "ferme"}]
  <2>1. \E e \in {"compte", "refuse"} : v13' = [v13 EXCEPT ![f] = e]
    BY DEF Pipe!darwin_open, Pipe!Va
  <2> QED BY <1>0, <2>1
<1>3. v14' \in [FDarwin -> HDarwin \cup {Rien}]
  BY DEF Pipe!darwin_open, Pipe!TypeTuyaux
<1> QED BY <1>1, <1>2, <1>3 DEF Pipe!darwin_open, Pipe!TypeTuyaux, Pipe!noyau, Pipe!prises, Pipe!transferts

(* darwin_open: the first handle opens the device, the others are counted. *)
LEMMA OuvrePreserve ==
    ASSUME Pipe!Hypotheses, ~FALSE, Pipe!Inductif, NEW f \in FDarwin, NEW h \in HDarwin, Pipe!darwin_open(f, h)
    PROVE  Pipe!Inductif'
<1> USE TuyauxConstantes
<1>a. Pipe!TypeTuyaux /\ Pipe!Comptee /\ (\A g \in FDarwin : Pipe!Passage(g)) /\ \A k \in HDarwin : Pipe!Ouvreuse(k)
  BY DEF Pipe!Inductif
<1>b. /\ v13 \in [FDarwin -> {"repos", "compte", "refuse", "ferme"}] /\ v14 \in [FDarwin -> HDarwin \cup {Rien}]
      /\ v5 \in [HDarwin -> BOOLEAN] /\ v4 \in [HDarwin -> {"fermee", "ouverte"}]
  BY <1>a DEF Pipe!TypeTuyaux
<1>c. \A g \in FDarwin : v13[g] = "repos"
  BY DEF Pipe!darwin_open, Pipe!Seul
<1>d. /\ v4[h] = "fermee" /\ v14'[f] = h
      /\ v1' = v1 /\ v4' = v4 /\ Pipe!Ouvertes' = Pipe!Ouvertes
      /\ \A g \in FDarwin \ {f} : v13'[g] = v13[g] /\ v14'[g] = v14[g]
      /\ v13'[f] \in {"compte", "refuse"}
  BY <1>b DEF Pipe!darwin_open, Pipe!Ouvertes, Pipe!Va
<1>e. /\ v1 # 0 => v3' = v3 /\ v2' = v2 /\ v5' = v5 /\ v13'[f] = "compte"
      /\ v1 = 0 =>
            /\ \A k \in HDarwin \ {h} : v5'[k] = v5[k]
            /\ v5'[h] => v2' /\ v13'[f] = "compte"
            /\ v13'[f] = "compte" => v3' # {}
  BY <1>b DEF Pipe!darwin_open, Pipe!Va
<1>f. v1 = 0 => \A k \in HDarwin : ~v5[k]
  <2>1. v1 = 0 => Pipe!Ouvertes = {}
    BY <1>a, FS_EmptySet, PipeCardinal DEF Pipe!Comptee
  <2> QED BY <2>1, <1>a, <1>c DEF Pipe!Ouvreuse
<1>g. v1 # 0 => v3 # {} /\ ~v5[h]
  <2>1. v1 # 0 => Pipe!Ouvertes # {}
    BY <1>a, FS_EmptySet, PipeCardinal DEF Pipe!Comptee
  <2> QED BY <2>1, <1>a, <1>c, <1>d DEF Pipe!Ouvreuse, Pipe!Comptee, Pipe!Ouvertes
<1>1. Pipe!TypeTuyaux'
  BY <1>a, OuvreType
<1>2. Pipe!Comptee'
  <2>1. v1 = 0 => Pipe!Ouvertes = {}
    BY <1>a, FS_EmptySet, PipeCardinal DEF Pipe!Comptee
  <2> QED BY <1>a, <1>d, <1>e, <2>1 DEF Pipe!Comptee
<1>3. ASSUME NEW g \in FDarwin PROVE Pipe!Passage(g)'
  <2>1. CASE g = f
    BY <1>b, <1>c, <1>d, <1>e, <1>f, <1>g, <2>1 DEF Pipe!Passage
  <2>2. CASE g # f
    BY <1>c, <1>d, <2>2 DEF Pipe!Passage
  <2> QED BY <2>1, <2>2
<1>4. ASSUME NEW k \in HDarwin PROVE Pipe!Ouvreuse(k)'
  <2>1. CASE v1 = 0
    BY <1>d, <1>e, <1>f, <2>1 DEF Pipe!Ouvreuse
  <2>2. CASE v1 # 0
    BY <1>a, <1>c, <1>d, <1>e, <2>2 DEF Pipe!Ouvreuse
  <2> QED BY <2>1, <2>2
<1>5. ASSUME NEW k \in HDarwin, NEW i \in Pipe!I PROVE Pipe!Objet(k, i)'
  BY ObjetsCadre DEF Pipe!Inductif, Pipe!darwin_open
<1>6. ASSUME NEW t \in TTuyaux PROVE Pipe!Transport(t)' /\ Pipe!Issue(t)'
  BY <1>d, TransportCadre DEF Pipe!Inductif, Pipe!darwin_open, Pipe!prises, Pipe!noyau
<1> QED BY <1>1, <1>2, <1>3, <1>4, <1>5, <1>6 DEF Pipe!Inductif

(* The second step of an open. *)
LEMMA ComptePreserve ==
    ASSUME Pipe!Hypotheses, ~FALSE, Pipe!Inductif, NEW f \in FDarwin, Pipe!Compte(f)
    PROVE  Pipe!Inductif'
<1> USE TuyauxConstantes
<1> DEFINE h == v14[f]
<1>a. Pipe!TypeTuyaux /\ Pipe!Comptee /\ Pipe!Passage(f) /\ \A k \in HDarwin : Pipe!Ouvreuse(k)
  BY DEF Pipe!Inductif
<1>b. /\ v13 \in [FDarwin -> {"repos", "compte", "refuse", "ferme"}] /\ v14 \in [FDarwin -> HDarwin \cup {Rien}]
      /\ v4 \in [HDarwin -> {"fermee", "ouverte"}] /\ v1 \in Nat
  BY <1>a DEF Pipe!TypeTuyaux
<1>c. /\ h \in HDarwin /\ v4[h] = "fermee" /\ \A g \in FDarwin \ {f} : v13[g] = "repos"
      /\ v13[f] = "compte" => v3 # {}
      /\ v13[f] = "refuse" => ~v5[h]
  BY <1>a DEF Pipe!Passage, Pipe!Compte
<1>d. /\ v3' = v3 /\ v2' = v2 /\ v5' = v5
      /\ v13' = [v13 EXCEPT ![f] = "repos"] /\ v14' = [v14 EXCEPT ![f] = Rien]
      /\ \A g \in FDarwin : v13'[g] = "repos"
  BY <1>b, <1>c DEF Pipe!Compte, Pipe!Va
<1>e. CASE v13[f] = "compte"
  <2>1. v1' = v1 + 1 /\ v4' = [v4 EXCEPT ![h] = "ouverte"]
    BY <1>e DEF Pipe!Compte
  <2>2. Pipe!Ouvertes' = Pipe!Ouvertes \cup {h} /\ h \notin Pipe!Ouvertes
    BY <1>b, <1>c, <2>1 DEF Pipe!Ouvertes
  <2>3. Pipe!TypeTuyaux'
    <3>1. v1' \in Nat /\ v4' \in [HDarwin -> {"fermee", "ouverte"}]
      BY <1>b, <1>c, <2>1
    <3>2. v13' \in [FDarwin -> {"repos", "compte", "refuse", "ferme"}] /\ v14' \in [FDarwin -> HDarwin \cup {Rien}]
      BY <1>b, <1>d
    <3> QED BY <1>a, <3>1, <3>2 DEF Pipe!Compte, Pipe!TypeTuyaux, Pipe!noyau, Pipe!prises, Pipe!transferts
  <2>4. Pipe!Comptee'
    BY <1>a, <1>b, <1>c, <1>d, <1>e, <2>1, <2>2, FS_AddElement, PipeCardinal DEF Pipe!Comptee
  <2>5. ASSUME NEW g \in FDarwin PROVE Pipe!Passage(g)'
    BY <1>d DEF Pipe!Passage
  <2>6. ASSUME NEW k \in HDarwin PROVE Pipe!Ouvreuse(k)'
    BY <1>a, <1>c, <1>d, <2>2 DEF Pipe!Ouvreuse
  <2>7. ASSUME NEW k \in HDarwin, NEW i \in Pipe!I PROVE Pipe!Objet(k, i)'
    BY ObjetsCadre DEF Pipe!Inductif, Pipe!Compte
  <2>8. ASSUME NEW t \in TTuyaux PROVE Pipe!Transport(t)' /\ Pipe!Issue(t)'
    BY <2>2, TransportCadre DEF Pipe!Inductif, Pipe!Compte, Pipe!prises, Pipe!noyau
  <2> QED BY <2>3, <2>4, <2>5, <2>6, <2>7, <2>8 DEF Pipe!Inductif
<1>f. CASE v13[f] # "compte"
  <2>1. UNCHANGED <<v1, v4>> /\ v13[f] = "refuse"
    BY <1>f DEF Pipe!Compte
  <2>2. Pipe!Ouvertes' = Pipe!Ouvertes
    BY <2>1 DEF Pipe!Ouvertes
  <2>3. Pipe!TypeTuyaux'
    <3>1. v13' \in [FDarwin -> {"repos", "compte", "refuse", "ferme"}] /\ v14' \in [FDarwin -> HDarwin \cup {Rien}]
      BY <1>b, <1>d
    <3> QED BY <1>a, <2>1, <3>1 DEF Pipe!Compte, Pipe!TypeTuyaux, Pipe!noyau, Pipe!prises, Pipe!transferts
  <2>4. Pipe!Comptee'
    BY <1>a, <1>d, <2>1, <2>2 DEF Pipe!Comptee
  <2>5. ASSUME NEW g \in FDarwin PROVE Pipe!Passage(g)'
    BY <1>d DEF Pipe!Passage
  <2>6. ASSUME NEW k \in HDarwin PROVE Pipe!Ouvreuse(k)'
    BY <1>a, <1>c, <1>d, <2>1, <2>2 DEF Pipe!Ouvreuse
  <2>7. ASSUME NEW k \in HDarwin, NEW i \in Pipe!I PROVE Pipe!Objet(k, i)'
    BY ObjetsCadre DEF Pipe!Inductif, Pipe!Compte
  <2>8. ASSUME NEW t \in TTuyaux PROVE Pipe!Transport(t)' /\ Pipe!Issue(t)'
    BY <2>2, TransportCadre DEF Pipe!Inductif, Pipe!Compte, Pipe!prises, Pipe!noyau
  <2> QED BY <2>3, <2>4, <2>5, <2>6, <2>7, <2>8 DEF Pipe!Inductif
<1> QED BY <1>e, <1>f

-----------------------------------------------------------------------------
(* What a handle gives up.                                                 *)

(* The entries of the handle stay entries. *)
LEMMA RelacheType ==
    ASSUME v12 \in [HDarwin -> [Pipe!I -> Pipe!Fiches]], NEW h \in HDarwin, NEW is, Pipe!Relache(h, is), Pipe!Hypotheses
    PROVE  v12' \in [HDarwin -> [Pipe!I -> Pipe!Fiches]]
<1>1. Pipe!Nulle \in Pipe!Fiches
  BY TuyauxConstantes DEF Pipe!Nulle, Pipe!Fiches
<1>2. [i \in Pipe!I |-> IF i \in is THEN Pipe!Nulle ELSE v12[h][i]] \in [Pipe!I -> Pipe!Fiches]
  BY <1>1
<1> QED BY <1>2 DEF Pipe!Relache

(* A handle that gives up some of its interfaces has no object of them any *)
(* more, nor has another handle. *)
LEMMA ObjetsRelaches ==
    ASSUME Pipe!Hypotheses, Pipe!TypeTuyaux, NEW h \in HDarwin, \A k \in HDarwin, i \in Pipe!I : Pipe!Objet(k, i),
           NEW is \in SUBSET Pipe!I, NEW reste \in SUBSET v11[h], v11[h] \subseteq reste \cup is,
           v12' = [v12 EXCEPT ![h] = [i \in Pipe!I |-> IF i \in is THEN Pipe!Nulle ELSE @[i]]],
           v10' = Pipe!Ferme(h, is),
           v11' = [v11 EXCEPT ![h] = reste], v9' = v9,
           NEW k \in HDarwin, NEW i \in Pipe!I
    PROVE  Pipe!Objet(k, i)'
<1>0. v10 \in [Pipe!I -> HDarwin \cup {Rien, "autre"}] /\ v12 \in [HDarwin -> [Pipe!I -> Pipe!Fiches]]
      /\ v11 \in [HDarwin -> SUBSET Pipe!I]
  BY DEF Pipe!TypeTuyaux
<1>1. CASE k = h /\ i \in is
  <2>1. v12'[k][i] = Pipe!Nulle
    BY <1>0, <1>1
  <2> QED BY <2>1 DEF Pipe!Objet, Pipe!Nulle
<1>2. CASE k = h /\ i \notin is
  <2>1. v12'[k][i] = v12[k][i] /\ v10'[i] = v10[i] /\ v11'[k] = reste
    BY <1>0, <1>2 DEF Pipe!Ferme
  <2> QED BY <1>2, <2>1 DEF Pipe!Objet
<1>3. CASE k # h
  <2>1. v12'[k][i] = v12[k][i] /\ v11'[k] = v11[k]
    BY <1>0, <1>3
  <2>2. v10[i] = k => v10'[i] = k
    BY <1>3 DEF Pipe!Ferme
  <2> QED BY <2>1, <2>2 DEF Pipe!Objet
<1> QED BY <1>1, <1>2, <1>3

(* A transfer of another handle, whose objects do not change. *)
LEMMA TransportAilleurs ==
    ASSUME Pipe!Hypotheses, Pipe!TypeTuyaux, NEW h \in HDarwin, NEW t \in TTuyaux, Pipe!Transport(t), Pipe!Issue(t), t \in Pipe!EnVol => DeTuyaux[t].h # h,
           UNCHANGED <<Pipe!transferts, v9>>, \A k \in HDarwin \ {h} : v12'[k] = v12[k],
           \A k \in HDarwin \ {h} : k \in Pipe!Ouvertes => k \in Pipe!Ouvertes'
    PROVE  Pipe!Transport(t)' /\ Pipe!Issue(t)'
<1>1. DeTuyaux[t].h \in HDarwin
  BY TuyauxConstantes
<1> QED BY <1>1 DEF Pipe!Transport, Pipe!Issue, Pipe!EnVol, Pipe!SurTuyau, Pipe!transferts

(* The first step of a close preserves the types. *)
LEMMA FermeType ==
    ASSUME Pipe!Hypotheses, Pipe!TypeTuyaux, NEW f \in FDarwin, NEW h \in HDarwin, Pipe!darwin_close(f, h)
    PROVE  Pipe!TypeTuyaux'
<1> USE TuyauxConstantes
<1>1. v4' \in [HDarwin -> {"fermee", "ouverte"}]
  BY DEF Pipe!TypeTuyaux, Pipe!darwin_close
<1>2. CASE v1 = 0
  BY <1>1, <1>2 DEF Pipe!TypeTuyaux, Pipe!darwin_close, Pipe!transferts, Pipe!prises
<1>3. CASE v1 # 0
  <2>1. v1' \in Nat
    BY <1>3 DEF Pipe!TypeTuyaux, Pipe!darwin_close
  <2>2. v11' \in [HDarwin -> SUBSET Pipe!I] /\ v13' \in [FDarwin -> {"repos", "compte", "refuse", "ferme"}]
        /\ v14' \in [FDarwin -> HDarwin \cup {Rien}]
    BY <1>3 DEF Pipe!TypeTuyaux, Pipe!darwin_close, Pipe!Va
  <2>3. v12' \in [HDarwin -> [Pipe!I -> Pipe!Fiches]]
    BY <1>3, RelacheType DEF Pipe!TypeTuyaux, Pipe!darwin_close
  <2>4. v10' \in [Pipe!I -> HDarwin \cup {Rien, "autre"}]
    BY <1>3 DEF Pipe!TypeTuyaux, Pipe!darwin_close, Pipe!Ferme
  <2> QED BY <1>1, <2>1, <2>2, <2>3, <2>4 DEF Pipe!TypeTuyaux, Pipe!darwin_close, Pipe!transferts
<1> QED BY <1>2, <1>3

(* The first step of a close. *)
LEMMA FermePreserve ==
    ASSUME Pipe!Hypotheses, ~FALSE, Pipe!Inductif, NEW f \in FDarwin, NEW h \in HDarwin, Pipe!darwin_close(f, h)
    PROVE  Pipe!Inductif'
<1> USE TuyauxConstantes
<1>a. Pipe!TypeTuyaux /\ Pipe!Comptee /\ (\A g \in FDarwin : Pipe!Passage(g)) /\ (\A k \in HDarwin : Pipe!Ouvreuse(k))
      /\ \A k \in HDarwin, i \in Pipe!I : Pipe!Objet(k, i)
  BY DEF Pipe!Inductif
<1>b. /\ v13 \in [FDarwin -> {"repos", "compte", "refuse", "ferme"}] /\ v14 \in [FDarwin -> HDarwin \cup {Rien}]
      /\ v5 \in [HDarwin -> BOOLEAN] /\ v4 \in [HDarwin -> {"fermee", "ouverte"}] /\ v1 \in Nat
  BY <1>a DEF Pipe!TypeTuyaux
<1>c. \A g \in FDarwin : v13[g] = "repos"
  BY DEF Pipe!darwin_close, Pipe!Seul
<1>d. h \in Pipe!Ouvertes /\ v1 # 0
  <2>1. h \in Pipe!Ouvertes
    BY DEF Pipe!darwin_close, Pipe!Ouvertes
  <2>2. Cardinality(Pipe!Ouvertes) # 0
    BY <1>a, <2>1, FS_EmptySet, PipeCardinal DEF Pipe!Comptee
  <2> QED BY <1>a, <2>1, <2>2, PipeCardinal DEF Pipe!Comptee
<1>e. /\ v1' = v1 - 1 /\ v3' = v3 /\ v2' = v2 /\ v5' = v5
      /\ v13' = [v13 EXCEPT ![f] = "ferme"] /\ v14' = [v14 EXCEPT ![f] = h]
      /\ v4' = [v4 EXCEPT ![h] = "fermee"]
      /\ v12' = [v12 EXCEPT ![h] = [i \in Pipe!I |-> IF i \in v11[h] THEN Pipe!Nulle ELSE @[i]]]
      /\ v10' = Pipe!Ferme(h, v11[h])
      /\ v11' = [v11 EXCEPT ![h] = {}]
      /\ v9' = v9 /\ UNCHANGED Pipe!transferts
  BY <1>d DEF Pipe!darwin_close, Pipe!Relache, Pipe!Va
<1>f. Pipe!Ouvertes' = Pipe!Ouvertes \ {h}
  BY <1>b, <1>e DEF Pipe!Ouvertes
<1>1. Pipe!TypeTuyaux'
  BY <1>a, FermeType
<1>2. Pipe!Comptee'
  BY <1>a, <1>b, <1>d, <1>e, <1>f, FS_RemoveElement, PipeCardinal DEF Pipe!Comptee
<1>3. ASSUME NEW g \in FDarwin PROVE Pipe!Passage(g)'
  <2>1. v4'[h] = "fermee" /\ v13'[f] = "ferme" /\ v14'[f] = h /\ \A k \in FDarwin \ {f} : v13'[k] = "repos"
    BY <1>b, <1>c, <1>e
  <2> QED BY <2>1 DEF Pipe!Passage
<1>4. ASSUME NEW k \in HDarwin PROVE Pipe!Ouvreuse(k)'
  <2>1. v13'[f] = "ferme" /\ v14'[f] = h
    BY <1>b, <1>e
  <2> QED BY <1>a, <1>c, <1>e, <1>f, <2>1 DEF Pipe!Ouvreuse
<1>5. ASSUME NEW k \in HDarwin, NEW i \in Pipe!I PROVE Pipe!Objet(k, i)'
  <2>1. v11[h] \in SUBSET Pipe!I /\ {} \in SUBSET v11[h]
        /\ v11[h] \subseteq {} \cup v11[h]
    BY <1>a DEF Pipe!TypeTuyaux
  <2> QED BY <1>a, <1>e, <2>1, ObjetsRelaches
<1>6. ASSUME NEW t \in TTuyaux PROVE Pipe!Transport(t)' /\ Pipe!Issue(t)'
  <2>1. t \in Pipe!EnVol => DeTuyaux[t].h # h
    BY DEF Pipe!darwin_close, Pipe!Repos
  <2> QED BY <1>e, <1>f, <2>1, TransportAilleurs DEF Pipe!Inductif
<1> QED BY <1>1, <1>2, <1>3, <1>4, <1>5, <1>6 DEF Pipe!Inductif

(* The last step of a close preserves the types. *)
LEMMA DeviceCloseType ==
    ASSUME Pipe!Hypotheses, Pipe!TypeTuyaux, NEW f \in FDarwin, v14[f] \in HDarwin, Pipe!USBDeviceClose(f)
    PROVE  Pipe!TypeTuyaux'
<1> USE TuyauxConstantes
<1>1. v3' \subseteq HDarwin /\ v2' \in BOOLEAN
  BY DEF Pipe!TypeTuyaux, Pipe!USBDeviceClose
<1>2. v5' \in [HDarwin -> BOOLEAN] /\ v6' \in [HDarwin -> BOOLEAN]
  BY DEF Pipe!TypeTuyaux, Pipe!USBDeviceClose
<1>3. v13' \in [FDarwin -> {"repos", "compte", "refuse", "ferme"}] /\ v14' \in [FDarwin -> HDarwin \cup {Rien}]
  BY DEF Pipe!TypeTuyaux, Pipe!USBDeviceClose, Pipe!Va
<1>4. v12' \in [HDarwin -> [Pipe!I -> Pipe!Fiches]]
  <2>1. [i \in Pipe!I |-> Pipe!Nulle] \in [Pipe!I -> Pipe!Fiches]
    BY DEF Pipe!Nulle, Pipe!Fiches
  <2> QED BY <2>1 DEF Pipe!TypeTuyaux, Pipe!USBDeviceClose
<1> QED BY <1>1, <1>2, <1>3, <1>4 DEF Pipe!TypeTuyaux, Pipe!USBDeviceClose, Pipe!noyau, Pipe!transferts

(* The last step of a close. *)
LEMMA DeviceClosePreserve ==
    ASSUME Pipe!Hypotheses, ~FALSE, Pipe!Inductif, NEW f \in FDarwin, Pipe!USBDeviceClose(f)
    PROVE  Pipe!Inductif'
<1> USE TuyauxConstantes
<1> DEFINE h == v14[f]
<1>a. Pipe!TypeTuyaux /\ Pipe!Comptee /\ Pipe!Passage(f) /\ (\A k \in HDarwin : Pipe!Ouvreuse(k)) /\ \A k \in HDarwin, i \in Pipe!I : Pipe!Objet(k, i)
  BY DEF Pipe!Inductif
<1>b. /\ v13 \in [FDarwin -> {"repos", "compte", "refuse", "ferme"}] /\ v14 \in [FDarwin -> HDarwin \cup {Rien}]
      /\ v5 \in [HDarwin -> BOOLEAN] /\ v12 \in [HDarwin -> [Pipe!I -> Pipe!Fiches]]
  BY <1>a DEF Pipe!TypeTuyaux
<1>c. h \in HDarwin /\ h \notin Pipe!Ouvertes /\ \A g \in FDarwin \ {f} : v13[g] = "repos"
  BY <1>a DEF Pipe!Passage, Pipe!USBDeviceClose, Pipe!Ouvertes
<1>d. /\ v13' = [v13 EXCEPT ![f] = "repos"] /\ v1' = v1 /\ v4' = v4
      /\ v5' = [v5 EXCEPT ![h] = FALSE]
      /\ v12' = [v12 EXCEPT ![h] = [i \in Pipe!I |-> Pipe!Nulle]]
      /\ UNCHANGED <<Pipe!noyau, v11, Pipe!transferts>>
  BY DEF Pipe!USBDeviceClose, Pipe!Va
<1>e. Pipe!Ouvertes' = Pipe!Ouvertes /\ \A g \in FDarwin : v13'[g] = "repos"
  BY <1>b, <1>c, <1>d DEF Pipe!Ouvertes
<1>f. v1 # 0 \/ Pipe!Ouvertes = {}
  BY <1>a, FS_EmptySet, PipeCardinal DEF Pipe!Comptee
<1>1. Pipe!TypeTuyaux'
  BY <1>a, <1>c, DeviceCloseType
<1>2. Pipe!Comptee'
  <2>1. Pipe!Ouvertes # {} => v3' = v3
    BY <1>a, <1>f, FS_EmptySet, PipeCardinal DEF Pipe!USBDeviceClose, Pipe!Derniere, Pipe!Comptee
  <2> QED BY <1>a, <1>d, <1>e, <2>1 DEF Pipe!Comptee
<1>3. ASSUME NEW g \in FDarwin PROVE Pipe!Passage(g)'
  BY <1>e DEF Pipe!Passage
<1>4. ASSUME NEW k \in HDarwin PROVE Pipe!Ouvreuse(k)'
  <2>1. SUFFICES ASSUME v5'[k] PROVE v2' /\ k \in Pipe!Ouvertes'
    BY DEF Pipe!Ouvreuse
  <2>2. k # h /\ v5[k] /\ v2 /\ k \in Pipe!Ouvertes
    BY <1>a, <1>b, <1>c, <1>d, <2>1 DEF Pipe!Ouvreuse
  <2>3. v1 # 0
    BY <1>f, <2>2
  <2> QED BY <1>e, <2>2, <2>3 DEF Pipe!USBDeviceClose, Pipe!Derniere
<1>5. ASSUME NEW k \in HDarwin, NEW i \in Pipe!I PROVE Pipe!Objet(k, i)'
  <2>1. CASE k = h
    <3>1. v12'[k][i] = Pipe!Nulle
      BY <1>b, <1>c, <1>d, <2>1
    <3> QED BY <3>1 DEF Pipe!Objet, Pipe!Nulle
  <2>2. CASE k # h
    <3>1. v12'[k] = v12[k]
      BY <1>b, <1>d, <2>2
    <3> QED BY <1>a, <1>d, <3>1 DEF Pipe!Objet, Pipe!noyau
  <2> QED BY <2>1, <2>2
<1>6. ASSUME NEW t \in TTuyaux PROVE Pipe!Transport(t)' /\ Pipe!Issue(t)'
  <2>1. t \in Pipe!EnVol => DeTuyaux[t].h # h
    BY <1>c DEF Pipe!Inductif, Pipe!Transport
  <2>2. \A k \in HDarwin \ {h} : v12'[k] = v12[k]
    BY <1>b, <1>d
  <2> QED BY <1>c, <1>d, <1>e, <2>1, <2>2, TransportAilleurs DEF Pipe!Inductif, Pipe!noyau
<1> QED BY <1>1, <1>2, <1>3, <1>4, <1>5, <1>6 DEF Pipe!Inductif

-----------------------------------------------------------------------------
(* What the calls on interfaces leave alone: nobody opens or closes, and   *)
(* no transfer changes.                                                    *)
LEMMA PriseCadre ==
    ASSUME Pipe!Hypotheses, Pipe!Inductif, UNCHANGED <<Pipe!ouvertures, v13, v14, Pipe!transferts>>, Pipe!TypeTuyaux',
           \A h \in HDarwin, i \in Pipe!I : Pipe!Objet(h, i)', \A t \in TTuyaux : Pipe!Transport(t)'
    PROVE  Pipe!Inductif'
<1>1. Pipe!Ouvertes' = Pipe!Ouvertes
  BY DEF Pipe!Ouvertes, Pipe!ouvertures
<1>2. Pipe!Comptee'
  BY <1>1 DEF Pipe!Inductif, Pipe!Comptee, Pipe!ouvertures
<1>3. ASSUME NEW f \in FDarwin PROVE Pipe!Passage(f)'
  BY DEF Pipe!Inductif, Pipe!Passage, Pipe!ouvertures
<1>4. ASSUME NEW h \in HDarwin PROVE Pipe!Ouvreuse(h)'
  BY <1>1 DEF Pipe!Inductif, Pipe!Ouvreuse, Pipe!ouvertures
<1>5. ASSUME NEW t \in TTuyaux PROVE Pipe!Issue(t)'
  BY DEF Pipe!Inductif, Pipe!Issue, Pipe!EnVol, Pipe!transferts
<1> QED BY <1>2, <1>3, <1>4, <1>5 DEF Pipe!Inductif

(* Their types: what they write in the kernel and in the handles. *)
LEMMA PriseType ==
    ASSUME Pipe!Hypotheses, Pipe!TypeTuyaux, UNCHANGED <<Pipe!ouvertures, v13, v14, Pipe!transferts>>,
           \A i \in Pipe!I : v9'[i] \in Pipe!Reglages(i), v9' \in [Pipe!I -> UNION {Pipe!Reglages(i) : i \in Pipe!I}],
           v10' \in [Pipe!I -> HDarwin \cup {Rien, "autre"}], v11' \in [HDarwin -> SUBSET Pipe!I],
           v12' \in [HDarwin -> [Pipe!I -> Pipe!Fiches]]
    PROVE  Pipe!TypeTuyaux'
BY DEF Pipe!TypeTuyaux, Pipe!ouvertures, Pipe!transferts

(* A configuration that is set again: the objects of the others are dead,  *)
(* the handle has those that it has claimed again. *)
LEMMA ReclamesPreserve ==
    ASSUME Pipe!Hypotheses, Pipe!Inductif, NEW h \in HDarwin, Pipe!EnVol = {}, NEW R \in SUBSET v11[h], Pipe!Reclames(h, R),
           UNCHANGED <<Pipe!ouvertures, v11, v13, v14, Pipe!transferts>>
    PROVE  Pipe!Inductif'
<1> USE TuyauxConstantes
<1>a. Pipe!TypeTuyaux /\ \A k \in HDarwin, i \in Pipe!I : Pipe!Objet(k, i)
  BY DEF Pipe!Inductif
<1>b. v12 \in [HDarwin -> [Pipe!I -> Pipe!Fiches]] /\ v11 \in [HDarwin -> SUBSET Pipe!I]
  BY <1>a DEF Pipe!TypeTuyaux
<1>c. Pipe!Nulle \in Pipe!Fiches /\ (\A i \in Pipe!I : Pipe!Neuve(i) \in Pipe!Fiches) /\ \A r \in Pipe!Fiches : Pipe!Tuee(r) \in Pipe!Fiches /\ Pipe!Tuee(r).objet # "ouvert"
  <2>1. Pipe!Nulle \in Pipe!Fiches /\ \A i \in Pipe!I : Pipe!Neuve(i) \in Pipe!Fiches
    BY DEF Pipe!Nulle, Pipe!Neuve, Pipe!Fiches
  <2>2. ASSUME NEW r \in Pipe!Fiches PROVE Pipe!Tuee(r) \in Pipe!Fiches /\ Pipe!Tuee(r).objet # "ouvert"
    BY DEF Pipe!Tuee, Pipe!Fiches
  <2> QED BY <2>1, <2>2
<1>d. ASSUME NEW k \in HDarwin, NEW i \in Pipe!I
      PROVE  v12'[k][i] = IF k # h THEN Pipe!Tuee(v12[k][i])
                                ELSE IF i \in R THEN Pipe!Neuve(i)
                                ELSE IF i \in v11[h] THEN Pipe!Nulle ELSE v12[h][i]
  BY DEF Pipe!Reclames
<1>1. Pipe!TypeTuyaux'
  <2>1. v9' \in [Pipe!I -> UNION {Pipe!Reglages(i) : i \in Pipe!I}] /\ \A i \in Pipe!I : v9'[i] \in Pipe!Reglages(i)
    BY DEF Pipe!Reclames
  <2>2. v10' \in [Pipe!I -> HDarwin \cup {Rien, "autre"}]
    BY DEF Pipe!Reclames
  <2>3. v12' \in [HDarwin -> [Pipe!I -> Pipe!Fiches]]
    <3>1. \A k \in HDarwin, i \in Pipe!I : v12'[k][i] \in Pipe!Fiches
      BY <1>b, <1>c, <1>d
    <3> QED BY <3>1 DEF Pipe!Reclames
  <2> QED BY <1>a, <1>b, <2>1, <2>2, <2>3, PriseType
<1>2. ASSUME NEW k \in HDarwin, NEW i \in Pipe!I PROVE Pipe!Objet(k, i)'
  <2>1. SUFFICES ASSUME v12'[k][i].objet = "ouvert" PROVE Pipe!Objet(k, i)'
    BY DEF Pipe!Objet
  <2>2. k = h
    BY <1>b, <1>c, <1>d, <2>1
  <2>3. i \in R
    <3>1. Pipe!Nulle.objet # "ouvert"
      BY DEF Pipe!Nulle
    <3>2. v12[h][i].objet = "ouvert" => i \in v11[h]
      BY <1>a DEF Pipe!Objet
    <3> QED BY <1>d, <2>1, <2>2, <3>1, <3>2
  <2>4. v10'[i] = h /\ v9'[i] = 0 /\ v12'[k][i] = Pipe!Neuve(i)
    BY <1>d, <2>2, <2>3 DEF Pipe!Reclames
  <2> QED BY <2>2, <2>3, <2>4 DEF Pipe!Objet, Pipe!Neuve
<1>3. ASSUME NEW t \in TTuyaux PROVE Pipe!Transport(t)'
  BY DEF Pipe!Transport, Pipe!EnVol, Pipe!transferts
<1> QED BY <1>1, <1>2, <1>3, PriseCadre

(* libusb_set_configuration. *)
LEMMA ConfigurationPreserve ==
    ASSUME Pipe!Hypotheses, Pipe!Inductif, NEW f \in FDarwin, NEW h \in HDarwin,
           (\E c \in 1..NCDarwin : Pipe!darwin_set_configuration(f, h, c)) \/ Pipe!Configure(f, h)
    PROVE  Pipe!Inductif'
<1>1. CASE \E R \in SUBSET v11[h] : Pipe!Reclames(h, R)
  <2>1. Pipe!EnVol = {} /\ UNCHANGED <<Pipe!ouvertures, v11, v13, v14, Pipe!transferts>>
    BY DEF Pipe!darwin_set_configuration, Pipe!Configure
  <2> QED BY <1>1, <2>1, ReclamesPreserve
<1>2. CASE ~\E R \in SUBSET v11[h] : Pipe!Reclames(h, R)
  <2>1. /\ Pipe!Relache(h, v11[h]) /\ v10' = Pipe!Ferme(h, v11[h])
        /\ UNCHANGED v9 /\ UNCHANGED <<Pipe!ouvertures, v11, v13, v14, Pipe!transferts>> /\ Pipe!EnVol = {}
    BY <1>2 DEF Pipe!darwin_set_configuration, Pipe!Configure
  <2>2. Pipe!TypeTuyaux /\ \A k \in HDarwin, i \in Pipe!I : Pipe!Objet(k, i)
    BY DEF Pipe!Inductif
  <2>3. Pipe!TypeTuyaux'
    <3>1. v12' \in [HDarwin -> [Pipe!I -> Pipe!Fiches]]
      BY <2>1, <2>2, RelacheType DEF Pipe!TypeTuyaux
    <3>2. v10' \in [Pipe!I -> HDarwin \cup {Rien, "autre"}]
      BY <2>1, <2>2 DEF Pipe!TypeTuyaux, Pipe!Ferme
    <3> QED BY <2>1, <2>2, <3>1, <3>2, PriseType DEF Pipe!TypeTuyaux
  <2>4. ASSUME NEW k \in HDarwin, NEW i \in Pipe!I PROVE Pipe!Objet(k, i)'
    <3>1. /\ v11[h] \in SUBSET Pipe!I
          /\ v11[h] \in SUBSET v11[h]
          /\ v11[h] \subseteq v11[h] \cup v11[h]
          /\ v11' = [v11 EXCEPT ![h] = v11[h]]
      BY <2>1, <2>2 DEF Pipe!TypeTuyaux
    <3> QED BY <2>1, <2>2, <3>1, ObjetsRelaches DEF Pipe!Relache
  <2>5. ASSUME NEW t \in TTuyaux PROVE Pipe!Transport(t)'
    BY <2>1 DEF Pipe!Transport, Pipe!EnVol, Pipe!transferts
  <2> QED BY <2>1, <2>3, <2>4, <2>5, PriseCadre
<1> QED BY <1>1, <1>2

(* A transfer keeps its pipe when the objects of its handle that are open, *)
(* and their settings, do not change. *)
LEMMA TransportGarde ==
    ASSUME Pipe!Hypotheses, NEW t \in TTuyaux, Pipe!Transport(t), UNCHANGED <<Pipe!ouvertures, Pipe!transferts>>,
           \A i \in Pipe!I : t \in Pipe!EnVol /\ v12[DeTuyaux[t].h][i].objet = "ouvert" =>
                /\ v12'[DeTuyaux[t].h][i].objet = "ouvert" /\ v9'[i] = v9[i]
    PROVE  Pipe!Transport(t)'
<1>1. Pipe!Ouvertes' = Pipe!Ouvertes /\ (t \in Pipe!EnVol)' = (t \in Pipe!EnVol) /\ v16' = v16
  BY DEF Pipe!Ouvertes, Pipe!ouvertures, Pipe!EnVol, Pipe!transferts
<1>2. Pipe!SurTuyau(t) /\ t \in Pipe!EnVol => Pipe!SurTuyau(t)'
  BY <1>1 DEF Pipe!SurTuyau
<1> QED BY <1>1, <1>2 DEF Pipe!Transport

(* libusb_claim_interface. *)
LEMMA ClaimPreserve ==
    ASSUME Pipe!Hypotheses, Pipe!Inductif, NEW f \in FDarwin, NEW h \in HDarwin, NEW i \in Pipe!I, Pipe!darwin_claim_interface(f, h, i)
    PROVE  Pipe!Inductif'
<1> USE TuyauxConstantes
<1>a. Pipe!TypeTuyaux /\ \A k \in HDarwin, j \in Pipe!I : Pipe!Objet(k, j)
  BY DEF Pipe!Inductif
<1>b. /\ v12 \in [HDarwin -> [Pipe!I -> Pipe!Fiches]] /\ v11 \in [HDarwin -> SUBSET Pipe!I]
      /\ v10 \in [Pipe!I -> HDarwin \cup {Rien, "autre"}] /\ \A j \in Pipe!I : v9[j] \in Pipe!Reglages(j)
  BY <1>a DEF Pipe!TypeTuyaux
<1>c. UNCHANGED <<Pipe!ouvertures, v9, v13, v14, Pipe!transferts>> /\ i \notin v11[h]
  BY DEF Pipe!darwin_claim_interface
<1>d. v12[h][i].objet # "ouvert"
  BY <1>a, <1>c DEF Pipe!Objet
<1> DEFINE Saisit(r, g, E) ==
        /\ v12' = [v12 EXCEPT ![h] = [@ EXCEPT ![i] = r]]
        /\ v10' = [v10 EXCEPT ![i] = g]
        /\ v11' = [v11 EXCEPT ![h] = E]
<1>e. \E r \in Pipe!Fiches, g \in HDarwin \cup {Rien, "autre"}, E \in SUBSET Pipe!I :
         /\ Saisit(r, g, E)
         /\ \/ r.objet # "ouvert" /\ g = v10[i] /\ E = v11[h]
            \/ /\ v10[i] = Rien /\ g = h /\ E = v11[h] \cup {i}
               /\ r.objet = "ouvert" /\ r.endpoint_addrs = TuyauxDe[i][v9[i]] /\ r.cfSource = "vive"
  <2>1. v10 = [v10 EXCEPT ![i] = v10[i]] /\ v11 = [v11 EXCEPT ![h] = v11[h]]
    BY <1>b
  <2>2. CASE v10[i] # Rien
    <3> DEFINE r == [v12[h][i] EXCEPT !.objet = "tenu"]
    <3>0. v12[h][i] \in Pipe!Fiches
      BY <1>b
    <3>1. r \in Pipe!Fiches /\ r.objet # "ouvert"
      BY <3>0 DEF Pipe!Fiches
    <3>2. Saisit(r, v10[i], v11[h])
      BY <2>1, <2>2 DEF Pipe!darwin_claim_interface
    <3> QED BY <1>b, <3>1, <3>2
  <2>3. CASE v10[i] = Rien /\ v10' # v10
    <3> DEFINE r == [Pipe!Neuve(i) EXCEPT !.endpoint_addrs = TuyauxDe[i][v9[i]]]
    <3>1. /\ r \in Pipe!Fiches /\ r.objet = "ouvert" /\ r.endpoint_addrs = TuyauxDe[i][v9[i]] /\ r.cfSource = "vive"
      BY <1>b DEF Pipe!Fiches, Pipe!Neuve
    <3>2. Saisit(r, h, v11[h] \cup {i})
      BY <2>3 DEF Pipe!darwin_claim_interface
    <3> QED BY <1>b, <2>3, <3>1, <3>2
  <2>4. CASE v10[i] = Rien /\ v10' = v10
    <3>1. Pipe!Nulle \in Pipe!Fiches /\ Pipe!Nulle.objet # "ouvert"
      BY DEF Pipe!Nulle, Pipe!Fiches
    <3>2. v10 # [v10 EXCEPT ![i] = h]
      BY <1>b, <2>4
    <3>3. Saisit(Pipe!Nulle, v10[i], v11[h])
      BY <2>1, <2>4, <3>2 DEF Pipe!darwin_claim_interface
    <3> QED BY <1>b, <3>1, <3>3
  <2> QED BY <2>2, <2>3, <2>4
<1>f. PICK r \in Pipe!Fiches, g \in HDarwin \cup {Rien, "autre"}, E \in SUBSET Pipe!I :
         /\ Saisit(r, g, E)
         /\ \/ r.objet # "ouvert" /\ g = v10[i] /\ E = v11[h]
            \/ /\ v10[i] = Rien /\ g = h /\ E = v11[h] \cup {i}
               /\ r.objet = "ouvert" /\ r.endpoint_addrs = TuyauxDe[i][v9[i]] /\ r.cfSource = "vive"
  BY <1>e
<1>g. /\ \A k \in HDarwin, j \in Pipe!I : v12'[k][j] = IF k = h /\ j = i THEN r ELSE v12[k][j]
      /\ \A j \in Pipe!I : v10'[j] = IF j = i THEN g ELSE v10[j]
      /\ \A k \in HDarwin : v11'[k] = IF k = h THEN E ELSE v11[k]
  BY <1>b, <1>f
<1>1. Pipe!TypeTuyaux'
  <2>1. v12' \in [HDarwin -> [Pipe!I -> Pipe!Fiches]] /\ v10' \in [Pipe!I -> HDarwin \cup {Rien, "autre"}]
        /\ v11' \in [HDarwin -> SUBSET Pipe!I]
    BY <1>b, <1>f
  <2> QED BY <1>a, <1>c, <2>1, PriseType DEF Pipe!TypeTuyaux
<1>2. ASSUME NEW k \in HDarwin, NEW j \in Pipe!I PROVE Pipe!Objet(k, j)'
  <2>1. CASE k = h /\ j = i
    <3>1. v12'[k][j] = r /\ v10'[j] = g /\ v11'[k] = E /\ v9' = v9
      BY <1>c, <1>g, <2>1
    <3> QED BY <1>f, <2>1, <3>1 DEF Pipe!Objet
  <2>2. CASE ~(k = h /\ j = i)
    <3>1. v12'[k][j] = v12[k][j] /\ v9' = v9
      BY <1>c, <1>g, <2>2
    <3>2. j \in v11[k] => j \in v11'[k]
      BY <1>f, <1>g
    <3>3. v10[j] = k => v10'[j] = k
      BY <1>f, <1>g
    <3> QED BY <1>a, <3>1, <3>2, <3>3 DEF Pipe!Objet
  <2> QED BY <2>1, <2>2
<1>3. ASSUME NEW t \in TTuyaux PROVE Pipe!Transport(t)'
  <2>1. \A j \in Pipe!I : v12[DeTuyaux[t].h][j].objet = "ouvert" => v12'[DeTuyaux[t].h][j].objet = "ouvert" /\ v9'[j] = v9[j]
    BY <1>c, <1>d, <1>g
  <2> QED BY <1>c, <2>1, TransportGarde DEF Pipe!Inductif
<1> QED BY <1>1, <1>2, <1>3, <1>c, PriseCadre

(* A transfer when a handle that has none gives up interfaces. *)
LEMMA AilleursRelache ==
    ASSUME Pipe!Hypotheses, Pipe!TypeTuyaux, NEW h \in HDarwin, Pipe!Repos(h), NEW t \in TTuyaux, Pipe!Transport(t), Pipe!Issue(t), NEW is, Pipe!Relache(h, is),
           UNCHANGED <<Pipe!ouvertures, Pipe!transferts, v9>>
    PROVE  Pipe!Transport(t)'
<1>1. t \in Pipe!EnVol => DeTuyaux[t].h # h
  BY DEF Pipe!Repos
<1>2. \A k \in HDarwin \ {h} : v12'[k] = v12[k]
  BY DEF Pipe!Relache, Pipe!TypeTuyaux
<1>3. Pipe!Ouvertes' = Pipe!Ouvertes
  BY DEF Pipe!Ouvertes, Pipe!ouvertures
<1> QED BY <1>1, <1>2, <1>3, TransportAilleurs

(* libusb_release_interface. *)
LEMMA ReleasePreserve ==
    ASSUME Pipe!Hypotheses, Pipe!Inductif, NEW f \in FDarwin, NEW h \in HDarwin, NEW i \in Pipe!I, Pipe!darwin_release_interface(f, h, i)
    PROVE  Pipe!Inductif'
<1>a. Pipe!TypeTuyaux /\ \A k \in HDarwin, j \in Pipe!I : Pipe!Objet(k, j)
  BY DEF Pipe!Inductif
<1>b. /\ Pipe!Relache(h, {i}) /\ v10' = Pipe!Ferme(h, {i}) /\ v9' = v9
      /\ v11' = [v11 EXCEPT ![h] = v11[h] \ {i}]
      /\ UNCHANGED <<Pipe!ouvertures, v13, v14, Pipe!transferts>> /\ Pipe!Repos(h)
  BY DEF Pipe!darwin_release_interface
<1>c. v11[h] \in SUBSET Pipe!I
  BY <1>a DEF Pipe!TypeTuyaux
<1>1. Pipe!TypeTuyaux'
  <2>1. v12' \in [HDarwin -> [Pipe!I -> Pipe!Fiches]]
    BY <1>a, <1>b, RelacheType DEF Pipe!TypeTuyaux
  <2>2. v10' \in [Pipe!I -> HDarwin \cup {Rien, "autre"}]
    BY <1>a, <1>b DEF Pipe!TypeTuyaux, Pipe!Ferme
  <2>3. v11' \in [HDarwin -> SUBSET Pipe!I]
    BY <1>a, <1>b, <1>c DEF Pipe!TypeTuyaux
  <2> QED BY <1>a, <1>b, <2>1, <2>2, <2>3, PriseType DEF Pipe!TypeTuyaux
<1>2. ASSUME NEW k \in HDarwin, NEW j \in Pipe!I PROVE Pipe!Objet(k, j)'
  <2>1. {i} \in SUBSET Pipe!I /\ v11[h] \ {i} \in SUBSET v11[h]
        /\ v11[h] \subseteq (v11[h] \ {i}) \cup {i}
    OBVIOUS
  <2> QED BY <1>a, <1>b, <2>1, ObjetsRelaches DEF Pipe!Relache
<1>3. ASSUME NEW t \in TTuyaux PROVE Pipe!Transport(t)'
  BY <1>a, <1>b, AilleursRelache DEF Pipe!Inductif
<1> QED BY <1>1, <1>2, <1>3, <1>b, PriseCadre

(* libusb_set_interface_alt_setting: the new table is that of the setting  *)
(* that the interface has now. *)
LEMMA ReglagePreserve ==
    ASSUME Pipe!Hypotheses, Pipe!Inductif, NEW f \in FDarwin, NEW h \in HDarwin, NEW i \in Pipe!I, NEW a \in Pipe!Reglages(i),
           Pipe!darwin_set_interface_altsetting(f, h, i, a)
    PROVE  Pipe!Inductif'
<1>a. Pipe!TypeTuyaux /\ \A k \in HDarwin, j \in Pipe!I : Pipe!Objet(k, j)
  BY DEF Pipe!Inductif
<1>b. /\ UNCHANGED <<Pipe!ouvertures, v11, v13, v14, Pipe!transferts>> /\ Pipe!Repos(h) /\ i \in v11[h]
  BY DEF Pipe!darwin_set_interface_altsetting
<1>c. /\ v12 \in [HDarwin -> [Pipe!I -> Pipe!Fiches]] /\ v11 \in [HDarwin -> SUBSET Pipe!I]
      /\ v9 \in [Pipe!I -> UNION {Pipe!Reglages(j) : j \in Pipe!I}] /\ \A j \in Pipe!I : v9[j] \in Pipe!Reglages(j)
  BY <1>a DEF Pipe!TypeTuyaux
<1>1. CASE v12[h][i].objet = "ouvert"
  <2>1. PICK b \in {a, v9[i]} :
            /\ v9' = [v9 EXCEPT ![i] = b]
            /\ v12' = [v12 EXCEPT ![h][i].endpoint_addrs = Pipe!get_endpoints(i, @, b)]
            /\ UNCHANGED v10
    BY <1>1 DEF Pipe!darwin_set_interface_altsetting
  <2> DEFINE r == [v12[h][i] EXCEPT !.endpoint_addrs = TuyauxDe[i][b]]
  <2>2. b \in Pipe!Reglages(i) /\ TuyauxDe[i][b] \in Pipe!Tables
    BY <1>c, TuyauxConstantes
  <2>3. v12[h][i] \in Pipe!Fiches
    BY <1>c
  <2>4. /\ r \in Pipe!Fiches /\ r.objet = "ouvert" /\ r.endpoint_addrs = TuyauxDe[i][b]
        /\ r.cfSource = v12[h][i].cfSource
    BY <1>1, <2>2, <2>3 DEF Pipe!Fiches
  <2>5. v12' = [v12 EXCEPT ![h] = [@ EXCEPT ![i] = r]]
    BY <2>1 DEF Pipe!get_endpoints
  <2>6. /\ \A k \in HDarwin, j \in Pipe!I : v12'[k][j] = IF k = h /\ j = i THEN r ELSE v12[k][j]
        /\ \A j \in Pipe!I : v9'[j] = IF j = i THEN b ELSE v9[j]
    BY <1>c, <2>1, <2>5
  <2>7. v12[h][i].cfSource = "vive" /\ v10[i] = h
    BY <1>1, <1>a DEF Pipe!Objet
  <2>8. Pipe!TypeTuyaux'
    <3>1. v12' \in [HDarwin -> [Pipe!I -> Pipe!Fiches]]
      BY <1>c, <2>4, <2>5
    <3>2. v9' \in [Pipe!I -> UNION {Pipe!Reglages(j) : j \in Pipe!I}]
      BY <1>c, <2>1, <2>2
    <3>3. \A j \in Pipe!I : v9'[j] \in Pipe!Reglages(j)
      BY <1>c, <2>2, <2>6
    <3> QED BY <1>a, <1>b, <2>1, <3>1, <3>2, <3>3, PriseType DEF Pipe!TypeTuyaux
  <2>9. ASSUME NEW k \in HDarwin, NEW j \in Pipe!I PROVE Pipe!Objet(k, j)'
    <3>1. CASE k = h /\ j = i
      <4>1. v12'[k][j] = r /\ v9'[j] = b /\ v10'[j] = h /\ j \in v11'[k]
        BY <1>b, <2>1, <2>6, <2>7, <3>1
      <4> QED BY <2>4, <2>7, <3>1, <4>1 DEF Pipe!Objet
    <3>2. CASE k = h /\ j # i
      <4>1. v12'[k][j] = v12[k][j] /\ v9'[j] = v9[j]
        BY <2>6, <3>2
      <4>2. Pipe!Objet(k, j) /\ v10' = v10 /\ v11' = v11
        BY <1>a, <1>b, <2>1
      <4> QED BY <4>1, <4>2 DEF Pipe!Objet
    <3>3. CASE k # h
      <4>1. v12'[k][j] = v12[k][j] /\ (j # i => v9'[j] = v9[j])
        BY <2>6, <3>3
      <4>2. v12[k][j].objet = "ouvert" => j # i
        BY <1>a, <2>7, <3>3 DEF Pipe!Objet
      <4> QED BY <1>a, <1>b, <2>1, <4>1, <4>2 DEF Pipe!Objet
    <3> QED BY <3>1, <3>2, <3>3
  <2>10. ASSUME NEW t \in TTuyaux PROVE Pipe!Transport(t)'
    <3>1. t \in Pipe!EnVol => DeTuyaux[t].h # h /\ DeTuyaux[t].h \in HDarwin
      BY <1>b, TuyauxConstantes DEF Pipe!Repos
    <3>2. \A j \in Pipe!I : t \in Pipe!EnVol /\ v12[DeTuyaux[t].h][j].objet = "ouvert" =>
              v12'[DeTuyaux[t].h][j].objet = "ouvert" /\ v9'[j] = v9[j]
      BY <1>a, <2>6, <2>7, <3>1 DEF Pipe!Objet
    <3> QED BY <1>b, <3>2, TransportGarde DEF Pipe!Inductif
  <2> QED BY <1>b, <2>8, <2>9, <2>10, PriseCadre
<1>2. CASE v12[h][i].objet # "ouvert"
  <2>1. Pipe!Relache(h, {i}) /\ v10' = Pipe!Ferme(h, {i}) /\ v9' = v9
    BY <1>2 DEF Pipe!darwin_set_interface_altsetting
  <2>2. Pipe!TypeTuyaux'
    <3>1. v12' \in [HDarwin -> [Pipe!I -> Pipe!Fiches]]
      BY <1>a, <2>1, RelacheType DEF Pipe!TypeTuyaux
    <3>2. v10' \in [Pipe!I -> HDarwin \cup {Rien, "autre"}]
      BY <1>a, <2>1 DEF Pipe!TypeTuyaux, Pipe!Ferme
    <3> QED BY <1>a, <1>b, <2>1, <3>1, <3>2, PriseType DEF Pipe!TypeTuyaux
  <2>3. ASSUME NEW k \in HDarwin, NEW j \in Pipe!I PROVE Pipe!Objet(k, j)'
    <3>1. {i} \in SUBSET Pipe!I /\ v11[h] \in SUBSET v11[h]
          /\ v11[h] \subseteq v11[h] \cup {i}
          /\ v11' = [v11 EXCEPT ![h] = v11[h]]
      BY <1>b, <1>c
    <3> QED BY <1>a, <2>1, <3>1, ObjetsRelaches DEF Pipe!Relache
  <2>4. ASSUME NEW t \in TTuyaux PROVE Pipe!Transport(t)'
    BY <1>a, <1>b, <2>1, AilleursRelache DEF Pipe!Inductif
  <2> QED BY <1>b, <2>2, <2>3, <2>4, PriseCadre
<1> QED BY <1>1, <1>2

-----------------------------------------------------------------------------
(* What the transfers leave alone: everything else. *)
LEMMA TransfertCadre ==
    ASSUME Pipe!Hypotheses, Pipe!Inductif, UNCHANGED <<Pipe!ouvertures, Pipe!noyau, Pipe!prises, v13, v14>>, Pipe!TypeTuyaux',
           \A t \in TTuyaux : Pipe!Transport(t)' /\ Pipe!Issue(t)'
    PROVE  Pipe!Inductif'
<1>1. Pipe!Ouvertes' = Pipe!Ouvertes
  BY DEF Pipe!Ouvertes, Pipe!ouvertures
<1>2. Pipe!Comptee'
  BY <1>1 DEF Pipe!Inductif, Pipe!Comptee, Pipe!ouvertures
<1>3. ASSUME NEW f \in FDarwin PROVE Pipe!Passage(f)'
  BY DEF Pipe!Inductif, Pipe!Passage, Pipe!ouvertures
<1>4. ASSUME NEW h \in HDarwin PROVE Pipe!Ouvreuse(h)' /\ \A i \in Pipe!I : Pipe!Objet(h, i)'
  BY <1>1, ObjetsCadre DEF Pipe!Inductif, Pipe!Ouvreuse, Pipe!ouvertures
<1> QED BY <1>2, <1>3, <1>4 DEF Pipe!Inductif

(* The types, when only the transfers change. *)
LEMMA TransfertType ==
    ASSUME Pipe!TypeTuyaux, UNCHANGED <<Pipe!ouvertures, Pipe!noyau, Pipe!prises, v13, v14>>,
           v15' \in [TTuyaux -> {"libre", "noyau", "rappel", "signale"}],
           v16' \in [TTuyaux -> {<<>>, <<"controle">>} \cup Pipe!I \X Pipe!Positions],
           v17' \in [TTuyaux -> {"aucun", "succes", "cale", "delai", "abandon"}],
           v18' \in [TTuyaux -> BOOLEAN], v19' \in [TTuyaux -> BOOLEAN], v20' \in [TTuyaux -> BOOLEAN]
    PROVE  Pipe!TypeTuyaux'
BY DEF Pipe!TypeTuyaux, Pipe!ouvertures, Pipe!noyau, Pipe!prises

(* The place of a transfer that stays in progress on its pipe. *)
LEMMA TransportSuit ==
    ASSUME NEW t \in TTuyaux, Pipe!Transport(t), UNCHANGED <<Pipe!ouvertures, Pipe!noyau, Pipe!prises>>,
           t \in Pipe!EnVol' => t \in Pipe!EnVol /\ v16'[t] = v16[t]
    PROVE  Pipe!Transport(t)'
<1>1. Pipe!Ouvertes' = Pipe!Ouvertes
  BY DEF Pipe!Ouvertes, Pipe!ouvertures
<1> QED BY <1>1 DEF Pipe!Transport, Pipe!SurTuyau, Pipe!noyau, Pipe!prises

(* A transfer that is submitted is on a pipe of its endpoint. *)
LEMMA SoumetPreserve ==
    ASSUME Pipe!Hypotheses, Pipe!Inductif, NEW t \in TTuyaux, NEW w, Pipe!Soumet(t, w), DeTuyaux[t].h \in Pipe!Ouvertes,
           IF DeTuyaux[t].ep = 0 THEN w = <<"controle">>
           ELSE /\ w \in Pipe!I \X Pipe!Positions /\ v12[DeTuyaux[t].h][w[1]].objet = "ouvert"
                /\ w[2] \in DOMAIN TuyauxDe[w[1]][v9[w[1]]] /\ TuyauxDe[w[1]][v9[w[1]]][w[2]] = DeTuyaux[t].ep
    PROVE  Pipe!Inductif'
<1>a. /\ v15 \in [TTuyaux -> {"libre", "noyau", "rappel", "signale"}]
      /\ v16 \in [TTuyaux -> {<<>>, <<"controle">>} \cup Pipe!I \X Pipe!Positions]
  BY DEF Pipe!Inductif, Pipe!TypeTuyaux
<1>b. /\ UNCHANGED <<Pipe!ouvertures, Pipe!noyau, Pipe!prises, v13, v14, v17, v18, v19, v20>>
      /\ v15' = [v15 EXCEPT ![t] = "noyau"] /\ v16' = [v16 EXCEPT ![t] = w]
  BY DEF Pipe!Soumet
<1>c. w \in {<<>>, <<"controle">>} \cup Pipe!I \X Pipe!Positions
  OBVIOUS
<1>1. Pipe!TypeTuyaux'
  <2>1. v15' \in [TTuyaux -> {"libre", "noyau", "rappel", "signale"}]
    BY <1>a, <1>b
  <2>2. v16' \in [TTuyaux -> {<<>>, <<"controle">>} \cup Pipe!I \X Pipe!Positions]
    BY <1>a, <1>b, <1>c
  <2> QED BY <1>b, <2>1, <2>2, TransfertType DEF Pipe!Inductif, Pipe!TypeTuyaux
<1>2. ASSUME NEW u \in TTuyaux PROVE Pipe!Transport(u)' /\ Pipe!Issue(u)'
  <2>1. CASE u = t
    <3>1. v16'[u] = w /\ v15'[u] = "noyau" /\ Pipe!Ouvertes' = Pipe!Ouvertes
      BY <1>a, <1>b, <2>1 DEF Pipe!Ouvertes, Pipe!ouvertures
    <3>2. Pipe!Transport(u)'
      BY <1>b, <2>1, <3>1 DEF Pipe!Transport, Pipe!SurTuyau, Pipe!noyau, Pipe!prises
    <3>3. Pipe!Issue(u)'
      BY <1>b, <2>1, <3>1 DEF Pipe!Inductif, Pipe!Soumet, Pipe!Issue
    <3> QED BY <3>2, <3>3
  <2>2. CASE u # t
    <3>1. v16'[u] = v16[u] /\ v15'[u] = v15[u]
      BY <1>a, <1>b, <2>2
    <3>2. Pipe!Transport(u)'
      BY <1>b, <3>1, TransportSuit DEF Pipe!Inductif, Pipe!EnVol
    <3>3. Pipe!Issue(u)'
      BY <1>b, <3>1 DEF Pipe!Inductif, Pipe!Issue, Pipe!EnVol
    <3> QED BY <3>2, <3>3
  <2> QED BY <2>1, <2>2
<1> QED BY <1>b, <1>1, <1>2, TransfertCadre

(* libusb_submit_transfer, to the control pipe and to the others. *)
LEMMA SubmitPreserve ==
    ASSUME Pipe!Hypotheses, Pipe!Inductif, NEW f \in FDarwin, NEW t \in TTuyaux,
           Pipe!submit_control_transfer(f, t) \/ Pipe!submit_bulk_transfer(f, t)
    PROVE  Pipe!Inductif'
<1>a. Pipe!TypeTuyaux /\ \A h \in HDarwin, i \in Pipe!I : Pipe!Objet(h, i)
  BY DEF Pipe!Inductif
<1>b. DeTuyaux[t].h \in HDarwin /\ DeTuyaux[t].h \in Pipe!Ouvertes
  BY TuyauxConstantes DEF Pipe!submit_control_transfer, Pipe!submit_bulk_transfer, Pipe!Ouverte, Pipe!Ouvertes
<1>1. CASE Pipe!submit_control_transfer(f, t)
  BY <1>1, <1>b, SoumetPreserve DEF Pipe!submit_control_transfer
<1>2. CASE Pipe!submit_bulk_transfer(f, t)
  <2> DEFINE h == DeTuyaux[t].h
  <2>1. PICK w \in Pipe!ep_to_pipeRef(h, DeTuyaux[t].ep) :
            v12[h][w[1]].objet = "ouvert" /\ Pipe!Soumet(t, w)
    BY <1>2 DEF Pipe!submit_bulk_transfer
  <2>2. PICK i \in v11[h] :
            w \in {i} \X {q \in DOMAIN v12[h][i].endpoint_addrs : v12[h][i].endpoint_addrs[q] = DeTuyaux[t].ep}
    BY DEF Pipe!ep_to_pipeRef
  <2>3. /\ i \in Pipe!I /\ w[1] = i /\ w = <<i, w[2]>>
        /\ w[2] \in DOMAIN v12[h][i].endpoint_addrs /\ v12[h][i].endpoint_addrs[w[2]] = DeTuyaux[t].ep
    BY <1>a, <1>b, <2>2 DEF Pipe!TypeTuyaux
  <2>4. v12[h][i].endpoint_addrs = TuyauxDe[i][v9[i]] /\ v9[i] \in Pipe!Reglages(i)
    BY <1>a, <1>b, <2>1, <2>3 DEF Pipe!Objet, Pipe!TypeTuyaux
  <2>5. TuyauxDe[i][v9[i]] \in Pipe!Tables
    BY <2>3, <2>4, TuyauxConstantes
  <2>6. w \in Pipe!I \X Pipe!Positions
    BY <2>3, <2>4, <2>5 DEF Pipe!Positions
  <2>7. DeTuyaux[t].ep # 0
    BY <1>2 DEF Pipe!submit_bulk_transfer
  <2> QED BY <1>b, <2>1, <2>3, <2>4, <2>6, <2>7, SoumetPreserve
<1> QED BY <1>1, <1>2

(* The kernel ends a transfer. *)
LEMMA FinPreserve ==
    ASSUME Pipe!Hypotheses, Pipe!Inductif, NEW t \in TTuyaux, Pipe!Fin(t)
    PROVE  Pipe!Inductif'
<1>a. /\ v15 \in [TTuyaux -> {"libre", "noyau", "rappel", "signale"}]
      /\ v17 \in [TTuyaux -> {"aucun", "succes", "cale", "delai", "abandon"}]
  BY DEF Pipe!Inductif, Pipe!TypeTuyaux
<1>b. PICK r \in {"succes", "cale"} \cup (IF DeTuyaux[t].ep \in InterruptionDarwin THEN {} ELSE {"delai"}) :
          v17' = [v17 EXCEPT ![t] = r]
  BY DEF Pipe!Fin
<1>c. /\ v15[t] = "noyau" /\ v15' = [v15 EXCEPT ![t] = "rappel"]
      /\ UNCHANGED <<Pipe!ouvertures, Pipe!noyau, Pipe!prises, v13, v14, v16, v18, v19, v20>>
  BY DEF Pipe!Fin
<1>1. Pipe!TypeTuyaux'
  <2>1. v15' \in [TTuyaux -> {"libre", "noyau", "rappel", "signale"}]
        /\ v17' \in [TTuyaux -> {"aucun", "succes", "cale", "delai", "abandon"}]
    BY <1>a, <1>b, <1>c
  <2> QED BY <1>c, <2>1, TransfertType DEF Pipe!Inductif, Pipe!TypeTuyaux
<1>2. ASSUME NEW u \in TTuyaux PROVE Pipe!Transport(u)' /\ Pipe!Issue(u)'
  <2>1. Pipe!Transport(u)'
    <3>1. u \in Pipe!EnVol' => u \in Pipe!EnVol
      BY <1>a, <1>c DEF Pipe!EnVol
    <3> QED BY <1>c, <3>1, TransportSuit DEF Pipe!Inductif
  <2>2. Pipe!Issue(u)'
    <3>1. CASE u = t
      <4>1. v15'[u] = "rappel" /\ v17'[u] = r /\ r \in {"succes", "cale", "delai"} /\ (r = "delai" => DeTuyaux[u].ep \notin InterruptionDarwin)
        BY <1>a, <1>b, <1>c, <3>1
      <4> QED BY <4>1 DEF Pipe!Issue
    <3>2. CASE u # t
      <4>1. v15'[u] = v15[u] /\ v17'[u] = v17[u]
        BY <1>a, <1>b, <1>c, <3>2
      <4> QED BY <1>c, <4>1 DEF Pipe!Inductif, Pipe!Issue
    <3> QED BY <3>1, <3>2
  <2> QED BY <2>1, <2>2
<1> QED BY <1>c, <1>1, <1>2, TransfertCadre

(* libusb_cancel_transfer: what is aborted with the transfer is in flight  *)
(* on its endpoint. *)
LEMMA CancelPreserve ==
    ASSUME Pipe!Hypotheses, Pipe!Inductif, NEW t \in TTuyaux, NEW delai \in BOOLEAN, Pipe!darwin_cancel_transfer(t, delai)
    PROVE  Pipe!Inductif'
<1> DEFINE A == Pipe!Abandonnes(t)
           Demandes(u) == v20[u] \/ (v15[u] # "libre" /\ DeTuyaux[u].ep = DeTuyaux[t].ep
                                           /\ (DeTuyaux[t].ep = 0 \/ DeTuyaux[u].h = DeTuyaux[t].h))
<1>a. /\ v15 \in [TTuyaux -> {"libre", "noyau", "rappel", "signale"}]
      /\ v17 \in [TTuyaux -> {"aucun", "succes", "cale", "delai", "abandon"}]
      /\ v18 \in [TTuyaux -> BOOLEAN] /\ v19 \in [TTuyaux -> BOOLEAN] /\ v20 \in [TTuyaux -> BOOLEAN]
  BY DEF Pipe!Inductif, Pipe!TypeTuyaux
<1>b. /\ v15[t] # "libre"
      /\ v18' = [v18 EXCEPT ![t] = TRUE] /\ v19' = [v19 EXCEPT ![t] = delai]
      /\ v15' = [u \in TTuyaux |-> IF u \in A THEN "rappel" ELSE v15[u]]
      /\ v17' = [u \in TTuyaux |-> IF u \in A THEN "abandon" ELSE v17[u]]
      /\ v20' = [u \in TTuyaux |-> Demandes(u)]
      /\ UNCHANGED <<Pipe!ouvertures, Pipe!noyau, Pipe!prises, v13, v14, v16>>
  BY DEF Pipe!darwin_cancel_transfer
<1>c. ASSUME NEW u \in A PROVE u \in TTuyaux /\ v15[u] = "noyau" /\ Demandes(u)
  <2>1. CASE DeTuyaux[t].ep = 0
    BY <2>1 DEF Pipe!Abandonnes, Pipe!cancel_control_transfer
  <2>2. CASE DeTuyaux[t].ep # 0
    <3>1. u \in TTuyaux /\ v15[u] = "noyau" /\ DeTuyaux[u].h = DeTuyaux[t].h /\ v16[u] = v16[t]
      BY <2>2 DEF Pipe!Abandonnes, Pipe!darwin_abort_transfers
    <3>2. t \in Pipe!EnVol /\ u \in Pipe!EnVol /\ Pipe!Transport(t) /\ Pipe!Transport(u)
      BY <1>b, <3>1 DEF Pipe!EnVol, Pipe!Inductif
    <3>3. Pipe!SurTuyau(t)
      BY <2>2, <3>2 DEF Pipe!Transport
    <3>4. v16[t] # <<"controle">>
      BY <3>3 DEF Pipe!SurTuyau
    <3>5. Pipe!SurTuyau(u)
      BY <3>1, <3>2, <3>4 DEF Pipe!Transport
    <3>6. DeTuyaux[u].ep = DeTuyaux[t].ep
      BY <3>1, <3>3, <3>5 DEF Pipe!SurTuyau
    <3> QED BY <3>1, <3>6
  <2> QED BY <2>1, <2>2
<1> HIDE DEF A, Demandes
<1>1. Pipe!TypeTuyaux'
  <2>1. v15' \in [TTuyaux -> {"libre", "noyau", "rappel", "signale"}]
        /\ v17' \in [TTuyaux -> {"aucun", "succes", "cale", "delai", "abandon"}]
    BY <1>a, <1>b
  <2>2. v18' \in [TTuyaux -> BOOLEAN] /\ v19' \in [TTuyaux -> BOOLEAN]
    BY <1>a, <1>b
  <2>3. v20' \in [TTuyaux -> BOOLEAN]
    <3>1. \A u \in TTuyaux : Demandes(u) \in BOOLEAN
      BY <1>a DEF Demandes
    <3> QED BY <1>b, <3>1
  <2> QED BY <1>b, <2>1, <2>2, <2>3, TransfertType DEF Pipe!Inductif, Pipe!TypeTuyaux
<1>2. ASSUME NEW u \in TTuyaux PROVE Pipe!Transport(u)' /\ Pipe!Issue(u)'
  <2>1. Pipe!Transport(u)'
    <3>1. u \in Pipe!EnVol' => u \in Pipe!EnVol
      BY <1>a, <1>b, <1>c DEF Pipe!EnVol
    <3> QED BY <1>b, <3>1, TransportSuit DEF Pipe!Inductif
  <2>2. Pipe!Issue(u)'
    <3>1. CASE u \in A
      BY <1>b, <1>c, <3>1 DEF Pipe!Issue
    <3>2. CASE u \notin A
      <4>1. v15'[u] = v15[u] /\ v17'[u] = v17[u] /\ (v20[u] => v20'[u])
        BY <1>b, <3>2 DEF Demandes
      <4> QED BY <4>1 DEF Pipe!Inductif, Pipe!Issue
    <3> QED BY <3>1, <3>2
  <2> QED BY <2>1, <2>2
<1> QED BY <1>b, <1>1, <1>2, TransfertCadre

(* The answers of the kernel. *)
LEMMA RappelPreserve ==
    ASSUME Pipe!Hypotheses, Pipe!Inductif, NEW t \in TTuyaux, Pipe!darwin_async_io_callback(t)
    PROVE  Pipe!Inductif'
<1>a. v15 \in [TTuyaux -> {"libre", "noyau", "rappel", "signale"}]
  BY DEF Pipe!Inductif, Pipe!TypeTuyaux
<1>b. /\ v15[t] = "rappel" /\ v15' = [v15 EXCEPT ![t] = "signale"]
      /\ UNCHANGED <<Pipe!ouvertures, Pipe!noyau, Pipe!prises, v13, v14, v16, v17, v18, v19, v20>>
  BY DEF Pipe!darwin_async_io_callback
<1>1. Pipe!TypeTuyaux'
  <2>1. v15' \in [TTuyaux -> {"libre", "noyau", "rappel", "signale"}]
    BY <1>a, <1>b
  <2> QED BY <1>b, <2>1, TransfertType DEF Pipe!Inductif, Pipe!TypeTuyaux
<1>2. ASSUME NEW u \in TTuyaux PROVE Pipe!Transport(u)' /\ Pipe!Issue(u)'
  <2>1. v15'[u] = v15[u] \/ (u = t /\ v15'[u] = "signale")
    BY <1>a, <1>b
  <2>2. Pipe!Transport(u)'
    <3>1. u \in Pipe!EnVol' => u \in Pipe!EnVol
      BY <1>b, <2>1 DEF Pipe!EnVol
    <3> QED BY <1>b, <3>1, TransportSuit DEF Pipe!Inductif
  <2>3. Pipe!Issue(u)'
    BY <1>b, <2>1 DEF Pipe!Inductif, Pipe!Issue
  <2> QED BY <2>2, <2>3
<1> QED BY <1>b, <1>1, <1>2, TransfertCadre

(* What libusb has reported. *)
LEMMA CompletionPreserve ==
    ASSUME Pipe!Hypotheses, Pipe!Inductif, NEW t \in TTuyaux, Pipe!darwin_handle_transfer_completion(t)
    PROVE  Pipe!Inductif'
<1>a. Pipe!TypeTuyaux
  BY DEF Pipe!Inductif
<1>b. /\ v15' = [v15 EXCEPT ![t] = "libre"] /\ v16' = [v16 EXCEPT ![t] = <<>>]
      /\ v17' = [v17 EXCEPT ![t] = "aucun"]
      /\ v18' = [v18 EXCEPT ![t] = FALSE] /\ v19' = [v19 EXCEPT ![t] = FALSE]
      /\ v20' = [v20 EXCEPT ![t] = FALSE]
      /\ UNCHANGED <<Pipe!ouvertures, Pipe!noyau, Pipe!prises, v13, v14>>
  BY DEF Pipe!darwin_handle_transfer_completion
<1>1. Pipe!TypeTuyaux'
  <2>1. v15' \in [TTuyaux -> {"libre", "noyau", "rappel", "signale"}]
        /\ v17' \in [TTuyaux -> {"aucun", "succes", "cale", "delai", "abandon"}]
    BY <1>a, <1>b DEF Pipe!TypeTuyaux
  <2>2. v16' \in [TTuyaux -> {<<>>, <<"controle">>} \cup Pipe!I \X Pipe!Positions]
    <3>1. v16 \in [TTuyaux -> {<<>>, <<"controle">>} \cup Pipe!I \X Pipe!Positions] /\ <<>> \in {<<>>, <<"controle">>} \cup Pipe!I \X Pipe!Positions
      BY <1>a DEF Pipe!TypeTuyaux
    <3> HIDE DEF Pipe!Positions
    <3> QED BY <1>b, <3>1
  <2>3. v18' \in [TTuyaux -> BOOLEAN] /\ v19' \in [TTuyaux -> BOOLEAN] /\ v20' \in [TTuyaux -> BOOLEAN]
    BY <1>a, <1>b DEF Pipe!TypeTuyaux
  <2> QED BY <1>a, <1>b, <2>1, <2>2, <2>3, TransfertType
<1>2. ASSUME NEW u \in TTuyaux PROVE Pipe!Transport(u)' /\ Pipe!Issue(u)'
  <2>1. CASE u = t
    <3>1. v15'[u] = "libre" /\ v17'[u] = "aucun"
      BY <1>a, <1>b, <2>1 DEF Pipe!TypeTuyaux
    <3> QED BY <3>1 DEF Pipe!Transport, Pipe!Issue, Pipe!EnVol
  <2>2. CASE u # t
    <3>1. v15'[u] = v15[u] /\ v17'[u] = v17[u] /\ v20'[u] = v20[u] /\ v16'[u] = v16[u]
      BY <1>a, <1>b, <2>2 DEF Pipe!TypeTuyaux
    <3>2. Pipe!Transport(u)'
      BY <1>b, <3>1, TransportSuit DEF Pipe!Inductif, Pipe!EnVol
    <3> QED BY <3>1, <3>2 DEF Pipe!Inductif, Pipe!Issue
  <2> QED BY <2>1, <2>2
<1> QED BY <1>b, <1>1, <1>2, TransfertCadre

-----------------------------------------------------------------------------
(* Each step preserves the invariant. *)
LEMMA TuyauxPreserve ==
    ASSUME Pipe!Hypotheses, ~FALSE, Pipe!Inductif, Pipe!Next \/ UNCHANGED Pipe!vars
    PROVE  Pipe!Inductif'
<1>1. ASSUME NEW f \in FDarwin, Pipe!Application(f) PROVE Pipe!Inductif'
  <2>1. CASE \E h \in HDarwin : \E i \in Pipe!I : \E a \in Pipe!Reglages(i) : Pipe!darwin_set_interface_altsetting(f, h, i, a)
    BY <2>1, ReglagePreserve
  <2>2. CASE \E h \in HDarwin : Pipe!darwin_open(f, h) \/ Pipe!darwin_close(f, h)
    BY <2>2, OuvrePreserve, FermePreserve
  <2>3. CASE \E h \in HDarwin : Pipe!Configure(f, h) \/ \E c \in 1..NCDarwin : Pipe!darwin_set_configuration(f, h, c)
    BY <2>3, ConfigurationPreserve
  <2>4. CASE \E h \in HDarwin : \E i \in Pipe!I : Pipe!darwin_claim_interface(f, h, i) \/ Pipe!darwin_release_interface(f, h, i)
    BY <2>4, ClaimPreserve, ReleasePreserve
  <2>5. CASE Pipe!Compte(f) \/ Pipe!USBDeviceClose(f)
    BY <2>5, ComptePreserve, DeviceClosePreserve
  <2>6. CASE \E t \in TTuyaux : Pipe!submit_control_transfer(f, t) \/ Pipe!submit_bulk_transfer(f, t)
    BY <2>6, SubmitPreserve
  <2> QED BY <1>1, <2>1, <2>2, <2>3, <2>4, <2>5, <2>6 DEF Pipe!Application
<1>2. ASSUME NEW t \in TTuyaux,
             Pipe!Fin(t) \/ (\E delai \in BOOLEAN : Pipe!darwin_cancel_transfer(t, delai))
             \/ Pipe!darwin_async_io_callback(t) \/ Pipe!darwin_handle_transfer_completion(t)
      PROVE  Pipe!Inductif'
  BY <1>2, FinPreserve, CancelPreserve, RappelPreserve, CompletionPreserve
<1>3. CASE UNCHANGED Pipe!vars
  <2>1. UNCHANGED <<Pipe!ouvertures, Pipe!noyau, Pipe!prises, v13, v14, Pipe!transferts>>
    BY <1>3 DEF Pipe!vars
  <2>2. Pipe!TypeTuyaux'
    BY <2>1 DEF Pipe!Inductif, Pipe!TypeTuyaux, Pipe!ouvertures, Pipe!noyau, Pipe!prises, Pipe!transferts
  <2>3. ASSUME NEW t \in TTuyaux PROVE Pipe!Transport(t)' /\ Pipe!Issue(t)'
    BY <2>1, TransportCadre DEF Pipe!Inductif, Pipe!Ouvertes, Pipe!ouvertures, Pipe!noyau, Pipe!prises
  <2> QED BY <2>1, <2>2, <2>3, TransfertCadre
<1> QED BY <1>1, <1>2, <1>3 DEF Pipe!Next

(* The invariant gives the properties of the runs. *)
LEMMA TuyauxPromesse == ASSUME Pipe!Hypotheses, Pipe!Inductif PROVE Pipe!OuvertDarwin /\ Pipe!TuyauJuste /\ Pipe!AnnuleFidele
<1>1. Pipe!OuvertDarwin
  BY DEF Pipe!Inductif, Pipe!OuvertDarwin, Pipe!Comptee, Pipe!Ouvreuse, Pipe!Ouvertes
<1>2. ASSUME NEW t \in TTuyaux, v15[t] \in {"noyau", "rappel"}
      PROVE  /\ Pipe!Source(t)
             /\ DeTuyaux[t].ep # 0 => /\ v10[v16[t][1]] = DeTuyaux[t].h
                                /\ TuyauxDe[v16[t][1]][v9[v16[t][1]]][v16[t][2]] = DeTuyaux[t].ep
  <2>1. Pipe!Transport(t) /\ t \in Pipe!EnVol /\ DeTuyaux[t].h \in HDarwin
    BY <1>2, TuyauxConstantes DEF Pipe!Inductif, Pipe!EnVol
  <2>2. CASE DeTuyaux[t].ep = 0
    BY <2>1, <2>2 DEF Pipe!Source, Pipe!Transport, Pipe!Inductif, Pipe!Comptee
  <2>3. CASE DeTuyaux[t].ep # 0
    <3>1. Pipe!SurTuyau(t) /\ v16[t][1] \in Pipe!I
      BY <2>1, <2>3 DEF Pipe!Transport, Pipe!SurTuyau
    <3>2. Pipe!Objet(DeTuyaux[t].h, v16[t][1])
      BY <2>1, <3>1 DEF Pipe!Inductif
    <3> QED BY <2>3, <3>1, <3>2 DEF Pipe!Source, Pipe!SurTuyau, Pipe!Objet
  <2> QED BY <2>2, <2>3
<1>3. ASSUME NEW t \in TTuyaux, v15[t] = "signale"
      PROVE  CASE Pipe!darwin_transfer_status(t) = "CANCELLED" -> v20[t]
               [] Pipe!darwin_transfer_status(t) = "TIMED_OUT" -> v19[t] \/ (v17[t] = "delai" /\ DeTuyaux[t].ep \notin InterruptionDarwin)
               [] OTHER -> v17[t] \in {"succes", "cale"}
  <2>1. /\ v17[t] \in {"succes", "cale", "delai", "abandon"}
        /\ v17[t] = "abandon" => v20[t]
        /\ v17[t] = "delai" => DeTuyaux[t].ep \notin InterruptionDarwin
    BY <1>3 DEF Pipe!Inductif, Pipe!TypeTuyaux, Pipe!Issue
  <2>2. CASE v19[t] \/ v17[t] = "delai"
    BY <2>1, <2>2 DEF Pipe!darwin_transfer_status
  <2>3. CASE ~(v19[t] \/ v17[t] = "delai") /\ v17[t] = "succes"
    BY <2>3 DEF Pipe!darwin_transfer_status
  <2>4. CASE ~(v19[t] \/ v17[t] = "delai") /\ v17[t] = "abandon"
    BY <2>1, <2>4 DEF Pipe!darwin_transfer_status
  <2>5. CASE ~(v19[t] \/ v17[t] = "delai") /\ v17[t] = "cale"
    BY <2>5 DEF Pipe!darwin_transfer_status
  <2> QED BY <2>1, <2>2, <2>3, <2>4, <2>5
<1> QED BY <1>1, <1>2, <1>3 DEF Pipe!TuyauJuste, Pipe!AnnuleFidele
=============================================================================
