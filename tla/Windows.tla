------------------------------- MODULE Windows -------------------------------
(***************************************************************************)
(* libusb on Windows: asynchronous transfers with WinUSB on one handle.    *)
(* A transfer in progress has an entry of its own in the table of          *)
(* descriptors that emulates poll.  A control transfer needs some claimed  *)
(* interface and, when there is none, claims one itself until it is over,  *)
(* beside the claims of the application.                                   *)
(*                                                                         *)
(* F submits, cancels, claims and releases; Evts handles the events.  The  *)
(* n-th submission has the OVERLAPPED structure n.                         *)
(***************************************************************************)
EXTENDS Integers, FiniteSets, FiniteSetsExt

CONSTANTS
    T, Controles,     \* transfers; those to the control endpoint
    F,                \* the threads of the application
    NI,               \* the interfaces are 0..(NI - 1); 0 has the endpoint of all others
    MAX_FDS,          \* the table's size without the event pipe (256)
    MaxSoumissions,   \* submissions (bound of the model)
    Rien

Evts == "evenements"

(* What the constants must satisfy. *)
Hypotheses ==
    /\ Controles \subseteq T /\ NI \in Nat \ {0} /\ MAX_FDS \in Nat /\ MaxSoumissions \in Nat
    /\ Evts \notin F /\ Rien \notin T \cup F \cup {Evts}

I == 0..(NI - 1)
Ov == 1..MaxSoumissions
INVALID_WINFD == [fd |-> 0, overlapped |-> 0]

VARIABLES
    flying, soumissions,
    poll_fd, pollfds,      \* the table; the descriptors that are polled
    pollable_fd, interface_number,   \* of each transfer
    io, objet,             \* each OVERLAPPED, and the transfer it was made for
    api_handle,            \* interfaces with a WinUSB handle
    claimed_interfaces, autoclaim_count, autoclaim_lock,
    pc, de, ou, fd, reclame,   \* of each thread; reclame: it has claimed by itself
    prets,                 \* the descriptors that poll has returned
    application, melange,  \* what the application has claimed; and was claimed automatically as well
    fuite, relache         \* claims of a submission that failed; the application has released something

soumis == <<flying, soumissions, pollable_fd, interface_number, objet>>
table == <<poll_fd, pollfds, io>>
reclames == <<api_handle, claimed_interfaces, autoclaim_count, autoclaim_lock>>
temoins == <<application, melange, fuite, relache>>
locaux == <<de, ou, fd, reclame, prets>>
vars == <<soumis, table, reclames, temoins, pc, locaux>>

Init ==
    /\ flying = {} /\ soumissions = 0 /\ objet = [n \in Ov |-> Rien]
    /\ pollable_fd = [t \in T |-> INVALID_WINFD] /\ interface_number = [t \in T |-> 0]
    /\ poll_fd = [d \in 1..MAX_FDS |-> 0] /\ pollfds = {} /\ io = [n \in Ov |-> "aucun"]
    /\ api_handle = {} /\ claimed_interfaces = {} /\ autoclaim_count = [i \in I |-> 0]
    /\ autoclaim_lock = Rien
    /\ application = {} /\ melange = {} /\ fuite = {} /\ relache = FALSE
    /\ pc = [f \in F \cup {Evts} |-> IF f = Evts THEN "poll" ELSE "repos"]
    /\ de = [f \in F \cup {Evts} |-> Rien] /\ ou = [f \in F |-> 0] /\ fd = [f \in F |-> 0]
    /\ reclame = [f \in F |-> FALSE] /\ prets = {}

Va(f, etape) == pc' = [pc EXCEPT ![f] = etape]

-----------------------------------------------------------------------------
(* libusb_claim_interface and libusb_release_interface with what is under  *)
(* them, as far as the handle's lock makes them one step.                  *)
Obtient(i) ==
    /\ claimed_interfaces' = claimed_interfaces \cup {i}
    /\ api_handle' = api_handle \cup (IF i \in claimed_interfaces THEN {} ELSE {i, 0})
Rend(i) ==
    /\ claimed_interfaces' = claimed_interfaces \ {i}
    /\ api_handle' = api_handle \ (claimed_interfaces \cap {i})

(* Who also claims the interface automatically. *)
Automatique(i) ==
    \/ autoclaim_count[i] > 0
    \/ \E f \in F : pc[f] = "compte" /\ ou[f] = i
    \/ pc[Evts] = "relache" /\ interface_number[de[Evts]] = i

libusb_claim_interface(f, i) ==
    /\ pc[f] = "repos" /\ i \notin application
    /\ Obtient(i)
    /\ application' = application \cup {i}
    /\ melange' = IF Automatique(i) THEN melange \cup {i} ELSE melange
    /\ UNCHANGED <<soumis, table, autoclaim_count, autoclaim_lock, fuite, relache, pc, locaux>>

libusb_release_interface(f, i) ==
    /\ pc[f] = "repos" /\ i \in application
    /\ Rend(i)
    /\ application' = application \ {i} /\ melange' = melange \ {i} /\ relache' = TRUE
    /\ UNCHANGED <<soumis, table, autoclaim_count, autoclaim_lock, fuite, pc, locaux>>

-----------------------------------------------------------------------------
(* Submission.  get_valid_interface: the first interface with a handle;    *)
(* interface_by_endpoint: the one the endpoint belongs to.                 *)
libusb_submit_transfer(f, t) ==
    /\ pc[f] = "repos" /\ t \notin flying /\ soumissions < MaxSoumissions
    /\ flying' = flying \cup {t}
    /\ soumissions' = soumissions + 1 /\ objet' = [objet EXCEPT ![soumissions + 1] = t]
    /\ pollable_fd' = [pollable_fd EXCEPT ![t] = INVALID_WINFD]
    /\ de' = [de EXCEPT ![f] = t]
    /\ ou' = [ou EXCEPT ![f] = IF t \in Controles /\ api_handle # {} THEN Min(api_handle) ELSE 0]
    /\ Va(f, IF t \in Controles THEN IF api_handle = {} THEN "reclame" ELSE "cree"
             ELSE IF 0 \in api_handle THEN "cree" ELSE "refuse")
    /\ UNCHANGED <<interface_number, table, reclames, temoins, fd, reclame, prets>>

(* auto_claim, under autoclaim_lock: the first interface that can be       *)
(* claimed, which another thread may just have claimed, ...                *)
auto_claim(f) ==
    /\ pc[f] = "reclame" /\ autoclaim_lock = Rien
    /\ \/ \E i \in I :
            /\ Obtient(i)
            /\ ou' = [ou EXCEPT ![f] = i] /\ autoclaim_lock' = f
            /\ Va(f, "compte")
       \/ /\ claimed_interfaces = {}
          /\ Va(f, "refuse") /\ UNCHANGED <<ou, autoclaim_lock, claimed_interfaces, api_handle>>
    /\ UNCHANGED <<soumis, table, autoclaim_count, temoins, de, fd, reclame, prets>>

(* ... and its count. *)
Compte(f) ==
    LET i == ou[f] IN
    /\ pc[f] = "compte"
    /\ autoclaim_count' = [autoclaim_count EXCEPT ![i] = @ + 1] /\ autoclaim_lock' = Rien
    /\ melange' = IF i \in application THEN melange \cup {i} ELSE melange
    /\ reclame' = [reclame EXCEPT ![f] = TRUE]
    /\ Va(f, "cree")
    /\ UNCHANGED <<soumis, table, api_handle, claimed_interfaces, application, fuite, relache, de, ou, fd, prets>>

(* usbi_create_fd: the first free entry, for a handle that is valid. *)
Libres == {d \in 1..MAX_FDS : poll_fd[d] = 0}

usbi_create_fd(f) ==
    /\ pc[f] = "cree"
    /\ IF ou[f] \in api_handle /\ Libres # {}
       THEN /\ poll_fd' = [poll_fd EXCEPT ![Min(Libres)] = Max({n \in Ov : objet[n] = de[f]})]
            /\ fd' = [fd EXCEPT ![f] = Min(Libres)]
            /\ Va(f, "lance")
       ELSE Va(f, "refuse") /\ UNCHANGED <<poll_fd, fd>>
    /\ UNCHANGED <<soumis, pollfds, io, reclames, temoins, de, ou, reclame, prets>>

(* WinUsb_ControlTransfer, WinUsb_ReadPipe: the request is pending, done   *)
(* at once, or refused; and the transfer gets its descriptor.              *)
Lance(f) ==
    LET n == poll_fd[fd[f]]  t == de[f] IN
    /\ pc[f] = "lance"
    /\ \/ \E r \in {"encours", "fini"} :
            /\ io' = [io EXCEPT ![n] = r]
            /\ pollable_fd' = [pollable_fd EXCEPT ![t] = [fd |-> fd[f], overlapped |-> n]]
            /\ interface_number' = [interface_number EXCEPT ![t] = ou[f]]
            /\ Va(f, "ajoute") /\ UNCHANGED poll_fd
       \/ /\ poll_fd' = [poll_fd EXCEPT ![fd[f]] = 0] /\ io' = [io EXCEPT ![n] = "libere"]
          /\ Va(f, "refuse") /\ UNCHANGED <<pollable_fd, interface_number>>
    /\ UNCHANGED <<flying, soumissions, objet, pollfds, reclames, temoins, locaux>>

usbi_add_pollfd(f) ==
    /\ pc[f] = "ajoute"
    /\ pollfds' = pollfds \cup {fd[f]}
    /\ Va(f, "repos") /\ reclame' = [reclame EXCEPT ![f] = FALSE]
    /\ de' = [de EXCEPT ![f] = Rien]
    /\ ou' = [ou EXCEPT ![f] = 0] /\ fd' = [fd EXCEPT ![f] = 0]
    /\ UNCHANGED <<soumis, poll_fd, io, reclames, temoins, prets>>

(* A submission that fails does not give back what it has claimed. *)
Refuse(f) ==
    /\ pc[f] = "refuse"
    /\ flying' = flying \ {de[f]}
    /\ fuite' = IF reclame[f] THEN fuite \cup {ou[f]} ELSE fuite
    /\ Va(f, "repos") /\ reclame' = [reclame EXCEPT ![f] = FALSE]
    /\ de' = [de EXCEPT ![f] = Rien]
    /\ ou' = [ou EXCEPT ![f] = 0] /\ fd' = [fd EXCEPT ![f] = 0]
    /\ UNCHANGED <<soumissions, pollable_fd, interface_number, objet, table, reclames, application,
                   melange, relache, prets>>

-----------------------------------------------------------------------------
(* windows_cancel_transfer aborts all transfers of the endpoint, and does  *)
(* nothing about a control transfer.                                       *)
windows_cancel_transfer(f, t) ==
    /\ pc[f] = "repos" /\ t \in flying \ Controles /\ \A g \in F : de[g] # t
    /\ interface_number[t] \in api_handle
    /\ io' = [n \in Ov |-> IF io[n] = "encours" /\ objet[n] \notin Controles THEN "abandonne" ELSE io[n]]
    /\ UNCHANGED <<soumis, poll_fd, pollfds, reclames, temoins, pc, locaux>>

(* The device answers, with data or an error. *)
Termine(n) ==
    /\ io[n] = "encours"
    /\ io' = [io EXCEPT ![n] = "fini"]
    /\ UNCHANGED <<soumis, poll_fd, pollfds, reclames, temoins, pc, locaux>>

-----------------------------------------------------------------------------
(* The thread that handles events.  usbi_poll looks at one descriptor      *)
(* after the other, and waits for one if none is done.                     *)
usbi_poll ==
    /\ pc[Evts] = "poll"
    /\ \E R \in (SUBSET {d \in pollfds : poll_fd[d] > 0 /\ io[poll_fd[d]] # "encours"}) \ {{}} :
          prets' = R
    /\ Va(Evts, "trouve")
    /\ UNCHANGED <<soumis, table, reclames, temoins, de, ou, fd, reclame>>

(* windows_handle_events finds the transfer by its descriptor, which it    *)
(* removes from those to poll before it frees it.                          *)
RetraitApres == "rend"   \* variant: once it is freed
Retrait == "trouve"
Retire(etape, d) == pollfds' = IF etape = Retrait THEN pollfds \ {d} ELSE pollfds

windows_handle_events ==
    /\ pc[Evts] = "trouve"
    /\ \E t \in flying :
          /\ pollable_fd[t].fd = Min(prets)
          /\ de' = [de EXCEPT ![Evts] = t]
    /\ Retire("trouve", Min(prets))
    /\ Va(Evts, "rend")
    /\ UNCHANGED <<soumis, poll_fd, io, reclames, temoins, ou, fd, reclame, prets>>

(* windows_clear_transfer_priv: usbi_free_fd, ... *)
usbi_free_fd ==
    LET t == de[Evts]  d == pollable_fd[t].fd IN
    /\ pc[Evts] = "rend"
    /\ io' = [io EXCEPT ![poll_fd[d]] = "libere"]
    /\ poll_fd' = [poll_fd EXCEPT ![d] = 0]
    /\ pollable_fd' = [pollable_fd EXCEPT ![t] = INVALID_WINFD]
    /\ Va(Evts, "libere")
    /\ UNCHANGED <<flying, soumissions, interface_number, objet, pollfds, reclames, temoins, locaux>>

(* ... and auto_release, whatever the transfer: it uncounts the interface, *)
(* and releases it with the last.                                          *)
DernierSansTest(n) == n <= 1   \* variant: an interface that is not counted is released as well
Dernier(n) == n = 1

auto_release ==
    LET i == interface_number[de[Evts]]
        derniere == Dernier(autoclaim_count[i])
    IN
    /\ pc[Evts] = "libere" /\ autoclaim_lock = Rien
    /\ autoclaim_count' = [autoclaim_count EXCEPT ![i] = IF @ > 0 THEN @ - 1 ELSE 0]
    /\ autoclaim_lock' = IF derniere THEN Evts ELSE Rien
    /\ Va(Evts, IF derniere THEN "relache" ELSE "repond")
    /\ Retire("rend", Min(prets))
    /\ UNCHANGED <<soumis, poll_fd, io, api_handle, claimed_interfaces, temoins, locaux>>

Relache ==
    LET i == interface_number[de[Evts]] IN
    /\ pc[Evts] = "relache"
    /\ Rend(i) /\ autoclaim_lock' = Rien /\ fuite' = fuite \ {i}
    /\ Va(Evts, "repond")
    /\ UNCHANGED <<soumis, table, autoclaim_count, application, melange, relache, locaux>>

usbi_handle_transfer_completion ==
    /\ pc[Evts] = "repond"
    /\ flying' = flying \ {de[Evts]} /\ de' = [de EXCEPT ![Evts] = Rien]
    /\ prets' = prets \ {Min(prets)}
    /\ Va(Evts, IF prets' = {} THEN "poll" ELSE "trouve")
    /\ UNCHANGED <<soumissions, pollable_fd, interface_number, objet, table, reclames, temoins, ou, fd, reclame>>

Next ==
    \/ \E f \in F :
        \/ \E i \in I : libusb_claim_interface(f, i) \/ libusb_release_interface(f, i)
        \/ \E t \in T : libusb_submit_transfer(f, t) \/ windows_cancel_transfer(f, t)
        \/ auto_claim(f) \/ Compte(f) \/ usbi_create_fd(f) \/ Lance(f) \/ usbi_add_pollfd(f) \/ Refuse(f)
    \/ \E n \in Ov : Termine(n)
    \/ usbi_poll \/ windows_handle_events \/ usbi_free_fd
    \/ auto_release \/ Relache \/ usbi_handle_transfer_completion

Spec == Init /\ [][Next]_vars

-----------------------------------------------------------------------------
(* A request that was accepted will be noticed: its transfer has the       *)
(* descriptor of its own OVERLAPPED, which is polled or about to be, until *)
(* the events thread has taken it; and what that thread frees is done.     *)
Surveille ==
    /\ \A t \in flying : pollable_fd[t] # INVALID_WINFD =>
        LET d == pollable_fd[t].fd  n == pollable_fd[t].overlapped IN
        /\ poll_fd[d] = n /\ objet[n] = t /\ io[n] # "libere"
        /\ d \in pollfds \/ de[Evts] = t \/ \E f \in F : de[f] = t /\ pc[f] = "ajoute"
    /\ pc[Evts] = "rend" => io[pollable_fd[de[Evts]].overlapped] # "encours"

(* What the application has claimed stays claimed, unless a control        *)
(* transfer has claimed it as well.  When nothing is in flight nothing is  *)
(* claimed beside it, but what a submission that failed has left.          *)
ReclameSolde ==
    /\ application \ melange \subseteq claimed_interfaces
    /\ flying = {} => /\ claimed_interfaces \subseteq application \cup fuite
                      /\ \A i \in I \ fuite : autoclaim_count[i] = 0

(* An interface that was claimed for a control transfer is not released    *)
(* early, while that transfer or another one is in progress on it.         *)
ReclameTenu ==
    ~relache => \A t \in flying \cap Controles :
        pollable_fd[t] # INVALID_WINFD /\ io[pollable_fd[t].overlapped] = "encours"
            => interface_number[t] \in api_handle

-----------------------------------------------------------------------------
(* The inductive invariant.  An entry of the table belongs to the transfer *)
(* that its OVERLAPPED was made for; a transfer, until it is over, to the  *)
(* thread that submits it, to the table, or to the events.                 *)
TypeWindows ==
    /\ flying \in SUBSET T /\ IsFiniteSet(flying) /\ soumissions \in 0..MaxSoumissions
    /\ objet \in [Ov -> T \cup {Rien}] /\ \A n \in Ov : n > soumissions => objet[n] = Rien
    /\ pollable_fd \in [T -> [fd : Nat, overlapped : Nat]] /\ interface_number \in [T -> I]
    /\ poll_fd \in [1..MAX_FDS -> 0..MaxSoumissions] /\ pollfds \in SUBSET (1..MAX_FDS)
    /\ io \in [Ov -> {"aucun", "encours", "fini", "abandonne", "libere"}]
    /\ api_handle \in SUBSET I /\ claimed_interfaces \in SUBSET I /\ autoclaim_count \in [I -> Nat]
    /\ application \in SUBSET I /\ melange \in SUBSET I /\ fuite \in SUBSET I
    /\ pc \in [F \cup {Evts} -> {"repos", "reclame", "compte", "cree", "lance", "ajoute", "refuse",
                                 "poll", "trouve", "rend", "libere", "relache", "repond"}]
    /\ de \in [F \cup {Evts} -> T \cup {Rien}] /\ ou \in [F -> I] /\ fd \in [F -> Nat]
    /\ reclame \in [F -> BOOLEAN] /\ prets \in SUBSET (1..MAX_FDS)

Suivi(t) == t \in flying /\ pollable_fd[t] # INVALID_WINFD

Fil(f) ==
    /\ pc[f] \in {"repos", "reclame", "compte", "cree", "lance", "ajoute", "refuse"}
    /\ pc[f] = "repos" <=> de[f] = Rien
    /\ reclame[f] => pc[f] \in {"cree", "lance", "ajoute", "refuse"}
    /\ pc[f] = "compte" <=> autoclaim_lock = f
    /\ de[f] # Rien => /\ de[f] \in flying /\ de[f] # de[Evts]
                       /\ \E n \in Ov : objet[n] = de[f]
                       /\ \A g \in F : de[g] = de[f] => g = f
                       /\ Suivi(de[f]) <=> pc[f] = "ajoute"
    /\ pc[f] = "lance" => /\ fd[f] \in (1..MAX_FDS) \ pollfds
                          /\ poll_fd[fd[f]] \in Ov /\ objet[poll_fd[fd[f]]] = de[f]
    /\ pc[f] = "ajoute" => /\ pollable_fd[de[f]].fd = fd[f] /\ fd[f] \notin pollfds
                           /\ interface_number[de[f]] = ou[f]

Transfert(t) ==
    LET d == pollable_fd[t].fd  n == pollable_fd[t].overlapped IN
    Suivi(t) =>
        /\ d \in 1..MAX_FDS /\ n \in Ov
        /\ poll_fd[d] = n /\ objet[n] = t /\ io[n] # "libere"
        /\ d \in pollfds \/ de[Evts] = t \/ \E f \in F : de[f] = t /\ pc[f] = "ajoute"

Entree(d) == d \in pollfds => \E t \in flying : Suivi(t) /\ pollable_fd[t].fd = d

Evenements ==
    /\ pc[Evts] \in {"poll", "trouve", "rend", "libere", "relache", "repond"}
    /\ de[Evts] = Rien <=> pc[Evts] \in {"poll", "trouve"}
    /\ de[Evts] # Rien => de[Evts] \in flying /\ (Suivi(de[Evts]) <=> pc[Evts] = "rend")
    /\ pc[Evts] = "rend" => LET v == pollable_fd[de[Evts]] IN
                            v.fd = Min(prets) /\ v.fd \notin pollfds /\ io[v.overlapped] # "encours"
    /\ pc[Evts] = "relache" <=> autoclaim_lock = Evts
    /\ pc[Evts] # "poll" => prets # {}
    /\ pc[Evts] # "poll" => \A d \in prets : pc[Evts] = "trouve" \/ d # Min(prets)
                                                => d \in pollfds /\ io[poll_fd[d]] # "encours"

(* The transfers whose end will uncount interface i. *)
Comptes(i) ==
    {t \in flying :
        \/ Suivi(t) /\ interface_number[t] = i
        \/ pc[Evts] = "libere" /\ de[Evts] = t /\ interface_number[t] = i
        \/ \E f \in F : de[f] = t /\ reclame[f] /\ ou[f] = i}

EnRelache(i) == pc[Evts] = "relache" /\ interface_number[de[Evts]] = i

Reclamation(i) ==
    /\ i \in application \ melange => i \in claimed_interfaces
    /\ (autoclaim_count[i] > 0 \/ EnRelache(i)) /\ i \in application => i \in melange
    /\ EnRelache(i) => autoclaim_count[i] = 0
    /\ i \notin fuite => autoclaim_count[i] <= Cardinality(Comptes(i))
    /\ i \in claimed_interfaces => \/ i \in application \cup fuite \/ autoclaim_count[i] > 0 \/ EnRelache(i)
                                   \/ \E f \in F : pc[f] = "compte" /\ ou[f] = i

Inductif ==
    /\ TypeWindows /\ Evenements
    /\ \A f \in F : Fil(f)
    /\ \A t \in T : Transfert(t)
    /\ \A d \in 1..MAX_FDS : Entree(d)
    /\ \A i \in I : Reclamation(i)
=============================================================================
