-------------------------------- MODULE Darwin --------------------------------
(***************************************************************************)
(* libusb on Mac OS X: the devices that all contexts share in a cache, the *)
(* list of each context, and the hotplug thread, which the first context   *)
(* starts and the last one stops.  The first context looks for devices     *)
(* before the thread is there, the others while it listens.                *)
(*                                                                         *)
(* A session <<s, n>> is the n-th plugging, of a device at the place s.    *)
(* A reference to a cached device is taken without its lock, by a read and *)
(* a write, and given back with it.  The parents of devices are left out.  *)
(***************************************************************************)
EXTENDS Integers, Sequences, FiniteSets, SequencesExt

CONSTANTS
    F,          \* parts of the program, each with a context of its own
    Ensemble,   \* they may use libusb at the same time
    E,          \* hotplug threads, as many as may be there at once (bound of the model)
    S,          \* places where a device may be plugged
    MaxPrises,  \* how often one is plugged or unplugged (bound of the model)
    MaxContextes,   \* how many contexts are made (bound of the model)
    Rien

(* What the constants must satisfy. *)
Hypotheses ==
    F \cap E = {} /\ Rien \notin F \cup E /\ MaxPrises \in Nat /\ MaxContextes \in Nat
        /\ Ensemble \in BOOLEAN /\ E # {}

Fils == F \cup E
Sessions == S \X (1..(MaxPrises + 1))

VARIABLES
    branche, prises,   \* the session at each place, 0 for none
    malade,            \* the places whose device cannot always be read
    darwin_cached_devices,
    usb_devs,          \* of each context: its device objects
    active_contexts_list, initCount,
    libusb_darwin_acfl, libusb_darwin_at,   \* the thread's run loop, and the thread
    pc, default_context_lock, active_contexts_lock,
    retraits, ajouts,  \* of each thread: what the two iterators hold
    arrete,            \* its run loop has been told to stop
    a_voir,            \* of a scan: the sessions it has still to look at
    nouveau,           \* process_new_device: the session and the context, <<>> for none
    restent, session,  \* contexts to which the thread has still to give a session
    balaye, perdus,    \* what the last scan saw; what came or left at a wrong moment
    faux, courses,     \* sessions used when no longer cached; whose count was raced for
    relance,           \* a context was made while the thread of the last one was being stopped
    crees              \* how many contexts were made

prise == <<branche, prises, malade>>
cache == <<darwin_cached_devices, faux, courses>>
listes == <<usb_devs, active_contexts_list>>
boucle == <<initCount, libusb_darwin_acfl, libusb_darwin_at, relance, crees>>
verrous == <<default_context_lock, active_contexts_lock>>
iterateurs == <<retraits, ajouts, perdus>>
parcours == <<nouveau, restent, session>>
vars == <<prise, cache, listes, boucle, pc, verrous, iterateurs, arrete, a_voir, parcours, balaye>>

Presentes == {<<s, branche[s]>> : s \in {s \in S : branche[s] > 0}}
Absent == [refcount |-> 0, can_enumerate |-> FALSE, propre |-> FALSE]

Init ==
    /\ branche \in [S -> 0..1] /\ prises = 0 /\ malade \in SUBSET S
    /\ darwin_cached_devices = [n \in Sessions |-> Absent] /\ faux = {} /\ courses = {}
    /\ usb_devs = [f \in F |-> <<>>] /\ active_contexts_list = {}
    /\ initCount = 0 /\ libusb_darwin_acfl = Rien /\ libusb_darwin_at = Rien /\ relance = FALSE /\ crees = 0
    /\ pc = [f \in Fils |-> IF f \in E THEN "absent" ELSE "dehors"]
    /\ default_context_lock = Rien /\ active_contexts_lock = Rien
    /\ retraits = [e \in E |-> {}] /\ ajouts = [e \in E |-> {}] /\ perdus = {}
    /\ arrete = [e \in E |-> FALSE] /\ a_voir = [f \in F |-> {}]
    /\ nouveau = [f \in Fils |-> <<>>]
    /\ restent = [e \in E |-> {}] /\ session = [e \in E |-> <<>>]
    /\ balaye = {}

Va(f, etape) == pc' = [pc EXCEPT ![f] = etape]
Vivants == {f \in F : pc[f] # "dehors"}

-----------------------------------------------------------------------------
(* Devices come and go, and IOKit puts them into the iterators of the      *)
(* notifications that exist.                                               *)
NoteRetraits == {e \in E : pc[e] \notin {"absent", "cree", "fini", "mort"}}
NoteAjouts == {e \in NoteRetraits : pc[e] # "retraits"}

(* A context that is being made gets the arrivals that a thread has still   *)
(* to give when it goes to active_contexts_list, and those that come before *)
(* it scans; and it may list what leaves while it scans.                    *)
Arrive(n) == NoteAjouts # {} /\ \E f \in F : pc[f] = "balaye"
Part(n) == \E f \in F : n \in a_voir[f] \/ (nouveau[f] # <<>> /\ nouveau[f].session = n)

Branche(s) ==
    LET n == <<s, prises + 2>> IN
    /\ prises < MaxPrises /\ branche[s] = 0
    /\ branche' = [branche EXCEPT ![s] = n[2]] /\ prises' = prises + 1
    /\ ajouts' = [e \in E |-> IF e \in NoteAjouts THEN ajouts[e] \cup {n} ELSE ajouts[e]]
    /\ perdus' = IF Arrive(n) THEN perdus \cup {n} ELSE perdus
    /\ UNCHANGED <<malade, cache, listes, boucle, pc, verrous, retraits, arrete, a_voir, parcours, balaye>>

Debranche(s) ==
    LET n == <<s, branche[s]>> IN
    /\ prises < MaxPrises /\ branche[s] > 0
    /\ branche' = [branche EXCEPT ![s] = 0] /\ prises' = prises + 1
    /\ retraits' = [e \in E |-> IF e \in NoteRetraits THEN retraits[e] \cup {n} ELSE retraits[e]]
    /\ perdus' = IF Part(n) THEN perdus \cup {n} ELSE perdus
    /\ courses' = IF Cardinality(NoteRetraits) > 1 THEN courses \cup {n} ELSE courses
    /\ UNCHANGED <<malade, darwin_cached_devices, faux, listes, boucle, pc, verrous, ajouts,
                   arrete, a_voir, parcours, balaye>>

-----------------------------------------------------------------------------
(* darwin_deref_cached_device frees the device with the last reference.    *)
darwin_deref_cached_device(c, k) ==
    IF c.refcount <= k THEN Absent ELSE [c EXCEPT !.refcount = @ - k]

(* A race:  f changes the count of a session while another thread is        *)
(* between the read and the write of an increment of it, or frees it while  *)
(* one has found the cached device and has no reference to it yet.          *)
Courses(f, apres) ==
    {n \in Sessions : /\ apres[n].refcount # darwin_cached_devices[n].refcount
                      /\ \E g \in Fils \ {f} :
                            /\ nouveau[g] # <<>> /\ nouveau[g].session = n
                            /\ nouveau[g].etape = "ref" \/ (nouveau[g].etape = "objet" /\ apres[n].refcount = 0)}
Change(f, apres) ==
    /\ darwin_cached_devices' = apres
    /\ courses' = courses \cup Courses(f, apres)

(* darwin_destroy_device for an object that is in no list yet, ...         *)
Rend(f, n) ==
    /\ Change(f, [darwin_cached_devices EXCEPT ![n] = darwin_deref_cached_device(@, 1)])
    /\ faux' = IF darwin_cached_devices[n].refcount = 0 THEN faux \cup {n} ELSE faux

(* ... and, by the thread g, for each object of f that nobody holds any more. *)
Objets(n, L) == Cardinality({i \in DOMAIN L : L[i].session = n})
Detruits(n, avant, apres) == Objets(n, avant) - Objets(n, apres)

darwin_destroy_device(g, f, L) ==
    LET garde == SelectSeq(L, LAMBDA d : d.liste \/ d.tenu)
        rend == [n \in Sessions |-> Detruits(n, usb_devs[f], garde)]
    IN
    /\ usb_devs' = [usb_devs EXCEPT ![f] = garde]
    /\ Change(g, [n \in Sessions |->
           IF rend[n] = 0 THEN darwin_cached_devices[n]
           ELSE darwin_deref_cached_device(darwin_cached_devices[n], rend[n])])
    /\ faux' = faux \cup {n \in Sessions : rend[n] > darwin_cached_devices[n].refcount}

-----------------------------------------------------------------------------
(* process_new_device, first darwin_get_cached_device:  a session that is  *)
(* not in the cache goes there, even if its descriptor cannot be read.     *)
Sure(n) == n \in Presentes /\ n[1] \notin malade

(* The descriptor is asked for twice, and may be refused or wrong.         *)
darwin_cache_device_descriptor(n) == IF Sure(n) THEN {TRUE} ELSE BOOLEAN

(* The interfaces of the device can be looked for.                         *)
darwin_check_configuration(n) == IF Sure(n) THEN {TRUE} ELSE BOOLEAN

Jamais(c) == FALSE   \* variant: a cached device is taken for a listed one
Enumerable(c) == c.can_enumerate

darwin_get_cached_device(f) ==
    /\ nouveau[f] # <<>> /\ nouveau[f].etape = "cache"
    /\ LET n == nouveau[f].session
           c == darwin_cached_devices[n]
       IN
       \/ /\ c.refcount > 0
          /\ nouveau' = [nouveau EXCEPT ![f] = IF Enumerable(c) THEN [@ EXCEPT !.etape = "objet"] ELSE <<>>]
          /\ UNCHANGED darwin_cached_devices
       \/ /\ c.refcount = 0 /\ ~Sure(n)
          /\ nouveau' = [nouveau EXCEPT ![f] = <<>>]
          /\ UNCHANGED darwin_cached_devices
       \/ /\ c.refcount = 0 /\ n \in Presentes
          /\ \E lu \in darwin_cache_device_descriptor(n) :
                /\ darwin_cached_devices' = [darwin_cached_devices EXCEPT ![n] =
                       [refcount |-> 1, can_enumerate |-> lu, propre |-> TRUE]]
                /\ nouveau' = [nouveau EXCEPT ![f] = IF lu THEN [@ EXCEPT !.etape = "objet"] ELSE <<>>]
    /\ UNCHANGED <<prise, faux, courses, listes, boucle, pc, verrous, iterateurs, arrete, a_voir, restent, session, balaye>>

(* The configuration is looked at and the object is made; the lock of the  *)
(* cache is not held any more, nor a reference yet.                        *)
usbi_alloc_device(f) ==
    /\ nouveau[f] # <<>> /\ nouveau[f].etape = "objet"
    /\ LET n == nouveau[f].session
           c == darwin_cached_devices[n]
       IN
       /\ faux' = IF c.refcount = 0 THEN faux \cup {n} ELSE faux
       /\ \/ /\ TRUE \in darwin_check_configuration(n)
             /\ nouveau' = [nouveau EXCEPT ![f].etape = "ref", ![f].lu = c.refcount]
          \/ /\ FALSE \in darwin_check_configuration(n)
             /\ nouveau' = [nouveau EXCEPT ![f] = <<>>]
    /\ UNCHANGED <<prise, darwin_cached_devices, courses, listes, boucle, pc, verrous, iterateurs,
                   arrete, a_voir, restent, session, balaye>>

(* The object refers to the cached device:  the increment is written, over  *)
(* what others have written meanwhile, or is lost as they wrote over it;    *)
(* one into memory that was freed is lost too.                              *)
darwin_ref_cached_device(f) ==
    /\ nouveau[f] # <<>> /\ nouveau[f].etape = "ref"
    /\ LET n == nouveau[f].session
           c == darwin_cached_devices[n]
       IN
       /\ faux' = IF c.refcount = 0 THEN faux \cup {n} ELSE faux
       /\ \/ /\ c.refcount > 0
             /\ Change(f, [darwin_cached_devices EXCEPT ![n].refcount = nouveau[f].lu + 1])
          \/ c.refcount # nouveau[f].lu /\ UNCHANGED <<darwin_cached_devices, courses>>
          \/ c.refcount = 0 /\ UNCHANGED <<darwin_cached_devices, courses>>
    /\ nouveau' = [nouveau EXCEPT ![f].etape = "liste", ![f].lu = 0]
    /\ UNCHANGED <<prise, listes, boucle, pc, verrous, iterateurs, arrete, a_voir, restent, session, balaye>>

(* usbi_sanitize_device: the object goes to the list, or is freed.         *)
process_new_device(f) ==
    /\ nouveau[f] # <<>> /\ nouveau[f].etape = "liste"
    /\ LET n == nouveau[f].session
           x == nouveau[f].ctx
           objet == [session |-> n, liste |-> TRUE, tenu |-> FALSE]
       IN
       \/ /\ usb_devs' = [usb_devs EXCEPT ![x] = Append(@, objet)]
          /\ UNCHANGED cache
       \/ ~Sure(n) /\ Rend(f, n) /\ UNCHANGED usb_devs
    /\ nouveau' = [nouveau EXCEPT ![f] = <<>>]
    /\ UNCHANGED <<prise, active_contexts_list, boucle, pc, verrous, iterateurs, arrete, a_voir, restent, session, balaye>>

Nouveau(n, x) == [session |-> n, ctx |-> x, etape |-> "cache", lu |-> 0]

-----------------------------------------------------------------------------
(* libusb_init: the context goes to active_contexts_list, ...              *)
libusb_init(f) ==
    /\ pc[f] = "dehors" /\ (Vivants = {} \/ Ensemble) /\ crees < MaxContextes
    /\ crees' = crees + 1
    /\ relance' = (relance \/ \E g \in F : pc[g] \in {"arrete", "joint"})
    /\ default_context_lock = Rien /\ active_contexts_lock = Rien
    /\ default_context_lock' = f
    /\ active_contexts_list' = active_contexts_list \cup {f}
    /\ perdus' = perdus \cup UNION {ajouts[e] : e \in E}
    /\ Va(f, "balaye")
    /\ UNCHANGED <<prise, cache, usb_devs, initCount, libusb_darwin_acfl, libusb_darwin_at,
                   active_contexts_lock, retraits, ajouts, arrete, a_voir, parcours, balaye>>

(* ... darwin_init scans, which may fail, ... *)
ItereSaute(N) == IF N = {} THEN {} ELSE N \ {CHOOSE n \in N : TRUE}   \* variant: the first is read and not used
Itere(N) == N

usb_setup_device_iterator(f) ==
    /\ pc[f] = "balaye"
    /\ \/ a_voir' = [a_voir EXCEPT ![f] = Itere(Presentes)] /\ balaye' = Presentes /\ Va(f, "cherche")
       \/ Va(f, "echec") /\ UNCHANGED <<a_voir, balaye>>
    /\ UNCHANGED <<prise, cache, listes, boucle, verrous, iterateurs, arrete, parcours>>

darwin_scan_devices(f) ==
    /\ pc[f] = "cherche" /\ nouveau[f] = <<>>
    /\ \E n \in a_voir[f] :
          /\ a_voir' = [a_voir EXCEPT ![f] = @ \ {n}]
          /\ nouveau' = [nouveau EXCEPT ![f] = Nouveau(n, f)]
    /\ UNCHANGED <<prise, cache, listes, boucle, pc, verrous, iterateurs, arrete, restent, session, balaye>>

(* ... and starts the thread, for the first context, ... *)
Absents == {e \in E : pc[e] = "absent"}
darwin_init(f) ==
    /\ pc[f] = "cherche" /\ nouveau[f] = <<>> /\ a_voir[f] = {}
    /\ initCount' = initCount + 1
    /\ \/ /\ initCount = 0 /\ Absents # {}
          /\ libusb_darwin_at' = CHOOSE e \in Absents : TRUE
          /\ pc' = [pc EXCEPT ![f] = "attend", ![libusb_darwin_at'] = "cree"]
          /\ UNCHANGED <<default_context_lock, balaye>>
       \/ /\ initCount > 0
          /\ Va(f, "vit") /\ default_context_lock' = Rien /\ balaye' = {}
          /\ UNCHANGED libusb_darwin_at
    /\ UNCHANGED <<prise, cache, listes, libusb_darwin_acfl, relance, crees, active_contexts_lock, iterateurs, arrete, a_voir, parcours>>

(* ... for whose run loop it waits. *)
pthread_cond_wait(f) ==
    /\ pc[f] = "attend" /\ libusb_darwin_acfl # Rien
    /\ Va(f, "vit") /\ default_context_lock' = Rien
    /\ balaye' = {}
    /\ UNCHANGED <<prise, cache, listes, boucle, active_contexts_lock, iterateurs, arrete, a_voir, parcours>>

(* The devices leave the list of a context that is given up. *)
Abandonne(f) == darwin_destroy_device(f, f, [i \in DOMAIN usb_devs[f] |-> [usb_devs[f][i] EXCEPT !.liste = FALSE]])

Echec(f) ==
    /\ pc[f] = "echec" /\ active_contexts_lock = Rien
    /\ active_contexts_list' = active_contexts_list \ {f} /\ Abandonne(f)
    /\ Va(f, "dehors") /\ default_context_lock' = Rien
    /\ UNCHANGED <<prise, boucle, active_contexts_lock, iterateurs, arrete, a_voir, parcours, balaye>>

(* libusb_exit, once the program has given back its devices:  the list of  *)
(* the context is given up, and then darwin_exit counts.                   *)
libusb_exit(f) ==
    /\ pc[f] = "vit" /\ default_context_lock = Rien /\ active_contexts_lock = Rien
    /\ \A i \in DOMAIN usb_devs[f] : ~usb_devs[f][i].tenu
    /\ active_contexts_list' = active_contexts_list \ {f}
    /\ Va(f, "libere")
    /\ UNCHANGED <<prise, cache, usb_devs, boucle, verrous, iterateurs, arrete, a_voir, parcours, balaye>>

Libere(f) ==
    /\ pc[f] = "libere"
    /\ Abandonne(f) /\ Va(f, "quitte")
    /\ UNCHANGED <<prise, active_contexts_list, boucle, verrous, iterateurs, arrete, a_voir, parcours, balaye>>

darwin_exit(f) ==
    /\ pc[f] = "quitte"
    /\ initCount' = initCount - 1
    /\ relance' = (relance \/ (initCount = 1 /\ \E g \in F : pc[g] \in {"balaye", "cherche"}))
    /\ Va(f, IF initCount = 1 THEN "arrete" ELSE "dehors")
    /\ UNCHANGED <<prise, cache, listes, libusb_darwin_acfl, libusb_darwin_at, crees, verrous, iterateurs,
                   arrete, a_voir, parcours, balaye>>

(* CFRunLoopStop does nothing to a run loop that does not run yet, and ends *)
(* the program when there is none.                                         *)
EnBoucle(e) == pc[e] \in {"boucle", "attache", "detache"}
CFRunLoopStop(f) ==
    /\ pc[f] = "arrete" /\ libusb_darwin_acfl # Rien
    /\ arrete' = [e \in E |-> arrete[e] \/ (e = libusb_darwin_acfl /\ EnBoucle(e))]
    /\ Va(f, "joint")
    /\ UNCHANGED <<prise, cache, listes, boucle, verrous, iterateurs, a_voir, parcours, balaye>>

pthread_join(f) ==
    /\ pc[f] = "joint"
    /\ \E e \in E : /\ e = libusb_darwin_at /\ pc[e] \in {"fini", "mort"}
                    /\ pc' = [pc EXCEPT ![f] = "dehors", ![e] = "absent"]
                    /\ arrete' = [arrete EXCEPT ![e] = FALSE]
    /\ libusb_darwin_at' = Rien
    /\ UNCHANGED <<prise, cache, listes, initCount, libusb_darwin_acfl, relance, crees, verrous, iterateurs, a_voir, parcours, balaye>>

(* The program keeps a device, and gives it back. *)
Garde(f) ==
    /\ pc[f] = "vit"
    /\ \E i \in DOMAIN usb_devs[f] :
          /\ usb_devs[f][i].liste /\ ~usb_devs[f][i].tenu
          /\ usb_devs' = [usb_devs EXCEPT ![f][i].tenu = TRUE]
    /\ UNCHANGED <<prise, cache, active_contexts_list, boucle, pc, verrous, iterateurs, arrete, a_voir, parcours, balaye>>

libusb_unref_device(f) ==
    /\ pc[f] = "vit"
    /\ \E i \in DOMAIN usb_devs[f] :
          /\ usb_devs[f][i].tenu
          /\ darwin_destroy_device(f, f, [usb_devs[f] EXCEPT ![i].tenu = FALSE])
    /\ UNCHANGED <<prise, active_contexts_list, boucle, pc, verrous, iterateurs, arrete, a_voir, parcours, balaye>>

-----------------------------------------------------------------------------
(* darwin_event_thread_main: the notifications, either of which may be     *)
(* refused, ...                                                            *)
IOServiceAddMatchingNotification(e) ==
    /\ \/ pc[e] = "cree" /\ Va(e, "retraits") /\ UNCHANGED ajouts
       \/ pc[e] = "retraits" /\ Va(e, "ajouts") /\ ajouts' = [ajouts EXCEPT ![e] = Presentes]
       \/ pc[e] \in {"cree", "retraits"} /\ Va(e, "mort") /\ UNCHANGED ajouts
    /\ UNCHANGED <<prise, cache, listes, boucle, verrous, retraits, perdus, arrete, a_voir, parcours, balaye>>

(* ... darwin_clear_iterator, twice, which throws away what they hold, ... *)
darwin_clear_iterator(e) ==
    /\ \/ /\ pc[e] = "ajouts" /\ Va(e, "vide")
          /\ retraits' = [retraits EXCEPT ![e] = {}]
          /\ perdus' = perdus \cup (balaye \ Presentes)
          /\ UNCHANGED ajouts
       \/ /\ pc[e] = "vide" /\ Va(e, "arme")
          /\ ajouts' = [ajouts EXCEPT ![e] = {}]
          /\ perdus' = perdus \cup (ajouts[e] \ balaye)
          /\ UNCHANGED retraits
    /\ UNCHANGED <<prise, cache, listes, boucle, verrous, arrete, a_voir, parcours, balaye>>

(* ... the signal to the thread that waits, and the run loop. *)
Signale(e) ==
    /\ pc[e] = "arme"
    /\ libusb_darwin_acfl' = e
    /\ Va(e, "pret")
    /\ UNCHANGED <<prise, cache, listes, initCount, libusb_darwin_at, relance, crees, verrous, iterateurs, arrete, a_voir, parcours, balaye>>

CFRunLoopRun(e) ==
    /\ \/ pc[e] = "pret" /\ Va(e, "boucle")
       \/ pc[e] = "boucle" /\ arrete[e] /\ Va(e, "sort")
    /\ UNCHANGED <<prise, cache, listes, boucle, verrous, iterateurs, arrete, a_voir, parcours, balaye>>

AcflReste(e) == libusb_darwin_acfl   \* variant: the run loop's address is kept
Acfl(e) == Rien

Sort(e) ==
    /\ pc[e] = "sort"
    /\ libusb_darwin_acfl' = Acfl(e)
    /\ retraits' = [retraits EXCEPT ![e] = {}] /\ ajouts' = [ajouts EXCEPT ![e] = {}]
    /\ Va(e, "fini")
    /\ UNCHANGED <<prise, cache, listes, initCount, libusb_darwin_at, relance, crees, verrous, perdus, arrete, a_voir, parcours, balaye>>

-----------------------------------------------------------------------------
(* The two callbacks hold active_contexts_lock and empty their iterator.   *)
Appelle(e) ==
    /\ pc[e] = "boucle" /\ active_contexts_lock = Rien
    /\ \/ ajouts[e] # {} /\ Va(e, "attache")
       \/ retraits[e] # {} /\ Va(e, "detache")
    /\ active_contexts_lock' = e
    /\ UNCHANGED <<prise, cache, listes, boucle, default_context_lock, iterateurs, arrete, a_voir, parcours, balaye>>

Suivant(e) == nouveau[e] = <<>> /\ restent[e] = {}

FinAppel(e) ==
    /\ Suivant(e)
    /\ \/ pc[e] = "attache" /\ ajouts[e] = {}
       \/ pc[e] = "detache" /\ retraits[e] = {}
    /\ Va(e, "boucle") /\ active_contexts_lock' = Rien
    /\ session' = [session EXCEPT ![e] = <<>>]
    /\ UNCHANGED <<prise, cache, listes, boucle, default_context_lock, iterateurs, arrete, a_voir,
                   nouveau, restent, balaye>>

darwin_devices_attached(e) ==
    /\ pc[e] = "attache" /\ Suivant(e)
    /\ \E n \in ajouts[e] :
          /\ ajouts' = [ajouts EXCEPT ![e] = @ \ {n}]
          /\ session' = [session EXCEPT ![e] = n]
    /\ restent' = [restent EXCEPT ![e] = active_contexts_list]
    /\ UNCHANGED <<prise, cache, listes, boucle, pc, verrous, retraits, perdus, arrete, a_voir, nouveau, balaye>>

Attache(e) ==
    /\ pc[e] = "attache" /\ nouveau[e] = <<>>
    /\ \E x \in restent[e] :
          /\ restent' = [restent EXCEPT ![e] = @ \ {x}]
          /\ nouveau' = [nouveau EXCEPT ![e] = Nouveau(session[e], x)]
    /\ UNCHANGED <<prise, cache, listes, boucle, pc, verrous, iterateurs, arrete, a_voir, session, balaye>>

(* The cache gives up the session first, ... *)
darwin_devices_detached(e) ==
    /\ pc[e] = "detache" /\ Suivant(e)
    /\ \E n \in retraits[e] :
          /\ retraits' = [retraits EXCEPT ![e] = @ \ {n}]
          /\ session' = [session EXCEPT ![e] = n]
          /\ Change(e, [darwin_cached_devices EXCEPT ![n] =
                 IF @.refcount = 0 THEN @ ELSE darwin_deref_cached_device([@ EXCEPT !.propre = FALSE], 1)])
    /\ restent' = [restent EXCEPT ![e] = active_contexts_list]
    /\ UNCHANGED <<prise, faux, listes, boucle, pc, verrous, ajouts, perdus, arrete, a_voir, nouveau, balaye>>

(* ... and then every context, one object each, the latest of its list. *)
Detache(e) ==
    /\ pc[e] = "detache"
    /\ \E x \in restent[e] :
          LET o == {i \in DOMAIN usb_devs[x] : usb_devs[x][i].session = session[e] /\ usb_devs[x][i].liste} IN
          /\ restent' = [restent EXCEPT ![e] = @ \ {x}]
          /\ IF o = {} THEN UNCHANGED <<cache, usb_devs>>
             ELSE darwin_destroy_device(e, x, [usb_devs[x] EXCEPT ![CHOOSE i \in o : \A j \in o : j <= i].liste = FALSE])
    /\ UNCHANGED <<prise, active_contexts_list, boucle, pc, verrous, iterateurs, arrete, a_voir, nouveau, session, balaye>>

(* _darwin_finalize, when the program ends. *)
_darwin_finalize ==
    /\ \A f \in F : pc[f] = "dehors"
    /\ pc' = [f \in Fils |-> "termine"]
    /\ darwin_cached_devices' = [n \in Sessions |-> darwin_deref_cached_device(darwin_cached_devices[n], 1)]
    /\ UNCHANGED <<prise, faux, courses, listes, boucle, verrous, iterateurs, arrete, a_voir, parcours, balaye>>

Programme(f) ==
    \/ libusb_init(f) \/ usb_setup_device_iterator(f) \/ darwin_scan_devices(f) \/ darwin_init(f)
    \/ pthread_cond_wait(f) \/ Echec(f)
    \/ libusb_exit(f) \/ Libere(f) \/ darwin_exit(f) \/ CFRunLoopStop(f) \/ pthread_join(f)
    \/ Garde(f) \/ libusb_unref_device(f)
Ecoute(e) ==
    \/ IOServiceAddMatchingNotification(e) \/ darwin_clear_iterator(e)
    \/ Signale(e) \/ CFRunLoopRun(e) \/ Sort(e)
    \/ Appelle(e) \/ FinAppel(e) \/ darwin_devices_attached(e) \/ Attache(e)
    \/ darwin_devices_detached(e) \/ Detache(e)

Next ==
    \/ \E s \in S : Branche(s) \/ Debranche(s)
    \/ \E f \in F : Programme(f)
    \/ \E e \in E : Ecoute(e)
    \/ \E f \in Fils : 
          \/ darwin_get_cached_device(f) \/ usbi_alloc_device(f) \/ darwin_ref_cached_device(f)
          \/ process_new_device(f)
    \/ _darwin_finalize

Spec == Init /\ [][Next]_vars

-----------------------------------------------------------------------------
(* A cached device is counted once for every object that refers to it and  *)
(* once for itself, is never used after it was freed, and is freed when    *)
(* its device has left and the last object too, or the program ends.  But  *)
(* for a session that was raced for, as above, and for one that two        *)
(* hotplug threads are told has left, which both give up.                  *)
References(n) ==
    (IF darwin_cached_devices[n].propre THEN 1 ELSE 0)
    + Cardinality({x \in F \X (1..9) : x[2] \in DOMAIN usb_devs[x[1]] /\ usb_devs[x[1]][x[2]].session = n})
    + Cardinality({f \in Fils : nouveau[f] # <<>> /\ nouveau[f].session = n /\ nouveau[f].etape = "liste"})

(* When the thread has nothing to do, the list of a context holds what is  *)
(* plugged in, each device once; but for devices that cannot be read, for  *)
(* what came or left after the first context had looked for devices and    *)
(* before the thread listened, and for what came or left while another     *)
(* context was being made, which may be there twice or for ever.  All bets *)
(* are off when a context was made while the last one stopped the thread.  *)
Repos(f) ==
    /\ pc[f] = "vit" /\ active_contexts_lock = Rien
    /\ \A e \in E : pc[e] # "absent" => ajouts[e] = {} /\ retraits[e] = {}
Listees(f) == {d \in ToSet(usb_devs[f]) : d.liste}
Saines(N) == {n \in N : n[1] \notin malade} \ perdus
ListeDarwin ==
    ~relance => \A f \in F : Repos(f) =>
        /\ Saines({d.session : d \in Listees(f)}) = Saines(Presentes)
        /\ \A i, j \in DOMAIN usb_devs[f] :
               usb_devs[f][i].session = usb_devs[f][j].session => i = j \/ usb_devs[f][i].session \in perdus

(* A context in use has a hotplug thread that listens, whose run loop and  *)
(* whose identity libusb knows; with the same exception.                   *)
ThreadDarwin ==
    ~relance => \A f \in F : pc[f] = "vit" =>
        /\ libusb_darwin_acfl = libusb_darwin_at
        /\ \E e \in E : e = libusb_darwin_at /\ pc[e] \notin {"absent", "cree", "sort", "fini", "mort"} /\ ~arrete[e]
=============================================================================
