---------------------------- MODULE Descripteurs ----------------------------
(***************************************************************************)
(* libusb: the configurations of a device.  One is looked for in what the  *)
(* kernel keeps, cut to its announced length, and turned into a tree of    *)
(* interfaces, alternate settings and endpoints; the application frees it. *)
(* Any allocation may fail.  The active configuration is read in two       *)
(* steps, and another program may change it in between.                    *)
(*                                                                         *)
(* What is parsed is a sequence of descriptors and a number of bytes,      *)
(* which may end inside a descriptor.  A class or vendor descriptor has    *)
(* the type "EXTRA"; a hole in the file is one of length 0.                *)
(***************************************************************************)
EXTENDS Integers, Sequences, SequencesExt

CONSTANTS
    Fichiers,   \* what a device announces: its configurations, each the
                \* sequence of its descriptors
    Bos         \* what it answers to a request for its BOS descriptor

VARIABLES
    fichier, sysfs_has_descriptors,
    actif,            \* the number of the active configuration
    pc,
    demande,          \* the configuration asked for, 0 for the active one
    total,            \* the wTotalLength that was read first
    texte, taille,    \* what is parsed, and its length in bytes
    p,                \* the descriptors of it that have been passed
    config, bos,      \* the results
    blocs,            \* the memory that is allocated
    libere2,          \* a block has been freed that was not allocated
    manque            \* the allocation that has failed

appareil == <<fichier, sysfs_has_descriptors, actif>>
appel == <<demande, total, texte, taille>>
resultat == <<config, bos, blocs, libere2, manque>>
vars == <<appareil, pc, appel, p, resultat>>

DESC_HEADER_LENGTH == 2
LIBUSB_DT_CONFIG_SIZE == 9
INTERFACE_DESC_LENGTH == 9
ENDPOINT_DESC_LENGTH == 7
USB_MAXENDPOINTS == 32
USB_MAXINTERFACES == 32

Octets(s) == FoldLeft(LAMBDA n, d : n + d.bLength, 0, s)
Reste == SubSeq(texte, p + 1, Len(texte))
size == taille - Octets(SubSeq(texte, 1, p))

Init ==
    /\ fichier \in Fichiers /\ sysfs_has_descriptors \in BOOLEAN
    /\ actif \in DOMAIN fichier
    /\ pc = "repos" /\ demande = 0 /\ total = 0 /\ texte = <<>> /\ taille = 0 /\ p = 0
    /\ config = [bNumInterfaces |-> 0, extra |-> <<>>, interfaces |-> <<>>] /\ bos = <<>>
    /\ blocs = {} /\ libere2 = FALSE /\ manque = "rien"

-----------------------------------------------------------------------------
(* Which bytes are parsed. *)

(* seek_to_next_config: sysfs gives descriptors of verified lengths, usbfs *)
(* configurations that are wTotalLength bytes apart, with holes.           *)
seek_to_next_config(c) == IF sysfs_has_descriptors THEN Octets(fichier[c]) ELSE fichier[c][1].total

(* By index, or the active one: the header, an allocation of wTotalLength  *)
(* bytes, and everything.                                                  *)
libusb_get_config_descriptor(c) ==
    /\ pc = "repos"
    /\ demande' = c
    /\ total' = fichier[IF c = 0 THEN actif ELSE c][1].total
    /\ \/ pc' = "relit" /\ blocs' = {<<"buf">>} /\ UNCHANGED manque
       \/ pc' = "erreur" /\ manque' = "buf" /\ UNCHANGED blocs
    /\ UNCHANGED <<appareil, texte, taille, p, config, bos, libere2>>

op_get_config_descriptor ==
    LET c == IF demande = 0 THEN actif ELSE demande
        r == seek_to_next_config(c)
    IN
    /\ pc = "relit"
    /\ texte' = fichier[c] /\ taille' = IF total < r THEN total ELSE r
    /\ pc' = "analyse"
    /\ UNCHANGED <<appareil, demande, total, p, resultat>>

(* By value: parsed where it is cached, without a copy. *)
libusb_get_config_descriptor_by_value(c) ==
    /\ pc = "repos"
    /\ demande' = c /\ texte' = fichier[c] /\ taille' = seek_to_next_config(c)
    /\ pc' = "analyse"
    /\ UNCHANGED <<appareil, total, p, resultat>>

(* Another program sets a configuration. *)
Configure(c) ==
    /\ pc = "relit" /\ c # actif
    /\ actif' = c
    /\ UNCHANGED <<fichier, sysfs_has_descriptors, pc, appel, p, resultat>>

-----------------------------------------------------------------------------
(* The loop that skips class or vendor descriptors: how it ends, and what  *)
(* it has passed.                                                          *)
Propres == {"ENDPOINT", "INTERFACE", "CONFIG", "DEVICE"}

Issue(j) ==
    LET reste == size - Octets(SubSeq(Reste, 1, j - 1))
        d == Reste[j]
    IN  IF reste < DESC_HEADER_LENGTH THEN "fin"
        ELSE IF d.bLength < DESC_HEADER_LENGTH THEN "IO"
        ELSE IF d.bLength > reste THEN "court"
        ELSE IF d.type \in Propres THEN "fin" ELSE "encore"

Saut ==
    LET j == CHOOSE j \in 1..(Len(Reste) + 1) :
                 Issue(j) # "encore" /\ \A i \in 1..(j - 1) : Issue(i) = "encore"
    IN  [issue |-> Issue(j), extra |-> SubSeq(Reste, 1, j - 1)]

n_if == Len(config.interfaces)
alts == config.interfaces[n_if]
n_alt == Len(alts)
ifp == alts[n_alt]

(* What the pointers of an interface lead to, and those of a configuration *)
(* as far as its count goes.                                               *)
BlocsInterface(c, i) ==
    LET alt == c.interfaces[i]
    IN  {<<"alt", i>> : u \in {v \in {i} : alt # <<>> \/ <<"alt", i>> \in blocs}}
        \cup {<<"extraI", i, j>> : j \in {j \in DOMAIN alt : alt[j].extra # <<>>}}
        \cup {<<"endpoint", i, j>> : j \in {j \in DOMAIN alt : alt[j].alloue}}
        \cup UNION {{<<"extraE", i, j, e>> : e \in {e \in DOMAIN alt[j].endpoint :
                                                       alt[j].endpoint[e].extra # <<>>}} :
                     j \in DOMAIN alt}

clear_configuration_Seule(c) ==   \* variant: the interfaces are not cleared
    {<<"interface">>} \cup {<<"extra">> : u \in {v \in {0} : c.extra # <<>>}}
clear_configuration(c) ==
    {<<"interface">>} \cup {<<"extra">> : u \in {v \in {0} : c.extra # <<>>}}
        \cup UNION {BlocsInterface(c, i) : i \in {i \in DOMAIN c.interfaces : i <= c.bNumInterfaces}}

free(S) == libere2' = (libere2 \/ ~(S \subseteq blocs))

(* An error after the list of interfaces has been allocated.  The pointer  *)
(* to a list of alternate settings that could not grow is still there      *)
(* when usbi_reallocf has freed it.                                        *)
Echec(raison) ==
    LET perdu == {<<"alt", n_if>> : u \in {v \in {0} : raison = "alt"}}
        S == clear_configuration(config) \cup {<<"config">>}
    IN  /\ pc' = "erreur" /\ manque' = raison
        /\ blocs' = blocs \ (S \cup perdu)
        /\ libere2' = (libere2 \/ ~(S \subseteq blocs \ perdu))
        /\ UNCHANGED <<config, p>>

Va(etape) == pc' = etape /\ UNCHANGED <<libere2, manque>>

-----------------------------------------------------------------------------
(* raw_desc_to_config and the head of parse_configuration; the fields are  *)
(* tested before anything but _config is allocated.                        *)
parse_configuration ==
    LET d == texte[1]
    IN
    /\ pc = "analyse"
    /\ \/ /\ pc' = "erreur" /\ manque' = "config"
          /\ UNCHANGED <<config, p, blocs, libere2>>
       \/ /\ \/ taille < LIBUSB_DT_CONFIG_SIZE \/ d.bLength \notin LIBUSB_DT_CONFIG_SIZE..taille
             \/ d.eps > USB_MAXINTERFACES
          /\ Va("erreur") /\ UNCHANGED <<config, p, blocs>>
       \/ /\ d.bLength \in LIBUSB_DT_CONFIG_SIZE..taille /\ d.eps <= USB_MAXINTERFACES
          /\ config' = [config EXCEPT !.bNumInterfaces = d.eps]
          /\ p' = 1 /\ blocs' = blocs \cup {<<"config">>, <<"interface">>}
          /\ Va("extraC")
    /\ UNCHANGED <<appareil, appel, bos>>

(* Before each interface, the loop over the announced number of them. *)
ExtraConfig ==
    LET s == Saut
        copie == s.extra # <<>> /\ config.extra = <<>>
    IN
    /\ pc = "extraC" /\ n_if < config.bNumInterfaces
    /\ \/ s.issue = "IO" /\ Echec(manque)
       \/ /\ s.issue = "court"
          /\ config' = [config EXCEPT !.bNumInterfaces = n_if]
          /\ Va("fini") /\ UNCHANGED <<p, blocs>>
       \/ s.issue = "fin" /\ copie /\ Echec("extra")
       \/ /\ s.issue = "fin"
          /\ config' = [config EXCEPT !.extra = IF copie THEN s.extra ELSE @,
                                      !.interfaces = Append(@, <<>>)]
          /\ blocs' = IF copie THEN blocs \cup {<<"extra">>} ELSE blocs
          /\ p' = p + Len(s.extra)
          /\ Va("alt")
    /\ UNCHANGED <<appareil, appel, bos>>

FinConfig ==
    /\ pc = "extraC" /\ n_if = config.bNumInterfaces
    /\ Va("fini")
    /\ UNCHANGED <<appareil, appel, p, config, bos, blocs>>

(* The end of parse_interface: if it has parsed nothing, its interface is  *)
(* not counted and the loop over them ends.                                *)
FinInterface(c) ==
    IF alts = <<>>
    THEN config' = [c EXCEPT !.bNumInterfaces = n_if - 1] /\ Va("fini")
    ELSE config' = c /\ Va("extraC")

(* The loop of parse_interface. *)
AltSetting ==
    LET d == Head(Reste)
        memoire == blocs \cup {<<"alt", n_if>>}
    IN
    /\ pc = "alt"
    /\ \/ size < INTERFACE_DESC_LENGTH /\ FinInterface(config) /\ UNCHANGED <<p, blocs>>
       \/ size >= INTERFACE_DESC_LENGTH /\ Echec("alt")
       \/ /\ size >= INTERFACE_DESC_LENGTH
          /\ d.type # "INTERFACE" \/ (d.bLength >= INTERFACE_DESC_LENGTH /\ d.bLength > size)
          /\ blocs' = memoire
          /\ FinInterface(config) /\ UNCHANGED p
       \/ /\ size >= INTERFACE_DESC_LENGTH
          /\ d.type = "INTERFACE"
          /\ d.bLength < INTERFACE_DESC_LENGTH \/ (d.bLength <= size /\ d.eps > USB_MAXENDPOINTS)
          /\ Echec(manque)
       \/ /\ size >= INTERFACE_DESC_LENGTH
          /\ d.type = "INTERFACE" /\ d.bLength \in INTERFACE_DESC_LENGTH..size
          /\ d.eps <= USB_MAXENDPOINTS
          /\ config' = [config EXCEPT !.interfaces[n_if] =
                  Append(@, [desc |-> d, bNumEndpoints |-> d.eps, extra |-> <<>>,
                             alloue |-> FALSE, endpoint |-> <<>>])]
          /\ blocs' = memoire /\ p' = p + 1
          /\ Va("extraI")
    /\ UNCHANGED <<appareil, appel, bos>>

ExtraInterface ==
    LET s == Saut IN
    /\ pc = "extraI"
    /\ \/ s.issue = "IO" /\ Echec(manque)
       \/ s.issue = "court" /\ FinInterface(config) /\ p' = p + Len(s.extra) /\ UNCHANGED blocs
       \/ s.issue = "fin" /\ s.extra # <<>> /\ Echec("extra")
       \/ /\ s.issue = "fin"
          /\ config' = [config EXCEPT !.interfaces[n_if][n_alt].extra = s.extra]
          /\ blocs' = IF s.extra # <<>> THEN blocs \cup {<<"extraI", n_if, n_alt>>} ELSE blocs
          /\ p' = p + Len(s.extra)
          /\ Va(IF ifp.bNumEndpoints > 0 THEN "endpoints" ELSE "suite")
    /\ UNCHANGED <<appareil, appel, bos>>

Endpoints ==
    /\ pc = "endpoints"
    /\ \/ Echec("endpoint")
       \/ /\ blocs' = blocs \cup {<<"endpoint", n_if, n_alt>>}
          /\ config' = [config EXCEPT !.interfaces[n_if][n_alt].alloue = TRUE]
          /\ Va("endpoint") /\ UNCHANGED p
    /\ UNCHANGED <<appareil, appel, bos>>

n_ep == Len(ifp.endpoint)

(* Nothing was parsed: the count becomes the number that was found. *)
NombreAnnonce(i) == ifp.bNumEndpoints   \* variant: the announced one stays
Nombre(i) == i

parse_endpoint ==
    LET d == Head(Reste) IN
    /\ pc = "endpoint" /\ n_ep < ifp.bNumEndpoints
    /\ \/ size < DESC_HEADER_LENGTH /\ Echec(manque)
       \/ /\ size >= DESC_HEADER_LENGTH /\ (d.type # "ENDPOINT" \/ d.bLength > size)
          /\ config' = [config EXCEPT !.interfaces[n_if][n_alt].bNumEndpoints = Nombre(n_ep)]
          /\ Va("suite") /\ UNCHANGED <<p, blocs>>
       \/ /\ size >= DESC_HEADER_LENGTH /\ d.type = "ENDPOINT" /\ d.bLength <= size
          /\ d.bLength < ENDPOINT_DESC_LENGTH
          /\ Echec(manque)
       \/ /\ size >= DESC_HEADER_LENGTH /\ d.type = "ENDPOINT" /\ d.bLength <= size
          /\ d.bLength >= ENDPOINT_DESC_LENGTH
          /\ config' = [config EXCEPT !.interfaces[n_if][n_alt].endpoint =
                            Append(@, [desc |-> d, extra |-> <<>>])]
          /\ p' = p + 1
          /\ Va("extraE") /\ UNCHANGED blocs
    /\ UNCHANGED <<appareil, appel, bos>>

ExtraEndpoint ==
    LET s == Saut IN
    /\ pc = "extraE"
    /\ \/ s.issue = "IO" /\ Echec(manque)
       \/ s.issue = "court" /\ p' = p + Len(s.extra) /\ Va("endpoint") /\ UNCHANGED <<config, blocs>>
       \/ s.issue = "fin" /\ s.extra # <<>> /\ Echec("extra")
       \/ /\ s.issue = "fin"
          /\ config' = [config EXCEPT !.interfaces[n_if][n_alt].endpoint[n_ep].extra = s.extra]
          /\ blocs' = IF s.extra # <<>> THEN blocs \cup {<<"extraE", n_if, n_alt, n_ep>>} ELSE blocs
          /\ p' = p + Len(s.extra)
          /\ Va("endpoint")
    /\ UNCHANGED <<appareil, appel, bos>>

FinEndpoints ==
    /\ pc = "endpoint" /\ n_ep = ifp.bNumEndpoints
    /\ Va("suite")
    /\ UNCHANGED <<appareil, appel, p, config, bos, blocs>>

(* Is there another alternate setting of the same interface? *)
Suite ==
    /\ pc = "suite"
    /\ IF size >= INTERFACE_DESC_LENGTH /\ Head(Reste).type = "INTERFACE"
          /\ Head(Reste).num = alts[1].desc.num
       THEN Va("alt") /\ UNCHANGED config
       ELSE FinInterface(config)
    /\ UNCHANGED <<appareil, appel, p, bos, blocs>>

(* The copy is freed when the call returns, and later the result. *)
RendBuf ==
    /\ pc \in {"fini", "erreur", "bosfini"} /\ <<"buf">> \in blocs
    /\ blocs' = blocs \ {<<"buf">>}
    /\ Va(pc) /\ UNCHANGED <<appareil, appel, p, config, bos>>

libusb_free_config_descriptor ==
    LET S == clear_configuration(config) \cup {<<"config">>} IN
    /\ pc = "fini" /\ <<"buf">> \notin blocs
    /\ free(S) /\ blocs' = blocs \ S
    /\ pc' = "rendu" /\ UNCHANGED <<appareil, appel, p, config, bos, manque>>

-----------------------------------------------------------------------------
(* The BOS descriptor: a header that counts capabilities.  It is requested *)
(* from the device twice, and the second answer may be short.              *)
LIBUSB_DT_BOS_SIZE == 5
LIBUSB_DT_DEVICE_CAPABILITY_SIZE == 3

libusb_get_bos_descriptor(b, n) ==
    /\ pc = "repos" /\ n <= b[1].total
    /\ texte' = b /\ taille' = n
    /\ \/ pc' = "bos" /\ blocs' = {<<"buf">>} /\ UNCHANGED manque
       \/ pc' = "erreur" /\ manque' = "buf" /\ UNCHANGED blocs
    /\ UNCHANGED <<appareil, demande, total, p, config, bos, libere2>>

BlocsBos == {<<"bos">>} \cup {<<"cap", i>> : i \in DOMAIN bos}

parse_bos ==
    /\ pc = "bos"
    /\ \/ taille < LIBUSB_DT_BOS_SIZE /\ Va("erreur") /\ UNCHANGED <<p, blocs>>
       \/ /\ taille >= LIBUSB_DT_BOS_SIZE
          /\ pc' = "erreur" /\ manque' = "bos" /\ UNCHANGED <<p, blocs, libere2>>
       \/ /\ taille >= LIBUSB_DT_BOS_SIZE
          /\ Va("cap") /\ p' = 1 /\ blocs' = blocs \cup {<<"bos">>}
    /\ UNCHANGED <<appareil, appel, config, bos>>

EchecBos(raison) ==
    /\ pc' = "erreur" /\ manque' = raison
    /\ free(BlocsBos) /\ blocs' = blocs \ BlocsBos
    /\ UNCHANGED <<p, bos>>

Capacite ==
    LET d == Head(Reste)
        une == size >= LIBUSB_DT_DEVICE_CAPABILITY_SIZE /\ d.type = "CAPACITE"
        courte == d.bLength < LIBUSB_DT_DEVICE_CAPABILITY_SIZE
    IN
    /\ pc = "cap" /\ Len(bos) < texte[1].eps
    /\ \/ une /\ courte /\ EchecBos(manque)
       \/ /\ ~une \/ (~courte /\ d.bLength > size)
          /\ Va("bosfini") /\ UNCHANGED <<p, bos, blocs>>
       \/ une /\ ~courte /\ d.bLength <= size /\ EchecBos("cap")
       \/ /\ une /\ ~courte /\ d.bLength <= size
          /\ bos' = Append(bos, d) /\ blocs' = blocs \cup {<<"cap", Len(bos) + 1>>}
          /\ p' = p + 1 /\ Va("cap")
    /\ UNCHANGED <<appareil, appel, config>>

FinBos ==
    /\ pc = "cap" /\ Len(bos) = texte[1].eps
    /\ Va("bosfini") /\ UNCHANGED <<appareil, appel, p, config, bos, blocs>>

libusb_free_bos_descriptor ==
    /\ pc = "bosfini" /\ <<"buf">> \notin blocs
    /\ free(BlocsBos) /\ blocs' = blocs \ BlocsBos
    /\ pc' = "rendu" /\ UNCHANGED <<appareil, appel, p, config, bos, manque>>

Next ==
    \/ \E c \in {0} \cup DOMAIN fichier : libusb_get_config_descriptor(c)
    \/ \E c \in DOMAIN fichier : libusb_get_config_descriptor_by_value(c) \/ Configure(c)
    \/ op_get_config_descriptor \/ parse_configuration
    \/ ExtraConfig \/ FinConfig \/ AltSetting \/ ExtraInterface \/ Endpoints
    \/ parse_endpoint \/ ExtraEndpoint \/ FinEndpoints \/ Suite
    \/ \E b \in Bos : \E n \in {LIBUSB_DT_BOS_SIZE - 1} \cup {Octets(b) - m : m \in 0..1} :
          libusb_get_bos_descriptor(b, n)
    \/ parse_bos \/ Capacite \/ FinBos
    \/ RendBuf \/ libusb_free_config_descriptor \/ libusb_free_bos_descriptor

Spec == Init /\ [][Next]_vars

-----------------------------------------------------------------------------
(* The tree read back: the descriptors in the order it holds them. *)
AvecExtra(x) == <<x.desc>> \o x.extra
Aplati(c) ==
    LET deAlt(a) == AvecExtra(a) \o FlattenSeq([e \in DOMAIN a.endpoint |-> AvecExtra(a.endpoint[e])])
        deInterface(i) == FlattenSeq([j \in DOMAIN c.interfaces[i] |-> deAlt(c.interfaces[i][j])])
    IN  <<texte[1]>> \o c.extra \o FlattenSeq([i \in 1..c.bNumInterfaces |-> deInterface(i)])

(* The announced counts of a configuration are those of its descriptors,   *)
(* nothing is cut, and its interfaces follow each other in order.          *)
Exacte(c, n) ==
    LET ifs == {j \in DOMAIN c : c[j].type = "INTERFACE"}
        apres(j) == {k \in ifs : k > j}
        fin(j) == IF apres(j) = {} THEN Len(c) + 1 ELSE CHOOSE k \in apres(j) : \A l \in apres(j) : k <= l
    IN  /\ n = Octets(c)
        /\ \A j \in DOMAIN c :
               c[j].bLength >= IF c[j].type = "ENDPOINT" THEN ENDPOINT_DESC_LENGTH ELSE DESC_HEADER_LENGTH
        /\ {c[j].num : j \in ifs} = 0..(c[1].eps - 1)
        /\ \A j, k \in ifs : j < k => c[j].num <= c[k].num
        /\ \A j \in ifs : c[j].bLength >= INTERFACE_DESC_LENGTH /\ c[j].eps <= USB_MAXENDPOINTS
        /\ \A j \in ifs : Cardinality({e \in j..(fin(j) - 1) : c[e].type = "ENDPOINT"}) = c[j].eps

(* The tree holds the first descriptors of the device, in order and each   *)
(* in the place it came from, whatever is cut, missing or announced        *)
(* wrongly, and also when the active configuration changed between the two *)
(* reads; all of them if the counts are right.  Such a configuration is    *)
(* only refused for want of memory.  The counts of endpoints are those of  *)
(* the lists, unless the bytes end inside what follows the interface.  The *)
(* capabilities of a BOS descriptor are its first ones, too.               *)
ArbreFidele ==
    /\ pc = "fini" =>
        /\ IsPrefix(Aplati(config), texte)
        /\ Exacte(texte, taille) => Aplati(config) = texte
        /\ \A i \in 1..config.bNumInterfaces : \A j \in DOMAIN config.interfaces[i] :
               LET a == config.interfaces[i][j]
               IN  a.bNumEndpoints = Len(a.endpoint) \/ (~a.alloue /\ taille < Octets(texte))
    /\ pc = "erreur" /\ manque = "rien" => ~Exacte(texte, taille)
    /\ pc = "bosfini" => IsPrefix(bos, Tail(texte))

(* After an error, and when the application has freed the result, nothing  *)
(* is left but the list of an interface in which nothing was found; and no *)
(* block is freed twice unless a list of alternate settings could not grow.*)
RienNeFuit ==
    /\ pc = "rendu" \/ (pc = "erreur" /\ <<"buf">> \notin blocs) =>
           blocs \subseteq {<<"alt", i>> : i \in {i \in DOMAIN config.interfaces : config.interfaces[i] = <<>>}}
    /\ libere2 => manque = "alt"
=============================================================================
