----------------------------- MODULE MCParties -----------------------------
(***************************************************************************)
(* The parts of libusb whose invariants are proved, with the variables and *)
(* the constants of MCMateriel, which runs them beside the other parts:    *)
(* v1, v2 ... stand for the variables of the part that runs, in the order  *)
(* of its declarations.                                                    *)
(***************************************************************************)
EXTENDS Integers

CONSTANTS
    Rien,
    Attendants,                                                 \* threads at a condition variable
    Appelants, AppelsControle,                                  \* threads in a synchronous transfer
    Poignees, Threads, PoigneeDe, Equipes, Noyaux, NI, MaxAppels, \* of Requetes
    ScanBsd, UgenOpenbsd, UgenNetbsd, EBsd, NIBsd, TBsd, DeBsd, NCBsd, NFdBsd,  \* of the BSDs
    TWin, ControlesWin, FWin, NIWin, NFdWin, MaxSoumissions                     \* of Windows

VARIABLES
    v1, v2, v3, v4, v5, v6, v7, v8, v9, v10, v11, v12, v13, v14, v15, v16, v17, v18, v19,
    v20, v21, v22, v23, v24, v25

Requ == INSTANCE Requetes WITH
    H <- Poignees, Fils <- Threads,
    Poignee <- PoigneeDe, Equipes <- Equipes, Noyaux <- Noyaux, NI <- NI,
    MaxAppels <- MaxAppels, Personne <- Rien, branche <- v1, attached <- v2, pilote <- v3,
    tenu <- v4, noyau <- v5, disconnect_claim <- v6, ouvert <- v7,
    claimed_interfaces <- v8, auto_detach_kernel_driver <- v9, lock <- v10, perdu <- v11,
    pc <- v12, ou <- v13, reset <- v14, appels <- v15
Cond == INSTANCE Conditions WITH
    P <- Attendants, Rien <- Rien, mutex <- v1,
    waiters <- v2, not_waiting <- v3, event <- v4, timeout_ms <- v5, r2 <- v6, pc <- v7
Sync == INSTANCE Synchrone WITH
    A <- Appelants, Controles <- AppelsControle, pc <- v1,
    transfer <- v2, buffer <- v3, completed <- v4, etat <- v5, annule <- v6, status <- v7,
    actual <- v8, r <- v9, transferred <- v10

(* The two backends of the BSDs have the same devices, endpoints and        *)
(* transfers; Ug is what they have in common. *)
Ug == INSTANCE Ugen WITH
    Scan <- ScanBsd, Attaches <- UgenNetbsd, E <- EBsd, NI <- NIBsd, T <- TBsd, De <- DeBsd,
    NC <- NCBsd, NFd <- NFdBsd, Rien <- Rien, noeud <- v1, perdus <- v2, conf <- v3, objet <- v4,
    perime <- v5, liste <- v6, poignee <- v7, claimed <- v8, endpoints <- v9, etat <- v10,
    sur <- v11, completed_transfers <- v12, egare <- v13
Obsd == INSTANCE Openbsd WITH
    Scan <- ScanBsd, Attaches <- UgenOpenbsd, E <- EBsd, NI <- NIBsd, T <- TBsd, De <- DeBsd,
    NC <- NCBsd, NFd <- NFdBsd, Rien <- Rien, noeud <- v1, perdus <- v2, conf <- v3, objet <- v4,
    perime <- v5, liste <- v6, poignee <- v7, claimed <- v8, endpoints <- v9, etat <- v10,
    sur <- v11, completed_transfers <- v12, egare <- v13
Nbsd == INSTANCE Netbsd WITH
    Scan <- ScanBsd, Attaches <- UgenNetbsd, E <- EBsd, NI <- NIBsd, T <- TBsd, De <- DeBsd,
    NC <- NCBsd, NFd <- NFdBsd, Rien <- Rien, noeud <- v1, perdus <- v2, conf <- v3, objet <- v4,
    perime <- v5, liste <- v6, poignee <- v7, claimed <- v8, endpoints <- v9, etat <- v10,
    sur <- v11, completed_transfers <- v12, egare <- v13

Win == INSTANCE Windows WITH
    T <- TWin, Controles <- ControlesWin, F <- FWin, NI <- NIWin, MAX_FDS <- NFdWin,
    MaxSoumissions <- MaxSoumissions, Rien <- Rien, flying <- v1,
    soumissions <- v2, poll_fd <- v3, pollfds <- v4, pollable_fd <- v5,
    interface_number <- v6, io <- v7, objet <- v8, api_handle <- v9,
    claimed_interfaces <- v10, autoclaim_count <- v11, autoclaim_lock <- v12, pc <- v13,
    de <- v14, ou <- v15, fd <- v16, reclame <- v17, prets <- v18, application <- v19,
    melange <- v20, fuite <- v21, relache <- v22

ASSUME PartiesAssumption ==
    /\ Requ!Hypotheses /\ Cond!Hypotheses /\ Sync!Hypotheses /\ Obsd!Hypotheses /\ Nbsd!Hypotheses
    /\ Win!Hypotheses
=============================================================================
