--------------------------- MODULE Peripheriques ---------------------------
(***************************************************************************)
(* libusb's devices on Linux: the list usb_devs, the reference counts, and *)
(* what the hotplug monitor, or a thread that finds the device gone, does  *)
(* when a device comes or leaves.  Every list and count has a lock of its  *)
(* own, so one access to one of them is one step; the arrivals and the     *)
(* departures exclude each other by linux_hotplug_lock.                    *)
(*                                                                         *)
(* A device object stands for one plugging of a device.                    *)
(***************************************************************************)
EXTENDS Integers, Sequences, FiniteSets

CONSTANTS
    D,          \* the devices
    Personne    \* nobody

VARIABLES
    branche,    \* the device itself: "avant", "la" or "parti"
    usb_devs,   \* the list of the context
    attached,   \* libusb_device.attached
    refcnt,     \* libusb_device.refcnt
    detruits,   \* device objects that have been freed
    linux_hotplug_lock

peripheriques == <<branche, usb_devs, attached, refcnt, detruits, linux_hotplug_lock>>

(* A device is there from the start, with its first enumeration done, or   *)
(* comes later.                                                            *)
PeripheriquesInit ==
    /\ usb_devs \in SUBSET D
    /\ branche = [d \in D |-> IF d \in usb_devs THEN "la" ELSE "avant"]
    /\ attached = [d \in D |-> d \in usb_devs]
    /\ refcnt = [d \in D |-> IF d \in usb_devs THEN 1 ELSE 0]
    /\ detruits = {} /\ linux_hotplug_lock = Personne

-----------------------------------------------------------------------------
libusb_ref_device(S) ==
    refcnt' = [d \in D |-> IF d \in S THEN refcnt[d] + 1 ELSE refcnt[d]]

libusb_unref_device(S) ==
    /\ refcnt' = [d \in D |-> IF d \in S THEN refcnt[d] - 1 ELSE refcnt[d]]
    /\ detruits' = detruits \cup {d \in S : refcnt[d] = 1}

(* linux_enumerate_device: the new device has one reference and goes to    *)
(* the list; it is freed if it cannot be read any more.  The caller then   *)
(* announces it.                                                           *)
linux_enumerate_device(f, d) ==
    /\ linux_hotplug_lock = Personne
    /\ \/ /\ linux_hotplug_lock' = f
          /\ attached' = [attached EXCEPT ![d] = TRUE]
          /\ refcnt' = [refcnt EXCEPT ![d] = 1]
          /\ usb_devs' = usb_devs \cup {d}
          /\ UNCHANGED detruits
       \/ /\ branche[d] = "parti"
          /\ detruits' = detruits \cup {d}
          /\ UNCHANGED <<linux_hotplug_lock, attached, refcnt, usb_devs>>
    /\ UNCHANGED branche

(* linux_device_disconnected finds the device in the list by its session   *)
(* identifier, and holds a reference of its own until it has announced     *)
(* that the device has left.                                               *)
RefSessionOubliee(d) == refcnt   \* variant: the lookup takes no reference
RefSession(d) == [refcnt EXCEPT ![d] = @ + 1]

linux_device_disconnected(f, d) ==
    /\ linux_hotplug_lock = Personne /\ d \in usb_devs
    /\ linux_hotplug_lock' = f
    /\ refcnt' = RefSession(d)
    /\ attached' = [attached EXCEPT ![d] = FALSE]
    /\ usb_devs' = usb_devs \ {d}
    /\ UNCHANGED <<branche, detruits>>

FinDisconnected(f, d) ==
    /\ libusb_unref_device({d})
    /\ linux_hotplug_lock' = Personne
    /\ UNCHANGED <<branche, usb_devs, attached>>

-----------------------------------------------------------------------------
(* The device itself is plugged, or unplugged. *)
Branche(d) ==
    /\ branche[d] = "avant" /\ branche' = [branche EXCEPT ![d] = "la"]
    /\ UNCHANGED <<usb_devs, attached, refcnt, detruits, linux_hotplug_lock>>

Debranche(d) ==
    /\ branche[d] = "la" /\ branche' = [branche EXCEPT ![d] = "parti"]
    /\ UNCHANGED <<usb_devs, attached, refcnt, detruits, linux_hotplug_lock>>
=============================================================================
