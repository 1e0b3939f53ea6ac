------------------------------- MODULE PciMmio -------------------------------
(***************************************************************************)
(* Register windows (BARs) of PCI devices (linux_pci.c): pci_iomap,        *)
(* pcim_iomap and ioremap share one reference-counted record per window,   *)
(* pci_iounmap gives a reference back, and mapped_bar0 caches a pointer    *)
(* into one of the mapped windows 0 for the xHCI code.                     *)
(***************************************************************************)
EXTENDS Integers, Sequences

CONSTANTS
    N,          \* devices of the backend, 1 .. N
    Bars,       \* register windows per device; 0 is one of them
    MaxHeld     \* bound: mappings of one window that are not undone

Devs == 1 .. N
NoDev == 0

VARIABLES
    maps,       \* mmio_mappings, newest first: [dev, bar, refs]
    windows,    \* what the backend has mapped: a set of [dev, bar]
    held,       \* [Devs \X Bars -> mappings the driver will undo]
    managed,    \* [Devs \X Bars -> mappings of pcim_iomap, never undone]
    bar0        \* mapped_bar0_addr: the device whose window it is, or NoDev

vars == <<maps, windows, held, managed, bar0>>

Init ==
    /\ maps = <<>> /\ windows = {} /\ bar0 = NoDev
    /\ held = [w \in Devs \X Bars |-> 0] /\ managed = held

\* The position of the first record for a window, 0 if there is none.
RecordOf(d, b) ==
    IF \E k \in DOMAIN maps : maps[k].dev = d /\ maps[k].bar = b
    THEN CHOOSE k \in DOMAIN maps :
            /\ maps[k].dev = d /\ maps[k].bar = b
            /\ \A j \in 1 .. k - 1 : maps[j].dev /= d \/ maps[j].bar /= b
    ELSE 0

\* pci_iomap, ioremap: an existing record is retained, else the backend maps
\* the window and a record with one reference heads the list.
MapWindow(d, b) ==
    /\ LET k == RecordOf(d, b)
       IN  IF k > 0 THEN maps' = [maps EXCEPT ![k].refs = @ + 1] /\ UNCHANGED windows
           ELSE /\ maps' = <<[dev |-> d, bar |-> b, refs |-> 1]>> \o maps
                /\ windows' = windows \cup {[dev |-> d, bar |-> b]}
    /\ bar0' = IF b = 0 THEN d ELSE bar0

Iomap(d, b) ==
    /\ held[<<d, b>>] + managed[<<d, b>>] < MaxHeld
    /\ MapWindow(d, b)
    /\ held' = [held EXCEPT ![<<d, b>>] = @ + 1]
    /\ UNCHANGED managed

\* pcim_iomap: nothing undoes it when the driver leaves the device.
PcimIomap(d, b) ==
    /\ held[<<d, b>>] + managed[<<d, b>>] < MaxHeld
    /\ MapWindow(d, b)
    /\ managed' = [managed EXCEPT ![<<d, b>>] = @ + 1]
    /\ UNCHANGED held

\* ioremap has no device: it serves the active one, and physical addresses
\* outside that one's window 0 are refused.
Ioremap(d) ==
    /\ held[<<d, 0>>] + managed[<<d, 0>>] < MaxHeld
    /\ MapWindow(d, 0)
    /\ held' = [held EXCEPT ![<<d, 0>>] = @ + 1]
    /\ UNCHANGED managed

\* refresh_mapped_bar0_after_unmap over the remaining records.
Bar0Of(ms) ==
    IF \E k \in DOMAIN ms : ms[k].bar = 0
    THEN ms[CHOOSE k \in DOMAIN ms : ms[k].bar = 0 /\ \A j \in 1 .. k - 1 : ms[j].bar /= 0].dev
    ELSE NoDev

\* What mapped_bar0 is once the record of window (d, b) is released.
Bar0After(d, b, ms) == IF b = 0 THEN Bar0Of(ms) ELSE bar0

\* Dropping a reference; the last one releases the window.
Unmap(d, b) ==
    LET k == RecordOf(d, b)
    IN  IF maps[k].refs > 1
        THEN maps' = [maps EXCEPT ![k].refs = @ - 1] /\ UNCHANGED <<windows, bar0>>
        ELSE /\ maps' = [j \in 1 .. Len(maps) - 1 |-> IF j < k THEN maps[j] ELSE maps[j + 1]]
             /\ windows' = windows \ {[dev |-> d, bar |-> b]}
             /\ bar0' = Bar0After(d, b, maps')

\* pci_iounmap of an address the driver holds.
Iounmap(d, b) ==
    /\ held[<<d, b>>] > 0
    /\ Unmap(d, b)
    /\ held' = [held EXCEPT ![<<d, b>>] = @ - 1]
    /\ UNCHANGED managed

\* cached_bar0_snapshot, called by the xHCI code at any time.
Bar0Snapshot ==
    /\ Bar0Of(maps) /= NoDev /\ bar0' = Bar0Of(maps)
    /\ UNCHANGED <<maps, windows, held, managed>>

\* pci_release_all_mmio_mappings, at the end of the program.
ReleaseAll ==
    /\ maps' = <<>> /\ windows' = {} /\ bar0' = NoDev
    /\ held' = [w \in Devs \X Bars |-> 0] /\ managed' = held'

Next ==
    \/ Bar0Snapshot \/ ReleaseAll
    \/ \E d \in Devs :
         \/ Ioremap(d)
         \/ \E b \in Bars : Iomap(d, b) \/ PcimIomap(d, b) \/ Iounmap(d, b)

Spec == Init /\ [][Next]_vars
-----------------------------------------------------------------------------
\* Types.
TypeOK ==
    /\ \A k \in DOMAIN maps : maps[k] \in [dev : Devs, bar : Bars, refs : 1 .. MaxHeld]
    /\ held \in [Devs \X Bars -> 0 .. MaxHeld] /\ managed \in [Devs \X Bars -> 0 .. MaxHeld]
    /\ bar0 \in Devs \cup {NoDev}

\* There is one record per mapped window, its count is the number of
\* mappings the driver was given and has not undone, and the backend has
\* exactly those windows mapped (retain_, take_, release_mmio_mapping).
MmioRefs ==
    /\ \A j, k \in DOMAIN maps : (maps[j].dev = maps[k].dev /\ maps[j].bar = maps[k].bar) => j = k
    /\ \A d \in Devs, b \in Bars :
         LET k == RecordOf(d, b) n == held[<<d, b>>] + managed[<<d, b>>]
         IN  (IF k = 0 THEN 0 ELSE maps[k].refs) = n
    /\ windows = {[dev |-> maps[k].dev, bar |-> maps[k].bar] : k \in DOMAIN maps}

\* mapped_bar0 points into a window that is mapped, or nowhere, and nowhere
\* only if no window 0 is mapped (refresh_mapped_bar0_after_unmap).
Bar0Live ==
    IF bar0 = NoDev THEN \A w \in windows : w.bar /= 0 ELSE [dev |-> bar0, bar |-> 0] \in windows

=============================================================================
