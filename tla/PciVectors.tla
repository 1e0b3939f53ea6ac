------------------------------ MODULE PciVectors ------------------------------
(***************************************************************************)
(* Interrupt vectors of PCI devices (linux_pci.c, pci.c, linux_irq.c):     *)
(* pci_alloc_irq_vectors with its fall-back from MSI-X to MSI to the pin,  *)
(* pci_enable_msix_range, the disables, and pci_free_irq_vectors.  The     *)
(* published vectors and the table from Linux interrupt numbers to         *)
(* (kind, entry) are single and shared by all devices.                     *)
(***************************************************************************)
EXTENDS Integers, Sequences, FiniteSets, FiniteSetsExt

CONSTANTS
    Devices, NoDev,
    Table,     \* [Devices -> size of the MSI-X table, 0 without the capability]
    MsiMax,    \* [Devices -> vectors of the MSI capability, 0 without]
    Pin,       \* [Devices -> the device has an interrupt pin]
    Routed,    \* the backend programs the MSI-X table, for this many entries; or 0
    VecMax,    \* KB_PCI_SUBSYSTEM_IRQ_VECTOR_MAX
    MapMax,    \* KB_IRQ_MAPPING_MAX
    Ask        \* bound: vectors a driver asks for

VARIABLES
    vec,     \* pci_irq_vectors: the published Linux interrupt numbers
    map,     \* irq_mappings: a sequence of [irq, kind, entry]
    next,    \* next_linux_irq
    on,      \* [Devices -> capabilities enabled in configuration space]
    live,    \* [Devices -> MSI-X entries programmed and unmasked]
    owner,   \* the device whose driver allocated last
    irqs,    \* registered handlers: [dev, nr, kind, entry]
    stuck,   \* devices for which the backend refused a write that disables
    ret      \* the last allocation: [n, min, max, kind]

vars == <<vec, map, next, on, live, owner, irqs, stuck, ret>>
Base == 32  \* KB_IRQ_LINUX_BASE
NoRet == [n |-> 0, min |-> 0, max |-> 0, kind |-> "none"]

Init ==
    /\ vec = <<>> /\ map = <<>> /\ next = Base
    /\ on = [d \in Devices |-> {}] /\ live = [d \in Devices |-> {}]
    /\ owner = NoDev /\ irqs = {} /\ stuck = {} /\ ret = NoRet

\* kb_irq_backend_vector: an unmapped number is its own (legacy) vector.
Backend(irq) ==
    IF \E k \in DOMAIN map : map[k].irq = irq
    THEN LET k == CHOOSE j \in DOMAIN map : map[j].irq = irq
         IN  <<map[k].kind, map[k].entry>>
    ELSE <<"legacy", irq>>

\* kb_irq_allocate_mapping for a sequence of entries, from a table that holds
\* `from' and the next number `nx'.
Mapped(from, nx, kind, es) ==
    from \o [i \in DOMAIN es |-> [irq |-> nx + i - 1, kind |-> kind, entry |-> es[i]]]
Numbers(nx, es) == [i \in DOMAIN es |-> nx + i - 1]
FirstEntries(n) == [i \in 1 .. n |-> i - 1]

\* The number of MSI vectors for a wish: the largest power of two.
MsiRounded(n) == Max({p \in {1, 2, 4, 8, 16, 32} : p <= n})

Smaller(a, b) == IF a < b THEN a ELSE b
Limit(max) == LET m == Smaller(max, VecMax) IN IF Routed > 0 THEN Smaller(m, Routed) ELSE m

\* Everything an allocation starts by forgetting: the mappings of every device.
Publish(d, kind, es, n, min, max) ==
    /\ map' = Mapped(<<>>, Base, kind, es)
    /\ next' = Base + Len(es)
    /\ vec' = Numbers(Base, es)
    /\ ret' = [n |-> n, min |-> min, max |-> max, kind |-> kind]
    /\ owner' = d
Fail(d) ==
    /\ map' = <<>> /\ next' = Base /\ vec' = <<>> /\ ret' = NoRet /\ owner' = d

MsixCount(d, max) == Smaller(Limit(max), Table[d])
MsiCount(d, max) == MsiRounded(Smaller(Limit(max), MsiMax[d]))
\* `kinds' are the kinds asked for whose configuration words can be read.
UseMsix(d, min, max, kinds) == "msix" \in kinds /\ Table[d] > 0 /\ MsixCount(d, max) >= min
UseMsi(d, min, max, kinds) ==
    Routed = 0 /\ "msi" \in kinds /\ MsiMax[d] > 0 /\ MsiCount(d, max) >= min
UsePin(d, min, kinds) == Routed = 0 /\ "legacy" \in kinds /\ Pin[d] /\ min <= 1

\* pci_alloc_irq_vectors, MSI-X: mapped, enabled, programmed, published; the
\* configuration write or the programming of the table may fail (`fault').
AllocMsix(d, min, max, kinds, fault) ==
    /\ UseMsix(d, min, max, kinds)
    /\ LET n == MsixCount(d, max)
       IN  CASE fault = "write" -> Fail(d) /\ UNCHANGED <<on, live>>
             [] fault = "table" -> /\ Fail(d) /\ UNCHANGED live
                                   /\ on' = [on EXCEPT ![d] = @ \cup {"msix"}]
             [] OTHER -> /\ Publish(d, "msix", FirstEntries(n), n, min, max)
                         /\ on' = [on EXCEPT ![d] = @ \cup {"msix"}]
                         /\ live' = [live EXCEPT ![d] = @ \cup 0 .. n - 1]

AllocMsi(d, min, max, kinds, fault) ==
    /\ ~UseMsix(d, min, max, kinds) /\ UseMsi(d, min, max, kinds) /\ fault /= "table"
    /\ LET n == MsiCount(d, max)
       IN  IF fault = "write" THEN Fail(d) /\ UNCHANGED on
           ELSE /\ Publish(d, "msi", FirstEntries(n), n, min, max)
                /\ on' = [on EXCEPT ![d] = @ \cup {"msi"}]
    /\ UNCHANGED live

\* The pin, whose vector 0 needs no mapping, or -28.
AllocPin(d, min, max, kinds, fault) ==
    /\ ~UseMsix(d, min, max, kinds) /\ ~UseMsi(d, min, max, kinds) /\ fault = "none"
    /\ IF UsePin(d, min, kinds)
       THEN /\ map' = <<>> /\ next' = Base /\ vec' = <<0>> /\ owner' = d
            /\ ret' = [n |-> 1, min |-> min, max |-> max, kind |-> "legacy"]
       ELSE Fail(d)
    /\ UNCHANGED <<on, live>>

\* The early returns change nothing: they are the guards on min.  Any kind that
\* was asked for may be missing from `kinds'.
Alloc(d) ==
    /\ \A h \in irqs : h.dev /= d
    /\ \E max \in 1 .. Ask, kinds \in SUBSET {"msix", "msi", "legacy"},
          fault \in {"none", "write", "table"} :
       \E min \in 1 .. Smaller(max, VecMax) :
         /\ Routed > 0 => min <= Routed
         /\ \/ AllocMsix(d, min, max, kinds, fault)
            \/ AllocMsi(d, min, max, kinds, fault)
            \/ AllocPin(d, min, max, kinds, fault)
    /\ UNCHANGED <<irqs, stuck>>

\* pci_enable_msix_range for distinct entries of the driver's choice: maps
\* beside what is mapped already, programs, then enables; a full table, or a
\* failure of the programming or the write, forgets every mapping.
Distinct(es) == \A i, j \in DOMAIN es : es[i] = es[j] => i = j
Reachable(d) == IF Routed > 0 THEN Smaller(Routed, Table[d]) ELSE Table[d]
WithEntries(d, es) == [live EXCEPT ![d] = @ \cup {es[i] : i \in DOMAIN es}]
MsixRangeMapped(d, es, min, max) ==
    /\ map' = Mapped(map, next, "msix", es) /\ next' = next + Len(es)
    /\ vec' = Numbers(next, es) /\ owner' = d
    /\ ret' = [n |-> Len(es), min |-> min, max |-> max, kind |-> "msix"]
    /\ live' = WithEntries(d, es)
    /\ on' = [on EXCEPT ![d] = @ \cup {"msix"}]
MsixRange(d) ==
    /\ Table[d] > 0 /\ \A h \in irqs : h.dev /= d
    /\ \E max \in 1 .. Ask, fault \in {"none", "write", "table"} :
       \E min \in 1 .. MsixCount(d, max) :
       \E es \in [1 .. MsixCount(d, max) -> 0 .. Reachable(d) - 1] :
         /\ Distinct(es) /\ min <= max
         /\ \/ /\ Len(map) + Len(es) <= MapMax /\ fault = "none"
               /\ MsixRangeMapped(d, es, min, max)
            \/ /\ Len(map) + Len(es) <= MapMax /\ fault = "write"
               /\ Fail(d) /\ live' = WithEntries(d, es) /\ UNCHANGED on
            \/ /\ Len(map) + Len(es) > MapMax \/ fault = "table"
               /\ Fail(d) /\ UNCHANGED <<live, on>>
    /\ UNCHANGED <<irqs, stuck>>

\* pci_enable_msi: the capability only; the driver uses the device's own irq.
EnableMsi(d) ==
    /\ Routed = 0 /\ MsiMax[d] > 0
    /\ on' = [on EXCEPT ![d] = @ \cup {"msi"}] /\ owner' = d
    /\ UNCHANGED <<vec, map, next, live, irqs, stuck, ret>>

\* Writing the enable bits of `kinds' back as zero; a refusal is not noticed.
SwitchOff(d, kinds) ==
    \/ on' = [on EXCEPT ![d] = @ \ kinds] /\ UNCHANGED stuck
    \/ kinds \cap on[d] /= {} /\ UNCHANGED on /\ stuck' = stuck \cup {d}

\* pci_disable_msix, pci_disable_msi: the capability goes off and every
\* vector and mapping is forgotten.
Disable(d, kind) ==
    /\ kind \in on[d] /\ owner = d /\ \A h \in irqs : h.dev /= d
    /\ SwitchOff(d, {kind})
    /\ vec' = <<>> /\ map' = <<>> /\ next' = Base /\ ret' = NoRet
    /\ UNCHANGED <<live, owner, irqs>>

\* pci_irq_vector for nr counted from 0: without published vectors nr itself.
IrqVector(nr) == IF nr < Len(vec) THEN vec[nr + 1] ELSE IF vec /= <<>> THEN -22 ELSE nr

\* pci_request_irq and pci_free_irq, by the driver that allocated.
Request(d, nr) ==
    /\ owner = d /\ IrqVector(nr) >= 0
    /\ LET b == Backend(IrqVector(nr))
       IN  irqs' = irqs \cup {[dev |-> d, nr |-> nr, kind |-> b[1], entry |-> b[2]]}
    /\ irqs' /= irqs
    /\ UNCHANGED <<vec, map, next, on, live, owner, stuck, ret>>

FreeIrq(d, nr) ==
    /\ owner = d /\ IrqVector(nr) >= 0
    /\ LET b == Backend(IrqVector(nr))
       IN  irqs' = {h \in irqs : h.dev /= d \/ <<h.kind, h.entry>> /= b}
    /\ irqs' /= irqs
    /\ UNCHANGED <<vec, map, next, on, live, owner, stuck, ret>>

FreedKindInUse(d) == {ret.kind}  \* a plausible slip: only the kind given out
\* pci_free_irq_vectors: disables both capabilities of the device, then frees
\* every handler, vector and mapping there is.
FreedKinds(d) == {"msix", "msi"}
FreeVectors(d) ==
    /\ owner = d
    /\ SwitchOff(d, FreedKinds(d))
    /\ irqs' = {} /\ vec' = <<>> /\ map' = <<>> /\ next' = Base
    /\ owner' = NoDev /\ ret' = NoRet
    /\ UNCHANGED live

Next ==
    \E d \in Devices :
        \/ Alloc(d) \/ MsixRange(d) \/ EnableMsi(d) \/ FreeVectors(d)
        \/ \E kind \in {"msix", "msi"} : Disable(d, kind)
        \/ \E nr \in 0 .. Ask - 1 : Request(d, nr) \/ FreeIrq(d, nr)

Spec == Init /\ [][Next]_vars
-----------------------------------------------------------------------------
\* Types; the mapping table never overflows.
TypeOK ==
    /\ Len(vec) <= VecMax /\ Len(map) <= MapMax /\ next = Base + Len(map)
    /\ on \in [Devices -> SUBSET {"msix", "msi"}] /\ owner \in Devices \cup {NoDev}

\* An allocation gives between min and max vectors of one kind, a power of
\* two of them for MSI, within what the device has (pci_alloc_irq_vectors).
CountInRange ==
    ret.n > 0 =>
        /\ ret.min <= ret.n /\ ret.n <= ret.max /\ ret.n = Len(vec)
        /\ ret.kind = "msix" => ret.n <= Table[owner] /\ (Routed > 0 => ret.n <= Routed)
        /\ ret.kind = "msi" => ret.n \in {1, 2, 4} /\ ret.n <= MsiMax[owner]

\* Each published vector resolves, through the number it was given, to the
\* kind and entry the device was set up to signal: the capability is enabled
\* and the entry programmed, also after a failed or partial set-up before.
VectorsResolve ==
    \A k \in DOMAIN vec :
        LET b == Backend(vec[k])
        IN  CASE b[1] = "msix" -> "msix" \in on[owner] /\ b[2] \in live[owner]
              [] b[1] = "msi" -> "msi" \in on[owner] /\ b[2] < MsiMax[owner]
              [] OTHER -> Len(vec) = 1 /\ Pin[owner] /\ Routed = 0

\* Two handlers of one device's driver never share an entry.
OwnEntries ==
    \A g, h \in irqs : (g.dev = h.dev /\ g /= h) => <<g.kind, g.entry>> /= <<h.kind, h.entry>>

\* Once the vectors are given back no handler is left and no device that
\* obeyed its configuration writes signals, whichever set-up attempts failed
\* before (pci_free_irq_vectors).
Quiet == owner = NoDev => irqs = {} /\ \A d \in Devices \ stuck : on[d] = {}
=============================================================================
