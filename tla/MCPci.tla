-------------------------------- MODULE MCPci --------------------------------
(***************************************************************************)
(* Interrupts, interrupt vectors, driver binding and register windows of    *)
(* PCI devices, and the driver core, for TLC.  A behaviour exercises one of *)
(* the models, named by part, and leaves the others in their initial states.*)
(***************************************************************************)
EXTENDS Irq, TLC

CONSTANTS e1, e2, dA, dB, d1, r1, r2, p1, p2, NoDevice

VARIABLES
  part,
  vec, map, next, on, live, owner, irqs, stuck, ret,
  phase, cur, idx, active, registered, bound, probed, serving, lost,
  shadow, hw, enabled, stale,
  maps, windows, held, managed, bar0,
  devTab, drvTab, allocated, driver, frames, heap, tried, passed

vectorVars == <<vec, map, next, on, live, owner, irqs, stuck, ret>>
bindVars == <<phase, cur, idx, active, registered, bound, probed, serving, lost,
              shadow, hw, enabled, stale>>
mmioVars == <<maps, windows, held, managed, bar0>>
coreVars == <<devTab, drvTab, allocated, driver, frames, heap, tried, passed>>

(* Each dev_id is the cookie of its own device. *)
OwnDevice == [d \in DevIds |-> d]

(* One device with all capabilities; and behind a backend that programs two *)
(* entries of the MSI-X table itself.                                       *)
Vector == INSTANCE PciVectors WITH
  Devices <- {d1}, Table <- [d \in {d1} |-> 3], MsiMax <- [d \in {d1} |-> 4],
  Pin <- [d \in {d1} |-> TRUE], NoDev <- NoDevice, Routed <- 0, VecMax <- 3, MapMax <- 4, Ask <- 3
Routed == INSTANCE PciVectors WITH
  Devices <- {d1}, Table <- [d \in {d1} |-> 3], MsiMax <- [d \in {d1} |-> 4],
  Pin <- [d \in {d1} |-> TRUE], NoDev <- NoDevice, Routed <- 2, VecMax <- 2, MapMax <- 3, Ask <- 3
(* Two drivers for two devices; and one that switches the devices on and    *)
(* off.                                                                     *)
Bind == INSTANCE PciBinding WITH
  N <- 2, Drivers <- {p1, p2}, Switched <- {}, NoDriver <- NoDevice
Switch == INSTANCE PciBinding WITH
  N <- 2, Drivers <- {p1}, Switched <- {1, 2}, NoDriver <- NoDevice
Mmio == INSTANCE PciMmio WITH N <- 2, Bars <- {0, 1}, MaxHeld <- 2
(* Two devices on a bus with two drivers of which one takes both; and one   *)
(* that both drivers take beside one that has no bus, in tables of two      *)
(* records.                                                                 *)
Core == INSTANCE DriverCore WITH
  Devices <- {dA, dB}, Created <- {}, Drivers <- {r1, r2},
  Matches <- {<<dA, r1>>, <<dA, r2>>, <<dB, r2>>}, NSlots <- 2, MaxDepth <- 2,
  stack <- frames
Made == INSTANCE DriverCore WITH
  Devices <- {dA}, Created <- {d1}, Drivers <- {r1, r2},
  Matches <- {<<dA, r1>>, <<dA, r2>>}, NSlots <- 2, MaxDepth <- 2, stack <- frames

MCInit ==
  /\ part \in {"irq", "vectors", "routed", "binding", "switch", "mmio", "core", "made"}
  /\ Init /\ Vector!Init /\ Bind!Init /\ Mmio!Init
  /\ IF part = "made" THEN Made!Init ELSE Core!Init

MCNext ==
  /\ part' = part
  /\ \/ /\ part = "irq" /\ Next
        /\ UNCHANGED <<vectorVars, bindVars, mmioVars, coreVars>>
     \/ /\ \/ part = "vectors" /\ Vector!Next
           \/ part = "routed" /\ Routed!Next
        /\ UNCHANGED <<vars, bindVars, mmioVars, coreVars>>
     \/ /\ \/ part = "binding" /\ Bind!Next
           \/ part = "switch" /\ Switch!Next
        /\ UNCHANGED <<vars, vectorVars, mmioVars, coreVars>>
     \/ /\ part = "mmio" /\ Mmio!Next
        /\ UNCHANGED <<vars, vectorVars, bindVars, coreVars>>
     \/ /\ \/ part = "core" /\ Core!Next
           \/ part = "made" /\ Made!Next
        /\ UNCHANGED <<vars, vectorVars, bindVars, mmioVars>>

allVars == <<part, vars, vectorVars, bindVars, mmioVars, coreVars>>
MCSpec == MCInit /\ [][MCNext]_allVars

(* The addresses of shim_irqs are interchangeable, and so are PCI drivers. *)
Symmetry == Permutations({e1, e2}) \cup Permutations({p1, p2})

-----------------------------------------------------------------------------
(* The types of all variables. *)
AllTypes ==
  CASE part = "irq" -> TypeOK
    [] part \in {"vectors", "routed"} -> Vector!TypeOK
    [] part \in {"binding", "switch"} -> Bind!TypeOK
    [] part = "mmio" -> Mmio!TypeOK
    [] part = "core" -> Core!TypeOK
    [] part = "made" -> Made!TypeOK

(* PciVectors: a driver gets as many vectors as it accepts, each leads to an *)
(* entry that is its own, and what was freed or failed is quiet.             *)
VectorsUsable ==
  /\ IF part = "routed" THEN Routed!CountInRange /\ Routed!VectorsResolve
                        ELSE Vector!CountInRange /\ Vector!VectorsResolve
  /\ Vector!OwnEntries /\ Vector!Quiet

(* PciBinding: a binding is probed exactly while its driver serves the       *)
(* device, and an enabled device responds.  PciMmio: the references to its   *)
(* windows are exact and the cached window is mapped.  DriverCore: every     *)
(* device is offered to every driver that matches, is in one probe at a      *)
(* time, has one record, and iterations reach it.                            *)
DevicesTrue ==
  /\ IF part = "switch" THEN Switch!ProbedServed /\ Switch!EnabledOn ELSE Bind!ProbedServed
  /\ Mmio!MmioRefs /\ Mmio!Bar0Live
  /\ IF part = "made"
     THEN Made!OneRecord /\ Made!AllOffered /\ Made!OneProbe /\ Made!EachVisited
     ELSE Core!OneRecord /\ Core!AllOffered /\ Core!OneProbe /\ Core!EachVisited
=============================================================================
