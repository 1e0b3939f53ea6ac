------------------------------ MODULE DriverCore ------------------------------
(***************************************************************************)
(* The driver core of linux_device.c: tables of device and driver records, *)
(* the loops that offer a new device to every driver and a new driver to   *)
(* every device, and iteration over the devices of a bus.  Match, probe    *)
(* and iteration callbacks are code of modules: they may add and delete    *)
(* devices and register drivers, so a loop runs over a table that changes. *)
(* A frame of stack is a loop, or a probe, that has not returned.          *)
(***************************************************************************)
EXTENDS Naturals, Sequences, FiniteSets, FiniteSetsExt, SequencesExt

CONSTANTS
  Devices,   \* structures of modules, with a bus
  Created,   \* structures that device_create makes, without one
  Drivers,
  Matches,   \* pairs on one bus for which the bus's match answers yes
  NSlots,    \* KB_DRIVER_CORE_RECORD_MAX
  MaxDepth,  \* bound: frames that nest
  None

VARIABLES
  devTab, drvTab,  \* the records: a device or driver in each slot, or None
  allocated,       \* the allocated field of each device record
  driver,          \* dev->driver
  stack,
  heap,            \* structures of device_create that were not freed
  tried, passed    \* pairs whose probe ran; pairs passed over during a probe

vars == <<devTab, drvTab, allocated, driver, stack, heap, tried, passed>>

Slots == 1 .. NSlots
All == Devices \cup Created
Active(tab) == {tab[i] : i \in Slots} \ {None}
Idle == stack = <<>>

Init ==
  /\ devTab = [i \in Slots |-> None] /\ drvTab = [i \in Slots |-> None]
  /\ allocated = [i \in Slots |-> FALSE]
  /\ driver = [d \in All |-> None]
  /\ stack = <<>> /\ heap = {} /\ tried = {} /\ passed = {}

\* Modules run when nothing does, or in a callback of the top frame.
MayCall == ~Idle => stack[1].in /\ Len(stack) < MaxDepth
Frame(kind, who) == [kind |-> kind, who |-> who, at |-> 1, in |-> FALSE, from |-> None,
                     stay |-> {}, seen |-> <<>>]
Push(f) == stack' = <<f>> \o stack
Pop == stack' = Tail(stack)
UsedIn(x) == \E f \in ToSet(stack) : f.who = x \/ (f.in /\ f.from = x)

(***************************************************************************)
(* Records: the slot of a known object is used again, else the first free. *)
(***************************************************************************)
Slot(tab, x) ==
  LET known == {i \in Slots : tab[i] = x}
      free == {i \in Slots : tab[i] = None}
  IN  IF known # {} THEN Min(known) ELSE IF free # {} THEN Min(free) ELSE 0
Recorded(tab, x) == IF Slot(tab, x) = 0 THEN tab ELSE [tab EXCEPT ![Slot(tab, x)] = x]

DeviceAdd(d) ==
  /\ MayCall
  /\ IF Slot(devTab, d) = 0 THEN UNCHANGED vars
     ELSE /\ devTab' = Recorded(devTab, d)
          /\ Push(Frame("device", d))
          /\ UNCHANGED <<drvTab, allocated, driver, heap, tried, passed>>

DeviceCreate(d) ==
  /\ MayCall /\ d \notin heap
  /\ IF Slot(devTab, d) = 0 THEN UNCHANGED vars
     ELSE /\ devTab' = Recorded(devTab, d)
          /\ allocated' = [allocated EXCEPT ![Slot(devTab, d)] = TRUE]
          /\ heap' = heap \cup {d}
          /\ UNCHANGED <<drvTab, driver, stack, tried, passed>>

\* Devices in a probe or attach that has not returned are not taken away.  A
\* structure that was deleted is cleared before it is added again.
Cleared(d) ==
  /\ driver' = [driver EXCEPT ![d] = None]
  /\ tried' = {t \in tried : t[1] # d} /\ passed' = {t \in passed : t[1] # d}
  /\ stack' = [i \in DOMAIN stack |-> [stack[i] EXCEPT !.stay = @ \ {d}]]
DeviceDel(d) ==
  /\ MayCall /\ d \in Active(devTab) /\ ~UsedIn(d)
  /\ devTab' = [i \in Slots |-> IF devTab[i] = d THEN None ELSE devTab[i]]
  /\ Cleared(d)
  /\ UNCHANGED <<drvTab, allocated, heap>>
\* Modules destroy devices that they made with device_create.
DeviceDestroy(d) ==
  /\ MayCall /\ d \in Active(devTab) /\ ~UsedIn(d)
  /\ LET i == Slot(devTab, d)
     IN  /\ devTab' = [devTab EXCEPT ![i] = None]
         /\ allocated' = [allocated EXCEPT ![i] = FALSE]
         /\ heap' = IF allocated[i] THEN heap \ {d} ELSE heap
  /\ Cleared(d)
  /\ UNCHANGED drvTab

DriverRegister(r) ==
  /\ MayCall
  /\ IF Slot(drvTab, r) = 0 THEN UNCHANGED vars
     ELSE /\ drvTab' = Recorded(drvTab, r) /\ Push(Frame("driver", r))
          /\ UNCHANGED <<devTab, allocated, driver, heap, tried, passed>>
\* kb_driver_attach goes on without a record.
DriverAttach(r) ==
  /\ MayCall
  /\ drvTab' = Recorded(drvTab, r) /\ Push(Frame("driver", r))
  /\ UNCHANGED <<devTab, allocated, driver, heap, tried, passed>>
\* The devices bound to a driver keep pointing to it.
DriverUnregister(r) ==
  /\ MayCall /\ r \in Active(drvTab) /\ ~UsedIn(r)
  /\ drvTab' = [i \in Slots |-> IF drvTab[i] = r THEN None ELSE drvTab[i]]
  /\ tried' = {t \in tried : t[2] # r} /\ passed' = {t \in passed : t[2] # r}
  /\ UNCHANGED <<devTab, allocated, driver, stack, heap>>

(***************************************************************************)
(* attach_device and attach_driver: one slot of the other table per step.  *)
(***************************************************************************)
Pair(f) ==
  IF f.kind = "device" THEN <<f.who, drvTab[f.at]>> ELSE <<devTab[f.at], f.who>>
Probing(d) == \E f \in ToSet(stack) : f.in /\ f.kind # "each" /\ (f.who = d \/ f.from = d)

AttachStep ==
  /\ ~Idle /\ ~stack[1].in /\ stack[1].kind # "each" /\ stack[1].at <= NSlots
  /\ LET f == stack[1]
         p == Pair(f)
         other == IF f.kind = "device" THEN p[2] ELSE p[1]
     IN  IF p \notin Matches
         THEN /\ stack' = [stack EXCEPT ![1].at = @ + 1]
              /\ UNCHANGED <<driver, passed>>
         ELSE IF driver[p[1]] # None
         THEN /\ stack' = [stack EXCEPT ![1].at = @ + 1]
              /\ passed' = IF Probing(p[1]) THEN passed \cup {p} ELSE passed
              /\ UNCHANGED driver
         ELSE /\ driver' = [driver EXCEPT ![p[1]] = p[2]]
              /\ stack' = [stack EXCEPT ![1].in = TRUE, ![1].from = other]
              /\ UNCHANGED passed
  /\ UNCHANGED <<devTab, drvTab, allocated, heap, tried>>

ProbeEnds(ok) ==
  /\ ~Idle /\ stack[1].in /\ stack[1].kind # "each"
  /\ LET f == stack[1]
         p == IF f.kind = "device" THEN <<f.who, f.from>> ELSE <<f.from, f.who>>
     IN  /\ driver' = IF ok THEN driver ELSE [driver EXCEPT ![p[1]] = None]
         /\ tried' = tried \cup {p}
  /\ stack' = [stack EXCEPT ![1].in = FALSE, ![1].from = None, ![1].at = @ + 1]
  /\ UNCHANGED <<devTab, drvTab, allocated, heap, passed>>

LoopEnds ==
  /\ ~Idle /\ ~stack[1].in /\ stack[1].at > NSlots
  /\ Pop
  /\ UNCHANGED <<devTab, drvTab, allocated, driver, heap, tried, passed>>

(***************************************************************************)
(* kb_bus_for_each_dev, over the devices with the bus.                     *)
(***************************************************************************)
ForEach ==
  /\ MayCall
  /\ Push([Frame("each", None) EXCEPT !.stay = Active(devTab) \cap Devices])
  /\ UNCHANGED <<devTab, drvTab, allocated, driver, heap, tried, passed>>
EachStep ==
  /\ ~Idle /\ ~stack[1].in /\ stack[1].kind = "each" /\ stack[1].at <= NSlots
  /\ LET d == devTab[stack[1].at]
     IN  stack' = IF d \in Devices
                  THEN [stack EXCEPT ![1].in = TRUE, ![1].seen = Append(@, d)]
                  ELSE [stack EXCEPT ![1].at = @ + 1]
  /\ UNCHANGED <<devTab, drvTab, allocated, driver, heap, tried, passed>>
EachReturns(stop) ==
  /\ ~Idle /\ stack[1].in /\ stack[1].kind = "each"
  /\ IF stop THEN Pop ELSE stack' = [stack EXCEPT ![1].in = FALSE, ![1].at = @ + 1]
  /\ UNCHANGED <<devTab, drvTab, allocated, driver, heap, tried, passed>>

Next ==
  \/ \E d \in Devices : DeviceAdd(d) \/ DeviceDel(d)
  \/ \E d \in Created : DeviceCreate(d) \/ DeviceDel(d) \/ DeviceDestroy(d)
  \/ \E r \in Drivers : DriverRegister(r) \/ DriverAttach(r) \/ DriverUnregister(r)
  \/ AttachStep \/ LoopEnds \/ ForEach \/ EachStep
  \/ \E b \in BOOLEAN : ProbeEnds(b) \/ EachReturns(b)
Spec == Init /\ [][Next]_vars

-----------------------------------------------------------------------------
(* The types of the variables. *)
TypeOK ==
  /\ devTab \in [Slots -> All \cup {None}] /\ drvTab \in [Slots -> Drivers \cup {None}]
  /\ allocated \in [Slots -> BOOLEAN] /\ heap \subseteq Created
  /\ driver \in [All -> Drivers \cup {None}]
  /\ tried \subseteq Matches /\ passed \subseteq Matches /\ Len(stack) <= MaxDepth

(* A device and a driver have one record each, however often they are added. *)
OneRecord ==
  \A i, j \in Slots : /\ i # j /\ devTab[i] # None => devTab[i] # devTab[j]
                      /\ i # j /\ drvTab[i] # None => drvTab[i] # drvTab[j]

(* Whatever was added and registered inside probes, once all have returned   *)
(* every device and driver on record that match are bound, or the driver's   *)
(* probe refused the device, or the driver came while another was probing    *)
(* the device.                                                               *)
AllOffered ==
  Idle => \A d \in Active(devTab), r \in Active(drvTab) :
    <<d, r>> \in Matches => driver[d] # None \/ <<d, r>> \in tried \cup passed

(* A device is in one probe at a time, under the driver it points to.        *)
OneProbe ==
  \A i \in DOMAIN stack :
    stack[i].in /\ stack[i].kind # "each" =>
      LET p(f) == IF f.kind = "device" THEN <<f.who, f.from>> ELSE <<f.from, f.who>>
      IN  /\ driver[p(stack[i])[1]] = p(stack[i])[2]
          /\ \A j \in DOMAIN stack :
               j # i /\ stack[j].in /\ stack[j].kind # "each"
                 => p(stack[j])[1] # p(stack[i])[1]

(* A finished iteration over a bus called back for every device that stayed  *)
(* throughout, once, although the callbacks changed the table.               *)
EachVisited ==
  ~Idle /\ stack[1].kind = "each" /\ ~stack[1].in /\ stack[1].at > NSlots =>
    \A d \in stack[1].stay : Cardinality({i \in DOMAIN stack[1].seen : stack[1].seen[i] = d}) = 1
=============================================================================
