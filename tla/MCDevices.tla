------------------------------ MODULE MCDevices ------------------------------
(***************************************************************************)
(* SATA disks, network devices and input devices for TLC.  A behaviour      *)
(* exercises one of them, named by part, and leaves the others in their     *)
(* initial states; input devices in two settings, keys that overflow the    *)
(* queue and an axis with fuzz among the events of no device.               *)
(***************************************************************************)
EXTENDS Naturals

CONSTANTS h1, h2, d1, d2, n1, n2, s1, s2, b1, b2, k1, k2, None

VARIABLES
  part,
  disk, port, hist, reply,
  made, slots, napis, skb, backend, stack, sent,
  rec, bits, queue, view, sync, quiet

ataVars == <<disk, port, hist, reply>>
netVars == <<made, slots, napis, skb, backend, stack, sent>>
inputVars == <<rec, bits, queue, view, sync, quiet>>
vars == <<part, ataVars, netVars, inputVars>>

Cmd(op, at, n, room, v) == [op |-> op, at |-> at, n |-> n, room |-> room, v |-> v]

(* In range or across the end as the disk grows and shrinks, with enough    *)
(* room and with too little, and the count 0.                               *)
Sent ==
  {Cmd("read", 0, 2, 2, 0), Cmd("read", 1, 2, 1, 0), Cmd("write", 1, 2, 2, 1),
   Cmd("write", 0, 1, 2, 2), Cmd("write", 1, 2, 1, 2), Cmd("write", 0, 0, 1, 2),
   Cmd("identify", 0, 0, 1, 2), Cmd("other", 0, 1, 1, 2)}

Disks == INSTANCE Ata WITH
  Hosts <- {h1, h2}, NoBar <- {h2}, MaxRecords <- 1, Default <- 2, MaxSectors <- 3,
  Slots <- {0, 1}, Values <- {0, 1, 2}, Chunk <- 1, Commands <- Sent
Net == INSTANCE NetDevice WITH
  Devs <- {d1, d2}, Napis <- {n1, n2}, Skbs <- {s1, s2}, Backends <- {b1, b2, None},
  MaxTracked <- 1, MaxDepth <- 4

Event(t, v) == [t |-> t, v |-> v]
Report == Event("report", 0)
Keys == INSTANCE InputEvents WITH
  Devices <- {k1, k2}, Embedded <- {k1}, Slots <- 2, QueueMax <- 4, StageMax <- 1,
  Fuzz <- 1, Inputs <- {Event("key", 0), Event("key", 1), Event("rel", 1), Report}
Axes == INSTANCE InputEvents WITH
  Devices <- {k1, k2}, Embedded <- {k2}, Slots <- 1, QueueMax <- 3, StageMax <- 1,
  Fuzz <- 2, Inputs <- {Event("abs", 0), Event("abs", 2), Event("snd", 1),
                        Event("key", 2), Report}

Init ==
  /\ part \in {"disk", "net", "keys", "axes"}
  /\ Disks!Init
  /\ Net!Init /\ (part # "net" => backend = None)
  /\ IF part = "axes" THEN Axes!Init ELSE Keys!Init

KeysNext ==
  \/ \E d \in {k1, k2} :
        \/ Keys!AllocateDevice(d) \/ Keys!RegisterDevice(d) \/ Keys!UnregisterDevice(d)
        \/ \E e \in {Event("key", 0), Event("key", 1), Event("rel", 1), Report} :
              Keys!RecordEvent(d, e)
  \/ Keys!Pop

Next ==
  /\ part' = part
  /\ \/ part = "disk" /\ Disks!Next /\ UNCHANGED <<netVars, inputVars>>
     \/ part = "net" /\ Net!Next /\ UNCHANGED <<ataVars, inputVars>>
     \/ part = "keys" /\ KeysNext /\ UNCHANGED <<ataVars, netVars>>
     \/ part = "axes" /\ Axes!Next /\ UNCHANGED <<ataVars, netVars>>
Spec == Init /\ [][Next]_vars

-----------------------------------------------------------------------------
(* The types of all variables. *)
TypeOK ==
  /\ Disks!TypeOK /\ Net!TypeOK
  /\ IF part = "axes" THEN Axes!TypeOK ELSE Keys!TypeOK

(* Ata: one medium whichever way it is reached, and no command left behind. *)
SataTrue == Disks!OneDisk /\ Disks!NoSlotLeft

(* NetDevice: every packet has one owner, each call works on its device's    *)
(* backend and puts its caller's back, and the gateway is answered once and  *)
(* only when it asked.                                                       *)
NetTrue ==
  [][part = "net" => Net!PacketsOwned' /\ Net!BackendKept /\ Net!AnswersAsked]_vars

(* InputEvents: a reader that keeps to the protocol has the device's state   *)
(* whenever it has read all there is, and reads whole frames.                *)
EventsTrue ==
  IF part = "axes" THEN Axes!ReaderRight /\ Axes!FramesWhole
                   ELSE Keys!ReaderRight /\ Keys!FramesWhole
=============================================================================
