----------------------------- MODULE UsbStorage -----------------------------
(***************************************************************************)
(* USB mass storage emulated in the process (usb/storage.c): a table of    *)
(* records, one per interface, the block disk of each, its memory in       *)
(* extents made at the first write, and the SCSI commands and bulk-only    *)
(* transfers that reach it.  Lengths and addresses count sectors; a        *)
(* fixed-size reply (inquiry, capacity, sense, mode) counts as one.        *)
(* A memory area is named by the SCSI host it belongs to, a device by its  *)
(* interface.                                                              *)
(***************************************************************************)
EXTENDS Integers, Sequences, FiniteSets, FiniteSetsExt, SequencesExt

CONSTANTS
    MaxRecords,    \* KB_USB_STORAGE_MAX
    Interfaces,    \* USB interfaces
    Synthetic,     \* the one that is made up, without usbcore
    Parents,       \* the devices they belong to
    Hosts,         \* SCSI hosts
    Capacity,      \* capacity_sectors
    ExtentBlocks,  \* sectors of an extent
    Commands,      \* the commands initiators send
    SmokeAt,       \* first sector of the self test's disk transfer
    SmokeScsiAt,   \* sector of its SCSI and bulk-only transfers
    SmokeMin,      \* least capacity it accepts
    None

VARIABLES
    stor,        \* storage_records
    registered,  \* storage_driver_registered
    gendisks,    \* disks of the block layer whose context is the record
    hist,        \* what a read of each sector may return
    reply        \* the answer to the last command

storVars == <<stor, registered, gendisks, hist, reply>>

Slots == 1 .. MaxRecords
Blocks == 0 .. Capacity - 1
Extents == {b \div ExtentBlocks : b \in Blocks}
Values == 0 .. 2
Senses == {"none", "command", "lba", "field"}
Statuses == {"passed", "failed", "phase"}

Empty == [e \in {} |-> 0]
Free == [active |-> FALSE]
Fresh(i) ==
    [active |-> TRUE, intf |-> i, parent |-> None, drv |-> FALSE, data |-> None,
     host |-> None, eps |-> {}, disk |-> FALSE, ext |-> Empty,
     sense |-> "none", bot |-> "passed", residue |-> 0]

First(S) == IF S = {} THEN 0 ELSE Min(S)
Active(s) == {k \in Slots : s[k].active}
ByInterface(s, i) == First({k \in Active(s) : s[k].intf = i})
ByHostPrivate(s, h) == First({k \in Active(s) : h # None /\ s[k].data = h})
ByHost(s, h) == First({k \in Active(s) : s[k].host = h})
ByDevice(s, d) ==
    First({k \in Active(s) : d # None /\ d \in {s[k].intf, s[k].parent}})
OnlyWithoutHost(s) ==
    LET W == {k \in Active(s) : s[k].host = None}
    IN  IF Cardinality(W) = 1 THEN First(W) ELSE 0
ForInterface(s, i) ==
    IF ByInterface(s, i) # 0 THEN ByInterface(s, i)
    ELSE First(Slots \ Active(s))

(***************************************************************************)
(* The disk of a record.  mem is the set of records whose allocations      *)
(* succeed in this call.                                                   *)
(***************************************************************************)
Ensure(s, K, mem) ==
    [k \in Slots |-> IF k \in K \cap mem /\ ~s[k].disk
                     THEN [s[k] EXCEPT !.disk = TRUE] ELSE s[k]]
Release(r) == [r EXCEPT !.disk = FALSE, !.ext = Empty]

Disk(r) == r.active /\ r.disk
\* The block layer's disks and the promised contents after the records changed.
Follows(s) ==
    /\ stor' = s
    /\ gendisks' = [k \in Slots |->
            gendisks[k] + (IF Disk(s[k]) /\ ~Disk(stor[k]) THEN 1 ELSE 0)]
    /\ hist' = [k \in Slots |->
            IF Disk(s[k]) /\ ~Disk(stor[k]) THEN [b \in Blocks |-> {0}] ELSE hist[k]]
    /\ reply' = None
Unregistered(K) ==
    /\ gendisks' = [k \in Slots |->
            gendisks[k] - (IF k \in K /\ Disk(stor[k]) THEN 1 ELSE 0)]
    /\ reply' = None /\ hist' = hist

(***************************************************************************)
(* What the USB layer reports.                                             *)
(***************************************************************************)
Wanted(r) == registered \/ r.drv \/ r.data # None

\* The record of interface i after it was seen with this driver and data.
Observed(s, i, parent, drv, data, eps, mem) ==
    LET k == ForInterface(s, i)
        old == IF s[k].active THEN s[k] ELSE Fresh(i)
        new == [old EXCEPT !.parent = parent, !.drv = drv, !.data = data,
                           !.eps = @ \cup eps]
    IN  IF k = 0 THEN s
        ELSE Ensure([s EXCEPT ![k] = new], IF Wanted(new) THEN {k} ELSE {}, mem)

EndpointSeen(s, i, dir, mem) ==
    LET k == ByInterface(s, i)
        new == [s[k] EXCEPT !.eps = @ \cup {dir}]
    IN  IF k = 0 THEN s
        ELSE Ensure([s EXCEPT ![k] = new], IF Wanted(new) THEN {k} ELSE {}, mem)

DriverSeen(s, eps, mem) ==
    Ensure([k \in Slots |->
                IF s[k].active
                THEN [s[k] EXCEPT !.drv = TRUE, !.eps = @ \cup eps[s[k].intf]]
                ELSE s[k]],
           Active(s), mem)

\* The records of the interfaces in I given up; with the disks that go.
ForgottenStale(s, I) ==
    [k \in Slots |-> IF s[k].active /\ s[k].intf \in I
                     THEN [s[k] EXCEPT !.active = FALSE] ELSE s[k]]
Forgotten(s, I) ==
    [k \in Slots |-> IF s[k].active /\ s[k].intf \in I THEN Free ELSE s[k]]
ForgottenSlots(s, I) == {k \in Active(s) : s[k].intf \in I}

Synthesize(i, parent, mem) ==
    LET k == ForInterface(stor, i)
        old == IF stor[k].active THEN stor[k] ELSE Fresh(i)
        new == [old EXCEPT !.parent = parent, !.eps = {"in", "out"}]
    IN  /\ k # 0
        /\ Follows(Ensure([stor EXCEPT ![k] = new],
                          IF Wanted(new) THEN {k} ELSE {}, mem))
        /\ UNCHANGED registered

(***************************************************************************)
(* What the SCSI layer reports: a host for device dev, mapped for dma.     *)
(***************************************************************************)
HostRecord(h, dev, dma) ==
    LET found == ByHostPrivate(stor, h)
        byDev == ByDevice(stor, dev)
        byDma == ByDevice(stor, dma)
    IN  IF found # 0 THEN found
        ELSE IF byDev # 0 THEN byDev
        ELSE IF byDma # 0 THEN byDma
        ELSE OnlyWithoutHost(stor)

NoteHost(h, dev, dma, mem) ==
    LET k == HostRecord(h, dev, dma)
        new == [stor[k] EXCEPT !.host = h, !.data = IF @ = None THEN h ELSE @]
    IN  IF k = 0 THEN reply' = None /\ UNCHANGED <<stor, gendisks, hist>>
        ELSE Follows(Ensure([stor EXCEPT ![k] = new], {k}, mem))

NoteScan(h, mem) ==
    LET k == ByHost(stor, h)
    IN  IF k = 0 THEN reply' = None /\ UNCHANGED <<stor, gendisks, hist>>
        ELSE Follows(Ensure(stor, {k}, mem))

RemoveHost(h) ==
    LET k == ByHost(stor, h)
    IN  IF k = 0 THEN reply' = None /\ UNCHANGED <<stor, gendisks, hist>>
        ELSE /\ stor' = [stor EXCEPT ![k] = [Release(stor[k]) EXCEPT !.host = None]]
             /\ Unregistered({k})

(***************************************************************************)
(* The memory of a disk.  The buffer of n sectors that starts with v       *)
(* alternates the two non-zero values.                                     *)
(***************************************************************************)
Pattern(v, j) == 1 + ((v + j) % 2)
Sectors(lba, n) == lba .. lba + n - 1
At(r, b) ==
    LET e == b \div ExtentBlocks
    IN  IF e \in DOMAIN r.ext THEN r.ext[e][b % ExtentBlocks] ELSE 0
ReadBacking(r, lba, n) == [j \in 1 .. n |-> At(r, lba + j - 1)]

\* The extents a transfer needs, and those it cannot have.
Needed(lba, n) == {b \div ExtentBlocks : b \in Sectors(lba, n)}
Lacking(r, lba, n, ok) == Needed(lba, n) \ (DOMAIN r.ext \cup ok)
\* A write goes extent by extent and ends at the first it cannot have.
WriteBacking(r, lba, n, v, ok) ==
    LET lack == Lacking(r, lba, n, ok)
        done == {b \in Sectors(lba, n) :
                    lack = {} \/ b \div ExtentBlocks < Min(lack)}
    IN  [e \in DOMAIN r.ext \cup {b \div ExtentBlocks : b \in done} |->
            [o \in 0 .. ExtentBlocks - 1 |->
                LET b == e * ExtentBlocks + o
                IN  IF b \in done THEN Pattern(v, b - lba) ELSE At(r, b)]]

(***************************************************************************)
(* One SCSI command: op, lba, number of sectors n, length of the buffer,   *)
(* direction out, and whether its descriptor block is short.  The answer   *)
(* names the record after it, what was moved, and the data read.           *)
(***************************************************************************)
Good(r, moved, data) ==
    [rec |-> r, good |-> TRUE, moved |-> moved, data |-> data]
CheckCondition(r, sense) ==
    [rec |-> [r EXCEPT !.sense = sense], good |-> FALSE, moved |-> 0, data |-> <<>>]

Wrong(r, c) == c.short \/ c.out # (c.op = "write")
OutOfRange(c) == c.lba + c.n > Capacity

Transfer(r, c, ok) ==
    IF Wrong(r, c) THEN CheckCondition(r, "field")
    ELSE IF c.n = 0 THEN Good(r, 0, <<>>)
    ELSE IF OutOfRange(c) THEN CheckCondition(r, "lba")
    ELSE IF c.len < c.n \/ ~r.disk THEN CheckCondition(r, "field")
    ELSE IF c.op = "read" THEN Good(r, c.n, ReadBacking(r, c.lba, c.n))
    ELSE LET new == [r EXCEPT !.ext = WriteBacking(r, c.lba, c.n, c.val, ok)]
         IN  IF Lacking(r, c.lba, c.n, ok) = {} THEN Good(new, c.n, <<>>)
             ELSE CheckCondition(new, "field")

Fixed(r, c, refusesOut, data) ==
    IF refusesOut /\ c.out THEN CheckCondition(r, "field")
    ELSE Good(r, IF c.len = 0 THEN 0 ELSE 1, data)

Scsi(r, c, ok) ==
    CASE c.op \in {"ready", "sync"} -> Good(r, 0, <<>>)
      [] c.op = "sense" -> Fixed(r, c, FALSE, <<r.sense>>)
      [] c.op = "mode" -> Fixed(r, c, FALSE, <<>>)
      [] c.op = "inquiry" -> Fixed(r, c, TRUE, <<"KOBOX">>)
      [] c.op = "capacity" -> Fixed(r, c, TRUE, <<Capacity - 1>>)
      [] c.op \in {"read", "write"} -> Transfer(r, c, ok)
      [] OTHER -> CheckCondition(r, "command")

(***************************************************************************)
(* One bulk-only transfer: the command's length and the caller's buffer.   *)
(***************************************************************************)
Csw(r, c, status, residue, moved, data) ==
    [rec |-> [r EXCEPT !.bot = status, !.residue = residue],
     status |-> status, residue |-> residue, moved |-> moved, data |-> data]

BotResidueKept(r, c, have, ok) ==
    LET a == Scsi(r, [c EXCEPT !.out = @ /\ c.len # 0], ok)
    IN  IF c.len > have THEN Csw(r, c, "phase", c.len, 0, <<>>)
        ELSE Csw(a.rec, c, IF a.good THEN "passed" ELSE "failed", c.len - a.moved,
                 c.n, a.data)
Bot(r, c, have, ok) ==
    LET a == Scsi(r, [c EXCEPT !.out = @ /\ c.len # 0], ok)
    IN  IF c.len > have THEN Csw(r, c, "phase", c.len, 0, <<>>)
        ELSE Csw(a.rec, c, IF a.good THEN "passed" ELSE "failed", c.len - a.moved,
                 a.moved, a.data)

\* What reads may return once a write of c has passed, or has run short.
Promised(k, c, wrote, partly) ==
    [hist EXCEPT ![k] = [b \in Blocks |->
        IF c.op # "write" \/ b \notin Sectors(c.lba, c.n) \/ ~(wrote \/ partly) THEN @[b]
        ELSE {Pattern(c.val, b - c.lba)} \cup (IF wrote THEN {} ELSE @[b])]]
Short(r, c, ok) == r.disk /\ Lacking(r, c.lba, c.n, ok) # {}

ScsiCommand(i, c, ok) ==
    LET k == ByInterface(stor, i)
        a == Scsi(stor[k], c, ok)
    IN  /\ k # 0
        /\ stor' = [stor EXCEPT ![k] = a.rec]
        /\ hist' = Promised(k, c, a.good /\ a.moved > 0, Short(stor[k], c, ok))
        /\ reply' = [via |-> "scsi", slot |-> k, cmd |-> c, untouched |-> a.rec.ext = stor[k].ext,
                     unsensed |-> a.rec.sense = stor[k].sense,
                     status |-> IF a.good THEN "passed" ELSE "failed",
                     residue |-> c.len - a.moved, moved |-> a.moved, data |-> a.data]
        /\ UNCHANGED <<registered, gendisks>>

BotTransfer(i, c, have, ok) ==
    LET k == ByInterface(stor, i)
        a == Bot(stor[k], c, have, ok)
    IN  /\ k # 0
        /\ stor' = [stor EXCEPT ![k] = a.rec]
        /\ hist' = Promised(k, c, a.status = "passed" /\ a.moved > 0,
                            a.status # "phase" /\ Short(stor[k], c, ok))
        /\ reply' = [via |-> "bot", slot |-> k, cmd |-> c, untouched |-> a.rec.ext = stor[k].ext,
                     unsensed |-> a.rec.sense = stor[k].sense,
                     status |-> a.status, residue |-> a.residue, moved |-> a.moved,
                     data |-> a.data]
        /\ UNCHANGED <<registered, gendisks>>

BotReset(i) ==
    LET k == ByInterface(stor, i)
    IN  /\ k # 0
        /\ stor' = [stor EXCEPT ![k].bot = "passed", ![k].residue = 0]
        /\ reply' = None
        /\ UNCHANGED <<registered, gendisks, hist>>

(***************************************************************************)
(* The self test: on every disk in turn, a disk transfer of two sectors    *)
(* read back, then inquiry, capacity, a write and a read by SCSI and by    *)
(* bulk-only transfer; it ends at the first failure.                       *)
(***************************************************************************)
Rw(op, v) == [op |-> op, lba |-> SmokeScsiAt, n |-> 1, len |-> 1, out |-> op = "write",
              short |-> FALSE, val |-> v]
SmokeSteps ==
    <<[bot |-> FALSE, cmd |-> Rw("inquiry", 1)], [bot |-> FALSE, cmd |-> Rw("capacity", 1)],
      [bot |-> FALSE, cmd |-> Rw("write", 1)], [bot |-> FALSE, cmd |-> Rw("read", 1)],
      [bot |-> TRUE, cmd |-> Rw("inquiry", 0)], [bot |-> TRUE, cmd |-> Rw("capacity", 0)],
      [bot |-> TRUE, cmd |-> Rw("write", 0)], [bot |-> TRUE, cmd |-> Rw("read", 0)]>>
SmokePassed(c, good, moved, data) ==
    /\ good
    /\ c.op # "capacity" => moved = 1
    /\ c.op = "inquiry" => data = <<"KOBOX">>
    /\ c.op = "read" => data = <<Pattern(c.val, 0)>>
SmokeResult(c, rec, good, moved, data) ==
    [rec |-> rec, res |-> IF SmokePassed(c, good, moved, data) THEN "ok" ELSE "io"]
SmokeStep(acc, t, ok) ==
    IF acc.res # "ok" THEN acc
    ELSE IF t.bot
    THEN LET b == Bot(acc.rec, t.cmd, 1, ok)
         IN  SmokeResult(t.cmd, b.rec, b.status = "passed", b.moved, b.data)
    ELSE LET a == Scsi(acc.rec, t.cmd, ok)
         IN  SmokeResult(t.cmd, a.rec, a.good, a.moved, a.data)
SmokeDisk(r, ok) ==
    LET w == [r EXCEPT !.ext = WriteBacking(r, SmokeAt, 2, 0, ok)]
    IN  IF Capacity < SmokeMin THEN [rec |-> r, res |-> "range"]
        ELSE IF Lacking(r, SmokeAt, 2, ok) # {} THEN [rec |-> w, res |-> "nomem"]
        ELSE IF ReadBacking(w, SmokeAt, 2) # <<Pattern(0, 0), Pattern(0, 1)>>
             THEN [rec |-> w, res |-> "io"]
        ELSE FoldLeft(LAMBDA acc, t : SmokeStep(acc, t, ok), [rec |-> w, res |-> "ok"],
                      SmokeSteps)

SmokeAll(ok) ==
    FoldLeft(
        LAMBDA acc, k :
            IF ~Disk(stor[k]) \/ acc.res \notin {"none", "ok"} THEN acc
            ELSE LET t == SmokeDisk(stor[k], ok)
                 IN  [s |-> [acc.s EXCEPT ![k] = t.rec], res |-> t.res],
        [s |-> stor, res |-> "none"], [k \in Slots |-> k])

\* With all the memory the test needs, or with none to spare.
Smoke(ok) ==
    LET t == SmokeAll(ok)
        touched == {SmokeAt, SmokeAt + 1, SmokeScsiAt}
    IN  /\ stor' = t.s
        /\ hist' = [k \in Slots |-> [b \in Blocks |->
                IF ~Disk(stor[k]) \/ b \notin touched THEN hist[k][b]
                ELSE IF t.res = "ok"
                THEN {IF b = SmokeScsiAt THEN Pattern(0, 0) ELSE Pattern(0, b - SmokeAt)}
                ELSE hist[k][b] \cup Values]]
        /\ reply' = [via |-> "smoke", status |-> t.res, ok |-> ok]
        /\ UNCHANGED <<registered, gendisks>>

StorInit ==
    /\ stor = [k \in Slots |-> Free]
    /\ registered = FALSE
    /\ gendisks = [k \in Slots |-> 0]
    /\ hist = [k \in Slots |-> [b \in Blocks |-> {0}]]
    /\ reply = None

\* The initiator has looked at the answer.
Answered ==
    /\ reply # None
    /\ reply' = None
    /\ UNCHANGED <<stor, registered, gendisks, hist>>

\* What initiators do; the rest is driven by the USB and SCSI layers.
StorNext ==
    \/ /\ reply = None
       /\ \/ \E i \in Interfaces, c \in Commands, ok \in {{}, Extents} :
                \/ ScsiCommand(i, c, ok)
                \/ \E have \in {c.len, 1} : BotTransfer(i, c, have, ok)
          \/ \E i \in Interfaces : BotReset(i)
          \/ \E ok \in {{}, Extents} : Smoke(ok)
    \/ Answered

\* The storage that polling the root hubs makes up.
StorSynthesize ==
    \E i \in Synthetic, p \in Parents, mem \in {{}, Slots} : Synthesize(i, p, mem)

-----------------------------------------------------------------------------
RecordOK(r) ==
    /\ r.active /\ r.intf \in Interfaces /\ r.parent \in Parents \cup {None}
    /\ {r.data, r.host} \subseteq Hosts \cup {None}
    /\ r.eps \subseteq {"in", "out"} /\ {r.drv, r.disk} \subseteq BOOLEAN
    /\ r.sense \in Senses /\ r.bot \in Statuses /\ r.residue \in Nat
    /\ DOMAIN r.ext \subseteq Extents
    /\ \A e \in DOMAIN r.ext : r.ext[e] \in [0 .. ExtentBlocks - 1 -> Values]

(* The types of the variables. *)
StorTypeOK ==
    /\ DOMAIN stor = Slots
    /\ \A k \in Slots : stor[k] = Free \/ RecordOK(stor[k])
    /\ registered \in BOOLEAN
    /\ gendisks \in [Slots -> Nat]
    /\ hist \in [Slots -> [Blocks -> SUBSET Values]]

(* A sector reads as the last write that passed left it (or, after a write   *)
(* that ran out of memory, old or new), whichever way it was written: by a   *)
(* SCSI command, a bulk-only transfer or the self test, and a new disk reads *)
(* as zeros whatever the interface's earlier disk held.                      *)
ReadsTrue ==
    \A k \in Slots : Disk(stor[k]) =>
        \A b \in Blocks : At(stor[k], b) \in hist[k][b]

(* What the initiator is told is what happened: moved and residue add up to  *)
(* the length asked for, a passed transfer moved every sector it named, a    *)
(* failed or refused one has the whole residue and leaves the reason for     *)
(* REQUEST SENSE, a phase error touches nothing, and the self test passes    *)
(* unless memory runs out.                                                   *)
AnswersTrue ==
    reply # None =>
    IF reply.via = "smoke"
    THEN reply.ok = Extents => reply.status \in {"none", "ok"}
    ELSE LET c == reply.cmd
             now == stor[reply.slot]
         IN  /\ reply.moved + reply.residue = c.len
             /\ c.op \in {"read", "write"} /\ reply.status = "passed" => reply.moved = c.n
             /\ c.op = "read" /\ reply.status = "passed" =>
                   \A j \in 1 .. c.n : reply.data[j] \in hist[reply.slot][c.lba + j - 1]
             /\ reply.status = "failed" => now.sense # "none" /\ reply.residue = c.len
             /\ reply.status = "phase" => reply.untouched /\ reply.unsensed
             /\ reply.status = "passed" => reply.unsensed
             /\ reply.via = "bot" => now.bot = reply.status /\ now.residue = reply.residue

(* The block layer has one disk for a record that has one and none for any   *)
(* other: no disk is left behind that writes into a freed or reused record.  *)
DisksOwned ==
    \A k \in Slots : gendisks[k] = IF Disk(stor[k]) THEN 1 ELSE 0

(* An interface has one record, and a SCSI host at most one. *)
OneRecordEach ==
    \A j, k \in Active(stor) : j # k =>
        /\ stor[j].intf # stor[k].intf
        /\ stor[j].host # None => stor[j].host # stor[k].host
=============================================================================
