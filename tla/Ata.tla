--------------------------------- MODULE Ata ---------------------------------
(***************************************************************************)
(* The SATA disk behind an AHCI host (ata/ata.c): registration in steps    *)
(* that may fail and be tried again, one medium reached as ATA commands,   *)
(* SCSI commands, AHCI slots started by a register write, and block I/O    *)
(* that issues AHCI commands of its own, and the resizing of the medium.   *)
(***************************************************************************)
EXTENDS Integers, FiniteSets, Sequences, SequencesExt, FiniteSetsExt

CONSTANTS
    Hosts,       \* ata_hosts the driver may register
    NoBar,       \* those without AHCI registers
    MaxRecords,  \* KB_ATA_DISK_MAX
    Default,     \* KB_ATA_DEFAULT_SECTORS
    MaxSectors,  \* largest size a disk is given
    Slots,       \* command slots of the port
    Values,      \* contents of a sector; 0 is a sector of zeros
    Chunk,       \* sectors of one AHCI command of block I/O (8192)
    Commands,    \* commands tried: op, at, n, room (sectors its PRDT holds), v
    None

VARIABLES
    disk,   \* the record of each host
    port,   \* registers of its port 0: ci, sact, is, tfd, and clb, whose command
            \* list it is: none, the driver's, or block I/O's, which is freed
    hist,   \* what each sector may hold, by what callers were told
    reply   \* the last call's answers

vars == <<disk, port, hist, reply>>

Steps == {"hook", "backing", "queue", "disk", "registered", "scsi", "added"}

Blank(n) == [s \in 0 .. n - 1 |-> 0]
NewRecord == [steps |-> {}, cap |-> Default, data |-> Blank(Default)]
NoPort == [ci |-> {}, sact |-> {}, is |-> {}, tfd |-> "none", clb |-> None]

Active == {h \in Hosts : disk[h] # None}
Usable(h) == h \in Active /\ {"backing", "disk", "scsi"} \subseteq disk[h].steps

-----------------------------------------------------------------------------
(***************************************************************************)
(* Registration: each missing part is made in this order.  stop is the     *)
(* part that fails; a part counts as there once its object is allocated.   *)
(***************************************************************************)
Order == <<"hook", "backing", "queue", "disk", "registered", "scsi", "added">>
Skips(h, have, s) == \/ s \in have
                     \/ s = "hook" /\ h \in NoBar
                     \/ s = "registered" /\ "disk" \in have
                     \/ s = "added" /\ "scsi" \in have
Reached(h, have, stop) ==
    have \cup {Order[i] : i \in {j \in 1 .. Len(Order) :
                  /\ ~Skips(h, have, Order[j])
                  /\ \A k \in 1 .. j : ~Skips(h, have, Order[k]) => Order[k] # stop}}

RegisterFresh(h, stop) ==
    /\ h \in Active \/ Cardinality(Active) < MaxRecords
    /\ reply = None
    /\ LET old == NewRecord
           have == Reached(h, old.steps, stop)
           fails == stop \in Steps /\ ~Skips(h, old.steps, stop)
       IN  /\ disk' = [disk EXCEPT ![h] = [old EXCEPT !.steps = have]]
           /\ hist' = [hist EXCEPT ![h] = IF @ = None THEN [s \in 0 .. Default - 1 |-> {0}] ELSE @]
           /\ reply' = [kind |-> "register", host |-> h, ok |-> ~fails]
    /\ UNCHANGED port
Register(h, stop) ==
    /\ h \in Active \/ Cardinality(Active) < MaxRecords
    /\ reply = None
    /\ LET old == IF h \in Active THEN disk[h] ELSE NewRecord
           have == Reached(h, old.steps, stop)
           fails == stop \in Steps /\ ~Skips(h, old.steps, stop)
       IN  /\ disk' = [disk EXCEPT ![h] = [old EXCEPT !.steps = have]]
           /\ hist' = [hist EXCEPT ![h] = IF @ = None THEN [s \in 0 .. Default - 1 |-> {0}] ELSE @]
           /\ reply' = [kind |-> "register", host |-> h, ok |-> ~fails]
    /\ UNCHANGED port

RegisterFull(h) ==
    /\ h \notin Active /\ Cardinality(Active) = MaxRecords
    /\ reply = None
    /\ reply' = [kind |-> "register", host |-> h, ok |-> FALSE]
    /\ UNCHANGED <<disk, port, hist>>

-----------------------------------------------------------------------------
(***************************************************************************)
(* The medium.  A command gives its status, the medium after it and, when  *)
(* it reads, the sectors.                                                  *)
(***************************************************************************)
InRange(d, at, n) == at + n <= d.cap
SubData(d, at, n) == [i \in 1 .. n |-> d.data[at + i - 1]]
Stored(d, at, n, v) ==
    [d EXCEPT !.data = [s \in 0 .. d.cap - 1 |-> IF s \in at .. at + n - 1 THEN v ELSE @[s]]]

Failed(d) == [ok |-> FALSE, d |-> d, out |-> <<>>]

\* ata_command with a buffer of room sectors.
AtaCommand(d, op, at, n, room, v) ==
    CASE op = "identify" /\ room >= 1 -> [ok |-> TRUE, d |-> d, out |-> <<>>]
      [] op = "read" /\ room >= n /\ InRange(d, at, n) ->
            [ok |-> TRUE, d |-> d, out |-> SubData(d, at, n)]
      [] op = "write" /\ room >= n /\ InRange(d, at, n) ->
            [ok |-> TRUE, d |-> Stored(d, at, n, v), out |-> <<>>]
      [] OTHER -> Failed(d)

\* A count of 0 in a FIS stands for the most a uint16_t holds.
FisSectors(n) == IF n = 0 THEN 65535 ELSE n

\* ahci_process_slot: a PRDT with too little room fails the command, a write
\* before it reaches the medium.
ProcessSlot(d, c) ==
    LET n == IF c.op = "identify" THEN 1 ELSE FisSectors(c.n)
    IN  IF c.room < n THEN Failed(d) ELSE AtaCommand(d, c.op, c.at, n, n, c.v)

\* READ(10), WRITE(10): the count is taken as it is.
ScsiCommand(d, c) == AtaCommand(d, c.op, c.at, c.n, c.room, c.v)

(***************************************************************************)
(* ahci_process_port: the slots of CI in order, then the registers.        *)
(***************************************************************************)
ProcessSlots(d, cmds) ==
    FoldLeft(LAMBDA acc, s :
                LET r == ProcessSlot(acc.d, cmds[s])
                IN  [d |-> r.d, res |-> [acc.res EXCEPT ![s] = r],
                     tfd |-> IF r.ok THEN "ready" ELSE "error"],
             [d |-> d, res |-> [s \in DOMAIN cmds |-> Failed(d)], tfd |-> "none"],
             SetToSortSeq(DOMAIN cmds, <))

DoneKeepsSact(p, cmds, r) ==
    [p EXCEPT !.ci = @ \ DOMAIN cmds, !.tfd = r.tfd,
              !.is = @ \cup {IF r.res[s].ok THEN "DHRS" ELSE "TFES" : s \in DOMAIN cmds}]
Done(p, cmds, r) ==
    [p EXCEPT !.ci = @ \ DOMAIN cmds, !.sact = @ \ DOMAIN cmds, !.tfd = r.tfd,
              !.is = @ \cup {IF r.res[s].ok THEN "DHRS" ELSE "TFES" : s \in DOMAIN cmds}]

\* The outcomes, as a caller takes them: may[s] after a command that worked,
\* and after one that did not.
Wrote(m, c, n) == [s \in DOMAIN m |-> IF s \in c.at .. c.at + n - 1 THEN {c.v} ELSE m[s]]
Torn(m, c, n) == [s \in DOMAIN m |-> IF s \in c.at .. c.at + n - 1 THEN m[s] \cup {c.v} ELSE m[s]]
Promised(m, c, ok) == IF ok /\ c.op = "write" THEN Wrote(m, c, c.n) ELSE m
InOrder(m, cmds, r) ==
    FoldLeft(LAMBDA acc, s : Promised(acc, cmds[s], r.res[s].ok), m, SetToSortSeq(DOMAIN cmds, <))

Answer(h, kind, c, ok, out) ==
    [kind |-> kind, host |-> h, at |-> c.at, ok |-> ok, out |-> out,
     asked |-> IF c.op = "read" THEN c.n ELSE 0]

\* The driver's write to PXCI, with the SACT bits of queued commands set.  cmds
\* is what the port finds in its list: the driver's commands, or whatever is in
\* the memory that block I/O used for a list and freed.
NoCommand == [op |-> "none", at |-> 0, n |-> 0, room |-> 0, v |-> 0]
Strays(m, cmds, r) ==
    FoldLeft(LAMBDA acc, s : IF r.res[s].ok /\ cmds[s].op = "write"
                             THEN Torn(acc, cmds[s], cmds[s].n) ELSE acc,
             m, SetToSortSeq(DOMAIN cmds, <))

WritePxci(h, cmds) ==
    LET own == port[h].clb = "driver"
        found == IF port[h].clb = None THEN [s \in DOMAIN cmds |-> NoCommand] ELSE cmds
        r == ProcessSlots(disk[h], found)
        last == Max(DOMAIN cmds)
    IN  /\ Usable(h) /\ "hook" \in disk[h].steps /\ reply = None
        /\ disk' = [disk EXCEPT ![h] = r.d]
        /\ port' = [port EXCEPT ![h] = Done([@ EXCEPT !.ci = DOMAIN cmds, !.sact = DOMAIN cmds],
                                              cmds, r)]
        /\ hist' = [hist EXCEPT ![h] = IF own THEN InOrder(@, cmds, r) ELSE Strays(@, found, r)]
        /\ reply' = Answer(h, IF own THEN "ahci" ELSE "stray", found[last],
                           r.res[last].ok, r.res[last].out)

StartPort(h) ==
    /\ Usable(h) /\ reply = None
    /\ port[h].clb # "driver"
    /\ port' = [port EXCEPT ![h].clb = "driver"]
    /\ UNCHANGED <<disk, hist, reply>>

\* Writes of 1 to the status bits; an interrupt handler clears them all.
WritePxis(h) ==
    /\ Usable(h) /\ "hook" \in disk[h].steps /\ reply = None
    /\ port[h].is # {}
    /\ port' = [port EXCEPT ![h].is = {}]
    /\ UNCHANGED <<disk, hist, reply>>

QueueScsi(h, c) ==
    LET r == ScsiCommand(disk[h], c)
    IN  /\ Usable(h) /\ reply = None
        /\ disk' = [disk EXCEPT ![h] = r.d]
        /\ hist' = [hist EXCEPT ![h] = Promised(@, c, r.ok)]
        /\ reply' = Answer(h, "scsi", c, r.ok, r.out)
        /\ UNCHANGED port

(***************************************************************************)
(* Block I/O: straight to the medium without a BAR, else as commands of at *)
(* most Chunk sectors in slot 0, stopping at the first that fails.  The    *)
(* command list it gives the port is freed afterwards.                     *)
(***************************************************************************)
Chunks(c) ==
    [i \in 1 .. (c.n + Chunk - 1) \div Chunk |->
        [c EXCEPT !.at = c.at + (i - 1) * Chunk,
                  !.n = Min({Chunk, c.n - (i - 1) * Chunk}), !.room = Chunk]]

IssueChunks(d, c) ==
    FoldLeft(LAMBDA acc, k :
                IF ~acc.ok THEN acc
                ELSE LET r == ProcessSlot(acc.d, k)
                     IN  [ok |-> r.ok, d |-> r.d, out |-> acc.out \o r.out],
             [ok |-> TRUE, d |-> d, out |-> <<>>], Chunks(c))

BlockPort(p, ok) ==
    [p EXCEPT !.ci = {}, !.sact = {}, !.clb = "freed",
              !.is = {IF ok THEN "DHRS" ELSE "TFES"}, !.tfd = IF ok THEN "ready" ELSE "error"]

\* The block layer's own checks come first: a registered disk, and the range.
Accepts(h, at, n) == "registered" \in disk[h].steps /\ InRange(disk[h], at, n)

BlockIo(h, c) ==
    LET hooked == "hook" \in disk[h].steps
        r == IF ~Accepts(h, c.at, c.n) THEN Failed(disk[h])
             ELSE IF hooked THEN IssueChunks(disk[h], c)
             ELSE AtaCommand(disk[h], c.op, c.at, c.n, c.n, c.v)
    IN  /\ Usable(h) /\ reply = None
        /\ c.op \in {"read", "write"} /\ c.n > 0
        /\ disk' = [disk EXCEPT ![h] = r.d]
        /\ port' = IF hooked /\ Accepts(h, c.at, c.n)
                   THEN [port EXCEPT ![h] = BlockPort(@, r.ok)] ELSE port
        /\ hist' = [hist EXCEPT ![h] = Promised(@, c, r.ok)]
        /\ reply' = Answer(h, "block", c, r.ok, r.out)

\* kb_ata_subsystem_resize_disk keeps what fits and adds zeros.
Resize(h, n) ==
    /\ Usable(h) /\ reply = None
    /\ disk' = [disk EXCEPT ![h].cap = n,
                            ![h].data = [s \in 0 .. n - 1 |-> IF s < disk[h].cap THEN @[s] ELSE 0]]
    /\ hist' = [hist EXCEPT ![h] = [s \in 0 .. n - 1 |-> IF s < disk[h].cap THEN @[s] ELSE {0}]]
    /\ UNCHANGED <<port, reply>>

(***************************************************************************)
(* kb_ata_subsystem_run_io_smoke on one disk: a write and a read through   *)
(* each path, further and further into the disk (sectors 10 to 41, some of *)
(* which are one sector here); it stops at the first that fails.           *)
(***************************************************************************)
SmokePlan(h) ==
    <<[path |-> "ata", at |-> 0], [path |-> "scsi", at |-> 0], [path |-> "block", at |-> 1]>>
    \o (IF "hook" \in disk[h].steps THEN <<[path |-> "ahci", at |-> 2]>> ELSE <<>>)
    \o <<[path |-> "scsi", at |-> 2]>>

Works(h, step) ==
    IF step.path = "block" THEN Accepts(h, step.at, 1) ELSE InRange(disk[h], step.at, 1)

Smoke(h, v) ==
    LET plan == SmokePlan(h)
        upto == {i \in 1 .. Len(plan) : \A j \in 1 .. i : Works(h, plan[j])}
        tried == {plan[i].path : i \in {j \in DOMAIN plan : j <= Cardinality(upto) + 1}}
        used == {plan[i].path : i \in upto}
    IN  /\ Usable(h) /\ reply = None
        /\ disk' = [disk EXCEPT ![h] =
                FoldLeft(LAMBDA d, i : Stored(d, plan[i].at, 1, v), @, SetToSortSeq(upto, <))]
        /\ hist' = [hist EXCEPT ![h] =
                [s \in DOMAIN @ |-> IF \E i \in upto : plan[i].at = s THEN {v} ELSE @[s]]]
        /\ port' = IF "hook" \in disk[h].steps /\ "block" \in used
                   THEN [port EXCEPT ![h] = BlockPort(@, "ahci" \in tried => "ahci" \in used)]
                   ELSE port
        /\ reply' = [kind |-> "smoke", host |-> h, ok |-> Cardinality(upto) = Len(plan)]

Answered ==
    /\ reply # None
    /\ reply' = None
    /\ UNCHANGED <<disk, port, hist>>

Init ==
    /\ disk = [h \in Hosts |-> None]
    /\ port = [h \in Hosts |-> NoPort]
    /\ hist = [h \in Hosts |-> None]
    /\ reply = None

CommandSets == UNION {[S -> Commands] : S \in (SUBSET Slots) \ {{}}}

Next ==
    \/ \E h \in Hosts :
          \/ \E stop \in Steps \cup {None} : Register(h, stop)
          \/ RegisterFull(h)
          \/ \E cmds \in CommandSets : WritePxci(h, cmds)
          \/ StartPort(h) \/ WritePxis(h)
          \/ \E c \in Commands : QueueScsi(h, c) \/ BlockIo(h, c)
          \/ \E n \in 1 .. MaxSectors : Resize(h, n)
          \/ \E v \in Values : Smoke(h, v)
    \/ Answered

-----------------------------------------------------------------------------
(* The types of the variables. *)
TypeOK ==
    /\ \A h \in Hosts : disk[h] # None =>
          /\ disk[h].steps \subseteq Steps /\ disk[h].cap \in 1 .. MaxSectors
          /\ disk[h].data \in [0 .. disk[h].cap - 1 -> Values]
    /\ port \in [Hosts -> [ci : SUBSET Slots, sact : SUBSET Slots, is : SUBSET {"DHRS", "TFES"},
                           tfd : {"none", "ready", "error"}, clb : {None, "driver", "freed"}]]
    /\ \A h \in Hosts : hist[h] # None =>
          hist[h] \in [0 .. disk[h].cap - 1 -> (SUBSET Values) \ {{}}]

(* One disk, however it is reached: a read that succeeds, by ATA, SCSI, AHCI  *)
(* or block I/O, returns all it was asked for, each sector as last written by *)
(* any path; a command that fails has written nothing; resizing and           *)
(* registering again lose nothing.  When the driver starts slots after block  *)
(* I/O has put its list, now freed, in place of the driver's, the sectors     *)
(* written by what the port finds there are the only ones to change.          *)
OneDisk ==
    /\ \A h \in Active : \A s \in 0 .. disk[h].cap - 1 : disk[h].data[s] \in hist[h][s]
    /\ reply # None /\ reply.kind \in {"ahci", "scsi", "block"} /\ reply.ok =>
          /\ Len(reply.out) = reply.asked
          /\ \A i \in 1 .. Len(reply.out) : reply.out[i] \in hist[reply.host][reply.at + i - 1]

(* No command is left behind: between calls CI and SACT are empty, and what   *)
(* the status says of the last slot is among the interrupt causes unless the  *)
(* driver cleared them.                                                       *)
NoSlotLeft ==
    \A h \in Hosts :
        /\ port[h].ci = {} /\ port[h].sact = {}
        /\ port[h].is # {} /\ port[h].tfd = "error" => "TFES" \in port[h].is
=============================================================================
