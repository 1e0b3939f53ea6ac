------------------------------ MODULE BufferIo ------------------------------
(***************************************************************************)
(* The block-device buffer cache and the bio queue under it (fs.c):        *)
(* buffer heads in a table of NSlots records, reads and writes queued as   *)
(* bios, plugs, the drain that issues the queue in batches and calls every *)
(* bio's end_io, and the calls that wait by draining: bread, the           *)
(* write_dirty_buffer / sync_dirty_buffer pair, flush_dirty_buffers.       *)
(*                                                                         *)
(* Everything runs in one thread.  `stack' holds the calls in progress.    *)
(* Another call can start below a waiting one only where the wait loop     *)
(* runs deferred work (pc "work"), and an end_io callback may submit more  *)
(* I/O.  Block contents are version numbers.                               *)
(***************************************************************************)
EXTENDS Integers, Sequences, FiniteSets, SequencesExt

CONSTANTS
    Blocks,      \* blocks of the device
    Heads,       \* storage for buffer heads
    None,
    NSlots,      \* KB_FS_BUFFER_CACHE_MAX
    BatchMax,    \* KB_FS_BIO_WRITE_BATCH_MAX, KB_FS_BIO_READ_BATCH_MAX
    Calls,       \* what the filesystem calls
    WorkCalls,   \* what deferred work run by a wait loop calls
    Barriers,    \* whether writes may carry PREFLUSH|FUA
    MaxVer,      \* bound: modifications of a block
    MaxHeld,     \* bound: references the filesystem holds on a head
    MaxFaults,   \* bound: requests refused by submit_bh or failed by the device
    MaxCalls     \* bound: calls nested through deferred work

VARIABLES
    bh,       \* [Heads -> buffer head, or Absent]
    held,     \* references of the filesystem
    disk,     \* [Blocks -> version in the device's cache]
    media,    \* [Blocks -> version that survives power loss]
    queue,    \* bio_queue_head .. bio_queue_tail
    plug,     \* block_plug_depth
    auto,     \* bio_auto_drain
    last,     \* bio_last_drain_status /= 0
    stack,    \* calls in progress, the running one last
    newest,   \* [Blocks -> newest version the filesystem made]
    owed,     \* [Blocks -> that version has to reach the device]
    aliased,  \* blocks that were given a head outside the table
    lapsed,   \* blocks whose last write failed, was refused or called off
    faults

vars == <<bh, held, disk, media, queue, plug, auto, last, stack,
          newest, owed, aliased, lapsed, faults>>
device == <<disk, media>>
ghosts == <<newest, owed, aliased, lapsed>>

Absent == [blk |-> None, cached |-> FALSE,
           lock |-> FALSE, dirty |-> FALSE, rec |-> FALSE, upto |-> FALSE,
           eio |-> FALSE, ref |-> 0, ver |-> 0]
InUse(h) == bh[h].blk \in Blocks

Init ==
    /\ bh = [h \in Heads |-> Absent] /\ held = [h \in Heads |-> 0]
    /\ disk = [b \in Blocks |-> 0] /\ media = disk
    /\ queue = <<>> /\ plug = 0 /\ auto = TRUE /\ last = FALSE
    /\ stack = <<>>
    /\ newest = disk /\ owed = [b \in Blocks |-> FALSE]
    /\ aliased = {} /\ lapsed = {} /\ faults = 0

(***************************************************************************)
(* Frames.  A call frame has the call's arguments, where it stands and what *)
(* it submitted (sub); flush_dirty_buffers also what it asked to be        *)
(* written (asked, read by no action).  A drain frame has the bios popped  *)
(* from the queue whose end_io is still to be called.                      *)
(***************************************************************************)
Frame(op, h, kind) ==
    [op |-> op, h |-> h, kind |-> kind, pc |-> "start", back |-> "start",
     todo |-> {}, sub |-> {}, asked |-> {}, err |-> FALSE, prev |-> TRUE,
     batch |-> <<>>, ok |-> TRUE]
DrainFrame == [Frame("drain", None, "plain") EXCEPT !.pc = "pop"]

Depth == Len(stack)
Top == stack[Depth]
At(op, pc) == Depth > 0 /\ Top.op \in op /\ Top.pc = pc
Goto(f) == stack' = [stack EXCEPT ![Depth] = f]
Under(f, g) == stack' = Append([stack EXCEPT ![Depth] = f], g)
Return == stack' = Front(stack)

NrCalls == Cardinality({i \in 1 .. Depth : stack[i].op /= "drain"})
\* The filesystem runs when nothing is in progress; its deferred work runs
\* inside a wait loop.
CanCall(op) ==
    \/ stack = <<>> /\ op \in Calls
    \/ /\ \A i \in 1 .. Depth : i = Depth => stack[i].pc = "work"
       /\ op \in WorkCalls
       /\ stack /= <<>>

Bios(s) == 1 .. Len(s)
InFlight(h) ==
    Cardinality({i \in Bios(queue) : queue[i].h = h})
    + Cardinality({<<i, j>> \in (1 .. Depth) \X (1 .. BatchMax) :
                     /\ j \in Bios(stack[i].batch)
                     /\ stack[i].batch[j].h = h})

(***************************************************************************)
(* The table of buffer heads.                                              *)
(***************************************************************************)
Cached == {h \in Heads : bh[h].cached}
Evictable == {h \in Cached : ~bh[h].rec /\ bh[h].ref = 0}

MissingUnused(b) == \A h \in Cached : bh[h].blk /= b \/ bh[h].ref = 0
Missing(b) == \A h \in Cached : bh[h].blk /= b

NewHead(b, cached) ==
    [Absent EXCEPT !.blk = b, !.cached = cached, !.ref = 1]

\* bdev_getblk of a block in the table.
GetHit(b) ==
    /\ CanCall("get")
    /\ \E h \in Cached :
         /\ bh[h].blk = b /\ held[h] < MaxHeld
         /\ bh' = [bh EXCEPT ![h].ref = @ + 1]
         /\ held' = [held EXCEPT ![h] = @ + 1]
    /\ UNCHANGED <<device, queue, plug, auto, last, stack, ghosts, faults>>

\* A free record, else one that is clean and unreferenced, else none: the
\* new head then stays outside the table.
GetMiss(b) ==
    /\ CanCall("get")
    /\ Missing(b)
    /\ \E h \in Heads :
         /\ ~InUse(h)
         /\ \/ /\ Cardinality(Cached) < NSlots
               /\ bh' = [bh EXCEPT ![h] = NewHead(b, TRUE)]
               /\ UNCHANGED aliased
            \/ /\ Cardinality(Cached) = NSlots
               /\ \E e \in Evictable :
                    bh' = [bh EXCEPT ![e] = Absent, ![h] = NewHead(b, TRUE)]
               /\ UNCHANGED aliased
            \/ /\ Cardinality(Cached) = NSlots /\ Evictable = {}
               /\ bh' = [bh EXCEPT ![h] = NewHead(b, FALSE)]
               /\ aliased' = aliased \cup {b}
         /\ held' = [held EXCEPT ![h] = 1]
    /\ UNCHANGED <<device, queue, plug, auto, last, stack, newest, owed, lapsed, faults>>

\* References that a call in progress was given with its argument.
Lent(h) ==
    Cardinality({i \in 1 .. Depth :
        /\ stack[i].op /= "drain" /\ stack[i].h = h
        /\ ~ \E j \in 1 .. Depth : j = i - 1 /\ stack[j].op = "flush"})

Dropped(x) == [x EXCEPT !.ref = IF @ > 0 THEN @ - 1 ELSE 0]

Put(h) ==
    /\ CanCall("put") /\ held[h] > Lent(h)
    /\ bh' = [bh EXCEPT ![h] = Dropped(@)]
    /\ held' = [held EXCEPT ![h] = @ - 1]
    /\ UNCHANGED <<device, queue, plug, auto, last, stack, ghosts, faults>>

\* The filesystem changes a block it holds, and mark_buffer_dirty.
Marked(x) == [x EXCEPT !.dirty = TRUE, !.rec = x.cached]

MarkDirty(h) ==
    LET b == bh[h].blk
    IN  /\ CanCall("dirty") /\ held[h] > 0
        /\ bh[h].upto \/ ~bh[h].lock
        /\ newest[b] < MaxVer
        /\ newest' = [newest EXCEPT ![b] = @ + 1]
        /\ owed' = [owed EXCEPT ![b] = TRUE]
        /\ bh' = [bh EXCEPT ![h] = [Marked(@) EXCEPT !.upto = TRUE,
                                                     !.ver = newest[b] + 1]]
        /\ UNCHANGED <<held, device, queue, plug, auto, last, stack, aliased, lapsed,
                       faults>>

\* bforget: the block's contents are no longer wanted.
Forget(h) ==
    /\ CanCall("forget") /\ held[h] > Lent(h)
    /\ bh' = [bh EXCEPT ![h] = Dropped([@ EXCEPT !.dirty = FALSE, !.rec = FALSE])]
    /\ held' = [held EXCEPT ![h] = @ - 1]
    /\ owed' = [owed EXCEPT ![bh[h].blk] = FALSE]
    /\ lapsed' = lapsed \cup {bh[h].blk}
    /\ UNCHANGED <<device, queue, plug, auto, last, stack, newest, aliased, faults>>

(***************************************************************************)
(* The drain.                                                              *)
(***************************************************************************)
Batchable(q, dir) ==
    LET plain(i) == q[i].dir = dir /\ (dir = "write" => q[i].kind = "plain")
    IN  {n \in 1 .. Len(q) : n <= BatchMax /\ \A i \in 1 .. n : plain(i)}
\* The leading run of two or more single reads, else of plain writes, else
\* the first bio alone.
Leading(q) ==
    LET longest(S) == CHOOSE n \in S : \A m \in S : m <= n
        r == Batchable(q, "read")  w == Batchable(q, "write")
    IN  IF \E n \in r : n >= 2 THEN longest(r)
        ELSE IF \E n \in w : n >= 2 THEN longest(w) ELSE 1

Writes(s) == {i \in Bios(s) : s[i].dir = "write"}
\* The device's blocks once the writes at positions P of s are done.
Stored(s, P) ==
    [b \in Blocks |->
        LET W == {i \in P : bh[s[i].h].blk = b}
        IN  IF W = {} THEN disk[b]
            ELSE bh[s[CHOOSE i \in W : \A j \in W : j <= i].h].ver]
\* A block written through one head is copied into the table's head of it;
\* a block read is overlaid with the table's dirty data (the same memory
\* when the reader is that head).
Overlay(h) == {g \in Cached : bh[g].rec /\ bh[g].blk = bh[h].blk /\ g /= h}
AfterIo(s, stored) ==
    LET written == {bh[s[i].h].blk : i \in Writes(s)}
        read == {i \in Bios(s) : s[i].dir = "read"}
    IN  [h \in Heads |->
            IF \E i \in read : s[i].h = h
            THEN [bh[h] EXCEPT !.ver =
                    IF Overlay(h) = {} THEN stored[bh[h].blk]
                    ELSE bh[CHOOSE g \in Overlay(h) : TRUE].ver]
            ELSE IF bh[h].cached /\ bh[h].blk \in written
            THEN [bh[h] EXCEPT !.ver = stored[bh[h].blk]]
            ELSE bh[h]]

\* What is on the media after the bios s: a PREFLUSH first saves what the
\* device held before, FUA the blocks written.
SavedNoPreflush(s, stored) ==
    IF s[1].kind = "barrier"
    THEN [media EXCEPT ![bh[s[1].h].blk] = stored[bh[s[1].h].blk]] ELSE media
Saved(s, stored) ==
    IF s[1].kind = "barrier"
    THEN [disk EXCEPT ![bh[s[1].h].blk] = stored[bh[s[1].h].blk]] ELSE media

DrainKeep == UNCHANGED <<held, plug, auto, newest, owed, aliased>>

DrainPop ==
    /\ At({"drain"}, "pop") /\ queue /= <<>>
    /\ LET n == Leading(queue)
           s == SubSeq(queue, 1, n)
           written == {bh[s[i].h].blk : i \in Writes(s)}
       IN  /\ queue' = SubSeq(queue, n + 1, Len(queue))
           /\ \/ /\ disk' = Stored(s, Writes(s))
                 /\ media' = Saved(s, disk')
                 /\ bh' = AfterIo(s, disk')
                 /\ Goto([Top EXCEPT !.pc = "finish", !.batch = s, !.ok = TRUE])
                 /\ lapsed' = lapsed \ written
                 /\ UNCHANGED <<last, faults>>
              \/ /\ faults < MaxFaults /\ faults' = faults + 1
                 /\ \E P \in SUBSET Writes(s) : disk' = Stored(s, P)
                 /\ last' = TRUE
                 /\ lapsed' = lapsed \cup written
                 /\ Goto([Top EXCEPT !.pc = "finish", !.batch = s, !.ok = FALSE])
                 /\ UNCHANGED <<media, bh>>
    /\ DrainKeep

DrainEnd ==
    /\ At({"drain"}, "pop") /\ queue = <<>>
    /\ Return
    /\ UNCHANGED <<bh, device, queue, last, lapsed, faults>> /\ DrainKeep

\* end_buffer_read_sync and end_buffer_write_sync.
EndRead(x, ok) ==
    Dropped([x EXCEPT !.upto = ok, !.lock = FALSE])
EndWriteForgetsError(x, ok) ==
    Dropped([x EXCEPT !.upto = TRUE, !.lock = FALSE,
                      !.rec = IF ok THEN FALSE ELSE @,
                      !.dirty = IF ok THEN FALSE ELSE @])
EndWrite(x, ok) ==
    Dropped([x EXCEPT !.upto = ok, !.lock = FALSE, !.eio = ~ok,
                      !.rec = IF ok THEN FALSE ELSE @,
                      !.dirty = IF ok THEN FALSE ELSE @])

\* buffer_head_complete.
Completed(x, dir, ok) == IF dir = "read" THEN EndRead(x, ok) ELSE EndWrite(x, ok)

\* bio_finish_record of the first bio of the batch.
DrainFinish ==
    /\ At({"drain"}, "finish")
    /\ LET x == Top.batch[1]
           rest == Tail(Top.batch)
           b == bh[x.h].blk
       IN  /\ bh' = [bh EXCEPT ![x.h] = Completed(@, x.dir, Top.ok)]
           /\ owed' = IF Top.ok \/ x.dir = "read" THEN owed
                      ELSE [owed EXCEPT ![b] = FALSE]
           /\ Goto([Top EXCEPT !.batch = rest,
                               !.pc = IF rest = <<>> THEN "pop" ELSE "finish"])
    /\ UNCHANGED <<held, device, queue, plug, auto, last, newest, aliased, lapsed,
                   faults>>

(***************************************************************************)
(* submit_bh of the head h, whose state is x by then: the bio is queued,   *)
(* and the queue drained unless a plug or flush_dirty_buffers holds it     *)
(* back.  Without a bio (no device or data, a range outside the page, no   *)
(* memory) the head is completed on the spot as failed: nothing is queued, *)
(* and the status of the last drain stays.  f is the caller's frame        *)
(* afterwards.                                                             *)
(***************************************************************************)
Bio(h, dir, kind) == [h |-> h, dir |-> dir, kind |-> kind,
                      \* what the device held when the bio was submitted
                      seen |-> IF kind = "barrier" THEN disk ELSE <<>>]
SubmitRefused(f, h, x, dir) ==
    /\ faults < MaxFaults /\ faults' = faults + 1
    /\ bh' = [bh EXCEPT ![h] = Completed(x, dir, FALSE)]
    /\ Goto(f)
    /\ IF dir = "write"
       THEN owed' = [owed EXCEPT ![x.blk] = FALSE] /\ lapsed' = lapsed \cup {x.blk}
       ELSE UNCHANGED <<owed, lapsed>>
    /\ UNCHANGED <<queue, last>>
\* kb_fs_subsystem_submit_bio.
Queued(f, h, x, dir, kind) ==
    /\ bh' = [bh EXCEPT ![h] = x]
    /\ queue' = Append(queue, Bio(h, dir, kind))
    /\ IF auto /\ plug = 0
       THEN /\ Under(f, DrainFrame)
            /\ last' = FALSE
       ELSE Goto(f) /\ UNCHANGED last
    /\ UNCHANGED <<owed, lapsed, faults>>
Submit(f, h, x, dir, kind) ==
    Queued(f, h, x, dir, kind) \/ SubmitRefused(f, h, x, dir)

DrainUnplugged(f) ==
    IF plug = 0 THEN Under(f, DrainFrame) /\ last' = FALSE
    ELSE Goto(f) /\ UNCHANGED last
Drain(f) == Under(f, DrainFrame) /\ last' = FALSE

\* An end_io callback submits the write of another dirty block, as a
\* completion handler that continues a chain of writes does.
CallbackSubmit(h) ==
    /\ "chain" \in Calls
    /\ Depth > 0 /\ Top.op = "drain"
    /\ NrCalls + Cardinality({i \in 1 .. Depth : stack[i].op = "drain"}) <= 2 * MaxCalls
    /\ InUse(h) /\ ~bh[h].lock /\ bh[h].dirty
    /\ Submit(Top, h, [bh[h] EXCEPT !.lock = TRUE, !.dirty = FALSE, !.eio = FALSE,
                                    !.ref = @ + 1], "write", "plain")
    /\ UNCHANGED <<held, device, plug, auto, newest, aliased>>

(***************************************************************************)
(* bread, bh_read_batch, write_dirty_buffer, sync_dirty_buffer.            *)
(***************************************************************************)
IoOps == {"read", "ahead", "write", "sync"}
CallKeep == UNCHANGED <<held, device, plug, auto, ghosts, faults>>

Call(op, h, kind) ==
    /\ CanCall(op) /\ held[h] > 0 /\ NrCalls < MaxCalls
    /\ kind = "barrier" => Barriers /\ op = "write"
    /\ stack' = Append(stack, Frame(op, h, kind))
    /\ UNCHANGED <<bh, queue, last>> /\ CallKeep

\* lock_buffer: drain and run deferred work until the lock is free.
Lock ==
    /\ At(IoOps \ {"ahead"}, "start")
    /\ IF bh[Top.h].lock
       THEN /\ Drain([Top EXCEPT !.pc = "work", !.back = "start"])
            /\ UNCHANGED bh
       ELSE /\ bh' = [bh EXCEPT ![Top.h].lock = TRUE]
            /\ Goto([Top EXCEPT !.pc = "locked"])
            /\ UNCHANGED last
    /\ UNCHANGED queue /\ CallKeep

\* bh_read_batch skips a buffer that is valid or locked.
LockAhead ==
    /\ At({"ahead"}, "start")
    /\ IF bh[Top.h].upto \/ bh[Top.h].lock
       THEN Goto([Top EXCEPT !.pc = "ret"]) /\ UNCHANGED bh
       ELSE /\ bh' = [bh EXCEPT ![Top.h].lock = TRUE]
            /\ Goto([Top EXCEPT !.pc = "locked"])
    /\ UNCHANGED <<queue, last>> /\ CallKeep

\* The deferred work is done: look at the buffer again.
WorkDone ==
    /\ \A i \in 1 .. Depth : i = Depth => stack[i].pc = "work"
    /\ stack /= <<>>
    /\ Goto([Top EXCEPT !.pc = Top.back])
    /\ UNCHANGED <<bh, queue, last>> /\ CallKeep

Reads == {"read", "ahead"}
Nothing(x, op) == IF op \in Reads THEN x.upto ELSE ~x.dirty
StartedNoReference(x, op) ==
    IF op \in Reads THEN x ELSE [x EXCEPT !.dirty = FALSE, !.eio = FALSE]
Started(x, op) ==
    IF op \in Reads THEN [x EXCEPT !.ref = @ + 1]
    ELSE [x EXCEPT !.ref = @ + 1, !.dirty = FALSE, !.eio = FALSE]

Locked ==
    /\ At(IoOps, "locked")
    /\ LET h == Top.h
       IN  IF Nothing(bh[h], Top.op)
           THEN /\ bh' = [bh EXCEPT ![h].lock = FALSE]
                /\ Goto([Top EXCEPT !.pc = "ret"])
                /\ UNCHANGED <<queue, last, owed, lapsed, faults>>
           ELSE Submit([Top EXCEPT !.pc = IF Top.op \in {"read", "sync"} THEN "wait" ELSE "ret",
                                   !.sub = {<<bh[h].blk, bh[h].ver>>}],
                       h, Started(bh[h], Top.op),
                       IF Top.op \in Reads THEN "read" ELSE "write", Top.kind)
    /\ UNCHANGED <<held, device, plug, auto, newest, aliased>>

\* wait_on_buffer, and what the caller makes of the buffer's state.
WaitIo ==
    /\ At({"read", "sync"}, "wait")
    /\ LET x == bh[Top.h]
       IN  IF x.lock
           THEN Drain([Top EXCEPT !.pc = "work", !.back = "wait"])
           ELSE /\ Goto([Top EXCEPT !.pc = "ret",
                           !.err = ~x.upto \/ (Top.op = "sync" /\ x.eio)])
                /\ UNCHANGED last
    /\ UNCHANGED <<bh, queue>> /\ CallKeep

\* bread_gfp drops the reference of a block it could not read.
RetIo ==
    /\ At(IoOps, "ret")
    /\ IF Top.op = "read" /\ Top.err
       THEN /\ bh' = [bh EXCEPT ![Top.h] = Dropped(@)]
            /\ held' = [held EXCEPT ![Top.h] = @ - 1]
       ELSE UNCHANGED <<bh, held>>
    /\ Return
    /\ UNCHANGED <<device, queue, plug, auto, last, ghosts, faults>>

(***************************************************************************)
(* flush_dirty_buffers.                                                    *)
(***************************************************************************)
FlushKeep == UNCHANGED <<bh, held, device, queue, plug, ghosts, faults>>

FlushCall ==
    /\ CanCall("flush") /\ NrCalls + 1 < MaxCalls
    /\ auto' = FALSE
    /\ stack' = Append(stack, [Frame("flush", None, "plain") EXCEPT
                                 !.pc = "scan", !.todo = Cached, !.prev = auto])
    /\ UNCHANGED last /\ FlushKeep

FlushVisit ==
    /\ At({"flush"}, "scan")
    /\ \E h \in Top.todo :
         IF bh[h].cached /\ bh[h].rec
         THEN Under([Top EXCEPT !.todo = @ \ {h}, !.h = h, !.pc = "visited",
                                !.asked = @ \cup {<<bh[h].blk, bh[h].ver>>}],
                    Frame("write", h, "plain"))
         ELSE Goto([Top EXCEPT !.todo = @ \ {h}])
    /\ UNCHANGED <<auto, last>> /\ FlushKeep

\* A locked buffer has its write in flight, and one still dirty is an error.
\* Of one that is neither nothing is noted, though its write may have been
\* refused, or have failed in another call.
FlushVisited ==
    /\ At({"flush"}, "visited")
    /\ LET x == bh[Top.h]
       IN  Goto([Top EXCEPT !.pc = "scan", !.h = None,
                   !.sub = IF x.lock THEN @ \cup {<<Top.h, x.blk, x.ver>>} ELSE @,
                   !.err = @ \/ (~x.lock /\ x.dirty)])
    /\ UNCHANGED <<auto, last>> /\ FlushKeep

FlushDrain ==
    /\ At({"flush"}, "scan") /\ Top.todo = {}
    /\ Drain([Top EXCEPT !.pc = "drained"])
    /\ UNCHANGED auto /\ FlushKeep

FlushDrained ==
    /\ At({"flush"}, "drained")
    /\ Goto([Top EXCEPT !.pc = "waits", !.err = @ \/ last, !.todo = Top.sub])
    /\ auto' = Top.prev
    /\ UNCHANGED last /\ FlushKeep

FlushWait ==
    /\ At({"flush"}, "waits")
    /\ \E w \in Top.todo :
         LET x == bh[w[1]]
         IN  IF x.lock
             THEN Drain([Top EXCEPT !.pc = "work", !.back = "waits"])
             ELSE /\ Goto([Top EXCEPT !.todo = @ \ {w},
                             !.err = @ \/ x.eio \/ ~x.upto])
                  /\ UNCHANGED last
    /\ UNCHANGED auto /\ FlushKeep

FlushWaited ==
    /\ At({"flush"}, "waits") /\ Top.todo = {}
    /\ Goto([Top EXCEPT !.pc = "ret"])
    /\ UNCHANGED <<auto, last>> /\ FlushKeep

FlushRet ==
    /\ At({"flush"}, "ret")
    /\ Return
    /\ UNCHANGED <<auto, last>> /\ FlushKeep

(***************************************************************************)
(* blk_start_plug and blk_finish_plug.                                     *)
(***************************************************************************)
StartPlug ==
    /\ CanCall("plug") /\ plug = 0
    /\ plug' = 1
    /\ UNCHANGED <<bh, held, device, queue, auto, last, stack, ghosts, faults>>

FinishPlug ==
    /\ CanCall("plug") /\ plug = 1
    /\ plug' = 0
    /\ stack' = Append(stack, DrainFrame) /\ last' = FALSE
    /\ UNCHANGED <<bh, held, device, queue, auto, ghosts, faults>>

Client ==
    \/ \E b \in Blocks : GetHit(b) \/ GetMiss(b)
    \/ \E h \in Heads : Put(h) \/ MarkDirty(h) \/ Forget(h)
    \/ \E op \in IoOps, h \in Heads, k \in {"plain", "barrier"} : Call(op, h, k)
    \/ FlushCall \/ StartPlug \/ FinishPlug
    \/ \E h \in Heads : CallbackSubmit(h)

Step ==
    \/ DrainPop \/ DrainEnd \/ DrainFinish
    \/ Lock \/ LockAhead \/ WorkDone \/ Locked \/ WaitIo \/ RetIo
    \/ FlushVisit \/ FlushVisited \/ FlushDrain \/ FlushDrained
    \/ FlushWait \/ FlushWaited \/ FlushRet

Next == Client \/ Step

Spec == Init /\ [][Next]_vars
\* kb_run_deferred_work is a bounded pass: at each depth of the stack it ends.
FairSpec ==
    /\ Spec /\ WF_vars(Step)
    /\ \A i \in 1 .. 2 * MaxCalls : SF_vars(Depth = i /\ WorkDone)

-----------------------------------------------------------------------------
(***************************************************************************)
(* Properties.                                                             *)
(***************************************************************************)
HeadType ==
    [blk : Blocks \cup {None}, cached : BOOLEAN, lock : BOOLEAN,
     dirty : BOOLEAN, rec : BOOLEAN, upto : BOOLEAN, eio : BOOLEAN,
     ref : 0 .. MaxHeld + 1, ver : 0 .. MaxVer]

\* Every piece of state has its type; the table never holds more records
\* than it has slots, and no two of them for one block (bdev_getblk).
TypeOK ==
    /\ bh \in [Heads -> HeadType]
    /\ held \in [Heads -> 0 .. MaxHeld]
    /\ disk \in [Blocks -> 0 .. MaxVer] /\ media \in [Blocks -> 0 .. MaxVer]
    /\ plug \in 0 .. 1 /\ auto \in BOOLEAN /\ last \in BOOLEAN
    /\ Cardinality(Cached) <= NSlots
    /\ \A g, h \in Cached : bh[g].blk = bh[h].blk => g = h

\* A buffer with I/O queued or being completed is locked, has exactly one
\* bio, and holds a reference for it besides the filesystem's own, so that
\* bdev_getblk cannot give its storage to another block.
IoHoldsBuffer ==
    \A h \in Heads :
        InFlight(h) > 0 =>
            /\ InUse(h) /\ bh[h].lock /\ InFlight(h) = 1
            /\ bh[h].ref = held[h] + 1

\* The newest contents of a block are on the device, or a record of the table
\* that flush_dirty_buffers visits has them and its write is still to come,
\* until the write of the block failed or the filesystem forgot the block.
\* (Blocks with a head outside the full table are another matter.)
NewestKept ==
    \A b \in Blocks \ aliased :
        owed[b] /\ disk[b] /= newest[b] =>
            \E h \in Cached : /\ bh[h].blk = b /\ bh[h].ver = newest[b]
                              /\ bh[h].rec /\ (bh[h].dirty \/ InFlight(h) > 0
                                               \/ At({"write", "sync"}, "locked"))

\* sync_dirty_buffer and flush_dirty_buffers return 0 only if what they
\* submitted reached the device: sync_dirty_buffer also notices a write that
\* submit_bh refuses.  Of the other blocks that flush_dirty_buffers found to be
\* written, each reached the device too, unless submit_bh refused its write, or
\* that failed in, or was called off by, another call (lapsed): these are not
\* reported.
SyncHonest ==
    Depth > 0 /\ Top.pc = "ret" /\ ~Top.err =>
        /\ Top.op = "sync" =>
             \A w \in Top.sub : w[1] \in aliased \/ disk[w[1]] >= w[2]
        /\ Top.op = "flush" =>
             /\ \A w \in Top.sub : w[2] \in aliased \/ disk[w[2]] >= w[3]
             /\ \A w \in Top.asked :
                  w[1] \in aliased \cup lapsed \/ disk[w[1]] >= w[2]

\* When a write with PREFLUSH|FUA completes, it and every block the device
\* had accepted before it was submitted survive power loss.
BarrierDurable ==
    Depth > 0 /\ Top.op = "drain" /\ Top.pc = "finish" /\ Top.ok =>
        \A i \in Bios(Top.batch) :
            Top.batch[i].kind = "barrier" =>
                /\ \A b \in Blocks \ aliased : media[b] >= Top.batch[i].seen[b]
                /\ media[bh[Top.batch[i].h].blk] = disk[bh[Top.batch[i].h].blk]

\* Every call returns: the wait loops of lock_buffer and wait_on_buffer drain
\* what they wait for.
CallReturns == (stack /= <<>>) ~> (stack = <<>>)
=============================================================================
