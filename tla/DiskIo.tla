-------------------------------- MODULE DiskIo --------------------------------
(***************************************************************************)
(* Disks of the block subsystem: registration and limits (block.c), the    *)
(* checked read, write, flush and batch calls and their fall-backs, and    *)
(* the staging of linux_block.c: reads land in one shared, mapped staging  *)
(* buffer and are copied out, inside a read window of the caller or one    *)
(* borrowed for the call.                                                  *)
(*                                                                         *)
(* The device is external: it performs the commands of a batch in any      *)
(* order, may fail any of them, and keeps written sectors in a volatile    *)
(* cache until a flush or a forced-unit-access write; `stable' is what a    *)
(* power failure leaves.  A sector holds the number of the call that wrote *)
(* it.                                                                     *)
(***************************************************************************)
EXTENDS Integers, Sequences, FiniteSets, FiniteSetsExt

CONSTANTS
    NSectors,   \* sectors of the medium
    StageLen,   \* KB_LINUX_DMA_READ_STAGING_TOTAL_SIZE in sectors
    OneStage,   \* KB_LINUX_DMA_READ_STAGING_SIZE in sectors
    MaxLen,     \* bound: sectors of one request
    MaxBatch,   \* bound: requests of a batch
    MaxCalls,   \* bound: writing calls
    Drivers     \* the drivers considered: sets of implemented operations

VARIABLES
    disk,      \* the kb_block_disk_state and its queue's limits
    ops,       \* what the driver implements beside read and write
    stable,    \* what each sector holds without power
    cache,     \* what it reads as
    call,      \* the call in progress
    staging,   \* the staging buffer
    scope,     \* the first sector's buffer belongs to a read window, or NoScope
    win,       \* nested begins of the cached DMA window
    calls,     \* writing calls so far
    acked,     \* the last acknowledged write of each sector
    promised   \* the last write promised to be on stable storage

vars == <<disk, ops, stable, cache, call, staging, scope, win, calls, acked, promised>>

Sectors == 0 .. NSectors - 1
Unknown == [k \in 0 .. StageLen - 1 |-> -1]  \* bytes of some earlier read
Idle == [op |-> "idle", reqs |-> <<>>, fua |-> FALSE, mode |-> "none", borrowed |-> FALSE,
         left |-> {}, seq |-> FALSE, flush |-> FALSE, stride |-> 0, bufs |-> <<>>, status |-> 0]
Requests == [s : Sectors, n : 1 .. MaxLen]
Batches == UNION {[1 .. k -> Requests] : k \in 1 .. MaxBatch}
Touched(r) == r.s .. r.s + r.n - 1

Init ==
    /\ ops \in Drivers
    /\ \E lbs \in {1, 2}, fua \in {FALSE, "flags" \in ops} :  \* the limits the driver set
         disk = [reg |-> TRUE, dead |-> FALSE, ro |-> FALSE, cap |-> NSectors, lbs |-> lbs,
                 fua |-> fua]
    /\ stable = [s \in Sectors |-> 0] /\ cache = stable
    /\ call = Idle /\ staging = Unknown
    /\ scope = FALSE /\ win = 0 /\ calls = 0
    /\ acked = stable /\ promised = stable

(***************************************************************************)
(* The disk's state.                                                       *)
(***************************************************************************)
\* The registration and the setters of the disk, between two calls.
Configure ==
    /\ call = Idle
    /\ \/ ~disk.reg /\ ~disk.dead /\ disk' = [disk EXCEPT !.reg = TRUE]
       \/ disk.reg /\ disk' = [disk EXCEPT !.reg = FALSE]
       \/ disk.reg /\ disk' = [disk EXCEPT !.dead = TRUE, !.reg = FALSE]
       \/ \E c \in {NSectors, NSectors - 1} \ {disk.cap} : disk' = [disk EXCEPT !.cap = c]
       \/ disk' = [disk EXCEPT !.ro = ~@]
    /\ UNCHANGED <<ops, stable, cache, call, staging, scope, win, calls, acked, promised>>

\* disk_io_range_valid
Valid(r) == r.s + r.n <= disk.cap /\ r.s % disk.lbs = 0 /\ r.n % disk.lbs = 0

\* The checks every call begins with.
Usable == disk.reg /\ ~disk.dead
MayWrite == Usable /\ ~disk.ro

(***************************************************************************)
(* Reads.                                                                  *)
(***************************************************************************)
\* kb_linux_block_dma_read_window_begin and _end
ScopeBegin ==
    /\ call = Idle /\ ~scope
    /\ scope' = TRUE /\ win' = win + 1
    /\ UNCHANGED <<disk, ops, stable, cache, call, staging, calls, acked, promised>>
ScopeEnd ==
    /\ call = Idle /\ scope
    /\ scope' = FALSE /\ win' = win - 1
    /\ UNCHANGED <<disk, ops, stable, cache, call, staging, calls, acked, promised>>

\* The slots of a batch in the staging buffer: the longest request's length
\* apart.
Stride(rs) == Max({rs[i].n : i \in DOMAIN rs})
Fits(rs) == Len(rs) <= StageLen \div Stride(rs)

\* disk_read: one request, staged when it lies in the scope's target (inside)
\* or no scope is active and a window could be borrowed, else direct.
Read(r, inside, borrows) ==
    /\ call = Idle /\ Usable /\ Valid(r)
    /\ LET mode == IF scope /\ inside /\ r.n <= OneStage THEN "staged"
                   ELSE IF ~scope /\ borrows /\ r.n <= OneStage THEN "staged" ELSE "direct"
           take == mode = "staged" /\ ~scope
       IN  /\ call' = [Idle EXCEPT !.op = "read", !.reqs = <<r>>, !.mode = mode, !.left = {1},
                                   !.borrowed = take, !.stride = r.n, !.bufs = <<<<>>>>]
           /\ win' = IF take THEN win + 1 ELSE win
    /\ UNCHANGED <<disk, ops, stable, cache, staging, scope, calls, acked, promised>>

\* disk_read_batch: in parallel into the slots of the staging buffer.
ParallelRead(rs) ==
    /\ "read_batch" \in ops /\ Fits(rs) /\ \A i \in DOMAIN rs : rs[i].n <= OneStage
    /\ call' = [Idle EXCEPT !.op = "read", !.reqs = rs, !.mode = "staged",
                            !.left = DOMAIN rs, !.borrowed = ~scope, !.stride = Stride(rs),
                            !.bufs = [i \in DOMAIN rs |-> <<>>]]
    /\ win' = IF scope THEN win ELSE win + 1
\* Without a batch operation, or with slots that do not fit: one read after
\* the other, up to the first failure.
SerialRead(rs) ==
    /\ "read_batch" \notin ops \/ (~Fits(rs) /\ \A i \in DOMAIN rs : rs[i].n <= OneStage)
    /\ call' = [Idle EXCEPT !.op = "read", !.reqs = rs, !.mode = "direct", !.seq = TRUE,
                            !.left = DOMAIN rs, !.bufs = [i \in DOMAIN rs |-> <<>>]]
    /\ UNCHANGED win
ReadBatch(rs) ==
    /\ call = Idle /\ Usable /\ Len(rs) >= 2 /\ \A i \in DOMAIN rs : Valid(rs[i])
    /\ ParallelRead(rs) \/ SerialRead(rs)
    /\ UNCHANGED <<disk, ops, stable, cache, staging, scope, calls, acked, promised>>

\* The device reads one request into its slot, or the buffer itself.
DevRead(i) ==
    LET r == call.reqs[i] base == (i - 1) * call.stride
    IN  /\ call.op = "read" /\ i \in call.left /\ (call.seq => i = Min(call.left))
        /\ IF call.mode = "staged"
           THEN /\ staging' = [k \in DOMAIN staging |->
                                 IF k - base \in 0 .. r.n - 1 THEN cache[r.s + (k - base)]
                                 ELSE staging[k]]
                /\ call' = [call EXCEPT !.left = @ \ {i}]
           ELSE /\ call' = [call EXCEPT !.left = @ \ {i},
                                        !.bufs[i] = [k \in 1 .. r.n |-> cache[r.s + k - 1]]]
                /\ UNCHANGED staging
        /\ UNCHANGED <<disk, ops, stable, cache, scope, win, calls, acked, promised>>

\* The device fails a command.
DevFails(i) ==
    /\ call.op \in {"read", "write"} /\ i \in call.left /\ call.status = 0
    /\ call.seq => i = Min(call.left)
    /\ call' = [call EXCEPT !.status = -5,
                            !.left = IF call.seq THEN {} ELSE @ \ {i}]
    /\ UNCHANGED <<disk, ops, stable, cache, staging, scope, win, calls, acked, promised>>

AfterCopy == IF call.borrowed THEN win - 1 ELSE win
\* The commands are done: staged data is copied out, a borrowed window ends.
ReadCopy ==
    /\ call.op = "read" /\ call.left = {}
    /\ call' = [call EXCEPT !.op = "return",
                            !.bufs = IF call.status = 0 /\ call.mode = "staged"
                                     THEN [i \in DOMAIN call.reqs |->
                                             [k \in 1 .. call.reqs[i].n |->
                                                staging[(i - 1) * call.stride + k - 1]]]
                                     ELSE @]
    /\ win' = AfterCopy
    /\ UNCHANGED <<disk, ops, stable, cache, staging, scope, calls, acked, promised>>

(***************************************************************************)
(* Writes.                                                                 *)
(***************************************************************************)
\* How disk_write_flags makes one write durable: in the command, when driver
\* and queue have it, else by a flush after it (refused without one, once
\* the data is written).
Native == "flags" \in ops /\ disk.fua
WriteFlags(r, fua) ==
    /\ call = Idle /\ MayWrite /\ Valid(r) /\ calls < MaxCalls
    /\ call' = [Idle EXCEPT !.op = "write", !.reqs = <<r>>, !.fua = fua, !.left = {1},
                            !.mode = IF fua /\ Native THEN "fua" ELSE "plain",
                            !.flush = fua /\ ~Native]
    /\ calls' = calls + 1
    /\ UNCHANGED <<disk, ops, stable, cache, staging, scope, win, acked, promised>>

\* disk_write_batch: in parallel, or one by one up to the first failure.
WriteBatch(rs) ==
    /\ call = Idle /\ MayWrite /\ calls < MaxCalls
    /\ Len(rs) >= 2 /\ \A i \in DOMAIN rs : Valid(rs[i])
    /\ call' = [Idle EXCEPT !.op = "write", !.reqs = rs, !.left = DOMAIN rs, !.mode = "plain",
                            !.seq = "write_batch" \notin ops]
    /\ calls' = calls + 1
    /\ UNCHANGED <<disk, ops, stable, cache, staging, scope, win, acked, promised>>

StatusFirst == call.status
DevWrite(i) ==
    LET r == call.reqs[i]
        put(m) == [s \in Sectors |-> IF s \in Touched(r) THEN calls ELSE m[s]]
    IN  /\ call.op = "write" /\ i \in call.left
        /\ call.seq => i = Min(call.left)
        /\ cache' = put(cache)
        /\ stable' = IF call.mode = "fua" \/ "flush" \notin ops THEN put(stable) ELSE stable
        /\ call' = [call EXCEPT !.left = @ \ {i}, !.status = StatusFirst]
        /\ UNCHANGED <<disk, ops, staging, scope, win, calls, acked, promised>>

\* The commands are done: the flush of an emulated forced-unit-access write.
FlushAfterNever == FALSE  \* a plausible slip
FlushAfter == call.flush /\ call.status = 0
WriteDone ==
    /\ call.op = "write" /\ call.left = {}
    /\ call' = IF FlushAfter
               THEN IF "flush" \in ops THEN [call EXCEPT !.op = "flush"]
                    ELSE [call EXCEPT !.op = "return", !.status = -95]
               ELSE [call EXCEPT !.op = "return"]
    /\ UNCHANGED <<disk, ops, stable, cache, staging, scope, win, calls, acked, promised>>

\* disk_flush; a driver without a flush has no volatile cache.
Flush ==
    /\ call = Idle /\ Usable
    /\ call' = [Idle EXCEPT !.op = IF "flush" \in ops THEN "flush" ELSE "return", !.flush = TRUE]
    /\ UNCHANGED <<disk, ops, stable, cache, staging, scope, win, calls, acked, promised>>

DevFlush ==
    /\ call.op = "flush"
    /\ \/ stable' = cache /\ call' = [call EXCEPT !.op = "return"]
       \/ UNCHANGED stable /\ call' = [call EXCEPT !.op = "return", !.status = -5]
    /\ UNCHANGED <<disk, ops, cache, staging, scope, win, calls, acked, promised>>

\* A call that the checks refuse changes nothing; it is not an action.  The
\* return of a call that was made:
Written == UNION {Touched(call.reqs[i]) : i \in DOMAIN call.reqs}
Return ==
    /\ call.op = "return"
    /\ LET wrote == call.status = 0 /\ call.mode \in {"plain", "fua"}
       IN  /\ acked' = [s \in Sectors |-> IF wrote /\ s \in Written THEN calls ELSE acked[s]]
           /\ promised' = [s \in Sectors |->
                IF wrote /\ call.fua /\ s \in Written THEN calls
                ELSE IF call.status = 0 /\ call.flush /\ call.reqs = <<>> THEN acked[s]
                ELSE promised[s]]
    /\ call' = Idle /\ staging' = Unknown
    /\ UNCHANGED <<disk, ops, stable, cache, scope, win, calls>>

Next ==
    \/ Configure \/ ScopeBegin \/ ScopeEnd
    \/ \E r \in Requests, inside, borrows \in BOOLEAN : Read(r, inside, borrows)
    \/ \E rs \in Batches : ReadBatch(rs) \/ WriteBatch(rs)
    \/ \E i \in 1 .. MaxBatch : DevRead(i) \/ DevFails(i) \/ DevWrite(i)
    \/ \E r \in Requests, fua \in BOOLEAN : WriteFlags(r, fua)
    \/ ReadCopy \/ WriteDone \/ Flush \/ DevFlush \/ Return

Spec == Init /\ [][Next]_vars

-----------------------------------------------------------------------------
\* Types; the slots of a staged read lie inside the staging buffer, and stable
\* storage is never newer than what reads return.
TypeOK ==
    /\ disk.cap \in 0 .. NSectors /\ disk.lbs \in {1, 2}
    /\ win \in 0 .. 2 /\ calls \in 0 .. MaxCalls
    /\ call.op \in {"idle", "read", "write", "flush", "return"}
    /\ call.mode = "staged" => Len(call.reqs) * call.stride <= StageLen
    /\ \A s \in Sectors : stable[s] <= cache[s] /\ cache[s] <= calls

\* A successful read returns in each buffer the sectors it asked for, whatever
\* the order the commands of a batch end in and whatever their lengths (the
\* staging slots of shim_blk_disk_read_batch).
BuffersTrue ==
    (call.op = "return" /\ call.status = 0 /\ call.mode \in {"staged", "direct"}) =>
    \A i \in DOMAIN call.reqs : call.bufs[i] =
        [k \in 1 .. call.reqs[i].n |-> cache[call.reqs[i].s + k - 1]]

\* What a successful flush or forced-unit-access write promised survives a
\* power failure, whether the driver has the command or it is emulated.
Durable == \A s \in Sectors : promised[s] <= stable[s]

\* A write call that returned 0 wrote all its sectors, also in a batch of
\* which some command failed.
AckedWritten == \A s \in Sectors : acked[s] <= cache[s]

\* The staging buffer is mapped while the device reads into it, and outside of
\* calls only the caller's window is open (dma_read_window_begin and _end,
\* block_staged_read_borrow, also on failures).
WindowHeld ==
    /\ (call.op = "read" /\ call.mode = "staged") => win > 0
    /\ call.op \in {"idle", "write", "flush"} => win = (IF scope THEN 1 ELSE 0)

\* Sectors beyond the capacity, and any sector of a disk that is read-only,
\* dead or unregistered, are never changed.
Protected ==
    \A s \in Sectors :
        (disk.ro \/ disk.dead \/ ~disk.reg \/ s >= disk.cap) => cache'[s] = cache[s]
=============================================================================
