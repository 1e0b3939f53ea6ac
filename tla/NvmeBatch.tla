------------------------------ MODULE NvmeBatch ------------------------------
(***************************************************************************)
(* How a batch of disk requests becomes NVMe commands: neighbours merged   *)
(* into one transfer, long runs split at the controller's limit, the rest  *)
(* issued in parallel in groups (nvme_block_disk_read_batch,               *)
(* nvme_block_disk_write_batch and nvme_block_disk_write_parallel of       *)
(* linux_nvme.c).  Sizes, sectors and buffer addresses count blocks.       *)
(***************************************************************************)
EXTENDS Integers, Sequences, FiniteSets, FiniteSetsExt, SequencesExt

CONSTANTS
    Sectors,      \* 0 .. the last sector
    Buffers,      \* 0 .. the last block of caller memory
    MaxLen,       \* longest request
    MaxRequests,  \* NVME_BLOCK_WRITE_BATCH_MAX
    ParallelMax,  \* NVME_BLOCK_WRITE_PARALLEL_MAX
    MaxTransfer   \* max_hw_sectors of the queue

VARIABLES op, batch, disk, mem, rounds, flight, result

vars == <<op, batch, disk, mem, rounds, flight, result>>

\* The block i of the caller's memory, and of the disk, before the call.
OldMem(i) == 100 + i
OldDisk(i) == i

Request == [sec : Sectors, buf : Buffers, len : 0 .. MaxLen]
InRange(r) ==
    /\ r.len = 0 \/ r.sec + r.len - 1 \in Sectors
    /\ r.len = 0 \/ r.buf + r.len - 1 \in Buffers

(***************************************************************************)
(* The plan: a sequence of rounds, a round a sequence of commands issued   *)
(* together, a command a sequence of <<sector, buffer block>> transfers.   *)
(* The empty round stands for a refusal with -EINVAL at that point.        *)
(***************************************************************************)
Total(q) == FoldLeft(LAMBDA n, r : n + r.len, 0, q)

Blocks(r) == [i \in 1 .. r.len |-> <<r.sec + i - 1, r.buf + i - 1>>]
\* One transfer between the run of sectors and the run of memory that start
\* where the first request does.
Whole(q) ==
    Blocks([sec |-> q[1].sec, buf |-> q[1].buf, len |-> Total(q)])
MergeAtStart(q) ==
    LET r == q[Len(q)]
    IN  [i \in 1 .. Total(q) |->
            <<q[1].sec + i - 1, r.buf + ((i - 1) % r.len)>>]
\* The transfer from a copy of the requests' buffers laid end to end.
Merge(q) == FlattenSeq([i \in 1 .. Len(q) |-> Blocks(q[i])])

Adjacent(q) == \A i \in 1 .. Len(q) - 1 : q[i + 1].sec = q[i].sec + q[i].len
AdjacentBuffers(q) ==
    \A i \in 1 .. Len(q) - 1 : q[i + 1].buf = q[i].buf + q[i].len

Refused == << <<>> >>
Single(c) == << <<c>> >>

Parallel(q) ==
    IF \E i \in 1 .. Len(q) : q[i].len = 0 THEN Refused
    ELSE << [i \in 1 .. Len(q) |-> Blocks(q[i])] >>

\* Groups of at most ParallelMax requests, in order.
Chunks(q) ==
    [k \in 1 .. (Len(q) + ParallelMax - 1) \div ParallelMax |->
        SubSeq(q, (k - 1) * ParallelMax + 1, Min({Len(q), k * ParallelMax}))]

\* Neighbours on the disk and in memory that fit one transfer.
Mergeable(q) ==
    /\ \A i \in 1 .. Len(q) : q[i].len \in 1 .. MaxTransfer
    /\ Adjacent(q) /\ AdjacentBuffers(q) /\ Total(q) <= MaxTransfer

ReadGroup(q) ==
    IF Len(q) = 1 THEN (IF q[1].len = 0 THEN Refused ELSE Single(Blocks(q[1])))
    ELSE IF Mergeable(q) THEN Single(Whole(q))
    ELSE Parallel(q)

ReadPlan(q) ==
    IF Mergeable(q) \/ Len(q) <= ParallelMax THEN ReadGroup(q)
    ELSE LET c == Chunks(q)
         IN  FlattenSeq([k \in 1 .. Len(c) |-> ReadGroup(c[k])])

\* A contiguous run cut into pieces that fit a transfer, each as long as can
\* be.
Runs(q) ==
    LET piece(i) == Max({j \in i .. Len(q) :
                            Total(SubSeq(q, i, j)) <= MaxTransfer})
        from[i \in 1 .. Len(q) + 1] ==
            IF i > Len(q) THEN <<>>
            ELSE <<SubSeq(q, i, piece(i))>> \o from[piece(i) + 1]
    IN  from[1]

WriteGroup(q) ==
    IF Len(q) = 1 THEN Single(Blocks(q[1]))
    ELSE IF Mergeable(q) THEN Single(Whole(q))
    ELSE IF Adjacent(q)
    THEN LET r == Runs(q) IN [k \in 1 .. Len(r) |-> <<Merge(r[k])>>]
    ELSE Parallel(q)

WritePlan(q) ==
    IF \E i \in 1 .. Len(q) : q[i].len \notin 1 .. MaxTransfer THEN Refused
    ELSE IF Adjacent(q) \/ Len(q) <= ParallelMax THEN WriteGroup(q)
    ELSE LET c == Chunks(q)
         IN  FlattenSeq([k \in 1 .. Len(c) |-> WriteGroup(c[k])])

Init ==
    /\ op \in {"read", "write"}
    /\ batch \in UNION {[1 .. n -> {r \in Request : InRange(r)}] :
                           n \in 2 .. MaxRequests}
    /\ disk = [s \in Sectors |-> OldDisk(s)]
    /\ mem = [b \in Buffers |-> OldMem(b)]
    /\ rounds = IF op = "read" THEN ReadPlan(batch) ELSE WritePlan(batch)
    /\ flight = <<>> /\ result = "running"

Issue ==
    /\ result = "running" /\ flight = <<>> /\ rounds # <<>>
    /\ rounds' = Tail(rounds)
    /\ flight' = Head(rounds)
    /\ result' = IF Head(rounds) = <<>> THEN "failed" ELSE result
    /\ UNCHANGED <<op, batch, disk, mem>>

Transfer(c) ==
    IF op = "write"
    THEN /\ disk' = [s \in Sectors |->
                       LET hit == {i \in 1 .. Len(c) : c[i][1] = s}
                       IN  IF hit = {} THEN disk[s] ELSE mem[c[Max(hit)][2]]]
         /\ mem' = mem
    ELSE /\ mem' = [b \in Buffers |->
                      LET hit == {i \in 1 .. Len(c) : c[i][2] = b}
                      IN  IF hit = {} THEN mem[b] ELSE disk[c[Max(hit)][1]]]
         /\ disk' = disk

\* The controller finishes one of the commands in flight; one that fails may
\* have transferred its data or not.
Finish(i, ok) ==
    /\ IF ok THEN Transfer(flight[i])
       ELSE Transfer(flight[i]) \/ UNCHANGED <<disk, mem>>
    /\ flight' = RemoveAt(flight, i)
    /\ result' = IF ok THEN result ELSE "failing"
    /\ UNCHANGED <<op, batch, rounds>>

\* All commands of a round are waited for before the result is looked at.
Return ==
    /\ flight = <<>>
    /\ \/ result = "failing" /\ result' = "failed"
       \/ result = "running" /\ rounds = <<>> /\ result' = "ok"
    /\ UNCHANGED <<op, batch, disk, mem, rounds, flight>>

Next ==
    \/ Issue
    \/ \E i \in 1 .. Len(flight), ok \in BOOLEAN : Finish(i, ok)
    \/ Return

Spec == Init /\ [][Next]_vars

(***************************************************************************)
(* Properties.                                                             *)
(***************************************************************************)
TypeOK ==
    /\ disk \in [Sectors -> Int] /\ mem \in [Buffers -> Int]
    /\ result \in {"running", "failing", "ok", "failed"}
    /\ \A k \in 1 .. Len(rounds) : Len(rounds[k]) <= ParallelMax

Touch(r, s, b) == \E i \in 0 .. r.len - 1 : r.sec + i = s /\ r.buf + i = b
Overlaps(a, alen, b, blen) == a < b + blen /\ b < a + alen
Disjoint ==
    \A i, j \in 1 .. Len(batch) :
        i < j => /\ ~Overlaps(batch[i].sec, batch[i].len,
                              batch[j].sec, batch[j].len)
                 /\ ~Overlaps(batch[i].buf, batch[i].len,
                              batch[j].buf, batch[j].len)

\* A batch of disjoint writes that reports success has put every block of
\* every request where the request says, and changed nothing else, however it
\* was merged, split, grouped and reordered.
WritesLand ==
    op = "write" /\ result = "ok" /\ Disjoint =>
        \A s \in Sectors :
            disk[s] = IF \E i \in 1 .. Len(batch), b \in Buffers :
                            Touch(batch[i], s, b)
                      THEN OldMem(CHOOSE b \in Buffers :
                             \E i \in 1 .. Len(batch) : Touch(batch[i], s, b))
                      ELSE OldDisk(s)

\* The same for reads into disjoint buffers.
ReadsLand ==
    op = "read" /\ result = "ok" /\ Disjoint =>
        \A b \in Buffers :
            mem[b] = IF \E i \in 1 .. Len(batch), s \in Sectors :
                            Touch(batch[i], s, b)
                     THEN OldDisk(CHOOSE s \in Sectors :
                            \E i \in 1 .. Len(batch) : Touch(batch[i], s, b))
                     ELSE OldMem(b)

\* No write command is longer than the controller takes.
WritesFit ==
    op = "write" => \A k \in 1 .. Len(flight) : Len(flight[k]) <= MaxTransfer

\* A write batch with an invalid request anywhere writes nothing, although the
\* valid requests before it may fill whole groups.
RefusedWhole ==
    op = "write" /\ result \in {"ok", "failed"}
      /\ (\E i \in 1 .. Len(batch) : batch[i].len = 0)
        => result = "failed" /\ \A s \in Sectors : disk[s] = OldDisk(s)
=============================================================================
