------------------------------- MODULE NvmeIo -------------------------------
(***************************************************************************)
(* Block requests over the NVMe completion queue: the request cache, the   *)
(* tag table and the PRP-list (auxiliary DMA) cache of linux_block.c and   *)
(* block.c, and the submit, drain, time out and free sequence of           *)
(* linux_nvme.c.                                                           *)
(*                                                                         *)
(* The process is one thread and a wait for a completion runs no handler,  *)
(* so at most one call is in progress; what runs beside it is the          *)
(* controller, which completes commands in any order and at any time, also *)
(* long after the deadline of the call that issued them.                   *)
(*                                                                         *)
(* A command carries the request it was built for.  "stale" marks a        *)
(* command whose request has been freed since: the code cannot see it, the *)
(* properties are about it.                                                *)
(***************************************************************************)
EXTENDS Integers, FiniteSets, Sequences, FiniteSetsExt, SequencesExt

CONSTANTS
    Requests,    \* memory for shim_linux_request objects
    NoReq,       \* NULL
    NrTags,      \* KB_BLOCK_SUBSYSTEM_TAGS_PER_QUEUE; tag 0 is never handed out
    CacheMax,    \* KB_LINUX_BLOCK_REQUEST_CACHE_MAX
    NAux,        \* KB_LINUX_CACHED_AUX_DMA_MAX
    BatchMax,    \* NVME_BLOCK_READ_PARALLEL_MAX
    Depth,       \* entries of the completion queue
    Held,        \* bound: commands the controller holds at a time
    Timeouts     \* the paths whose wait may reach its deadline

VARIABLES
    req,      \* the shim_linux_request objects
    rqs,      \* tag -> request, the table a completion is looked up in
    nextTag,  \* where the next tag search starts
    cache,    \* cached_requests, a stack
    aux,      \* cached_aux_dma: [mem, owner]
    call,     \* the disk I/O call in progress
    sq,       \* commands written to the submission queue, doorbell not rung
    dev,      \* commands the controller holds
    cq,       \* completion queue memory: [ph, cmd, ok]
    head, phase,    \* cq_head and cq_phase of the driver
    tail, tphase,   \* the controller's side
    alive     \* the controller is enabled

vars == <<req, rqs, nextTag, cache, aux, call, sq, dev, cq, head, phase,
          tail, tphase, alive>>

Tags    == 1 .. NrTags - 1
Private == NAux + 1          \* a PRP list allocated for this request alone
NoCmd   == [r |-> NoReq, tag |-> 0, gen |-> 0, aux |-> 0, stale |-> FALSE]
Commands ==
    [r : Requests, tag : Tags, gen : 0 .. 15, aux : 0 .. Private,
     stale : BOOLEAN]
Idle ==
    [stage |-> "idle", path |-> "single", n |-> 0, pend |-> <<>>, sub |-> 0,
     at |-> 0, drained |-> FALSE, res |-> "ok"]
Blank ==
    [st |-> "free", tag |-> 0, gen |-> 0, done |-> "no", ok |-> TRUE,
     dma |-> FALSE, aux |-> 0]
EmptyCq == [i \in 0 .. Depth - 1 |-> [ph |-> 0, cmd |-> NoCmd, ok |-> TRUE]]

Init ==
    /\ req = [r \in Requests |-> Blank]
    /\ rqs = [t \in Tags |-> NoReq] /\ nextTag = 1
    /\ cache = <<>>
    /\ aux = [i \in 1 .. NAux |-> [mem |-> FALSE, owner |-> NoReq]]
    /\ call = Idle
    /\ sq = <<>> /\ dev = <<>>
    /\ cq = EmptyCq /\ head = 0 /\ phase = 1 /\ tail = 0 /\ tphase = 1
    /\ alive = TRUE

Live(r) == req[r].st \in {"held", "retained"}

(***************************************************************************)
(* Allocating and mapping a request.                                       *)
(***************************************************************************)
Begin(path, n) ==
    /\ call.stage = "idle"
    /\ path = "single" => n = 1
    /\ path = "batch" => n \in 2 .. BatchMax
    /\ call' = [Idle EXCEPT !.stage = "alloc", !.path = path, !.n = n]
    /\ UNCHANGED <<req, rqs, nextTag, cache, aux, sq, dev, cq, head, phase,
                   tail, tphase, alive>>

\* The tags in the order the search of alloc_tag visits them.
Search == [k \in 1 .. NrTags - 1 |-> ((nextTag + k - 2) % (NrTags - 1)) + 1]

FreeSteps == {k \in 1 .. NrTags - 1 : rqs[Search[k]] = NoReq}

NextTagOver(t) == t + 1
\* next_tag after handing out t.
NextTag(t) == IF t + 1 >= NrTags THEN 1 ELSE t + 1

Stack(r) == IF cache # <<>> THEN r = Last(cache) ELSE req[r].st = "free"

\* The PRP-list memory a request may be given: the first pooled page nobody
\* owns, else a new page in the first empty entry, else (pool exhausted or
\* out of memory) a private page.
AuxPick ==
    LET unowned == {i \in 1 .. NAux : aux[i].mem /\ aux[i].owner = NoReq}
        empty   == {i \in 1 .. NAux : ~aux[i].mem}
    IN  IF unowned # {} THEN {Min(unowned)}
        ELSE (IF empty # {} THEN {Min(empty)} ELSE {}) \cup {Private}

TakeAux(a, r) ==
    IF a \in 1 .. NAux
    THEN [aux EXCEPT ![a] = [mem |-> TRUE, owner |-> r]] ELSE aux

Allocated == [call EXCEPT !.stage = IF Len(call.pend) + 1 = call.n
                                    THEN "submit" ELSE "alloc"]

\* One turn of the allocation loop that succeeds: a request from the cache or
\* fresh memory, zeroed; a tag nothing is bound to; its data mapped; a PRP
\* list when it spans more than two pages.
Alloc(r, a) ==
    /\ call.stage = "alloc"
    /\ Stack(r)
    /\ FreeSteps # {}
    /\ a \in {0} \cup AuxPick
    /\ LET t == Search[Min(FreeSteps)] IN
       /\ req' = [req EXCEPT ![r] = [Blank EXCEPT !.st = "held", !.tag = t,
                                     !.dma = TRUE, !.aux = a]]
       /\ nextTag' = NextTag(t)
    /\ aux' = TakeAux(a, r)
    /\ cache' = IF cache = <<>> THEN cache ELSE Front(cache)
    /\ call' = [Allocated EXCEPT !.pend = Append(@, r)]
    /\ UNCHANGED <<rqs, sq, dev, cq, head, phase, tail, tphase, alive>>

\* The mapping fails: what was mapped is undone, the request stays pending to
\* be freed, and nothing of the call is submitted.
AllocMapFails(r) ==
    /\ call.stage = "alloc"
    /\ Stack(r)
    /\ FreeSteps # {}
    /\ LET t == Search[Min(FreeSteps)] IN
       /\ req' = [req EXCEPT ![r] = [Blank EXCEPT !.st = "held", !.tag = t]]
       /\ nextTag' = NextTag(t)
    /\ cache' = IF cache = <<>> THEN cache ELSE Front(cache)
    /\ call' = [call EXCEPT !.pend = Append(@, r), !.stage = "free",
                            !.at = Len(call.pend) + 1, !.res = "err"]
    /\ UNCHANGED <<rqs, aux, sq, dev, cq, head, phase, tail, tphase, alive>>

\* No tag, or no memory, for the request.  A request taken from the cache for
\* which there is no tag goes back to the heap, not to the cache.
AllocFails ==
    /\ call.stage = "alloc"
    /\ IF FreeSteps = {} /\ cache # <<>>
       THEN /\ req' = [req EXCEPT ![Last(cache)] = Blank]
            /\ cache' = Front(cache)
       ELSE /\ FreeSteps = {} \/ cache = <<>>
            /\ UNCHANGED <<req, cache>>
    /\ call' = [call EXCEPT !.stage = "free", !.at = Len(call.pend),
                            !.res = "err"]
    /\ UNCHANGED <<rqs, nextTag, aux, sq, dev, cq, head, phase, tail, tphase,
                   alive>>

(***************************************************************************)
(* Submitting.  Every request is bound to its tag, then queue_rq writes    *)
(* the command; the doorbell is rung for the last one, or by commit_rqs    *)
(* when a submission fails after some have been written.                   *)
(***************************************************************************)
Command(r) ==
    [r |-> r, tag |-> req[r].tag, gen |-> (req[r].gen + 1) % 16,
     aux |-> req[r].aux, stale |-> FALSE]

Submit ==
    /\ call.stage = "submit"
    /\ Len(sq) + Len(dev) < Held
    /\ LET r    == call.pend[call.sub + 1]
           last == call.sub + 1 = call.n
       IN  /\ rqs' = [rqs EXCEPT ![req[r].tag] = r]
           /\ req' = [req EXCEPT ![r].gen = (@ + 1) % 16, ![r].done = "no"]
           /\ sq'  = IF last THEN <<>> ELSE Append(sq, Command(r))
           /\ dev' = IF last THEN dev \o Append(sq, Command(r)) ELSE dev
           /\ call' = [call EXCEPT !.sub = @ + 1, !.at = 1,
                                   !.stage = IF last THEN "wait" ELSE @]
    /\ UNCHANGED <<nextTag, cache, aux, cq, head, phase, tail, tphase, alive>>

AfterRefusal ==
    [call EXCEPT !.res = "err",
                 !.stage = IF call.sub = 0 THEN "free" ELSE "wait",
                 !.at = IF call.sub = 0 THEN call.n ELSE 1]

\* queue_rq refuses the command; the ones before it are committed.
SubmitRefused ==
    /\ call.stage = "submit"
    /\ LET r == call.pend[call.sub + 1] IN rqs' = [rqs EXCEPT ![req[r].tag] = r]
    /\ dev' = dev \o sq /\ sq' = <<>>
    /\ call' = AfterRefusal
    /\ UNCHANGED <<req, nextTag, cache, aux, cq, head, phase, tail, tphase,
                   alive>>

(***************************************************************************)
(* The controller.                                                         *)
(***************************************************************************)
Post(i, ok) ==
    /\ alive
    /\ (tail + 1) % Depth # head
    /\ cq' = [cq EXCEPT ![tail] = [ph |-> tphase, cmd |-> dev[i], ok |-> ok]]
    /\ dev' = RemoveAt(dev, i)
    /\ tail' = (tail + 1) % Depth
    /\ tphase' = IF tail + 1 = Depth THEN 1 - tphase ELSE tphase
    /\ UNCHANGED <<req, rqs, nextTag, cache, aux, call, sq, head, phase,
                   alive>>

(***************************************************************************)
(* Waiting: nvme_block_complete_execute for the request call.at.           *)
(***************************************************************************)
Visible == cq[head].ph = phase
Entry == cq[head]

Found ==
    /\ Entry.cmd.tag \in Tags     \* nothing is ever bound to tag 0
    /\ LET r == rqs[Entry.cmd.tag] IN r # NoReq /\ req[r].gen = Entry.cmd.gen

CompleteFound ==
    LET r == rqs[Entry.cmd.tag]
    IN  [req EXCEPT ![r].done = IF Entry.cmd.r = r /\ ~Entry.cmd.stale
                                THEN "own" ELSE "other",
                    ![r].ok = Entry.ok]

\* The head moves past the entry; the expected phase flips at the wrap.  The
\* entry keeps its phase bit (what else it holds is never read again).
Consume ==
    /\ head' = (head + 1) % Depth
    /\ phase' = IF head + 1 = Depth THEN 1 - phase ELSE phase
    /\ cq' = [cq EXCEPT ![head].cmd = NoCmd, ![head].ok = TRUE]

Waited == call.pend[call.at]

\* The wait for one request returns; the first error is the call's result.
Returns(result) ==
    [call EXCEPT !.drained = FALSE,
        !.res = IF call.res = "ok" THEN result ELSE call.res,
        !.stage = IF call.at = call.sub THEN "free" ELSE "wait",
        !.at = IF call.at = call.sub THEN Len(call.pend) ELSE @ + 1]

Status(r) == IF req[r].ok THEN "ok" ELSE "err"

\* Take one visible entry.  Before the first one of a burst the request may
\* already be complete, and then nothing is drained.
Drain ==
    /\ call.stage = "wait"
    /\ call.drained \/ req[Waited].done = "no"
    /\ Visible /\ Found
    /\ req' = CompleteFound
    /\ Consume
    /\ call' = [call EXCEPT !.drained = TRUE]
    /\ UNCHANGED <<rqs, nextTag, cache, aux, sq, dev, tail, tphase, alive>>

\* The entry at the head names no bound request of its generation: the wait
\* fails and the entry stays at the head.
DrainInvalid ==
    /\ call.stage = "wait"
    /\ call.drained \/ req[Waited].done = "no"
    /\ Visible /\ ~Found
    /\ call' = Returns("err")
    /\ UNCHANGED <<req, rqs, nextTag, cache, aux, sq, dev, cq, head, phase,
                   tail, tphase, alive>>

WaitDone ==
    /\ call.stage = "wait"
    /\ req[Waited].done # "no"
    /\ call.drained => ~Visible
    /\ call' = Returns(Status(Waited))
    /\ UNCHANGED <<req, rqs, nextTag, cache, aux, sq, dev, cq, head, phase,
                   tail, tphase, alive>>

\* The burst did not contain the request: poll again.
PollAgain ==
    /\ call.stage = "wait"
    /\ req[Waited].done = "no" /\ call.drained /\ ~Visible
    /\ call' = [call EXCEPT !.drained = FALSE]
    /\ UNCHANGED <<req, rqs, nextTag, cache, aux, sq, dev, cq, head, phase,
                   tail, tphase, alive>>

Deadline ==
    /\ call.stage = "wait" /\ call.path \in Timeouts
    /\ req[Waited].done = "no" /\ ~call.drained /\ ~Visible
    /\ call' = Returns("err")
    /\ UNCHANGED <<req, rqs, nextTag, cache, aux, sq, dev, cq, head, phase,
                   tail, tphase, alive>>

(***************************************************************************)
(* Freeing, in reverse order, what the call allocated.                     *)
(***************************************************************************)
MarkStale(seq, r) ==
    [i \in 1 .. Len(seq) |->
        IF seq[i].r = r THEN [seq[i] EXCEPT !.stale = TRUE] ELSE seq[i]]

\* kb_blk_mq_free_request: off its tag, PRP list back to the pool, data
\* unmapped, the object to the cache if there is room.
Free(r) ==
    /\ rqs' = [t \in Tags |-> IF t = req[r].tag /\ rqs[t] = r
                              THEN NoReq ELSE rqs[t]]
    /\ aux' = [i \in 1 .. NAux |->
                 IF i = req[r].aux /\ aux[i].owner = r
                 THEN [aux[i] EXCEPT !.owner = NoReq] ELSE aux[i]]
    /\ IF Len(cache) < CacheMax
       THEN /\ cache' = Append(cache, r)
            /\ req' = [req EXCEPT ![r] = [Blank EXCEPT !.st = "cached"]]
       ELSE /\ cache' = cache
            /\ req' = [req EXCEPT ![r] = Blank]
    /\ dev' = MarkStale(dev, r)
    /\ cq' = [i \in 0 .. Depth - 1 |->
                IF cq[i].cmd.r = r THEN [cq[i] EXCEPT !.cmd.stale = TRUE]
                ELSE cq[i]]

\* A batch keeps a submitted request whose completion never came.
Kept(r) == call.path = "batch" /\ call.at <= call.sub /\ req[r].done = "no"

NextFree ==
    IF call.at <= 1 THEN Idle ELSE [call EXCEPT !.at = @ - 1]

FreeOneAlways ==
    /\ call.stage = "free" /\ call.at > 0
    /\ LET r == call.pend[call.at] IN Free(r)
    /\ call' = NextFree
    /\ UNCHANGED <<nextTag, sq, head, phase, tail, tphase, alive>>
FreeOne ==
    /\ call.stage = "free" /\ call.at > 0
    /\ LET r == call.pend[call.at] IN
       IF Kept(r)
       THEN /\ req' = [req EXCEPT ![r].st = "retained"]
            /\ UNCHANGED <<rqs, cache, aux, dev, cq>>
       ELSE Free(r)
    /\ call' = NextFree
    /\ UNCHANGED <<nextTag, sq, head, phase, tail, tphase, alive>>

FreeNone ==
    /\ call.stage = "free" /\ call.at = 0
    /\ call' = Idle
    /\ UNCHANGED <<req, rqs, nextTag, cache, aux, sq, dev, cq, head, phase,
                   tail, tphase, alive>>

(***************************************************************************)
(* Between calls: the driver's interrupt handler, which skips an entry it  *)
(* cannot match; a reset; the end of the tag set.                          *)
(***************************************************************************)
DriverIrq ==
    /\ call.stage = "idle"
    /\ Visible
    /\ req' = IF Found THEN CompleteFound ELSE req
    /\ Consume
    /\ UNCHANGED <<rqs, nextTag, cache, aux, call, sq, dev, tail, tphase,
                   alive>>

\* The controller is disabled and forgets its commands, both rings are zeroed,
\* and it is enabled again unless it does not become ready in time.
FreshRings ==
    /\ sq' = <<>> /\ dev' = <<>> /\ cq' = EmptyCq
    /\ head' = 0 /\ phase' = 1 /\ tail' = 0 /\ tphase' = 1

Reset ==
    /\ call.stage = "idle"
    /\ FreshRings
    /\ alive' \in BOOLEAN
    /\ UNCHANGED <<req, rqs, nextTag, cache, aux, call>>

\* The controller does not go down in time: the call gives up before it
\* touches the rings, and the controller has stopped or works on.
ResetTimesOut ==
    /\ call.stage = "idle" /\ alive
    /\ alive' \in BOOLEAN
    /\ UNCHANGED <<req, rqs, nextTag, cache, aux, call, sq, dev, cq, head, phase,
                   tail, tphase>>

\* The driver frees the tag set once the controller is disabled: the tag
\* table goes, and with it every pooled page and cached request nobody holds.
\* The driver's queues go as well; it clears the ones it makes for the next.
FreeTagSet ==
    /\ call.stage = "idle" /\ ~alive
    /\ rqs' = [t \in Tags |-> NoReq] /\ nextTag' = 1
    /\ aux' = [i \in 1 .. NAux |->
                 IF aux[i].owner = NoReq
                 THEN [mem |-> FALSE, owner |-> NoReq] ELSE aux[i]]
    /\ req' = [r \in Requests |->
                 IF req[r].st = "cached" THEN Blank ELSE req[r]]
    /\ cache' = <<>>
    /\ FreshRings
    /\ UNCHANGED <<call, alive>>

Begins == \E path \in {"single", "batch"}, n \in 1 .. BatchMax : Begin(path, n)
Posts  == \E i \in 1 .. Len(dev), ok \in BOOLEAN : Post(i, ok)

\* What the call in progress does.
Step ==
    \/ \E r \in Requests, a \in 0 .. Private : Alloc(r, a)
    \/ \E r \in Requests : AllocMapFails(r)
    \/ AllocFails
    \/ Submit \/ SubmitRefused
    \/ Drain \/ DrainInvalid \/ WaitDone \/ PollAgain \/ Deadline
    \/ FreeOne \/ FreeNone

Next == Begins \/ Step \/ Posts \/ DriverIrq \/ Reset \/ ResetTimesOut \/ FreeTagSet

Spec == Init /\ [][Next]_vars

\* The thread runs, a live controller completes the commands it holds.
FairSpec == Spec /\ WF_vars(Step) /\ WF_vars(Posts)

(***************************************************************************)
(* Properties.                                                             *)
(***************************************************************************)
TypeOK ==
    /\ req \in [Requests ->
         [st : {"free", "cached", "held", "retained"}, tag : 0 .. NrTags - 1,
          gen : 0 .. 15, done : {"no", "own", "other"}, ok : BOOLEAN,
          dma : BOOLEAN, aux : 0 .. Private]]
    /\ rqs \in [Tags -> Requests \cup {NoReq}] /\ nextTag \in Tags
    /\ cache \in Seq(Requests) /\ Len(cache) <= CacheMax
    /\ aux \in [1 .. NAux -> [mem : BOOLEAN, owner : Requests \cup {NoReq}]]
    /\ call.pend \in Seq(Requests) /\ call.sub \in 0 .. Len(call.pend)
    /\ sq \in Seq(Commands) /\ dev \in Seq(Commands)
    /\ head \in 0 .. Depth - 1 /\ tail \in 0 .. Depth - 1
    /\ phase \in {0, 1} /\ tphase \in {0, 1} /\ alive \in BOOLEAN

\* Commands that may still be completed.
Outstanding ==
    {sq[i] : i \in 1 .. Len(sq)} \cup {dev[i] : i \in 1 .. Len(dev)}

InBatch(r) == \E i \in 1 .. Len(call.pend) : call.pend[i] = r

\* Requests nobody will ever free: their tags are lost to the others.
Lost == {r \in Requests : req[r].st = "retained"}
TagsSuffice == Cardinality(Lost) + BatchMax <= NrTags - 1

\* As long as lost requests leave tags for a whole batch, a request is
\* completed by the completion of its own command, never by one that was
\* posted late for an earlier owner of its tag
\* (nvme_block_drain_io_completion looks the tag up in the table).
OwnCompletion == TagsSuffice => \A r \in Requests : req[r].done # "other"

\* While the controller holds a command, the request it was built for is not
\* freed: its data stays mapped, and its PRP list is not given to another.
DeviceMemory ==
    TagsSuffice => \A c \in Outstanding :
        /\ ~c.stale /\ Live(c.r) /\ req[c.r].dma
        /\ c.aux \in 1 .. NAux => aux[c.aux].owner = c.r

\* The pooled PRP pages and the requests that use them agree: a page has one
\* user, a page without user is free to reuse, and no page is owned by an
\* object in the cache or on the heap.
AuxExclusive ==
    /\ \A i \in 1 .. NAux :
         aux[i].owner # NoReq =>
           aux[i].mem /\ Live(aux[i].owner) /\ req[aux[i].owner].aux = i
    /\ \A r \in Requests :
         Live(r) /\ req[r].aux \in 1 .. NAux => aux[req[r].aux].owner = r

\* Nobody waits for a command the controller was not told of: by the time the
\* call waits, the doorbell covers everything written, also when a submission
\* in the middle of the batch was refused.
DoorbellRung == call.stage \in {"wait", "free", "idle"} => sq = <<>>

\* A call that reports success has seen the successful completion of every one
\* of its requests.
OkMeansDone ==
    call.stage = "free" /\ call.res = "ok" =>
        /\ call.sub = call.n /\ Len(call.pend) = call.n
        /\ \A i \in 1 .. call.n :
             i <= call.at => req[call.pend[i]].done # "no" /\ req[call.pend[i]].ok

\* As long as lost requests leave tags for a whole batch, two requests never
\* have the same tag, although a tag is reserved only at submission: each
\* submitted request is the one its tag finds.
TagsDistinct ==
    TagsSuffice =>
        \A i \in 1 .. Len(call.pend), r \in Requests :
            LET p == call.pend[i] IN
            /\ p # r /\ Live(p) /\ Live(r) /\ (InBatch(r) \/ rqs[req[r].tag] = r)
                 => req[p].tag # req[r].tag
            /\ call.stage = "wait" /\ i <= call.sub => rqs[req[p].tag] = p

\* Every call returns, whatever the controller does.
CallReturns == call.stage # "idle" ~> call.stage = "idle"
=============================================================================
