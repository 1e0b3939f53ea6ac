------------------------------ MODULE PageCache ------------------------------
(***************************************************************************)
(* The page cache of fs.c: a table of NSlots folios keyed by mapping and   *)
(* index, references, dirty and writeback flags, the marks of a mapping,   *)
(* reclaim of a slot when the table is full, writeback of a range through  *)
(* the filesystem's writepages and the bio drain, truncation and           *)
(* invalidation.  Folio contents are version numbers.                      *)
(*                                                                         *)
(* A folio's lock is left out: ReadAhead has the folios whose read is in   *)
(* progress.                                                               *)
(*                                                                         *)
(* One thread: `stack' holds the calls in progress.  The wait loops inside *)
(* writepages run deferred work, which may call in again (Nested).         *)
(***************************************************************************)
EXTENDS Integers, Sequences, FiniteSets, SequencesExt

CONSTANTS
    Mappings, Indexes,
    Folios,      \* storage for folios
    None,
    NSlots,      \* KB_FS_FILEMAP_FOLIO_CACHE_MAX
    Calls,       \* what the filesystem calls
    Nested,      \* what deferred work calls during writepages
    Reentrant,   \* it also makes folios while a caller is making one
    MaxVer,      \* bound: modifications of a page
    MaxHeld,     \* bound: references held by callers on a folio
    MaxFaults,   \* bound: failing writes
    MaxDepth     \* bound: calls in progress

Keys == Mappings \X Indexes

VARIABLES
    fo,       \* [Folios -> folio, or Free]
    held,     \* [Folios -> references of callers]
    mark,     \* [Mappings -> KB_FS_XARRAY_MARK_DIRTY]
    nrpages,  \* [Mappings -> nrpages field]
    wberr,    \* [Mappings -> an error was recorded with filemap_set_wb_err]
    disk,     \* [Keys -> version]
    queue,    \* write bios not yet drained, as folios
    last,     \* bio_last_drain_status /= 0
    stack,    \* calls in progress
    newest,   \* [Keys -> newest version written by a caller]
    owed,     \* [Keys -> it has to reach the disk]
    faults

vars == <<fo, held, mark, nrpages, wberr, disk, queue, last, stack, newest,
          owed, faults>>

Free == [key |-> None, cached |-> FALSE, ref |-> 0,
         dirty |-> FALSE, wb |-> FALSE, tow |-> FALSE, ver |-> 0]

Init ==
    /\ fo = [f \in Folios |-> Free] /\ held = [f \in Folios |-> 0]
    /\ mark = [m \in Mappings |-> FALSE] /\ nrpages = [m \in Mappings |-> 0]
    /\ wberr = mark /\ disk = [k \in Keys |-> 0]
    /\ queue = <<>> /\ last = FALSE /\ stack = <<>>
    /\ newest = disk /\ owed = [k \in Keys |-> FALSE] /\ faults = 0

Cached(t) == {f \in Folios : t[f].cached}
Of(t, m) == {f \in Cached(t) : t[f].key[1] = m}
At(t, k) == {f \in Cached(t) : t[f].key = k}
HasDirty(t, m) == \E f \in Of(t, m) : t[f].dirty

\* filemap_mapping_refresh_marks
Refreshed(t, M) == [m \in Mappings |-> IF m \in M THEN HasDirty(t, m) ELSE mark[m]]

Depth == Len(stack)
Top == stack[Depth]
In(op, pc) == Depth > 0 /\ Top.op = op /\ Top.pc = pc
Goto(f) == stack' = [stack EXCEPT ![Depth] = f]
Under(f, g) == stack' = Append([stack EXCEPT ![Depth] = f], g)
Return == stack' = Front(stack)

CanCall(op) ==
    \/ stack = <<>> /\ op \in Calls
    \/ stack /= <<>> /\ op \in Nested
       /\ \A i \in 1 .. Depth : i = Depth => stack[i].op = "wb" /\ stack[i].pc = "pages"

\* Making a folio, for work that may interrupt the making of another one.
CanMake == CanCall("get") /\ (Reentrant \/ \A i \in 1 .. Depth : stack[i].op /= "get")

(***************************************************************************)
(* filemap_folio_discard: out of the table; the storage goes with the last *)
(* reference.                                                              *)
(***************************************************************************)
Discarded(x) ==
    IF x.ref <= 1 THEN Free
    ELSE [x EXCEPT !.cached = FALSE, !.key = None, !.ref = @ - 1, !.tow = FALSE]
Discard(t, F) == [f \in Folios |-> IF f \in F THEN Discarded(t[f]) ELSE t[f]]
Fewer(F) ==
    [m \in Mappings |-> nrpages[m] - Cardinality({f \in F : fo[f].key[1] = m})]

NewFolio(k) == [Free EXCEPT !.key = k, !.cached = TRUE, !.ref = 2, !.ver = disk[k]]

\* A page the fault path or a reader finds valid: its contents come from the
\* disk when the folio is made.
GetHit(k) ==
    /\ CanCall("get")
    /\ \E f \in At(fo, k) :
         /\ held[f] < MaxHeld
         /\ fo' = [fo EXCEPT ![f].ref = @ + 1]
         /\ held' = [held EXCEPT ![f] = @ + 1]
    /\ UNCHANGED <<mark, nrpages, wberr, disk, queue, last, stack, newest, owed, faults>>

\* Into a free slot.
Insert(t, k, n) ==
    \E f \in Folios :
        /\ t[f] = Free
        /\ fo' = [t EXCEPT ![f] = NewFolio(k)]
        /\ held' = [held EXCEPT ![f] = 1]
        /\ nrpages' = [n EXCEPT ![k[1]] = @ + 1]

GetNew(k) ==
    /\ CanMake
    /\ At(fo, k) = {} /\ Cardinality(Cached(fo)) < NSlots
    /\ Insert(fo, k, nrpages)
    /\ UNCHANGED <<mark, wberr, disk, queue, last, stack, newest, owed, faults>>

\* First pass over a full table: a clean folio only the table refers to.
Reclaimable(t) == {f \in Cached(t) : t[f].ref <= 1 /\ ~t[f].dirty /\ ~t[f].wb}

GetReclaim(k) ==
    /\ CanMake
    /\ At(fo, k) = {} /\ Cardinality(Cached(fo)) = NSlots
    /\ \E v \in Reclaimable(fo) :
         /\ Insert(Discard(fo, {v}), k, Fewer({v}))
         /\ mark' = Refreshed(Discard(fo, {v}), {fo[v].key[1]})
    /\ UNCHANGED <<wberr, disk, queue, last, stack, newest, owed, faults>>

\* Second pass: write the mapping of a dirty folio back, then look again.
GetWriteback(k) ==
    /\ CanMake /\ Depth < MaxDepth
    /\ At(fo, k) = {} /\ Cardinality(Cached(fo)) = NSlots
    /\ Reclaimable(fo) = {}
    /\ stack' = Append(stack, [op |-> "get", pc |-> "pick", key |-> k, tried |-> {}])
    /\ UNCHANGED <<fo, held, mark, nrpages, wberr, disk, queue, last, newest, owed, faults>>

WbFrame(m, lo) ==
    [op |-> "wb", pc |-> "start", m |-> m, lo |-> lo, bad |-> FALSE,
     need |-> {<<fo[f].key, fo[f].ver>> : f \in {g \in Of(fo, m) :
                  fo[g].dirty /\ fo[g].key[2] >= lo}}]

Candidates == {f \in Cached(fo) : fo[f].ref <= 1 /\ ~fo[f].wb} \ Top.tried

GetPick ==
    /\ In("get", "pick")
    /\ \E v \in Candidates :
         IF fo[v].dirty
         THEN Under([op |-> "get", pc |-> "recheck", key |-> Top.key, victim |-> v,
                     tried |-> Top.tried, bad |-> FALSE],
                    WbFrame(fo[v].key[1], 0))
         ELSE Goto([op |-> "get", pc |-> "recheck", key |-> Top.key, victim |-> v,
                    tried |-> Top.tried, bad |-> FALSE])
    /\ UNCHANGED <<fo, held, mark, nrpages, wberr, disk, queue, last, newest, owed, faults>>

\* The victim goes if its writeback succeeded and it is clean now; nothing
\* looks at its references again.
GetRecheck ==
    /\ In("get", "recheck")
    /\ LET v == Top.victim
       IN  IF Top.bad \/ fo[v].dirty \/ fo[v].wb
           THEN /\ Goto([op |-> "get", pc |-> "pick", key |-> Top.key,
                         tried |-> Top.tried \cup {v}])
                /\ UNCHANGED <<fo, held, nrpages, mark>>
           ELSE /\ Insert(Discard(fo, {v}), Top.key, Fewer({v}))
                /\ mark' = Refreshed(Discard(fo, {v}), {fo[v].key[1]})
                /\ Return
    /\ UNCHANGED <<wberr, disk, queue, last, newest, owed, faults>>

\* No slot: -ENOMEM.
GetNoMemory ==
    /\ In("get", "pick") /\ Candidates = {}
    /\ Return
    /\ UNCHANGED <<fo, held, mark, nrpages, wberr, disk, queue, last, newest, owed, faults>>

\* folio_put: the table's own reference cannot be dropped by callers.
PutTo(x) ==
    IF x.cached THEN [x EXCEPT !.ref = IF @ > 1 THEN @ - 1 ELSE @]
    ELSE IF x.ref <= 1 THEN Free ELSE [x EXCEPT !.ref = @ - 1]

Put(f) ==
    /\ CanCall("put") /\ held[f] > 0
    /\ fo' = [fo EXCEPT ![f] = PutTo(@)]
    /\ held' = [held EXCEPT ![f] = @ - 1]
    /\ UNCHANGED <<mark, nrpages, wberr, disk, queue, last, stack, newest, owed, faults>>

\* A caller writes into the folio it holds: folio_mark_dirty.
DirtyMark(m) == [mark EXCEPT ![m] = TRUE]
Write(f) ==
    LET k == fo[f].key
    IN  /\ CanCall("dirty") /\ held[f] > 0 /\ fo[f].cached
        /\ newest[k] < MaxVer
        /\ newest' = [newest EXCEPT ![k] = @ + 1]
        /\ owed' = [owed EXCEPT ![k] = TRUE]
        /\ fo' = [fo EXCEPT ![f].dirty = TRUE, ![f].ver = newest[k] + 1]
        /\ mark' = DirtyMark(k[1])
        /\ UNCHANGED <<held, nrpages, wberr, disk, queue, last, stack, faults>>

\* truncate_inode_pages_range from index lo: whatever the folios' state.
Truncate(m, lo) ==
    LET F == {f \in Of(fo, m) : fo[f].key[2] >= lo}
    IN  /\ CanCall("truncate") /\ F /= {}
        /\ fo' = Discard(fo, F)
        /\ nrpages' = Fewer(F)
        /\ mark' = Refreshed(Discard(fo, F), {m})
        /\ owed' = [k \in Keys |-> owed[k] /\ ~(k[1] = m /\ k[2] >= lo)]
        /\ UNCHANGED <<held, wberr, disk, queue, last, stack, newest, faults>>

\* invalidate_mapping_pages: the idle clean folios of a mapping.
Invalid(m) == {f \in Of(fo, m) : fo[f].ref <= 1 /\ ~fo[f].dirty /\ ~fo[f].wb}
Invalidate(m) ==
    /\ CanCall("invalidate") /\ Invalid(m) /= {}
    /\ fo' = Discard(fo, Invalid(m))
    /\ nrpages' = Fewer(Invalid(m))
    /\ mark' = Refreshed(Discard(fo, Invalid(m)), {m})
    /\ UNCHANGED <<held, wberr, disk, queue, last, stack, newest, owed, faults>>

(***************************************************************************)
(* filemap_writeback_range.                                                *)
(***************************************************************************)
WbKeep == UNCHANGED <<held, nrpages, newest>>

Writeback(m, lo) ==
    /\ CanCall("wb") /\ Depth < MaxDepth
    /\ stack' = Append(stack, WbFrame(m, lo))
    /\ UNCHANGED <<fo, mark, wberr, disk, queue, last, owed, faults>> /\ WbKeep

\* The result of a call lands in the frame below, if that one wants it.
Result(bad) ==
    IF Depth > 1 /\ stack[Depth - 1].op = "get"
    THEN stack' = [Front(stack) EXCEPT ![Depth - 1].bad = bad]
    ELSE Return

\* Nothing is dirty according to the mapping's mark: done.  Else writepages
\* of the filesystem first tags the dirty folios of the range
\* (tag_pages_for_writeback).
WbStart ==
    /\ In("wb", "start")
    /\ IF ~mark[Top.m]
       THEN Goto([Top EXCEPT !.pc = "ret"]) /\ UNCHANGED fo
       ELSE /\ Goto([Top EXCEPT !.pc = "pages"])
            /\ fo' = [f \in Folios |->
                        IF f \in Of(fo, Top.m) /\ fo[f].key[2] >= Top.lo /\ fo[f].dirty
                        THEN [fo[f] EXCEPT !.tow = TRUE] ELSE fo[f]]
    /\ UNCHANGED <<mark, wberr, disk, queue, last, owed, faults>> /\ WbKeep

Tagged(m) == {f \in Of(fo, m) : fo[f].tow /\ fo[f].dirty}

\* filemap_get_folios_tag gives the lowest tagged folio; the filesystem clears
\* its dirty flag for I/O, starts writeback and submits it.  One already under
\* writeback is waited for first (folio_wait_writeback).
WbPage ==
    /\ In("wb", "pages")
    /\ \E f \in Tagged(Top.m) :
         /\ \A g \in Tagged(Top.m) : fo[f].key[2] <= fo[g].key[2]
         /\ IF fo[f].wb
            THEN /\ Goto([Top EXCEPT !.pc = "drain"]) /\ last' = FALSE
                 /\ UNCHANGED <<fo, mark, queue>>
            ELSE /\ fo' = [fo EXCEPT ![f].dirty = FALSE, ![f].tow = FALSE, ![f].wb = TRUE]
                 /\ mark' = Refreshed(fo', {Top.m})
                 /\ queue' = Append(queue, f)
                 /\ UNCHANGED <<stack, last>>
    /\ UNCHANGED <<wberr, disk, owed, faults>> /\ WbKeep

WbPagesDone ==
    /\ In("wb", "pages") /\ Tagged(Top.m) = {}
    /\ Goto([Top EXCEPT !.pc = "final"]) /\ last' = FALSE
    /\ UNCHANGED <<fo, mark, wberr, disk, queue, owed, faults>> /\ WbKeep

\* bio_drain: each bio is written or fails; its end_io records the error
\* and ends the writeback.
EndWriteback(x) == [x EXCEPT !.wb = FALSE]
SetWbErrLost(m) == wberr
SetWbErr(m) == [wberr EXCEPT ![m] = TRUE]
Draining == Depth > 0 /\ Top.op = "wb" /\ Top.pc \in {"drain", "final"}

DrainBio ==
    /\ Draining /\ queue /= <<>>
    /\ LET f == queue[1]
           k == fo[f].key
       IN  /\ fo' = [fo EXCEPT ![f] = EndWriteback(@)]
           /\ \/ /\ disk' = IF k = None THEN disk ELSE [disk EXCEPT ![k] = fo[f].ver]
                 /\ UNCHANGED <<last, wberr, owed, faults>>
              \/ /\ faults < MaxFaults /\ faults' = faults + 1
                 /\ last' = TRUE
                 /\ wberr' = IF k = None THEN wberr ELSE SetWbErr(k[1])
                 /\ owed' = IF k = None THEN owed ELSE [owed EXCEPT ![k] = fo[f].dirty]
                 /\ UNCHANGED disk
    /\ queue' = Tail(queue)
    /\ mark' = Refreshed(fo', {m \in Mappings : \E k \in {fo[queue[1]].key} : k /= None /\ k[1] = m})
    /\ UNCHANGED stack /\ WbKeep

\* The wait loop looks at the folio again after the drain.
DrainDone ==
    /\ In("wb", "drain") /\ queue = <<>>
    /\ Goto([Top EXCEPT !.pc = "pages"])
    /\ UNCHANGED <<fo, mark, wberr, disk, queue, last, owed, faults>> /\ WbKeep

WbStatus == last
WbFinal ==
    /\ In("wb", "final") /\ queue = <<>>
    /\ Goto([Top EXCEPT !.pc = "ret", !.bad = WbStatus])
    /\ mark' = Refreshed(fo, {Top.m})
    /\ UNCHANGED <<fo, wberr, disk, queue, last, owed, faults>> /\ WbKeep

WbRet ==
    /\ In("wb", "ret")
    /\ Result(Top.bad)
    /\ UNCHANGED <<fo, mark, wberr, disk, queue, last, owed, faults>> /\ WbKeep

Next ==
    \/ \E k \in Keys : GetHit(k) \/ GetNew(k) \/ GetReclaim(k) \/ GetWriteback(k)
    \/ GetPick \/ GetRecheck \/ GetNoMemory
    \/ \E f \in Folios : Put(f) \/ Write(f)
    \/ \E m \in Mappings, i \in Indexes : Truncate(m, i) \/ Writeback(m, i)
    \/ \E m \in Mappings : Invalidate(m)
    \/ WbStart \/ WbPage \/ WbPagesDone \/ DrainBio \/ DrainDone \/ WbFinal \/ WbRet

Spec == Init /\ [][Next]_vars

-----------------------------------------------------------------------------
FolioType ==
    [key : Keys \cup {None}, cached : BOOLEAN, ref : 0 .. MaxHeld + 1,
     dirty : BOOLEAN, wb : BOOLEAN, tow : BOOLEAN,
     ver : 0 .. MaxVer]

\* Types; one folio per mapping and index, no more folios than slots, and
\* the nrpages field counts the folios of its mapping.
TypeOK ==
    /\ fo \in [Folios -> FolioType] /\ held \in [Folios -> 0 .. MaxHeld]
    /\ Cardinality(Cached(fo)) <= NSlots
    /\ \A k \in Keys : Cardinality(At(fo, k)) <= 1
    /\ nrpages = [m \in Mappings |-> Cardinality(Of(fo, m))]

\* The newest contents of a page are on disk, or the table has them dirty or
\* under writeback, until a failed write was recorded in the mapping or the
\* page was truncated (filemap_get_folio_internal must not drop dirty folios).
NewestKept ==
    \A k \in Keys : owed[k] /\ disk[k] /= newest[k] =>
        \E f \in At(fo, k) : fo[f].ver = newest[k] /\ (fo[f].dirty \/ fo[f].wb)

\* A mapping with a dirty folio has its dirty mark, without which
\* filemap_writeback_range returns 0 at once.
DirtyIsMarked == \A m \in Mappings : HasDirty(fo, m) => mark[m]

\* A folio that a caller refers to, or that is under writeback, keeps its
\* storage: references never fall below those callers hold.
Pinned ==
    \A f \in Folios :
        /\ held[f] > 0 => fo[f] /= Free /\ fo[f].ref >= held[f]
        /\ f \in ToSet(queue) => fo[f].wb

\* filemap_writeback_range returns 0 only if every folio of the range that
\* was dirty when it was called has reached the disk, was truncated, or its
\* failure is recorded in the mapping.
WritebackHonest ==
    Depth > 0 /\ Top.op = "wb" /\ Top.pc = "ret" /\ ~Top.bad =>
        \A n \in Top.need :
            disk[n[1]] >= n[2] \/ ~owed[n[1]] \/ wberr[Top.m]
=============================================================================
