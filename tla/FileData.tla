------------------------------ MODULE FileData ------------------------------
(***************************************************************************)
(* The contents of one file as fs.c moves them between callers, the page   *)
(* cache and the disk: buffered reads (generic_file_read_iter,             *)
(* block_read_full_folio), buffered writes (generic_perform_write,         *)
(* block_write_end), direct I/O (iomap_dio_rw, iomap_dio_transfer),        *)
(* mapped pages (filemap_fault, block_page_mkwrite), truncation and        *)
(* extension (truncate_inode_pages_range, pagecache_isize_extended), and   *)
(* the release of clean buffers and pages.                                 *)
(*                                                                         *)
(* A file is a sequence of units, BlockSize to a block.  What is not       *)
(* initialized (a page not yet read, a block just allocated on disk) holds *)
(* Garbage.  The filesystem behind the address space operations is         *)
(* external: write_begin, get_block, writepages, setattr and the iomap     *)
(* operations are modelled by how fs.c calls them.                         *)
(*                                                                         *)
(* Three pieces of state are read by no guard: `file' is what the callers  *)
(* have written, `wrong' the units of a page that hold something else      *)
(* because a read failed unnoticed, and `spoilt' those of the disk that    *)
(* such a page was written to.                                             *)
(*                                                                         *)
(* Reads and writes go page by page, direct I/O block by block; while      *)
(* direct I/O waits, another task may read pages in.  How the cache picks  *)
(* folios is PageCache's and ReadAhead's subject.                          *)
(***************************************************************************)
EXTENDS Integers, Sequences, FiniteSets, FiniteSetsExt

CONSTANTS
    NPages, PageBlocks, BlockSize,
    Values,         \* what callers write
    Garbage,
    Spans, Direct,  \* positions and lengths of buffered and of direct I/O
    Cuts,           \* sizes setattr gives the file
    Failures,       \* bound: how reads from the disk fail ("transfer", "get_block")
    StoresPastEnd,  \* a mapped page is stored to past the end of the file
    None

PageSize == PageBlocks * BlockSize
Units == 0 .. NPages * PageSize - 1
Pages == 0 .. NPages - 1
Blocks == 0 .. NPages * PageBlocks - 1
InPage(p) == p * PageSize .. (p + 1) * PageSize - 1
InBlock(b) == b * BlockSize .. (b + 1) * BlockSize - 1
BlocksOf(p) == p * PageBlocks .. (p + 1) * PageBlocks - 1
PageOf(u) == u \div PageSize
BlockOf(u) == u \div BlockSize

VARIABLES
    size,    \* i_size
    alloc,   \* [Blocks -> "hole", "mapped" or "unwritten"]
    disk,    \* [Units -> value]
    page,    \* [Pages -> cached page, or None]
    pin,     \* [Pages -> a mapping refers to it: "no", "cached", "gone"]
    file,    \* [Units -> what a reader has to see]
    spoilt,  \* units of the disk that differ from it
    call,    \* the call in progress
    reply    \* what the last read returned

vars == <<size, alloc, disk, page, pin, file, spoilt, call, reply>>

Zero == 0

(* A cached page: its contents and flag (up), and of its buffers the        *)
(* uptodate and the dirty ones, and those that are mapped but could not be  *)
(* read (failed).  The page is dirty when a buffer is.  An uptodate page    *)
(* whose buffers are gone gets uptodate ones again.                         *)
NewPage(p) == [data |-> [u \in InPage(p) |-> Garbage], up |-> FALSE,
               ready |-> {}, dirty |-> {}, failed |-> {}, wrong |-> {}]
Cached == {p \in Pages : page[p] # None}
Dirty == {p \in Cached : page[p].dirty # {}}
Uptodate(p) == page[p] # None /\ page[p].up
Got(p) == IF page[p] = None THEN NewPage(p) ELSE page[p]

Init ==
    /\ size = 0 /\ alloc = [b \in Blocks |-> "hole"]
    /\ disk = [u \in Units |-> Garbage] /\ page = [p \in Pages |-> None]
    /\ pin = [p \in Pages |-> "no"] /\ file = [u \in Units |-> Zero]
    /\ spoilt = {} /\ call = None /\ reply = None

Idle == call = None /\ reply = None
Says(x) == call' = None /\ reply' = x
Low(a, b) == IF a < b THEN a ELSE b
High(a, b) == IF a > b THEN a ELSE b
(* What a read returns; the units of doubt are no one's promise.            *)
Given(data, at, doubt) == [data |-> data, at |-> at, doubt |-> doubt]
NoData(at) == Given(<<>>, at, {})

-----------------------------------------------------------------------------
(* block_read_full_folio.  Blocks that are not uptodate are mapped by       *)
(* get_block, below the end of the file, and read.  What is not mapped then *)
(* is zeroed and uptodate, and that is also what becomes of a block for     *)
(* which get_block fails (lost).  Where the read fails (bad) the buffer     *)
(* stays mapped and not uptodate.  The page is uptodate if neither happened.*)
Limit == (size + BlockSize - 1) \div BlockSize
OnDisk(b) == alloc[b] = "mapped" /\ b < Limit
UnitsOf(B) == UNION {InBlock(b) : b \in B}
Filled(p, bad, lost) ==
    LET g == Got(p)
        new == BlocksOf(p) \ (g.ready \cup bad)
        read == {b \in new \ lost : OnDisk(b)}
    IN  [g EXCEPT !.data = [u \in InPage(p) |->
                              IF BlockOf(u) \notin new THEN g.data[u]
                              ELSE IF BlockOf(u) \in read THEN disk[u] ELSE Zero],
                  !.up = bad \cup lost = {},
                  !.ready = BlocksOf(p) \ bad, !.failed = bad,
                  !.wrong = (@ \ UnitsOf(new))
                            \cup (UnitsOf(read) \cap spoilt)
                            \cup {u \in UnitsOf(lost) : u < size /\ OnDisk(BlockOf(u))}]
Failing(p) ==
    LET left == BlocksOf(p) \ Got(p).ready
    IN  {x \in (SUBSET left) \X (SUBSET (left \ Got(p).failed)) :
           /\ \A b \in x[1] : OnDisk(b) /\ "transfer" \in Failures
           /\ \A b \in x[2] : b < Limit /\ b \notin x[1] /\ "get_block" \in Failures}

(* generic_file_read_iter: the size is read once, at the start.             *)
ReadBegins(at, n) ==
    /\ Idle
    /\ IF at >= size THEN Says(NoData(at))
       ELSE /\ call' = [op |-> "read", at |-> at, end |-> Low(at + n, size), data |-> <<>>,
                     doubt |-> {}]
            /\ UNCHANGED reply
    /\ UNCHANGED <<size, alloc, disk, page, pin, file, spoilt>>

(* The units lo to hi - 1 of a page. *)
Part(g, lo, hi) == [i \in 1 .. hi - lo |-> g.data[lo + i - 1]]

(* read_cache_folio takes the page as block_read_full_folio leaves it,      *)
(* uptodate or not.  The read ends short without a folio or its buffers.    *)
ReadStep ==
    /\ call # None /\ call.op = "read"
    /\ LET pos == call.at + Len(call.data)
           p == PageOf(pos)
           end == Low(call.end, (p + 1) * PageSize)
       IN  \/ \E x \in Failing(p) :
                LET g == Filled(p, x[1], x[2])
                    data == call.data \o Part(g, pos, end)
                    doubt == call.doubt \cup g.wrong \cup UnitsOf(x[1])
                IN  /\ page' = [page EXCEPT ![p] = g]
                    /\ IF end = call.end THEN Says(Given(data, call.at, doubt))
                       ELSE /\ call' = [call EXCEPT !.data = data, !.doubt = doubt]
                            /\ UNCHANGED reply
           \/ /\ ~Uptodate(p) /\ Says(Given(call.data, call.at, call.doubt))
              /\ UNCHANGED page
    /\ UNCHANGED <<size, alloc, disk, pin, file, spoilt>>

-----------------------------------------------------------------------------
(* External: write_begin of the filesystem makes the page, allocates the    *)
(* blocks of the range, zeroes what a new block has outside of it, and      *)
(* reads the blocks it covers in part.                                      *)
Covers(lo, hi, b) == InBlock(b) \subseteq lo .. hi - 1
Begun(p, lo, hi) ==
    LET g == Got(p)
        B == {b \in BlocksOf(p) : InBlock(b) \cap lo .. hi - 1 # {}}
        new == {b \in B : alloc[b] # "mapped"}
        read == {b \in B \ (new \cup g.ready) : ~Covers(lo, hi, b)}
    IN  [g EXCEPT !.data = [u \in InPage(p) |->
           CASE BlockOf(u) \in new \ g.ready -> Zero
             [] BlockOf(u) \in read -> disk[u]
             [] OTHER -> g.data[u]],
                  !.wrong = (@ \ UnitsOf(new \ g.ready)) \cup (UnitsOf(read) \cap spoilt)]

(* block_write_end: the buffers written are uptodate and dirty, and the     *)
(* page is uptodate if its other buffers are.                               *)
WriteEnd(g, p, lo, hi) ==
    LET B == {BlockOf(u) : u \in lo .. hi - 1}
    IN  [g EXCEPT !.ready = @ \cup B, !.dirty = @ \cup B, !.failed = @ \ B,
                  !.wrong = @ \ (lo .. hi - 1),
                  !.up = @ \/ g.ready \cup B = BlocksOf(p)]

(* pagecache_isize_extended: the cached part of the file between the sizes  *)
(* is zeroed, if they are on one page.                                      *)
IsizeExtended(t, from, to) ==
    LET p == PageOf(from)
    IN  IF to <= from \/ PageOf(to - 1) # p \/ t[p] = None THEN t
        ELSE [t EXCEPT ![p].data = [u \in InPage(p) |->
                                      IF u \in from .. to - 1 THEN Zero ELSE @[u]]]

(* generic_perform_write. *)
WriteBegins(at, n, v) ==
    /\ Idle
    /\ call' = [op |-> "write", pos |-> at, end |-> at + n, value |-> v]
    /\ UNCHANGED <<size, alloc, disk, page, pin, file, spoilt, reply>>

Put(f, lo, hi, v) == [u \in DOMAIN f |-> IF u \in lo .. hi - 1 THEN v ELSE f[u]]

WriteStep ==
    /\ call # None /\ call.op = "write"
    /\ LET pos == call.pos
           p == PageOf(pos)
           end == Low(call.end, (p + 1) * PageSize)
           begun == Begun(p, pos, end)
           copied == [begun EXCEPT !.data = Put(@, pos, end, call.value)]
           written == [page EXCEPT ![p] = WriteEnd(copied, p, pos, end)]
       IN  \/ /\ page' = IsizeExtended(written, size, pos)
              /\ alloc' = [b \in Blocks |-> IF b \in BlockOf(pos) .. BlockOf(end - 1)
                                            THEN "mapped" ELSE alloc[b]]
              /\ size' = High(size, end)
              /\ file' = Put(file, pos, end, call.value)
              /\ call' = IF end = call.end THEN None ELSE [call EXCEPT !.pos = end]
           \/ call' = None /\ UNCHANGED <<size, alloc, page, file>>
    /\ UNCHANGED <<disk, pin, spoilt, reply>>

-----------------------------------------------------------------------------
(* External: the filesystem's writepages, called by filemap_writeback_range *)
(* and by the flusher: dirty buffers of the pages reach their blocks, with  *)
(* zeroes past the end of the file.                                         *)
Ended(g) == [u \in DOMAIN g.data |-> IF u < size THEN g.data[u] ELSE Zero]
ToWrite(P) ==
    {u \in Units : /\ PageOf(u) \in P /\ BlockOf(u) \in page[PageOf(u)].dirty
                   /\ alloc[BlockOf(u)] = "mapped"}
Flushed(P) ==
    [u \in Units |-> IF u \in ToWrite(P) THEN Ended(page[PageOf(u)])[u] ELSE disk[u]]
Spoilt(P) == {u \in Units : IF u \in ToWrite(P) THEN u \in page[PageOf(u)].wrong
                            ELSE u \in spoilt}
Cleaned(P) ==
    [p \in Pages |->
       IF p \in P THEN [page[p] EXCEPT !.data = Ended(page[p]), !.dirty = {}] ELSE page[p]]
Clean(P) == disk' = Flushed(P) /\ page' = Cleaned(P) /\ spoilt' = Spoilt(P)

Writeback(p) ==
    /\ call = None /\ p \in Dirty
    /\ Clean({p}) /\ UNCHANGED <<size, alloc, pin, file, call, reply>>

-----------------------------------------------------------------------------
(* filemap_fault: the page is found or read in, and a mapping refers to it, *)
(* if it is uptodate then.                                                  *)
Fault(p) ==
    /\ Idle /\ p * PageSize < size /\ pin[p] = "no"
    /\ \E x \in Failing(p) :
         LET g == Filled(p, x[1], x[2])
             at == p * PageSize
         IN  /\ page' = [page EXCEPT ![p] = g]
             /\ IF ~g.up THEN UNCHANGED <<pin, reply>>
                ELSE /\ pin' = [pin EXCEPT ![p] = "cached"]
                     /\ reply' = Given(Part(g, at, Low(size, at + PageSize)), at, g.wrong)
    /\ UNCHANGED <<size, alloc, disk, file, spoilt, call>>

Unmap(p) ==
    /\ Idle /\ pin[p] # "no" /\ pin' = [pin EXCEPT ![p] = "no"]
    /\ UNCHANGED <<size, alloc, disk, page, file, spoilt, call, reply>>

(* block_page_mkwrite.  Blocks up to the end of the file are allocated, one *)
(* after the other; the page is uptodate.  When one cannot be, those that   *)
(* were are made dirty (folio_zero_new_buffers).  Else the page is dirty,   *)
(* zero past the end of the file where a block is new, and the caller       *)
(* stores to it.  A page no longer of the mapping, or past the end, is      *)
(* refused.                                                                 *)
Touched(p) == {b \in BlocksOf(p) : b * BlockSize < size}
NewBlocks(p) == {b \in Touched(p) : alloc[b] # "mapped"}
ZeroNewBuffers(g, B) == [g EXCEPT !.dirty = @ \cup B]

MkwriteFails(p) ==
    /\ Idle /\ pin[p] = "cached"
    /\ \E bad \in NewBlocks(p) :
         LET B == {b \in NewBlocks(p) : b < bad}
         IN  /\ alloc' = [b \in Blocks |-> IF b \in B THEN "mapped" ELSE alloc[b]]
             /\ page' = [page EXCEPT ![p] = ZeroNewBuffers(@, B)]
    /\ UNCHANGED <<size, disk, pin, file, spoilt, call, reply>>

MkwriteRefused(p) ==
    /\ Idle
    /\ pin[p] = "gone" \/ (pin[p] = "cached" /\ p * PageSize >= size)
    /\ UNCHANGED vars

Mkwrite(p, u, v) ==
    /\ Idle /\ pin[p] = "cached" /\ p * PageSize < size
    /\ u < size \/ StoresPastEnd
    /\ LET new == NewBlocks(p)
           tail == {x \in InPage(p) : x >= size /\ BlockOf(x) \in new}
           data == [x \in InPage(p) |-> IF x \in tail THEN Zero ELSE page[p].data[x]]
       IN  /\ page' = [page EXCEPT ![p].data = [data EXCEPT ![u] = v],
                                   ![p].wrong = @ \ {u}, ![p].dirty = BlocksOf(p)]
           /\ alloc' = [b \in Blocks |-> IF b \in new THEN "mapped" ELSE alloc[b]]
    /\ file' = IF u < size THEN [file EXCEPT ![u] = v] ELSE file
    /\ UNCHANGED <<size, disk, pin, spoilt, call, reply>>

-----------------------------------------------------------------------------
(* truncate_inode_pages_range to the end of the file: whole pages go, the   *)
(* rest of a page cut in two is zeroed.                                     *)
Gone(n) == {p \in Pages : p * PageSize >= n}
Truncated(n) ==
    [p \in Pages |->
       IF p \in Gone(n) \/ page[p] = None THEN None
       ELSE [page[p] EXCEPT !.data = Put(@, n, (p + 1) * PageSize, Zero),
                            !.wrong = {u \in @ : u < n}]]

(* External: setattr of the filesystem frees the blocks past the new end    *)
(* and zeroes what is left of the last one.                                 *)
Truncate(n) ==
    /\ Idle /\ n < size
    /\ size' = n /\ page' = Truncated(n)
    /\ pin' = [p \in Pages |-> IF p \in Gone(n) /\ pin[p] = "cached" THEN "gone" ELSE pin[p]]
    /\ alloc' = [b \in Blocks |-> IF b * BlockSize >= n THEN "hole" ELSE alloc[b]]
    /\ disk' = [u \in Units |-> IF u >= n /\ BlockOf(u) * BlockSize < n THEN Zero ELSE disk[u]]
    /\ file' = Put(file, n, Cardinality(Units), Zero)
    /\ spoilt' = {u \in spoilt : u < n}
    /\ UNCHANGED <<call, reply>>

Extend(n) ==
    /\ Idle /\ n > size
    /\ size' = n /\ page' = IsizeExtended(page, size, n)
    /\ UNCHANGED <<alloc, disk, pin, file, spoilt, call, reply>>

(* filemap_release_folio and try_to_free_buffers: buffers that are not      *)
(* dirty may go; a page not uptodate then no longer knows which of its      *)
(* blocks are.                                                              *)
ReleaseFolio(p) ==
    /\ Idle /\ p \in Cached \ Dirty /\ ~Uptodate(p)
    /\ page' = [page EXCEPT ![p].ready = {}, ![p].failed = {}, ![p].wrong = {}]
    /\ UNCHANGED <<size, alloc, disk, pin, file, spoilt, call, reply>>

(* invalidate_mapping_pages: pages neither dirty nor in use. *)
Droppable == {p \in Cached \ Dirty : pin[p] # "cached"}
Invalidate(p) ==
    /\ Idle /\ p \in Droppable
    /\ page' = [page EXCEPT ![p] = None]
    /\ UNCHANGED <<size, alloc, disk, pin, file, spoilt, call, reply>>

-----------------------------------------------------------------------------
(* iomap_dio_rw.  Dirty pages of the range are written first; a write also  *)
(* drops the pages of the range, and is refused while one is in use.        *)
PagesIn(lo, hi) == PageOf(lo) .. PageOf(hi - 1)
NotFlushed(at, n) == {}
ToFlush(at, n) == Dirty \cap PagesIn(at, at + n)

(* Without an effect: writeback fails, the caller does not want to wait, or *)
(* wants to overwrite only and the range is not all below the end.          *)
DioRefused(at, n) ==
    /\ Idle /\ (ToFlush(at, n) # {} \/ at + n > size) /\ UNCHANGED vars

DioReadBegins(at, n) ==
    /\ Idle
    /\ IF at >= size
       THEN Says(NoData(at)) /\ UNCHANGED <<disk, page, spoilt>>
       ELSE /\ Clean(ToFlush(at, n))
            /\ call' = [op |-> "dioread", at |-> at, end |-> at + n, data |-> <<>>]
            /\ UNCHANGED reply
    /\ UNCHANGED <<size, alloc, pin, file>>

(* kb_fs_iomap_dio_invalidate_range: what is in use stays. *)
Dropped(t, P) == [p \in Pages |-> IF p \in P /\ pin[p] # "cached" THEN None ELSE t[p]]

DioWriteBegins(at, n, v) ==
    LET P == PagesIn(at, at + n)
        left == Dropped(Cleaned(ToFlush(at, n)), P)
    IN  /\ Idle
        /\ disk' = Flushed(ToFlush(at, n))
        /\ spoilt' = Spoilt(ToFlush(at, n))
        /\ page' = left
        /\ call' = IF \E p \in P : left[p] # None THEN None
                   ELSE [op |-> "diowrite", at |-> at, pos |-> at, end |-> at + n, value |-> v,
                         made |-> {}, err |-> FALSE]
        /\ UNCHANGED <<size, alloc, pin, file, reply>>

(* One mapping of a read: zeroes where nothing was written, else a transfer *)
(* (iomap_dio_transfer), which may fail.  What was read past the end of the *)
(* file is given back.                                                      *)
DioRead ==
    /\ call # None /\ call.op = "dioread"
    /\ LET pos == call.at + Len(call.data)
           b == BlockOf(pos)
           got == call.data \o [i \in 1 .. BlockSize |->
                                  IF alloc[b] = "mapped" THEN disk[pos + i - 1] ELSE Zero]
       IN  \/ IF pos + BlockSize < call.end
              THEN call' = [call EXCEPT !.data = got] /\ UNCHANGED reply
              ELSE Says(Given(SubSeq(got, 1, Low(call.end, size) - call.at), call.at, spoilt))
           \/ alloc[b] = "mapped" /\ Says(NoData(call.at))
    /\ UNCHANGED <<size, alloc, disk, page, pin, file, spoilt>>

(* One mapping of a write: the filesystem allocates a hole as unwritten.    *)
DioWrite ==
    /\ call # None /\ call.op = "diowrite" /\ call.pos < call.end /\ ~call.err
    /\ LET b == BlockOf(call.pos)
           hi == call.pos + BlockSize
       IN  \/ /\ alloc' = [alloc EXCEPT ![b] = IF @ = "hole" THEN "unwritten" ELSE @]
              /\ disk' = Put(disk, call.pos, hi, call.value)
              /\ spoilt' = spoilt \ (call.pos .. hi - 1)
              /\ file' = IF alloc[b] = "mapped" THEN Put(file, call.pos, Low(hi, size), call.value)
                         ELSE file
              /\ call' = [call EXCEPT !.pos = hi,
                                      !.made = IF alloc[b] = "mapped" THEN @ ELSE @ \cup {b}]
           \/ call' = [call EXCEPT !.err = TRUE] /\ UNCHANGED <<alloc, disk, file, spoilt>>
    /\ UNCHANGED <<size, page, pin, reply>>

(* External: the filesystem's end_io makes what was written part of the     *)
(* file, unless the write failed; past the end of the file nothing is then  *)
(* left.  Then the pages of what was transferred are dropped again.         *)
DroppedAfter(t, P) == Dropped(t, P)
DioWriteEnds ==
    /\ call # None /\ call.op = "diowrite" /\ (call.err \/ call.pos = call.end)
    /\ IF call.err
       THEN /\ disk' = [u \in Units |-> IF u \in call.at .. call.pos - 1 /\ u >= size
                                        THEN Zero ELSE disk[u]]
            /\ UNCHANGED <<size, alloc, file>>
       ELSE /\ size' = High(size, call.end)
            /\ alloc' = [b \in Blocks |-> IF b \in call.made THEN "mapped" ELSE alloc[b]]
            /\ file' = Put(file, call.at, call.end, call.value)
            /\ UNCHANGED disk
    /\ page' = IF call.pos = call.at THEN page
               ELSE DroppedAfter(page, PagesIn(call.at, call.pos))
    /\ call' = None
    /\ UNCHANGED <<pin, spoilt, reply>>

(* While direct I/O waits another task reads a page in. *)
Meanwhile(p) ==
    /\ call # None /\ call.op \in {"dioread", "diowrite"}
    /\ p * PageSize < size /\ ~Uptodate(p)
    /\ \E x \in Failing(p) : page' = [page EXCEPT ![p] = Filled(p, x[1], x[2])]
    /\ UNCHANGED <<size, alloc, disk, pin, file, spoilt, call, reply>>

Answered ==
    /\ reply # None /\ reply' = None
    /\ UNCHANGED <<size, alloc, disk, page, pin, file, spoilt, call>>

Next ==
    \/ \E x \in Spans : ReadBegins(x[1], x[2]) \/ \E v \in Values : WriteBegins(x[1], x[2], v)
    \/ ReadStep \/ WriteStep \/ DioRead \/ DioWrite \/ DioWriteEnds
    \/ \E x \in Direct : \/ DioReadBegins(x[1], x[2]) \/ DioRefused(x[1], x[2])
                         \/ \E v \in Values : DioWriteBegins(x[1], x[2], v)
    \/ \E p \in Pages : \/ Writeback(p) \/ Fault(p) \/ Unmap(p) \/ MkwriteFails(p)
                        \/ MkwriteRefused(p) \/ ReleaseFolio(p) \/ Invalidate(p) \/ Meanwhile(p)
                        \/ \E u \in InPage(p), v \in Values : Mkwrite(p, u, v)
    \/ \E n \in Cuts : Truncate(n) \/ Extend(n)
    \/ Answered

-----------------------------------------------------------------------------
Contents == Values \cup {Zero, Garbage}
(* The types of the variables. *)
TypeOK ==
    /\ size \in 0 .. Cardinality(Units)
    /\ alloc \in [Blocks -> {"hole", "mapped", "unwritten"}]
    /\ disk \in [Units -> Contents] /\ file \in [Units -> Values \cup {Zero}]
    /\ \A p \in Cached : /\ page[p].data \in [InPage(p) -> Contents]
                         /\ page[p].dirty \subseteq page[p].ready
                         /\ page[p].ready \subseteq BlocksOf(p)
                         /\ page[p].up => page[p].ready = BlocksOf(p)
    /\ pin \in [Pages -> {"no", "cached", "gone"}] /\ spoilt \subseteq Units

(* Whichever way it is read (buffered, direct, through a mapping), and      *)
(* whichever way it was written, a file shows what was last written, zeroes *)
(* where nothing was, and never what a page or a block held before          *)
(* (generic_file_read_iter, iomap_dio_rw, filemap_fault).  The exception    *)
(* are reads from the disk that failed, which block_read_full_folio does    *)
(* not report: a buffered read shows the rest of the page where a transfer  *)
(* failed, and where get_block failed the zeroes put there stay in the page *)
(* until it is written over or dropped.                                     *)
ReadsTrue ==
    reply # None =>
        \A i \in 1 .. Len(reply.data) :
            \/ reply.data[i] = file[reply.at + i - 1]
            \/ reply.at + i - 1 \in reply.doubt

(* What a page still has to write is marked dirty: everything else of the   *)
(* file is on disk, so pages may be dropped at any time                     *)
(* (block_page_mkwrite, block_write_end, folio_zero_new_buffers).  The      *)
(* exception are zeroes of a failed get_block, once the rest of their block *)
(* was written.                                                             *)
DataKept ==
    call = None =>
        \A u \in (0 .. size - 1) \ spoilt :
            \/ page[PageOf(u)] # None /\ BlockOf(u) \in page[PageOf(u)].dirty
            \/ file[u] = IF alloc[BlockOf(u)] = "mapped" THEN disk[u] ELSE Zero
=============================================================================
