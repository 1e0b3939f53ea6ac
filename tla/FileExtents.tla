----------------------------- MODULE FileExtents -----------------------------
(***************************************************************************)
(* What fs.c tells of a file's layout: the search for data or a hole       *)
(* (iomap_seek, mapping_seek_hole_data), the list of extents               *)
(* (iomap_fiemap, fiemap_fill_next_extent), the device block of a file     *)
(* block (iomap_bmap), and the file position (generic_file_llseek_size,    *)
(* vfs_setpos).                                                            *)
(*                                                                         *)
(* Each search is a walk: the filesystem's begin operation is asked about  *)
(* a position and answers with one mapping from there on, cut where it     *)
(* likes, so the same layout is walked in every possible way.  Positions   *)
(* count units of which a block has several, so that walks start and files *)
(* end inside a block.                                                     *)
(***************************************************************************)
EXTENDS Integers, Sequences, FiniteSets, FiniteSetsExt

CONSTANTS
    NBlocks,      \* blocks of the file
    BlockSize,    \* units of a block
    PageBlocks,   \* blocks of a page
    Types,        \* KB_FS_IOMAP_HOLE, _DELALLOC, _MAPPED, _UNWRITTEN, _INLINE
    Sizes,        \* file sizes
    Limits,       \* fi_extents_max; 0 only counts
    MaxOffset,    \* INT64_MAX
    Offsets,      \* offsets given to llseek
    None

Blocks == 0 .. NBlocks - 1
MaxBytes == NBlocks * BlockSize
Positions == 0 .. MaxBytes
PageSize == PageBlocks * BlockSize
Pages == {b \div PageBlocks : b \in Blocks}
BlockOf(p) == p \div BlockSize

VARIABLES
    layout,   \* [Blocks -> Types]
    whole,    \* cached pages that are uptodate
    partial,  \* cached pages that are not
    ready,    \* blocks of those whose buffer is uptodate
    size,
    fpos,     \* the file's position
    call,     \* the walk in progress
    reply     \* what the last call answered

fileVars == <<layout, whole, partial, ready, size>>
vars == <<layout, whole, partial, ready, size, fpos, call, reply>>

Init ==
    /\ layout \in [Blocks -> Types] /\ size \in Sizes
    /\ whole \in SUBSET Pages /\ partial \in SUBSET (Pages \ whole)
    /\ ready \in SUBSET {b \in Blocks : b \div PageBlocks \in partial}
    /\ fpos = 0 /\ call = None /\ reply = None

Idle == call = None /\ reply = None
Says(x) == call' = None /\ reply' = x

NoData == -6
Invalid == -22
Failed == -5

Upto(a, b) == IF a < b THEN a ELSE b

(* External: the mapping the filesystem's begin operation returns for a     *)
(* position: it starts at the position's block and ends at a block boundary *)
(* within the run of blocks of the same type.                               *)
Maps(p) ==
    LET b == BlockOf(p)
    IN  {[from |-> b * BlockSize, to |-> (e + 1) * BlockSize, type |-> layout[b]] :
            e \in {x \in b .. NBlocks - 1 : \A y \in b .. x : layout[y] = layout[b]}}

-----------------------------------------------------------------------------
(* mapping_seek_hole_data: the page cache under an unwritten extent. *)

(* block_is_partially_uptodate of the block at p: a block as large as the   *)
(* page is never partially uptodate.                                        *)
PartlyUptodate(p) == PageBlocks > 1 /\ BlockOf(p) \in ready

(* The page the search comes to from p on. *)
NextPage(p) ==
    LET later == {g \in whole \cup partial : g >= p \div PageSize}
    IN  IF later = {} THEN None ELSE Min(later)

(* The start of the block after that of p. *)
NextBlockUnrounded(p) == p + BlockSize
NextBlock(p) == (BlockOf(p) + 1) * BlockSize

(* An uptodate page counts as data to its end; a page that is not is        *)
(* searched block by block; what is not cached is a hole.                   *)
CacheSeek(from, end, data) ==
    LET walk[p \in 0 .. MaxBytes + PageSize] ==
          LET g == NextPage(p)
              start == g * PageSize
          IN  CASE p >= end -> IF data THEN NoData ELSE end
                [] p < end /\ g = None -> IF data THEN NoData ELSE p
                [] p < end /\ g # None /\ p < start ->
                     IF data THEN walk[start] ELSE p
                [] p < end /\ g # None /\ p >= start /\ g \in whole ->
                     IF data THEN p ELSE walk[start + PageSize]
                [] OTHER ->
                     IF PartlyUptodate(p) = data THEN p ELSE walk[NextBlock(p)]
    IN  walk[from]

-----------------------------------------------------------------------------
(* iomap_seek_data and iomap_seek_hole. *)
SeekBegins(p, data) ==
    /\ Idle
    /\ IF p >= size
       THEN Says([op |-> "seek", at |-> p, data |-> data, ret |-> NoData])
       ELSE call' = [op |-> "seek", pos |-> p, at |-> p, data |-> data] /\ UNCHANGED reply
    /\ UNCHANGED <<fileVars, fpos>>

SeekSays(ret) == Says([op |-> "seek", at |-> call.at, data |-> call.data, ret |-> ret])

(* What one mapping says of the positions pos to end: the position found,   *)
(* or end when the walk goes on.                                            *)
SeekIn(type, pos, end, data) ==
    CASE type = "hole" -> IF data THEN end ELSE pos
      [] type = "unwritten" ->
           LET at == CacheSeek(pos, end, data) IN IF at = NoData THEN end ELSE at
      [] OTHER -> IF data THEN pos ELSE end

SeekStep ==
    /\ call # None /\ call.op = "seek"
    /\ \/ \E m \in Maps(call.pos) :
            LET end == Upto(m.to, size)
                at == SeekIn(m.type, call.pos, end, call.data)
            IN  IF at # end THEN SeekSays(at)
                ELSE IF end < size
                THEN call' = [call EXCEPT !.pos = end] /\ UNCHANGED reply
                ELSE SeekSays(IF call.data THEN NoData ELSE size)
       \/ SeekSays(Failed)
    /\ UNCHANGED <<fileVars, fpos>>

-----------------------------------------------------------------------------
(* iomap_fiemap. *)
Hole == [from |-> 0, to |-> 0, type |-> "hole"]

(* fiemap_prep: the range is cut at the filesystem's largest file.          *)
FiemapBegins(p, len, max) ==
    /\ Idle
    /\ IF len = 0 \/ p >= MaxBytes
       THEN Says([op |-> "fiemap", ret |-> IF len = 0 THEN Invalid ELSE -27])
       ELSE /\ call' = [op |-> "fiemap", at |-> p, pos |-> p, end |-> Upto(p + len, MaxBytes),
                        max |-> max, prev |-> Hole, told |-> <<>>, count |-> 0]
            /\ UNCHANGED reply
    /\ UNCHANGED <<fileVars, fpos>>

(* iomap_to_fiemap and fiemap_fill_next_extent: the walk c after mapping m  *)
(* is reported, and whether the list is then complete.  With max 0 extents  *)
(* are only counted.                                                        *)
Reported(c, m, last) ==
    [c EXCEPT !.count = @ + 1,
              !.told = IF c.max = 0 THEN @
                       ELSE Append(@, [from |-> m.from, to |-> m.to, type |-> m.type,
                                       last |-> last])]
Fill(c, m, last) ==
    IF m.type = "hole" \/ (c.max > 0 /\ c.count >= c.max) THEN c ELSE Reported(c, m, last)
Full(c, m) == m.type # "hole" /\ c.max > 0 /\ c.count + 1 >= c.max

(* The walk is over: the mapping not yet reported is the last one.          *)
FiemapSays(c, ret) ==
    LET d == Fill(c, c.prev, TRUE)
    IN  Says([op |-> "fiemap", ret |-> ret, at |-> d.at, end |-> d.end, max |-> d.max,
              told |-> d.told, count |-> d.count])

(* A mapping is reported when the next one is found.  When it fills the     *)
(* list the walk stops, and fails if the filesystem's end operation does;   *)
(* the mapping just found is then not reported.                             *)
FiemapStep ==
    /\ call # None /\ call.op = "fiemap"
    /\ \/ \E m \in Maps(call.pos) :
            LET end == Upto(m.to, call.end)
                next == [Fill(call, call.prev, FALSE) EXCEPT !.prev = m, !.pos = end]
            IN  IF m.type # "hole" /\ Full(call, call.prev)
                THEN \E ret \in {0, Failed} : FiemapSays(next, ret)
                ELSE LET after == IF m.type = "hole" THEN [call EXCEPT !.pos = end] ELSE next
                     IN  IF end < call.end THEN call' = after /\ UNCHANGED reply
                         ELSE FiemapSays(after, 0)
       \/ FiemapSays(call, Failed)
       \/ (\A b \in Blocks : layout[b] = "hole") /\ FiemapSays(call, 0)
    /\ UNCHANGED <<fileVars, fpos>>

-----------------------------------------------------------------------------
(* iomap_bmap: the device block of a mapped block, 0 for any other.  The    *)
(* device has block b of the file at NBlocks + b.                           *)
DeviceBlock(b) == NBlocks + b
Bmap(b) ==
    /\ Idle
    /\ \/ \E m \in Maps(b * BlockSize) :
            LET address == DeviceBlock(BlockOf(m.from))
            IN  Says([op |-> "bmap", block |-> b,
                      ret |-> IF m.type = "mapped" THEN address + b - BlockOf(m.from) ELSE 0])
       \/ Says([op |-> "bmap", block |-> b, ret |-> 0])
    /\ UNCHANGED <<fileVars, fpos>>

-----------------------------------------------------------------------------
(* generic_file_llseek_size.  A sum past the largest offset wraps around.   *)
Wrap(x) == ((x + MaxOffset + 1) % (2 * (MaxOffset + 1))) - (MaxOffset + 1)
Overflows(base, offset) ==
    \/ offset > 0 /\ base > MaxOffset - offset
    \/ offset < 0 /\ base < -MaxOffset - 1 - offset

(* vfs_setpos. *)
SetPos(p, max, ask) ==
    IF p < 0 \/ p > max THEN Says([ask EXCEPT !.ret = Invalid]) /\ UNCHANGED fpos
    ELSE Says([ask EXCEPT !.ret = p]) /\ fpos' = p

Llseek(offset, whence, max, eof) ==
    LET ask == [op |-> "llseek", offset |-> offset, whence |-> whence, max |-> max,
                eof |-> eof, was |-> fpos, ret |-> Invalid]
    IN  /\ Idle
        /\ CASE whence = "set" -> SetPos(offset, max, ask)
             [] whence = "end" ->
                  IF Overflows(eof, offset) THEN Says(ask) /\ UNCHANGED fpos
                  ELSE SetPos(Wrap(eof + offset), max, ask)
             [] whence = "cur" ->
                  IF offset = 0 THEN Says([ask EXCEPT !.ret = fpos]) /\ UNCHANGED fpos
                  ELSE IF Overflows(fpos, offset) THEN Says(ask) /\ UNCHANGED fpos
                  ELSE SetPos(Wrap(fpos + offset), max, ask)
             [] OTHER ->
                  IF offset < 0 \/ offset >= eof
                  THEN Says([ask EXCEPT !.ret = NoData]) /\ UNCHANGED fpos
                  ELSE SetPos(IF whence = "hole" THEN eof ELSE offset, max, ask)
        /\ UNCHANGED fileVars

-----------------------------------------------------------------------------
Answered == reply # None /\ reply' = None /\ UNCHANGED <<fileVars, fpos, call>>

Next ==
    \/ \E p \in Positions, data \in BOOLEAN : SeekBegins(p, data)
    \/ SeekStep
    \/ \E p \in Positions, len \in {0, BlockSize, MaxBytes}, max \in Limits :
          FiemapBegins(p, len, max)
    \/ FiemapStep
    \/ \E b \in Blocks : Bmap(b)
    \/ \E o \in Offsets, w \in {"set", "cur", "end", "data", "hole"},
          max \in {MaxOffset - 1, MaxOffset} : Llseek(o, w, max, size)
    \/ Answered

-----------------------------------------------------------------------------
(* The types of the variables. *)
TypeOK ==
    /\ layout \in [Blocks -> Types] /\ size \in Sizes
    /\ whole \subseteq Pages /\ partial \subseteq Pages \ whole /\ ready \subseteq Blocks
    /\ fpos \in 0 .. MaxOffset
    /\ call # None => call.op \in {"seek", "fiemap"} /\ call.pos \in Positions

(* The positions of the file that hold data: allocated ones, and those of   *)
(* an unwritten extent whose data is in the page cache.                     *)
CachedData(p) ==
    \/ p \div PageSize \in whole
    \/ p \div PageSize \in partial /\ PartlyUptodate(p)
IsData(p) ==
    LET type == layout[BlockOf(p)]
    IN  type # "hole" /\ (type = "unwritten" => CachedData(p))

(* iomap_seek and mapping_seek_hole_data, however the filesystem cuts its   *)
(* mappings and wherever in a block the search starts: SEEK_DATA finds the  *)
(* first position with data before the end of the file, SEEK_HOLE the first *)
(* without, the end of the file included.                                   *)
SeeksRight ==
    reply # None /\ reply.op = "seek" /\ reply.ret # Failed =>
        LET found == {p \in reply.at .. size - 1 : IsData(p) = reply.data}
        IN  reply.ret = IF found # {} THEN Min(found)
                        ELSE IF reply.data \/ reply.at >= size THEN NoData ELSE size

(* iomap_fiemap and fiemap_fill_next_extent: the list never outgrows the    *)
(* caller's array; its extents are in order, apart, and allocated to their  *)
(* ends; nothing allocated in the range is left out before the last one     *)
(* listed, nor after it unless the list is full; and only an extent with    *)
(* nothing after it is marked as the last.                                  *)
ListsRight ==
    reply # None /\ reply.op = "fiemap" /\ reply.ret = 0 =>
        LET told == reply.told
            listed == UNION {BlockOf(told[i].from) .. BlockOf(told[i].to - 1) :
                               i \in 1 .. Len(told)}
            wanted == {b \in BlockOf(reply.at) .. BlockOf(reply.end - 1) : layout[b] # "hole"}
        IN  /\ Len(told) <= reply.max
            /\ \A i \in 2 .. Len(told) : told[i].from >= told[i - 1].to
            /\ \A b \in listed : layout[b] # "hole"
            /\ \A b \in wanted \ listed :
                 reply.max > 0 => reply.count = reply.max /\ \A x \in listed : x < b
            /\ \A i \in 1 .. Len(told) :
                 told[i].last => \A b \in wanted : b * BlockSize < told[i].to
            /\ reply.max = 0 => (reply.count = 0 <=> wanted = {})

(* iomap_bmap never names a block of the device that is not the file's, and *)
(* generic_file_llseek_size moves the file only to the position asked for,  *)
(* within bounds, computed without wrapping around.                         *)
PlacesRight ==
    /\ reply # None /\ reply.op = "bmap" /\ reply.ret # 0 =>
         layout[reply.block] = "mapped" /\ reply.ret = DeviceBlock(reply.block)
    /\ reply # None /\ reply.op = "llseek" =>
         LET base == CASE reply.whence = "cur" -> reply.was
                       [] reply.whence = "end" -> reply.eof
                       [] OTHER -> 0
             asked == IF reply.whence = "hole" THEN reply.eof ELSE base + reply.offset
         IN  IF reply.ret < 0 THEN fpos = reply.was
             ELSE fpos = asked /\ reply.ret = asked /\ fpos \in 0 .. MaxOffset
=============================================================================
