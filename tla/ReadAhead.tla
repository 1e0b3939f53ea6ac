------------------------------ MODULE ReadAhead ------------------------------
(***************************************************************************)
(* A file read through the page cache of fs.c: lookup of each page, the    *)
(* synchronous and asynchronous read-ahead windows, the allocation of the  *)
(* window's folios in a table of NSlots records in slot order, their hand- *)
(* over to the filesystem one by one, and the fallback read.  Positions    *)
(* are page numbers; all folios are clean.  Another stream allocates       *)
(* folios between reads.                                                   *)
(***************************************************************************)
EXTENDS Integers, FiniteSets, FiniteSetsExt

CONSTANTS
    NSlots,      \* KB_FS_FILEMAP_FOLIO_CACHE_MAX
    Batch,       \* KB_FS_BIO_READ_BATCH_MAX
    FileSize,    \* in pages
    MaxRead,     \* bound: pages of one read
    Sequential,  \* reads continue where the last one ended
    Churn,       \* another stream uses the table
    Declines,    \* the filesystem may decline a folio or fail a read
    Warm,        \* the table is full of folios of others at first
    Pinned       \* the numbers of foreign folios others refer to

Slots == 1 .. NSlots
Mine == 0
Other == 1

VARIABLES
    slot,    \* [Slots -> folio record]
    ra,      \* file_ra_state: start, size, async_size, prev_pos
    rac,     \* readahead_control: _index, _nr_pages, _batch_count
    win,     \* the request of page_cache_ra_unbounded: index, end, mark
    rd,      \* the read in progress: page, pages left, slot held
    pc,
    given,   \* slot of the folio just handed to the filesystem, or 0
    ahead,   \* pages read ahead and not consumed
    misses   \* synchronous read-aheads so far, capped

vars == <<slot, ra, rac, win, rd, pc, given, ahead, misses>>

Folio(m, i, ref, locked, upto) ==
    [map |-> m, index |-> i, ref |-> ref, locked |-> locked, upto |-> upto, mark |-> FALSE]
Empty == Folio(-1, 0, 0, FALSE, FALSE)
Active(s) == slot[s].map /= -1
Find(i) == {s \in Slots : slot[s].map = Mine /\ slot[s].index = i}
Present(i) == Find(i) /= {}
SlotOf(i) == CHOOSE s \in Find(i) : TRUE

Init ==
    /\ slot = [s \in Slots |->
                IF Warm THEN Folio(Other, s, IF s \in Pinned THEN 2 ELSE 1, FALSE, TRUE)
                ELSE Empty]
    /\ ra = [start |-> 0, size |-> 0, async |-> 0, prev |-> -1]
    /\ rac = [index |-> 0, nr |-> 0, batch |-> 0]
    /\ win = [index |-> 0, end |-> 0, mark |-> -1]
    /\ rd = [page |-> 0, left |-> 0, held |-> 0]
    /\ pc = "idle" /\ given = 0 /\ ahead = {} /\ misses = 0

(***************************************************************************)
(* The slot filemap_get_folio_internal takes: the first free one, else the *)
(* first that only the table refers to; read-ahead spares its own mapping  *)
(* from the wanted index on.                                               *)
(***************************************************************************)
FreeSlots == {s \in Slots : ~Active(s)}
Victims(i, preserve) ==
    {s \in Slots : slot[s].ref <= 1
        /\ ~(preserve /\ slot[s].map = Mine /\ slot[s].index >= i)}
Room(i, preserve) == FreeSlots /= {} \/ Victims(i, preserve) /= {}
Chosen(i, preserve) ==
    Min(IF FreeSlots /= {} THEN FreeSlots ELSE Victims(i, preserve))

Start(p, n) ==
    /\ pc = "idle" /\ p + n <= FileSize
    /\ Sequential => p = rd.page
    /\ rd' = [page |-> p, left |-> n, held |-> 0]
    /\ pc' = "look"
    /\ UNCHANGED <<slot, ra, rac, win, given, ahead, misses>>

\* filemap_read_requested_pages, at a page boundary
Requested == IF rd.left > Batch THEN Batch ELSE rd.left

(***************************************************************************)
(* The size of the windows.                                                *)
(***************************************************************************)
Pow2(n) == CHOOSE p \in {1, 2, 4, 8, 16, 32} : p >= n /\ (p = 1 \/ p \div 2 < n)
InitialRaSize(req, max) ==
    LET r == Pow2(req)
    IN  IF r > max THEN max
        ELSE IF r <= max \div 32 THEN r * 4
        ELSE IF r <= max \div 4 THEN r * 2
        ELSE max
NextRaSize(cur, max) ==
    IF cur = 0 THEN 0
    ELSE IF cur < max \div 16 THEN cur * 4
    ELSE IF cur <= max \div 2 THEN cur * 2
    ELSE max
\* page_cache_previous_miss and page_cache_next_miss; -1 and 0 for none
PreviousMiss(i) ==
    LET M == {j \in 0 .. i : i - j < Batch /\ ~Present(j)} IN IF M = {} THEN -1 ELSE Max(M)
NextMiss(i) ==
    LET M == {j \in i .. i + Batch - 1 : ~Present(j)} IN IF M = {} THEN 0 ELSE Min(M)

\* page_cache_do_ra clips the window to the file, page_cache_ra_unbounded
\* places the marker.
DoRa(index, n, look) ==
    LET nr == IF index >= FileSize THEN 0
              ELSE IF n > FileSize - index THEN FileSize - index ELSE n
        la == IF look > nr THEN nr ELSE look
    IN  [index |-> index, end |-> index + nr,
         mark |-> IF la = 0 THEN -1 ELSE index + nr - la]

\* page_cache_sync_ra for the page looked for: the new window and request
SyncRa(req) ==
    LET index == rd.page
        miss == PreviousMiss(index - 1)
        run == index - miss - 1
        near == IF miss = -1 THEN run * 2 ELSE run
        Window(size, async) ==
            <<[ra EXCEPT !.start = index, !.size = size, !.async = async],
              DoRa(index, size, async)>>
        first == InitialRaSize(req, Batch)
    IN  IF index = 0 \/ (ra.prev /= -1 /\ index - ra.prev \in {0, 1})
        THEN Window(first, IF first > req THEN first - req ELSE first \div 2)
        ELSE IF run <= req THEN <<ra, DoRa(index, req, 0)>>
        ELSE Window(IF near > Batch - req THEN Batch ELSE near + req, 1)

\* page_cache_async_ra, when the reader meets the marker
AsyncRa(req) ==
    LET index == rd.page
        Window(start, size) ==
            <<[ra EXCEPT !.start = start, !.size = size, !.async = size],
              DoRa(start, size, size)>>
        miss == NextMiss(index + 1)
    IN  IF index = ra.start + ra.size - ra.async
        THEN Window(ra.start + ra.size, NextRaSize(ra.size, Batch))
        ELSE IF miss = 0 \/ miss - index > Batch THEN <<ra, DoRa(index, 0, 0)>>
        ELSE Window(miss, NextRaSize(miss - index + req, Batch))

Request(w) ==
    /\ ra' = w[1] /\ win' = w[2]
    /\ rac' = [index |-> w[2].index, nr |-> 0, batch |-> 0]

(***************************************************************************)
(* filemap_read_cache_folio.                                               *)
(***************************************************************************)
LookHit ==
    /\ pc = "look" /\ Present(rd.page)
    /\ LET s == SlotOf(rd.page)
       IN  /\ slot' = [slot EXCEPT ![s].ref = @ + 1, ![s].mark = FALSE]
           /\ rd' = [rd EXCEPT !.held = s]
           /\ IF slot[s].mark
              THEN Request(AsyncRa(Requested)) /\ pc' = "ra"
              ELSE pc' = "hit" /\ UNCHANGED <<ra, rac, win>>
    /\ UNCHANGED <<given, ahead, misses>>

LookMiss ==
    /\ pc = "look" /\ ~Present(rd.page)
    /\ Request(SyncRa(Requested)) /\ pc' = "ra"
    /\ misses' = IF misses < 2 THEN misses + 1 ELSE misses
    /\ UNCHANGED <<slot, rd, given, ahead>>

\* page_cache_ra_unbounded: one page of the window.
RaAllocate ==
    /\ pc = "ra" /\ win.index /= win.end /\ ~Present(win.index)
    /\ Room(win.index, TRUE) /\ rac.nr < Batch
    /\ LET s == Chosen(win.index, TRUE)
           i == win.index
       IN  /\ slot' = [slot EXCEPT ![s] =
                         [Folio(Mine, i, 2, TRUE, FALSE) EXCEPT !.mark = (i = win.mark)]]
           /\ ahead' = ahead \cup {i}
    /\ rac' = [rac EXCEPT !.nr = @ + 1]
    /\ win' = [win EXCEPT !.index = @ + 1]
    /\ pc' = IF rac.nr + 1 >= Batch THEN "pages" ELSE "ra"
    /\ UNCHANGED <<ra, rd, given, misses>>

\* A page already there ends the batch; the walk goes on behind it.
RaPresentPages ==
    /\ pc = "ra" /\ win.index /= win.end /\ Present(win.index) /\ rac.nr > 0
    /\ pc' = "pages"
    /\ UNCHANGED <<slot, ra, rac, win, rd, given, ahead, misses>>
RaPresentSkip == [rac EXCEPT !.index = win.index + 1]
RaWalk == [win EXCEPT !.index = @ + 1]
RaPresent ==
    /\ pc = "ra" /\ win.index /= win.end /\ Present(win.index) /\ rac.nr = 0
    /\ win' = RaWalk
    /\ rac' = RaPresentSkip
    /\ UNCHANGED <<slot, ra, rd, pc, given, ahead, misses>>

\* No slot, or the end of the window.
RaEnd ==
    /\ pc = "ra"
    /\ \/ win.index = win.end
       \/ ~Present(win.index) /\ ~Room(win.index, TRUE)
    /\ win' = [win EXCEPT !.end = win.index]
    /\ pc' = IF rac.nr > 0 THEN "pages" ELSE IF rd.held /= 0 THEN "hit" ELSE "fallback"
    /\ UNCHANGED <<slot, ra, rac, rd, given, ahead, misses>>

(***************************************************************************)
(* page_cache_read_pages.  page_cache_readahead_next steps over the last   *)
(* folio and hands out the next one, dropping the allocation's reference.  *)
(***************************************************************************)
AdvancedNot == [index |-> rac.index + rac.batch, nr |-> rac.nr, batch |-> 0]
Advanced == [index |-> rac.index + rac.batch, nr |-> rac.nr - rac.batch, batch |-> 0]
PutRef(x) == [x EXCEPT !.ref = IF @ > 1 THEN @ - 1 ELSE @]

\* pc is "pages" while the filesystem's readahead runs, "left" for the
\* folios it declined.
ReadaheadNext ==
    /\ pc \in {"pages", "left"} /\ given = 0
    /\ Advanced.nr > 0 /\ Present(Advanced.index)
    /\ LET s == SlotOf(Advanced.index)
       IN  /\ given' = s
           /\ slot' = [slot EXCEPT ![s] = PutRef(@)]
    /\ rac' = [Advanced EXCEPT !.batch = 1]
    /\ UNCHANGED <<ra, win, rd, pc, ahead, misses>>

ReadaheadNone ==
    /\ pc \in {"pages", "left"} /\ given = 0
    /\ ~(Advanced.nr > 0 /\ Present(Advanced.index))
    /\ IF pc = "pages"
       THEN pc' = "left" /\ rac' = [Advanced EXCEPT !.nr = 0]
       ELSE pc' = "ra" /\ rac' = [index |-> win.index, nr |-> 0, batch |-> 0]
    /\ UNCHANGED <<slot, ra, win, rd, given, ahead, misses>>

\* The filesystem reads the folio (its end_io unlocks it), or fails to.
FsReads ==
    /\ pc = "pages" /\ given /= 0
    /\ \E ok \in IF Declines THEN BOOLEAN ELSE {TRUE} :
         slot' = [slot EXCEPT ![given].locked = FALSE, ![given].upto = ok]
    /\ given' = 0
    /\ UNCHANGED <<ra, rac, win, rd, pc, ahead, misses>>

\* It asks for no further folio.
FsDeclines ==
    /\ Declines /\ pc = "pages" /\ given = 0
    /\ pc' = "left"
    /\ UNCHANGED <<slot, ra, rac, win, rd, given, ahead, misses>>

UnlockLeft(x) == [x EXCEPT !.locked = FALSE]
Leftover ==
    /\ pc = "left" /\ given /= 0
    /\ slot' = [slot EXCEPT ![given] = UnlockLeft(@)]
    /\ given' = 0
    /\ UNCHANGED <<ra, rac, win, rd, pc, ahead, misses>>

(***************************************************************************)
(* After read-ahead: the folio found is used if it is up to date, else the *)
(* filesystem reads it synchronously (read_cache_folio).                   *)
(***************************************************************************)
Hit ==
    /\ pc = "hit"
    /\ IF slot[rd.held].upto
       THEN pc' = "copy" /\ UNCHANGED <<slot, rd>>
       ELSE /\ slot' = [slot EXCEPT ![rd.held] = PutRef(@)]
            /\ rd' = [rd EXCEPT !.held = 0]
            /\ pc' = "fallback"
    /\ UNCHANGED <<ra, rac, win, given, ahead, misses>>

Fallback ==
    /\ pc = "fallback"
    /\ IF Present(rd.page)
       THEN LET s == SlotOf(rd.page)
            IN  /\ slot' = [slot EXCEPT ![s].ref = @ + 1, ![s].locked = ~slot[s].upto]
                /\ rd' = [rd EXCEPT !.held = s]
                /\ pc' = IF slot[s].upto THEN "copy" ELSE "filler"
       ELSE IF Room(rd.page, FALSE)
       THEN LET s == Chosen(rd.page, FALSE)
            IN  /\ slot' = [slot EXCEPT ![s] = Folio(Mine, rd.page, 2, TRUE, FALSE)]
                /\ rd' = [rd EXCEPT !.held = s]
                /\ pc' = "filler"
       ELSE pc' = "idle" /\ rd' = [rd EXCEPT !.left = 0] /\ UNCHANGED slot
    /\ UNCHANGED <<ra, rac, win, given, ahead, misses>>

Filler ==
    /\ pc = "filler"
    /\ \/ /\ slot' = [slot EXCEPT ![rd.held].locked = FALSE, ![rd.held].upto = TRUE]
          /\ pc' = "copy" /\ UNCHANGED rd
       \/ /\ Declines
          /\ slot' = [slot EXCEPT ![rd.held] = PutRef([@ EXCEPT !.locked = FALSE])]
          /\ pc' = "idle" /\ rd' = [rd EXCEPT !.held = 0, !.left = 0]
    /\ UNCHANGED <<ra, rac, win, given, ahead, misses>>

\* generic_file_read_iter copies the page and goes on to the next one.
Copy ==
    /\ pc = "copy"
    /\ slot' = [slot EXCEPT ![rd.held] = PutRef(@)]
    /\ rd' = [page |-> rd.page + 1, left |-> rd.left - 1, held |-> 0]
    /\ ahead' = ahead \ {rd.page}
    /\ IF rd.left = 1
       THEN pc' = "idle" /\ ra' = [ra EXCEPT !.prev = rd.page + 1]
       ELSE pc' = "look" /\ UNCHANGED ra
    /\ UNCHANGED <<rac, win, given, misses>>

\* Another stream makes a folio.
OtherReads ==
    /\ Churn /\ pc = "idle" /\ (FreeSlots /= {} \/ Victims(0, FALSE) /= {})
    /\ LET s == Chosen(0, FALSE)
       IN  /\ slot' = [slot EXCEPT ![s] = Folio(Other, s, 1, FALSE, TRUE)]
           /\ ahead' = ahead \ {slot[s].index}
    /\ UNCHANGED <<ra, rac, win, rd, pc, given, misses>>

Steps ==
    \/ LookHit \/ LookMiss \/ RaAllocate \/ RaPresentPages \/ RaPresent \/ RaEnd
    \/ ReadaheadNext \/ ReadaheadNone \/ FsReads \/ FsDeclines \/ Leftover
    \/ Hit \/ Fallback \/ Filler \/ Copy
Next ==
    \/ \E p \in 0 .. FileSize - 1, n \in 1 .. MaxRead : Start(p, n)
    \/ Steps \/ OtherReads

Spec == Init /\ [][Next]_vars
FairSpec == Spec /\ WF_vars(Steps)

-----------------------------------------------------------------------------
\* Types, one folio per page, and no page beyond the end of the file.
TypeOK ==
    /\ \A s \in Slots : slot[s].map \in {-1, Mine, Other} /\ slot[s].ref \in 0 .. 3
    /\ \A s \in Slots : slot[s].map = Mine => slot[s].index \in 0 .. FileSize - 1
    /\ \A i \in 0 .. FileSize - 1 : Cardinality(Find(i)) <= 1
    /\ rac.nr \in 0 .. Batch /\ rac.batch \in 0 .. 1 /\ given \in 0 .. NSlots

\* Between reads no folio is locked and the table holds the only reference of
\* each of the file's folios: whatever the filesystem declined or failed,
\* page_cache_read_pages gave every folio of the window back.
AllGivenBack ==
    pc = "idle" => \A s \in Slots : slot[s].map = Mine => ~slot[s].locked /\ slot[s].ref = 1

\* The filesystem is handed each folio of the window once, locked and not yet
\* read (page_cache_readahead_next).
HandedOnce ==
    given /= 0 => /\ slot[given].locked /\ ~slot[given].upto
                  /\ slot[given].map = Mine /\ slot[given].index = rac.index

\* The folio the reader holds is the one it asked for and stays in the table
\* while read-ahead takes slots (filemap_read_cache_folio).
HeldStays ==
    rd.held /= 0 => slot[rd.held].map = Mine /\ slot[rd.held].index = rd.page

\* A reader that goes through the file in order misses once, on its first page:
\* from then on the marker asks for the next window in time
\* (page_cache_async_ra).
SequentialHits == misses <= 1

\* "Keep this stream's unconsumed readahead resident": read-ahead does not
\* evict pages it read for this reader and that the reader has yet to reach.

\* A read returns.
=============================================================================
