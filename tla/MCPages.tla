------------------------------- MODULE MCPages -------------------------------
(***************************************************************************)
(* The folio cache, read-ahead and the reporting of writeback errors for    *)
(* TLC.  A behaviour exercises one of the models, named by part, and leaves *)
(* the others in an initial state.                                          *)
(***************************************************************************)
EXTENDS Errseq, TLC

CONSTANTS m1, f1, f2, f3, b1, b2, c1, None

VARIABLES
  part,
  fo, held, mark, nrpages, wberr, disk, queue, last, stack, newest, owed, faults,
  slot, ra, rac, win, rd, pc, given, ahead, misses,
  mem, taken, caches, objs, pool

pageVars == <<fo, held, mark, nrpages, wberr, disk, queue, last, stack, newest, owed,
              faults>>
aheadVars == <<slot, ra, rac, win, rd, pc, given, ahead, misses>>
memVars == <<mem, taken, caches, objs, pool>>

(* More pages than records in the table; pages that are modified again      *)
(* while their writeback is under way; and writes that fail.                *)
Pages == INSTANCE PageCache WITH
  Mappings <- {m1}, Indexes <- {0, 1, 2}, Folios <- {f1, f2, f3}, NSlots <- 2,
  Calls <- {"get", "put", "dirty", "truncate", "invalidate", "wb"},
  Nested <- {"get", "put", "dirty"}, Reentrant <- FALSE,
  MaxVer <- 1, MaxHeld <- 1, MaxFaults <- 0, MaxDepth <- 3
Again == INSTANCE PageCache WITH
  Mappings <- {m1}, Indexes <- {0, 1}, Folios <- {f1, f2}, NSlots <- 2,
  Calls <- {"get", "put", "dirty", "truncate", "invalidate", "wb"},
  Nested <- {"get", "put", "dirty", "wb"}, Reentrant <- FALSE,
  MaxVer <- 2, MaxHeld <- 1, MaxFaults <- 1, MaxDepth <- 2

(* A table shared with another stream; and a long sequential read.          *)
Shared == INSTANCE ReadAhead WITH
  NSlots <- 2, Batch <- 2, FileSize <- 4, MaxRead <- 2, Sequential <- FALSE,
  Churn <- TRUE, Declines <- TRUE, Warm <- TRUE, Pinned <- {}
Stream == INSTANCE ReadAhead WITH
  NSlots <- 24, Batch <- 8, FileSize <- 20, MaxRead <- 3, Sequential <- TRUE,
  Churn <- FALSE, Declines <- FALSE, Warm <- FALSE, Pinned <- {}

(* Small and large allocations with few pages and chunks; pages for two      *)
(* devices; and a cache, a pool on it and other users of pages.              *)
Heap == INSTANCE Memory WITH
  NPages <- 2, MaxOrder <- 8, PageSize <- 4, Overhead <- 1, ChunkMin <- 5, DescSize <- 1,
  MaxChunks <- 2, Sizes <- {1, 2, 4}, Exact <- {}, Caches <- {}, SlotsPerPage <- 2,
  PoolMin <- 1, Backends <- {}, held <- taken
Arena == INSTANCE Memory WITH
  NPages <- 5, MaxOrder <- 8, PageSize <- 4, Overhead <- 1, ChunkMin <- 6, DescSize <- 1,
  MaxChunks <- 1, Sizes <- {}, Exact <- {1, 2, 3}, Caches <- {}, SlotsPerPage <- 2,
  PoolMin <- 1, Backends <- {b1, b2}, held <- taken
Slabs == INSTANCE Memory WITH
  NPages <- 3, MaxOrder <- 8, PageSize <- 4, Overhead <- 1, ChunkMin <- 6, DescSize <- 1,
  MaxChunks <- 1, Sizes <- {}, Exact <- {1}, Caches <- {c1}, SlotsPerPage <- 2,
  PoolMin <- 2, Backends <- {}, held <- taken

MCInit ==
  /\ part \in {"errors", "pages", "again", "shared", "stream", "heap", "arena", "slabs"}
  /\ Init
  /\ IF part = "again" THEN Again!Init ELSE Pages!Init
  /\ IF part = "stream" THEN Stream!Init ELSE Shared!Init
  /\ CASE part = "slabs" -> Slabs!Init [] part = "arena" -> Arena!Init [] OTHER -> Heap!Init

MCNext ==
  /\ part' = part
  /\ \/ part = "errors" /\ Next /\ UNCHANGED <<pageVars, aheadVars, memVars>>
     \/ /\ (part = "pages" /\ Pages!Next) \/ (part = "again" /\ Again!Next)
        /\ UNCHANGED <<vars, aheadVars, memVars>>
     \/ /\ (part = "shared" /\ Shared!Next) \/ (part = "stream" /\ Stream!Next)
        /\ UNCHANGED <<vars, pageVars, memVars>>
     \/ /\ \/ part = "heap" /\ Heap!HeapNext
           \/ part = "arena" /\ Arena!PagesNext
           \/ part = "slabs" /\ (Slabs!SlabNext \/ Slabs!PagesNext)
        /\ UNCHANGED <<vars, pageVars, aheadVars>>

allVars == <<part, vars, pageVars, aheadVars, memVars>>
MCSpec == MCInit /\ [][MCNext]_allVars

(* Storage for folios is interchangeable; states of part again, which have  *)
(* no f3, can only be related by the permutations that keep f3.             *)
Symmetry == Permutations({f1, f2, f3})

-----------------------------------------------------------------------------
(* The types of all variables. *)
AllTypes ==
  CASE part = "errors" -> TypeOK
    [] part = "pages" -> Pages!TypeOK
    [] part = "again" -> Again!TypeOK
    [] part = "shared" -> Shared!TypeOK
    [] part = "stream" -> Stream!TypeOK
    [] part = "heap" -> Heap!TypeOK
    [] part = "arena" -> Arena!TypeOK
    [] part = "slabs" -> Slabs!TypeOK

(* PageCache: the newest contents are kept until written, writeback finds    *)
(* the dirty folios, folios in use stay, and failures are recorded.          *)
(* ReadAhead: every folio taken is given back, handed out once and kept      *)
(* while held, and a sequential reader finds its pages.                      *)
(* Memory: pages, heap units and slots of caches each have one holder or are *)
(* free, the search finds the lowest run of pages, a pool keeps its minimum, *)
(* and pages taken for a device stay mapped for it.                          *)
PagesKept ==
  /\ IF part = "again"
     THEN Again!NewestKept /\ Again!DirtyIsMarked /\ Again!Pinned /\ Again!WritebackHonest
     ELSE Pages!NewestKept /\ Pages!DirtyIsMarked /\ Pages!Pinned /\ Pages!WritebackHonest
  /\ IF part = "stream"
     THEN Stream!AllGivenBack /\ Stream!HandedOnce /\ Stream!HeldStays /\ Stream!SequentialHits
     ELSE Shared!AllGivenBack /\ Shared!HandedOnce /\ Shared!HeldStays
  /\ part = "heap" => Heap!PagesOwned /\ Heap!HeapTiled
  /\ part = "arena" => Arena!PagesOwned /\ Arena!ScanExact /\ Arena!ArenaFixed
  /\ part = "slabs" => /\ Slabs!PagesOwned /\ Slabs!HeapTiled
                       /\ Slabs!SlotsOwned /\ Slabs!PoolKeeps
=============================================================================
