------------------------------ MODULE MCBuffers ------------------------------
(***************************************************************************)
(* The buffer cache and the files above it for TLC.  A behaviour exercises  *)
(* one setting, named by part, and leaves the variables of the other models *)
(* in an initial state.  Buffers: blocks that are modified twice, requests  *)
(* that fail, a table with fewer records than blocks, and barrier writes.   *)
(* Files: the contents of a file of two pages, of two blocks in a page, and *)
(* of a block in which it ends; the layout of a file of three blocks, and   *)
(* the file's position.                                                     *)
(***************************************************************************)
EXTENDS Integers, TLC

CONSTANTS b1, b2, h1, h2, h3, None

VARIABLES
  part,
  bh, held, disk, media, queue, plug, auto, last, stack, newest, owed, aliased, lapsed, faults,
  size, alloc, store, page, pin, file, spoilt, call, reply,
  layout, whole, partial, ready, length, fpos, walk, answer

bufferVars == <<bh, held, disk, media, queue, plug, auto, last, stack, newest, owed,
                aliased, lapsed, faults>>
dataVars == <<size, alloc, store, page, pin, file, spoilt, call, reply>>
layoutVars == <<layout, whole, partial, ready, length, fpos, walk, answer>>
vars == <<part, bufferVars, dataVars, layoutVars>>

AllCalls == {"get", "put", "dirty", "forget", "read", "write", "sync", "flush",
             "plug", "chain"}

Again == INSTANCE BufferIo WITH
  Blocks <- {b1, b2}, Heads <- {h1, h2, h3}, NSlots <- 2, BatchMax <- 2,
  Calls <- AllCalls, WorkCalls <- {"put", "dirty", "write"}, Barriers <- FALSE,
  MaxVer <- 2, MaxHeld <- 1, MaxFaults <- 0, MaxCalls <- 2
Fail == INSTANCE BufferIo WITH
  Blocks <- {b1, b2}, Heads <- {h1, h2, h3}, NSlots <- 2, BatchMax <- 2,
  Calls <- AllCalls, WorkCalls <- {"put", "dirty", "write"}, Barriers <- FALSE,
  MaxVer <- 1, MaxHeld <- 1, MaxFaults <- 1, MaxCalls <- 2
Full == INSTANCE BufferIo WITH
  Blocks <- {b1, b2}, Heads <- {h1, h2, h3}, NSlots <- 1, BatchMax <- 2,
  Calls <- {"get", "put", "dirty", "read", "ahead", "write", "plug"},
  WorkCalls <- {"put", "dirty", "write"}, Barriers <- FALSE,
  MaxVer <- 1, MaxHeld <- 1, MaxFaults <- 0, MaxCalls <- 2
Fua == INSTANCE BufferIo WITH
  Blocks <- {b1, b2}, Heads <- {h1, h2, h3}, NSlots <- 2, BatchMax <- 2,
  Calls <- {"get", "put", "dirty", "read", "write", "plug"}, WorkCalls <- {"write"},
  Barriers <- TRUE, MaxVer <- 2, MaxHeld <- 1, MaxFaults <- 0, MaxCalls <- 2

(* Two pages; two blocks to a page; and one block of two units.  Stores past *)
(* the end of the file are left out where it can grow onto another page,     *)
(* since pagecache_isize_extended then leaves them in the page.              *)
Pages == INSTANCE FileData WITH
  disk <- store, NPages <- 2, PageBlocks <- 1, BlockSize <- 2, Values <- {1},
  Garbage <- 9, Spans <- {<<0, 4>>, <<1, 2>>}, Direct <- {<<0, 4>>, <<2, 2>>},
  Cuts <- {1, 3}, StoresPastEnd <- FALSE,
  Failures <- {"transfer"}
Blocks == INSTANCE FileData WITH
  disk <- store, NPages <- 1, PageBlocks <- 2, BlockSize <- 1, Values <- {1, 2},
  Garbage <- 9, Spans <- {<<0, 1>>, <<1, 1>>, <<0, 2>>},
  Direct <- {<<0, 1>>, <<1, 1>>, <<0, 2>>}, Cuts <- {0, 2}, StoresPastEnd <- TRUE,
  Failures <- {"transfer", "get_block"}
Ends == INSTANCE FileData WITH
  disk <- store, NPages <- 1, PageBlocks <- 1, BlockSize <- 2, Values <- {1, 2},
  Garbage <- 9, Spans <- {<<0, 1>>, <<1, 1>>, <<0, 2>>}, Direct <- {<<0, 2>>},
  Cuts <- 0 .. 2, StoresPastEnd <- TRUE,
  Failures <- {"transfer", "get_block"}

Extents == INSTANCE FileExtents WITH
  size <- length, call <- walk, reply <- answer, NBlocks <- 3, BlockSize <- 2,
  PageBlocks <- 2, Types <- {"hole", "mapped", "unwritten"}, Sizes <- {5},
  Limits <- {0, 1, 2}, MaxOffset <- 7, Offsets <- {}
Offset == INSTANCE FileExtents WITH
  size <- length, call <- walk, reply <- answer, NBlocks <- 1, BlockSize <- 2,
  PageBlocks <- 2, Types <- {"delalloc"}, Sizes <- {1, 2}, Limits <- {0},
  MaxOffset <- 7, Offsets <- {-8, -2, 0, 3, 7}

Init ==
  /\ part \in {"again", "fail", "full", "fua", "pages", "blocks", "ends",
               "extents", "offset"}
  /\ Again!Init
  /\ CASE part = "blocks" -> Blocks!Init
       [] part = "ends" -> Ends!Init
       [] OTHER -> Pages!Init
  /\ IF part = "extents" THEN Extents!Init
     ELSE /\ Offset!Init
          /\ part # "offset" => whole = {} /\ partial = {} /\ length = 1

Next ==
  /\ part' = part
  /\ \/ /\ \/ part = "again" /\ Again!Next
           \/ part = "fail" /\ Fail!Next
           \/ part = "full" /\ Full!Next
           \/ part = "fua" /\ Fua!Next
        /\ UNCHANGED <<dataVars, layoutVars>>
     \/ /\ \/ part = "pages" /\ Pages!Next
           \/ part = "blocks" /\ Blocks!Next
           \/ part = "ends" /\ Ends!Next
        /\ UNCHANGED <<bufferVars, layoutVars>>
     \/ /\ (part = "extents" /\ Extents!Next) \/ (part = "offset" /\ Offset!Next)
        /\ UNCHANGED <<bufferVars, dataVars>>
Spec == Init /\ [][Next]_vars

(* Blocks, and storage for heads, are interchangeable. *)
Symmetry == Permutations({h1, h2, h3}) \cup Permutations({b1, b2})

-----------------------------------------------------------------------------
(* The types of all variables. *)
TypeOK ==
  /\ CASE part = "fail" -> Fail!TypeOK
       [] part = "full" -> Full!TypeOK
       [] part = "fua" -> Fua!TypeOK
       [] OTHER -> Again!TypeOK
  /\ CASE part = "blocks" -> Blocks!TypeOK
       [] part = "ends" -> Ends!TypeOK
       [] OTHER -> Pages!TypeOK
  /\ IF part = "extents" THEN Extents!TypeOK ELSE Offset!TypeOK

(* A head with I/O in flight is not given to another block, and the newest   *)
(* contents of a block are never dropped (BufferIo).                         *)
BuffersKept ==
  /\ Again!IoHoldsBuffer
  /\ IF part = "full" THEN Full!NewestKept ELSE Again!NewestKept

(* A sync that reports success has written what was dirty (BufferIo). *)
SyncHonest == Again!SyncHonest

(* A completed barrier survives power loss with what came before (BufferIo). *)
BarrierDurable == part = "fua" => Fua!BarrierDurable

(* FileData: a file reads as it was last written, by whichever of buffered,  *)
(* direct and mapped access, and nothing of it is left neither dirty in the  *)
(* cache nor on disk.                                                        *)
FilesTrue ==
  CASE part = "blocks" -> Blocks!ReadsTrue /\ Blocks!DataKept
    [] part = "ends" -> Ends!ReadsTrue /\ Ends!DataKept
    [] OTHER -> Pages!ReadsTrue /\ Pages!DataKept

(* FileExtents: searches find the first data or hole, lists of extents are   *)
(* complete and bounded, and positions and device blocks are the ones asked  *)
(* for.                                                                      *)
LayoutTold ==
  IF part = "extents"
  THEN Extents!SeeksRight /\ Extents!ListsRight /\ Extents!PlacesRight
  ELSE Offset!SeeksRight /\ Offset!ListsRight /\ Offset!PlacesRight
=============================================================================
