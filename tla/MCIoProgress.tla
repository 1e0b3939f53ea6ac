----------------------------- MODULE MCIoProgress -----------------------------
(***************************************************************************)
(* Calls of the storage and filesystem models come to an end.  A behaviour  *)
(* exercises one of the models, named by part, and leaves the others in     *)
(* their initial states, so that the fairness conditions are those of the   *)
(* active model alone.                                                      *)
(***************************************************************************)
EXTENDS Naturals

CONSTANTS None, r1, r2, NoReq, b1, b2, h1, h2, i0, i1, n0, n1, root, d1, d2

VARIABLES
  part,
  req, rqs, nextTag, cache, aux, call, sq, dev, cq, head, phase, tail, tphase, alive,
  bh, held, disk, media, queue, plug, auto, last, stack, newest, owed, aliased, lapsed, faults,
  slot, ra, rac, win, rd, pc, given, ahead, misses,
  ino, den, file, iheld, dheld, meta, todo

nvmeVars == <<req, rqs, nextTag, cache, aux, call, sq, dev, cq, head, phase, tail,
              tphase, alive>>
bufVars == <<bh, held, disk, media, queue, plug, auto, last, stack, newest, owed,
             aliased, lapsed, faults>>
raVars == <<slot, ra, rac, win, rd, pc, given, ahead, misses>>
vfsVars == <<ino, den, file, iheld, dheld, meta, todo>>
vars == <<part, nvmeVars, bufVars, raVars, vfsVars>>

(* One request at a time; and two, of which only batches give up waiting.   *)
Nvme == INSTANCE NvmeIo WITH
  Requests <- {r1, r2}, NrTags <- 3, CacheMax <- 0, NAux <- 0, BatchMax <- 1,
  Depth <- 2, Held <- 1, Timeouts <- {"single", "batch"}
Pair == INSTANCE NvmeIo WITH
  Requests <- {r1, r2}, NrTags <- 3, CacheMax <- 0, NAux <- 0, BatchMax <- 2,
  Depth <- 2, Held <- 1, Timeouts <- {"batch"}
(* Calls nested in calls; and one call at a time with requests that fail.   *)
Inner == INSTANCE BufferIo WITH
  Blocks <- {b1, b2}, Heads <- {h1, h2}, NSlots <- 2, BatchMax <- 2,
  Calls <- {"get", "dirty", "read", "write", "sync", "flush", "plug", "chain"},
  WorkCalls <- {"put", "dirty", "write"}, Barriers <- FALSE, MaxVer <- 1,
  MaxHeld <- 1, MaxFaults <- 0, MaxCalls <- 2
Fail == INSTANCE BufferIo WITH
  Blocks <- {b1, b2}, Heads <- {h1, h2}, NSlots <- 2, BatchMax <- 2,
  Calls <- {"get", "dirty", "read", "write", "sync", "plug", "chain"},
  WorkCalls <- {"put", "dirty", "write"}, Barriers <- FALSE, MaxVer <- 1,
  MaxHeld <- 1, MaxFaults <- 1, MaxCalls <- 1
Read == INSTANCE ReadAhead WITH
  NSlots <- 3, Batch <- 2, FileSize <- 3, MaxRead <- 2, Sequential <- FALSE,
  Churn <- FALSE, Declines <- TRUE, Warm <- TRUE, Pinned <- {}
Vfs == INSTANCE VfsObjects WITH
  Inodes <- {i0, i1}, RootInode <- i0, Numbers <- {n0, n1}, RootNumber <- n0,
  Dentries <- {root, d1, d2}, Root <- root, Files <- {}, MaxIHeld <- 1, MaxDHeld <- 1,
  Nested <- {}

Init ==
  /\ part \in {"nvme", "batch", "nested", "fail", "read", "vfs"}
  /\ Nvme!Init /\ Inner!Init /\ Read!Init /\ Vfs!Init

Next ==
  /\ part' = part
  /\ \/ /\ (part = "nvme" /\ Nvme!Next) \/ (part = "batch" /\ Pair!Next)
        /\ UNCHANGED <<bufVars, raVars, vfsVars>>
     \/ /\ (part = "nested" /\ Inner!Next) \/ (part = "fail" /\ Fail!Next)
        /\ UNCHANGED <<nvmeVars, raVars, vfsVars>>
     \/ part = "read" /\ Read!Next /\ UNCHANGED <<nvmeVars, bufVars, vfsVars>>
     \/ part = "vfs" /\ Vfs!Next /\ UNCHANGED <<nvmeVars, bufVars, raVars>>

(* The fairness each model states, for the steps of the active model: the   *)
(* thread that makes the call runs, a live controller completes what it     *)
(* holds, and deferred work that runs inside a wait ends.                   *)
Steps ==
  \/ /\ (part = "nvme" /\ Nvme!Step) \/ (part = "batch" /\ Pair!Step)
     /\ UNCHANGED <<part, bufVars, raVars, vfsVars>>
  \/ /\ (part = "nested" /\ Inner!Step) \/ (part = "fail" /\ Fail!Step)
     /\ UNCHANGED <<part, nvmeVars, raVars, vfsVars>>
  \/ part = "read" /\ Read!Steps /\ UNCHANGED <<part, nvmeVars, bufVars, vfsVars>>
  \/ part = "vfs" /\ Vfs!Steps /\ UNCHANGED <<part, nvmeVars, bufVars, raVars>>
Spec ==
  /\ Init /\ [][Next]_vars /\ WF_vars(Steps)
  /\ WF_vars(/\ part \in {"nvme", "batch"} /\ Nvme!Posts
             /\ UNCHANGED <<part, bufVars, raVars, vfsVars>>)
  /\ \A i \in 1 .. 2 : SF_vars(/\ part \in {"nested", "fail"} /\ Inner!Depth = i
                               /\ Inner!WorkDone
                               /\ UNCHANGED <<part, nvmeVars, raVars, vfsVars>>)

-----------------------------------------------------------------------------
(* Every call returns, whatever the controller does and whatever runs while *)
(* the call waits (NvmeIo, BufferIo, ReadAhead), and a drop of references   *)
(* comes to its end (VfsObjects).                                           *)
Busy ==
  CASE part = "nvme" -> call.stage # "idle"
    [] part = "batch" -> call.stage # "idle" /\ call.path = "batch"
    [] part \in {"nested", "fail"} -> stack # <<>>
    [] part = "read" -> pc # "idle"
    [] part = "vfs" -> todo # <<>>
CallReturns == Busy ~> ~Busy
=============================================================================
