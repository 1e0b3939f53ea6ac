-------------------------------- MODULE MCNvme --------------------------------
(***************************************************************************)
(* NVMe commands, the splitting of batches and the disk layer above them    *)
(* for TLC.  A behaviour exercises one of the models, named by part, and    *)
(* leaves the others in an initial state.                                   *)
(***************************************************************************)
EXTENDS Naturals, TLC

CONSTANTS r1, r2, r3, s1, s2, NoReq

VARIABLES
  part,
  req, rqs, nextTag, cache, aux, call, sq, dev, cq, head, phase, tail, tphase, alive,
  op, batch, disk, mem, rounds, flight, result,
  bdisk, ops, stable, dcache, dcall, staging, scope, win, calls, acked, promised

ioVars == <<req, rqs, nextTag, cache, aux, call, sq, dev, cq, head, phase, tail,
            tphase, alive>>
batchVars == <<op, batch, disk, mem, rounds, flight, result>>
diskVars == <<bdisk, ops, stable, dcache, dcall, staging, scope, win, calls, acked,
              promised>>

(* Three requests; and two with cached auxiliary memory and a controller    *)
(* that holds more commands.                                                *)
Io == INSTANCE NvmeIo WITH
  Requests <- {r1, r2, r3}, NrTags <- 4, CacheMax <- 1, NAux <- 0, BatchMax <- 2,
  Depth <- 2, Held <- 1, Timeouts <- {"batch"}
Aux == INSTANCE NvmeIo WITH
  Requests <- {s1, s2}, NrTags <- 3, CacheMax <- 1, NAux <- 1, BatchMax <- 2,
  Depth <- 2, Held <- 3, Timeouts <- {"batch"}
Batch == INSTANCE NvmeBatch WITH
  Sectors <- 0 .. 2, Buffers <- 0 .. 2, MaxLen <- 2, MaxRequests <- 3,
  ParallelMax <- 2, MaxTransfer <- 2
(* NVMe with and without its batch and flag operations, and a disk with     *)
(* plain reads and writes only.                                             *)
Disk == INSTANCE DiskIo WITH
  disk <- bdisk, cache <- dcache, call <- dcall,
  NSectors <- 2, StageLen <- 3, OneStage <- 2, MaxLen <- 2, MaxBatch <- 2,
  MaxCalls <- 2,
  Drivers <- {{"read_batch", "write_batch", "flags", "flush"}, {"flush"}, {}}

Init ==
  /\ part \in {"io", "aux", "batch", "disk"}
  /\ IF part = "aux" THEN Aux!Init ELSE Io!Init
  /\ IF part = "batch"
     THEN Batch!Init
     ELSE /\ op = "read" /\ batch = <<>> /\ disk = <<>> /\ mem = <<>>
          /\ rounds = <<>> /\ flight = <<>> /\ result = "ok"
  /\ Disk!Init /\ (part # "disk" => ops = {} /\ bdisk.lbs = 1)

Next ==
  /\ part' = part
  /\ \/ /\ (part = "io" /\ Io!Next) \/ (part = "aux" /\ Aux!Next)
        /\ UNCHANGED <<batchVars, diskVars>>
     \/ part = "batch" /\ Batch!Next /\ UNCHANGED <<ioVars, diskVars>>
     \/ part = "disk" /\ Disk!Next /\ UNCHANGED <<ioVars, batchVars>>

vars == <<part, ioVars, batchVars, diskVars>>
Spec == Init /\ [][Next]_vars

(* Request memory is interchangeable. *)
Symmetry == Permutations({r1, r2, r3})

-----------------------------------------------------------------------------
(* The types of all variables. *)
TypeOK ==
  CASE part = "io" -> Io!TypeOK
    [] part = "aux" -> Aux!TypeOK
    [] part = "batch" -> Batch!TypeOK
    [] part = "disk" -> Disk!TypeOK

(* NvmeIo: a completion completes the command it was posted for, success     *)
(* means the command was performed, the device touches only memory that is   *)
(* still mapped for it, auxiliary memory has one user, commands in flight    *)
(* have different tags, and no written command waits for its doorbell.       *)
CommandsOwn ==
  IF part = "aux"
  THEN /\ Aux!OwnCompletion /\ Aux!OkMeansDone /\ Aux!DeviceMemory
       /\ Aux!AuxExclusive /\ Aux!TagsDistinct /\ Aux!DoorbellRung
  ELSE /\ Io!OwnCompletion /\ Io!OkMeansDone /\ Io!DeviceMemory
       /\ Io!TagsDistinct /\ Io!DoorbellRung

(* NvmeBatch: the commands a batch becomes do what its requests ask for and  *)
(* fit the controller, and an unfit batch is refused as a whole.             *)
BatchExact ==
  part = "batch" =>
    Batch!WritesLand /\ Batch!ReadsLand /\ Batch!WritesFit /\ Batch!RefusedWhole

(* DiskIo: readers get the sectors they asked for, acknowledged writes are   *)
(* made and, when promised, survive power loss, staging windows balance, and *)
(* a read-only or absent disk is not written.                                *)
DiskTrue ==
  [][/\ (Disk!BuffersTrue /\ Disk!AckedWritten /\ Disk!Durable /\ Disk!WindowHeld)'
     /\ Disk!Protected]_vars
=============================================================================
