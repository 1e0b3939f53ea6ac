------------------------------ MODULE MCObjects ------------------------------
(***************************************************************************)
(* Objects with a lifetime for TLC, in settings named by part: inodes,     *)
(* dentries and files ("two" inode numbers beside the root with lookups    *)
(* inside iput, and a "chain" of dentries below the root that callers hold *)
(* twice); "modules" that export and import names; the "image" of a module *)
(* laid out and protected, and the operands "patch"ed into it; "mounts" of *)
(* two devices by three filesystem types; and the kernel object tables:    *)
(* "cdevs", "proc", "fds" and "vmas".                                      *)
(***************************************************************************)
EXTENDS TLC, Integers, Sequences

CONSTANTS i0, i1, i2, n0, n1, n2, root, d1, d2, f1, f2, sda, sdb, None

VARIABLES part, ino, den, file, iheld, dheld, meta, todo,
          gone, mod, loaded, exports, prep, percpu, jiffies, task, ctx, over,
          phase, secs, used, last, turn, run, pages, patch,
          types, dev, bound, sb, mounted, probe, alive, at, owed, failed, steps,
          chr, nextMajor, region, cdev, ops, proc, fds, nextFd, files, vmas, answered

vfsVars == <<ino, den, file, iheld, dheld, meta, todo>>
loaderVars == <<gone, mod, loaded, exports, prep, percpu, jiffies, task, ctx, over>>
imageVars == <<phase, secs, used, last, turn, run, pages, patch>>
mountVars == <<types, dev, bound, sb, mounted, probe, alive, at, owed, failed, steps>>
chrVars == <<chr, nextMajor, region, cdev, ops>>
fdVars == <<fds, nextFd, files>>
vmaVars == <<vmas, answered>>
tableVars == <<chrVars, proc, fdVars, vmaVars>>
otherVars == <<vfsVars, loaderVars, imageVars, mountVars>>
vars == <<part, otherVars, tableVars>>

Two == INSTANCE VfsObjects WITH
  Inodes <- {i0, i1, i2}, RootInode <- i0, Numbers <- {n0, n1, n2}, RootNumber <- n0,
  Dentries <- {root, d1}, Root <- root, Files <- {f1, f2}, MaxIHeld <- 1, MaxDHeld <- 1,
  Nested <- {n1, n2}
Chain == INSTANCE VfsObjects WITH
  Inodes <- {i0, i1}, RootInode <- i0, Numbers <- {n0, n1}, RootNumber <- n0,
  Dentries <- {root, d1, d2}, Root <- root, Files <- {}, MaxIHeld <- 2, MaxDHeld <- 2,
  Nested <- {}

(* "a" and "b" define foo, "a" and "d" bar; "c" uses foo twice, and stubs    *)
(* run out when baz comes from a module as well; usb is kobox's own.  Not    *)
(* all exports fit, nor all per-CPU areas in every order.                    *)
Modules == INSTANCE ModuleLoader WITH
  Images <- {"a", "b", "c", "d"},
  Needs <- [a |-> <<"printk", "init_task">>, b |-> <<"bar", "jiffies">>,
            c |-> <<"usb", "foo", "foo", "bar", "baz", "jiffies">>, d |-> <<"foo", "own">>],
  Defines <- [a |-> <<"foo", "bar", "usb">>, b |-> <<"foo", "baz">>, c |-> <<"own">>,
              d |-> <<"bar">>],
  PerCpu <- [a |-> [size |-> 3, align |-> 2], b |-> [size |-> 5, align |-> 8],
             c |-> [size |-> 0, align |-> 1], d |-> [size |-> 4, align |-> 4]],
  HasInit <- {"a", "c", "d"}, Code <- {"foo", "baz", "usb", "own"},
  Providers <- <<<<"printk", "usb">>, <<"printk", "foo">>, <<"bar">>>>,
  Special <- {"init_task"}, Local <- {"jiffies"}, Jiffies <- "jiffies",
  Interposed <- {"usb"}, MaxExports <- 4, StubCount <- 7, MaxJiffies <- 3,
  AreaStart <- 8, AreaSize <- 24, MinAlign <- 4

Image == INSTANCE ModuleImage WITH
  Page <- 4, Sizes <- {0, 1, 4, 5}, Alignments <- {1, 8}, MaxSections <- 3,
  StubPages <- 1, DataPages <- 1, Half <- 3, Kinds <- {}, Addends <- {}, Places <- {}
Patch == INSTANCE ModuleImage WITH
  Page <- 4, Sizes <- {1}, Alignments <- {1}, MaxSections <- 1,
  StubPages <- 1, DataPages <- 1, Half <- 3,
  Kinds <- {"64", "pc64", "pc32", "32", "32s", "other"}, Addends <- {-4, 0, 3},
  Places <- {0, 5, 31, 32, 63}

(* "x2" replaces "x" in its record; "y" has neither a journal nor a kill_sb. *)
Mount == INSTANCE Mounts WITH
  Types <- {"x", "x2", "y"}, NameOf <- [x |-> "x", x2 |-> "x", y |-> "y"],
  WithKill <- {"x", "x2"}, Journals <- {"x"}, Slots <- 1..2,
  Devices <- {sda, sdb}, Changes <- [data |-> "page", meta |-> "inode"],
  Mark <- "mark", todo <- steps

(* Records run out in each table; drivers "u" and "v" have dynamic majors.   *)
Tables == INSTANCE KernelObjects WITH
  Slots <- 1..3, Drivers <- {"u", "v", "w"}, Allocated <- {"v"},
  Fixed <- [u |-> 0, v |-> 0, w |-> 1], Ops <- {"o1", "o2"}, FirstMajor <- 240,
  MaxMajor <- 242, ProcNames <- {"p", "q"}, MaxDepth <- 2, MaxFd <- 3, OtherFds <- {1},
  Mms <- {"m1", "m2"}, Pages <- {"p1", "p2"}, NoMm <- "null"
Wide == INSTANCE KernelObjects WITH
  Slots <- 1..5, Drivers <- {"u", "v", "w"}, Allocated <- {"v"},
  Fixed <- [u |-> 0, v |-> 0, w |-> 1], Ops <- {"o1", "o2"}, FirstMajor <- 240,
  MaxMajor <- 242, ProcNames <- {"p", "q"}, MaxDepth <- 3, MaxFd <- 5, OtherFds <- {1},
  Mms <- {"m1", "m2"}, Pages <- {"p1", "p2", "p3"}, NoMm <- "null"

Init ==
  /\ part \in {"two", "chain", "modules", "image", "patch", "mounts",
               "cdevs", "proc", "fds", "vmas"}
  /\ IF part = "two" THEN Two!Init ELSE Chain!Init
  /\ Modules!Init
  /\ Image!Init
  /\ Mount!Init
  /\ IF part \in {"proc", "vmas"} THEN Wide!Init ELSE Tables!Init
Next ==
  /\ part' = part
  /\ \/ /\ (part = "two" /\ Two!Next) \/ (part = "chain" /\ Chain!Next)
        /\ UNCHANGED <<loaderVars, imageVars, mountVars, tableVars>>
     \/ /\ part = "modules" /\ Modules!Next
        /\ UNCHANGED <<vfsVars, imageVars, mountVars, tableVars>>
     \/ /\ (part = "image" /\ Image!Next) \/ (part = "patch" /\ Patch!Next)
        /\ UNCHANGED <<vfsVars, loaderVars, mountVars, tableVars>>
     \/ /\ part = "mounts" /\ Mount!Next
        /\ UNCHANGED <<vfsVars, loaderVars, imageVars, tableVars>>
     \/ part = "cdevs" /\ Tables!ChrNext /\ UNCHANGED <<otherVars, proc, fdVars, vmaVars>>
     \/ part = "proc" /\ Wide!ProcNext /\ UNCHANGED <<otherVars, chrVars, fdVars, vmaVars>>
     \/ part = "fds" /\ Tables!FdNext /\ UNCHANGED <<otherVars, chrVars, proc, vmaVars>>
     \/ part = "vmas" /\ Wide!VmaNext /\ UNCHANGED <<otherVars, chrVars, proc, fdVars>>
Spec == Init /\ [][Next]_vars

(* Storage, inode numbers but the root's, files and devices are interchangeable. *)
Symmetry ==
  Permutations({i1, i2}) \cup Permutations({n1, n2}) \cup Permutations({d1, d2})
  \cup Permutations({f1, f2}) \cup Permutations({sda, sdb})

-----------------------------------------------------------------------------
(* The types of all variables. *)
TypeOK ==
  CASE part = "two" -> Two!TypeOK
    [] part = "chain" -> Chain!TypeOK
    [] part = "modules" -> Modules!TypeOK
    [] part = "mounts" -> Mount!TypeOK
    [] part \in {"cdevs", "fds"} -> Tables!TypeOK
    [] part \in {"proc", "vmas"} -> Wide!TypeOK
    [] OTHER -> Image!TypeOK

(* VfsObjects: reference counts are exact along chains of dentries, nothing  *)
(* refers to freed storage, writers are counted, a number has one in-core    *)
(* inode, and metadata is written before its inode goes, or its failure      *)
(* recorded.  ModuleLoader: what is exported and what is linked exists, a    *)
(* name means one module, per-CPU areas are apart and no context is left.    *)
(* ModuleImage: sections can be used as they say and operands reach.         *)
(* Mounts: what was synced or unmounted is stable on the mount's own device, *)
(* a filesystem name has one record and a probe tells what is mounted.       *)
(* KernelObjects: numbers, paths, descriptors and addresses find what they   *)
(* stand for, past the records of what is gone.                              *)
ObjectsKept ==
  CASE part = "two" ->
         /\ Two!RefsExact /\ Two!NoDangling /\ Two!WritersCounted
         /\ Two!OneInodePerNumber /\ Two!MetadataKept
    [] part = "chain" ->
         /\ Chain!RefsExact /\ Chain!NoDangling
         /\ Chain!OneInodePerNumber /\ Chain!MetadataKept
    [] part = "modules" ->
         /\ Modules!ExportsOwned /\ Modules!LinksLive /\ Modules!OneProvider
         /\ Modules!AreasApart /\ Modules!ContextsLeft
    [] part = "mounts" ->
         /\ Mount!OneRecord /\ Mount!SyncedIsStable /\ Mount!UnmountKeeps
         /\ Mount!OwnDevice /\ Mount!ToldTrue
    [] part = "cdevs" -> Tables!CdevsFound
    [] part = "proc" -> Wide!ProcTree
    [] part = "fds" -> Tables!FdsTrue
    [] part = "vmas" -> Wide!PagesStable
    [] OTHER -> Image!ImageUsable /\ Image!OperandsReach
=============================================================================
