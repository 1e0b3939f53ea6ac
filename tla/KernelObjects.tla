---------------------------- MODULE KernelObjects ----------------------------
(***************************************************************************)
(* The tables of fs/kernel_object_registry.c: character device regions and *)
(* cdevs, proc entries, file descriptors over stand-in files, and the      *)
(* stand-in pages of user addresses.  The four groups share no state.      *)
(*                                                                         *)
(* Records of regions, proc entries, cdevs and addresses are never given   *)
(* back, only made inactive, so a lookup may meet an old one.  Drivers     *)
(* take their regions, add their cdev, and take both down in the opposite  *)
(* order; a proc handle is used until the entry, or a directory above it,  *)
(* is removed; a file belongs to its opener until it is installed.         *)
(***************************************************************************)
EXTENDS Naturals, Sequences, FiniteSets, SequencesExt

CONSTANTS
    Slots,       \* the indices of each table, 1..KB_KERNEL_OBJECT_MAX
    Drivers,     \* each with the storage of one cdev
    Allocated,   \* the drivers whose cdev comes from cdev_alloc, once
    Fixed,       \* driver -> the major it asks for, 0 for a dynamic one
    Ops,         \* file operations
    FirstMajor,  \* first value of kb_next_dynamic_major
    MaxMajor,    \* bound on the dynamic majors given out
    ProcNames, MaxDepth,
    MaxFd,       \* KB_FAKE_FD_MAX
    OtherFds,    \* descriptors drivers install that were not handed out
    Mms, Pages,
    NoMm,        \* a NULL mm
    None

VARIABLES
    chr,        \* slot -> [active, major, driver] or None
    nextMajor,  \* kb_next_dynamic_major
    region,     \* driver -> the major it was given, or None
    cdev,       \* slot -> [cdev, active, ops, major] or None
    ops,        \* driver -> the operations in the cdev's storage
    proc,       \* slot -> [path, active] or None
    fds,        \* slot -> [fd, file] or None
    nextFd,     \* kb_next_fake_fd
    files,      \* slot -> a stand-in file is there
    vmas,       \* slot -> [mm, page] or None
    answered    \* <<mm, page>> -> the slot a driver was answered, or None

chrVars == <<chr, nextMajor, region, cdev, ops>>
fdVars == <<fds, nextFd, files>>
vmaVars == <<vmas, answered>>
vars == <<chrVars, proc, fdVars, vmaVars>>

Init ==
    /\ chr = [s \in Slots |-> None] /\ nextMajor = FirstMajor
    /\ region = [d \in Drivers |-> None] /\ cdev = [s \in Slots |-> None]
    /\ ops = [d \in Drivers |-> None] /\ proc = [s \in Slots |-> None]
    /\ fds = [s \in Slots |-> None] /\ nextFd = 3 /\ files = [s \in Slots |-> FALSE]
    /\ vmas = [s \in Slots |-> None]
    /\ answered = [q \in (Mms \cup {NoMm}) \X Pages |-> None]

Least(S) == CHOOSE s \in S : \A r \in S : s <= r
Free(table) == {s \in Slots : table[s] = None}

(***************************************************************************)
(* Character device regions and cdevs.                                     *)
(***************************************************************************)
Major(d) == IF Fixed[d] = 0 THEN nextMajor ELSE Fixed[d]

\* register_chrdev and alloc_chrdev_region: the counter moves on even when the
\* table is full.
RegisterChrdev(d) ==
    /\ region[d] = None /\ nextMajor < MaxMajor
    /\ nextMajor' = IF Fixed[d] = 0 THEN nextMajor + 1 ELSE nextMajor
    /\ IF Free(chr) = {} THEN UNCHANGED <<chr, region>>
       ELSE /\ chr' = [chr EXCEPT ![Least(Free(chr))] =
                          [active |-> TRUE, major |-> Major(d), driver |-> d]]
            /\ region' = [region EXCEPT ![d] = Major(d)]
    /\ UNCHANGED <<cdev, ops>>

Regions(m) == {s \in Slots : chr[s] /= None /\ chr[s].major = m}
ActiveRegions(m) == {s \in Regions(m) : chr[s].active}

\* The record of a cdev's storage, else a free one.
CdevRecords(d) == {s \in Slots : cdev[s] /= None /\ cdev[s].cdev = d}
SlotFor(d) == IF CdevRecords(d) /= {} THEN CdevRecords(d) ELSE Free(cdev)
Added(d) == \E s \in CdevRecords(d) : cdev[s].active

UnregisterChrdev(d) ==
    /\ region[d] /= None /\ ~Added(d)
    /\ chr' = [chr EXCEPT ![Least(ActiveRegions(region[d]))].active = FALSE]
    /\ region' = [region EXCEPT ![d] = None]
    /\ UNCHANGED <<nextMajor, cdev, ops>>

NewCdev(d) == [cdev |-> d, active |-> FALSE, ops |-> None, major |-> None]
RecordOf(d) == IF CdevRecords(d) /= {} THEN cdev[Least(CdevRecords(d))] ELSE NewCdev(d)

\* cdev_init: the operations go to the storage and replace the record's.
CdevInit(d, o) ==
    /\ d \notin Allocated /\ ~Added(d) /\ SlotFor(d) /= {}
    /\ cdev' = [cdev EXCEPT ![Least(SlotFor(d))] = [RecordOf(d) EXCEPT !.ops = o]]
    /\ ops' = [ops EXCEPT ![d] = o]
    /\ UNCHANGED <<chr, nextMajor, region>>

\* cdev_alloc: cdev_init without operations; the driver stores them itself.
CdevAlloc(d) ==
    /\ d \in Allocated /\ CdevRecords(d) = {} /\ SlotFor(d) /= {}
    /\ cdev' = [cdev EXCEPT ![Least(SlotFor(d))] = NewCdev(d)]
    /\ UNCHANGED <<chr, nextMajor, region, ops>>
StoreOps(d, o) ==
    /\ d \in Allocated /\ CdevRecords(d) /= {} /\ ops[d] = None
    /\ ops' = [ops EXCEPT ![d] = o]
    /\ UNCHANGED <<chr, nextMajor, region, cdev>>

\* cdev_capture_ops: only a record without operations takes them.
Captured(r, d) == IF r.ops /= None THEN r.ops ELSE ops[d]

CdevAdd(d) ==
    /\ region[d] /= None /\ ops[d] /= None /\ ~Added(d) /\ SlotFor(d) /= {}
    /\ LET r == RecordOf(d) IN
       cdev' = [cdev EXCEPT ![Least(SlotFor(d))] =
                  [cdev |-> d, active |-> TRUE, ops |-> Captured(r, d), major |-> region[d]]]
    /\ UNCHANGED <<chr, nextMajor, region, ops>>

CdevDel(d) ==
    /\ Added(d)
    /\ cdev' = [cdev EXCEPT ![Least(CdevRecords(d))].active = FALSE]
    /\ UNCHANGED <<chr, nextMajor, region, ops>>

ChrNext ==
    \E d \in Drivers :
       \/ RegisterChrdev(d) \/ UnregisterChrdev(d) \/ CdevAlloc(d) \/ CdevAdd(d) \/ CdevDel(d)
       \/ \E o \in Ops : CdevInit(d, o) \/ StoreOps(d, o)

(***************************************************************************)
(* Proc entries.                                                           *)
(***************************************************************************)
ProcAt(p) == {s \in Slots : proc[s] /= None /\ proc[s].path = p}
InUse(p) == \E s \in ProcAt(p) : proc[s].active
Parents == {<<>>} \cup {proc[s].path : s \in {r \in Slots : proc[r] /= None /\ proc[r].active}}

\* proc_create_data and proc_mkdir, in the root or below an entry.
ProcCreate(n, p) ==
    /\ Len(p) < MaxDepth /\ ~InUse(Append(p, n)) /\ Free(proc) /= {}
    /\ proc' = [proc EXCEPT ![Least(Free(proc))] = [path |-> Append(p, n), active |-> TRUE]]

\* proc_deactivate_tree: the path and every path below it.
InTree(p, q) == IsPrefix(p, q)
DeactivateTree(p) ==
    proc' = [s \in Slots |-> IF proc[s] /= None /\ InTree(p, proc[s].path)
                             THEN [proc[s] EXCEPT !.active = FALSE] ELSE proc[s]]
ProcRemove(s) == proc[s] /= None /\ proc[s].active /\ DeactivateTree(proc[s].path)

\* remove_proc_entry looks the path up, also among the removed.
RemoveProcEntry(n, p) == ProcAt(Append(p, n)) /= {} /\ DeactivateTree(Append(p, n))

ProcNext ==
    \/ \E p \in Parents, n \in ProcNames : ProcCreate(n, p) \/ RemoveProcEntry(n, p)
    \/ \E s \in Slots : ProcRemove(s)

(***************************************************************************)
(* File descriptors.                                                       *)
(***************************************************************************)
FdRecords(fd) == {s \in Slots : fds[s] /= None /\ fds[s].fd = fd}
Turn(k) == 3 + ((nextFd - 3 + k) % MaxFd)
Unused == {k \in 0..(MaxFd - 1) : FdRecords(Turn(k)) = {}}

\* get_unused_fd_flags: the next descriptor in turn without a record; the turn
\* moves on even when no record is left for it.
GetUnusedFd ==
    /\ Unused /= {}
    /\ nextFd' = Turn(Least(Unused) + 1)
    /\ fds' = IF Free(fds) = {} THEN fds
              ELSE [fds EXCEPT ![Least(Free(fds))] = [fd |-> Turn(Least(Unused)), file |-> None]]
    /\ UNCHANGED files

Installed == {fds[s].file : s \in {r \in Slots : fds[r] /= None}} \ {None}

\* fd_install replaces the file of the record, or takes a new record.
FdInstall(fd, f) ==
    /\ files[f] /\ f \notin Installed
    /\ LET S == IF FdRecords(fd) /= {} THEN FdRecords(fd) ELSE Free(fds) IN
       S /= {} /\ fds' = [fds EXCEPT ![Least(S)] = [fd |-> fd, file |-> f]]
    /\ UNCHANGED <<nextFd, files>>

\* close_fd does not release the file: no record says it owns it.
CloseFd(fd) ==
    /\ FdRecords(fd) /= {}
    /\ fds' = [fds EXCEPT ![Least(FdRecords(fd))] = None]
    /\ UNCHANGED <<nextFd, files>>

FilpOpen ==
    /\ \E f \in Slots : ~files[f]
    /\ files' = [files EXCEPT ![Least({f \in Slots : ~files[f]})] = TRUE]
    /\ UNCHANGED <<fds, nextFd>>
FilpClose(f) ==
    /\ files[f] /\ f \notin Installed
    /\ files' = [files EXCEPT ![f] = FALSE] /\ UNCHANGED <<fds, nextFd>>

FdNext ==
    \/ GetUnusedFd \/ FilpOpen
    \/ \E f \in Slots :
          FilpClose(f) \/ \E fd \in 3..(MaxFd + 2) \cup OtherFds : FdInstall(fd, f)
    \/ \E fd \in 3..(MaxFd + 2) \cup OtherFds : CloseFd(fd)

(***************************************************************************)
(* Stand-in pages of user addresses.                                       *)
(***************************************************************************)
\* find_vma_record: the first record of the address; a NULL mm, asked for or
\* recorded, is any.
Matches(m, p) == {s \in Slots : vmas[s] /= None /\ vmas[s].page = p
                                /\ (m = NoMm \/ vmas[s].mm \in {NoMm, m})}

\* find_vma and, a page at a time, pin_user_pages.
FindVma(m, p) ==
    IF Matches(m, p) /= {}
    THEN answered' = [answered EXCEPT ![<<m, p>>] = Least(Matches(m, p))] /\ UNCHANGED vmas
    ELSE /\ Free(vmas) /= {}
         /\ vmas' = [vmas EXCEPT ![Least(Free(vmas))] = [mm |-> m, page |-> p]]
         /\ answered' = [answered EXCEPT ![<<m, p>>] = Least(Free(vmas))]

VmaNext == \E m \in Mms \cup {NoMm}, p \in Pages : FindVma(m, p)

Next ==
    \/ ChrNext /\ UNCHANGED <<proc, fdVars, vmaVars>>
    \/ ProcNext /\ UNCHANGED <<chrVars, fdVars, vmaVars>>
    \/ FdNext /\ UNCHANGED <<chrVars, proc, vmaVars>>
    \/ VmaNext /\ UNCHANGED <<chrVars, proc, fdVars>>
Spec == Init /\ [][Next]_vars

-----------------------------------------------------------------------------
(* The types of the variables. *)
TypeOK ==
    /\ nextMajor \in FirstMajor..MaxMajor /\ nextFd \in 3..(MaxFd + 2)
    /\ \A s \in Slots :
          /\ chr[s] /= None => chr[s].driver \in Drivers /\ chr[s].active \in BOOLEAN
          /\ cdev[s] /= None => cdev[s].cdev \in Drivers /\ cdev[s].active \in BOOLEAN
          /\ proc[s] /= None => proc[s].active \in BOOLEAN /\ Len(proc[s].path) \in 1..MaxDepth
          /\ files[s] \in BOOLEAN /\ (vmas[s] /= None => vmas[s].page \in Pages)

(* A dynamic major is never given out twice, so that the first record of a   *)
(* major, active or not, names the driver of an active cdev; a cdev serves   *)
(* with the operations its driver stored; and a number finds one cdev.       *)
CdevsFound ==
    \A s \in Slots : cdev[s] /= None /\ cdev[s].active =>
       LET d == cdev[s].cdev IN
       /\ cdev[s].ops = ops[d] /\ region[d] = cdev[s].major
       /\ Fixed[d] = 0 => chr[Least(Regions(cdev[s].major))].driver = d
       /\ \A r \in Slots : cdev[r] /= None /\ cdev[r].active /\ cdev[r].major = cdev[s].major
                           => r = s

(* No proc entry outlives a directory above it, by whichever of the two      *)
(* removals and whatever old records have the same paths.                    *)
ProcTree ==
    \A s \in Slots : proc[s] /= None /\ proc[s].active =>
       Len(proc[s].path) = 1 \/ InUse(Front(proc[s].path))

(* A descriptor has one record and its file exists, although descriptors     *)
(* come round again and drivers install some that were not handed out.       *)
FdsTrue ==
    /\ \A r, s \in Slots : fds[r] /= None /\ fds[s] /= None /\ fds[r].fd = fds[s].fd => r = s
    /\ \A f \in Installed : files[f]

(* An address keeps its page: asked again, in whatever order others asked    *)
(* in between, it is the one answered before; pages of different addresses,  *)
(* or of two address spaces unless one asked without an mm, are different.   *)
PagesStable ==
    /\ \A q \in DOMAIN answered :
          answered[q] /= None => Least(Matches(q[1], q[2])) = answered[q]
    /\ \A q, r \in DOMAIN answered :
          answered[q] /= None /\ answered[q] = answered[r] =>
             q[2] = r[2] /\ (q[1] = r[1] \/ NoMm \in {q[1], r[1], vmas[answered[q]].mm})
=============================================================================
