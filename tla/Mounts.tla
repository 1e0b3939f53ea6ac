------------------------------- MODULE Mounts -------------------------------
(***************************************************************************)
(* Filesystem types, the mount of a block device, syncing and unmounting   *)
(* it (fs.c): register_filesystem, the probe that mounts through           *)
(* get_tree_bdev, sync_filesystem, kill_block_super, and the teardown of   *)
(* the objects of a mount.                                                 *)
(*                                                                         *)
(* A change made to the mounted filesystem moves from a dirty page or      *)
(* inode, over the journal and dirty buffers, to the cache of a device and *)
(* is stable once that is flushed.  What the filesystem's own operations   *)
(* (writepages, write_inode, sync_fs, put_super, fill_super) do with it is *)
(* external.  `todo' is the rest of the call in progress; its steps run    *)
(* deferred work, which may change the filesystem while it is synced.      *)
(***************************************************************************)
EXTENDS Naturals, Sequences, FiniteSets, SequencesExt

CONSTANTS
    Types,     \* struct file_system_type of the modules
    NameOf,    \* type -> its name
    WithKill,  \* the types with a kill_sb, which is kill_block_super
    Journals,  \* the types whose write_inode goes to a journal sync_fs commits
    Slots,     \* the indices of fs_types, 1..KB_FS_TYPE_MAX
    Devices,
    Changes,   \* change -> "page" or "inode", where it starts
    Mark,      \* what put_super itself writes, not in DOMAIN Changes
    None

VARIABLES
    types,    \* fs_types: slot -> [name, type] or None
    dev,      \* mount_probe_block_device
    bound,    \* active_bdev_binding.device
    sb,       \* mount_probe_super_block: [type, dev] or None
    mounted,  \* mount_probe_mounted
    probe,    \* last_mount_path_probe: [type, super, result]
    alive,    \* devices not destroyed
    at,       \* change -> [place, dev]
    owed,     \* what the sync in progress has to make stable
    failed,   \* some step of the unmount failed
    todo

vars == <<types, dev, bound, sb, mounted, probe, alive, at, owed, failed, todo>>

All == DOMAIN Changes \cup {Mark}
In(p) == [place |-> p, dev |-> None]
On(p, d) == [place |-> p, dev |-> d]
Places(w) == at[w].place
Dirty == {"page", "inode", "journal", "buffer", "cache"}
NoProbe == [type |-> None, super |-> FALSE, result |-> 0]

Init ==
    /\ types = [s \in Slots |-> None] /\ dev = None /\ bound = None /\ sb = None
    /\ mounted = FALSE /\ probe = NoProbe /\ alive = Devices
    /\ at = [w \in All |-> In("none")] /\ owed = {} /\ failed = FALSE /\ todo = <<>>

Idle == todo = <<>>
Step(s) == todo /= <<>> /\ Head(todo) = s

(***************************************************************************)
(* The registry of filesystem types.                                       *)
(***************************************************************************)
Least(S) == CHOOSE s \in S : \A r \in S : s <= r
ByType(t) == {s \in Slots : types[s] /= None /\ types[s].type = t}
ByName(n) == {s \in Slots : types[s] /= None /\ types[s].name = n}
Free == {s \in Slots : types[s] = None}

\* register_filesystem takes the record of the type, else of its name, else a
\* free one.
RecordFor(t) ==
    IF ByType(t) /= {} THEN ByType(t)
    ELSE IF ByName(NameOf[t]) /= {} THEN ByName(NameOf[t]) ELSE Free

RegisterFilesystem(t) ==
    /\ Idle /\ RecordFor(t) /= {}
    /\ LET s == Least(RecordFor(t))
           name == IF types[s] = None THEN NameOf[t] ELSE types[s].name
       IN types' = [types EXCEPT ![s] = [name |-> name, type |-> t]]
    /\ UNCHANGED <<dev, bound, sb, mounted, probe, alive, at, owed, failed, todo>>

UnregisterFilesystem(t) ==
    /\ Idle /\ ByType(t) /= {}
    /\ types' = [types EXCEPT ![Least(ByType(t))] = None]
    /\ UNCHANGED <<dev, bound, sb, mounted, probe, alive, at, owed, failed, todo>>

(***************************************************************************)
(* What a call has to do, step by step.                                    *)
(***************************************************************************)
SyncSteps == <<"inodes0", "super0", "buffers", "inodes1", "super1", "blockdev", "synced">>

\* unmount_probe_super_block uses the kill_sb of the type probed last.
UnmountSteps(t) ==
    IF ~mounted \/ sb = None THEN <<>>
    ELSE SyncSteps \o
         (IF t \in WithKill THEN <<"put_super", "sync_blockdev", "unmounted">>
          ELSE <<"put_super", "unmounted">>)
ClearSteps(t) == UnmountSteps(t) \o <<"clear">>

\* A step that fails ends the sync it belongs to; an unmount goes on.
AfterFailure ==
    IF Contains(todo, "synced")
    THEN SubSeq(todo, 1 + CHOOSE k \in DOMAIN todo : todo[k] = "synced", Len(todo))
    ELSE Tail(todo)
Returns(fell) ==
    /\ todo' = IF fell THEN AfterFailure ELSE Tail(todo)
    /\ owed' = IF fell THEN {} ELSE owed
    /\ failed' = (failed \/ (fell /\ Contains(todo, "clear")))
Unstable == {w \in All : Places(w) \in Dirty}

\* block_device_for_bdev, for the bdev of the mount.
BlockDevice == IF bound /= None THEN bound ELSE dev

(***************************************************************************)
(* sync_filesystem.                                                        *)
(***************************************************************************)
SyncFilesystem ==
    /\ Idle /\ mounted
    /\ todo' = SyncSteps /\ owed' = Unstable
    /\ UNCHANGED <<types, dev, bound, sb, mounted, probe, alive, at, failed>>

At(p) == {w \in All : Places(w) = p}
Stays == UNCHANGED <<types, dev, bound, sb, mounted, probe, alive>>

\* write_inode: to the journal or the buffers; without wait it may do nothing,
\* the change being in the journal already.
Written == In(IF sb.type \in Journals THEN "journal" ELSE "buffer")

\* writeback_inodes_for_super: the pages of every inode, then its metadata;
\* the first error is kept and the others still tried.
WritebackInodes ==
    /\ Step("inodes0") \/ Step("inodes1")
    /\ \E lost \in SUBSET At("page"), kept \in SUBSET At("inode") :
          /\ BlockDevice = None => lost = At("page")
          /\ at' = [w \in All |->
                      IF w \in lost THEN In("failed")
                      ELSE IF Places(w) = "page" THEN On("cache", BlockDevice)
                      ELSE IF Places(w) = "inode" /\ w \notin kept THEN Written ELSE at[w]]
          /\ Returns(lost \cup kept /= {})
    /\ Stays

\* sync_super: sync_fs starts a commit and, told to wait, completes it.
SyncSuper ==
    /\ Step("super0") \/ Step("super1")
    /\ \E W \in SUBSET At("journal") :
          \/ /\ W = At("journal") \/ (Step("super0") /\ W = {})
             /\ BlockDevice /= None \/ W = {}
             /\ at' = [w \in All |-> IF w \in W THEN On("cache", BlockDevice) ELSE at[w]]
             /\ Returns(FALSE)
          \/ /\ W = {} /\ At("journal") /= {}
             /\ UNCHANGED at /\ Returns(TRUE)
    /\ Stays

\* A buffer whose write fails is given up, its error recorded.
FlushDirtyBuffers ==
    /\ Step("buffers")
    /\ \E bad \in SUBSET At("buffer") :
          /\ BlockDevice = None => bad = At("buffer")
          /\ at' = [w \in All |-> IF w \in bad THEN In("failed")
                                  ELSE IF Places(w) = "buffer" THEN On("cache", BlockDevice)
                                  ELSE at[w]]
          /\ Returns(bad /= {})
    /\ Stays

\* sync_blockdev: the buffers, and the device's flush even when some failed.
SyncBlockdev ==
    /\ Step("blockdev") \/ Step("sync_blockdev")
    /\ \E bad \in SUBSET At("buffer"), flushed \in BOOLEAN :
          /\ BlockDevice = None => bad = At("buffer") /\ ~flushed
          /\ at' = [w \in All |->
                      IF w \in bad THEN In("failed")
                      ELSE IF Places(w) = "buffer"
                           THEN On(IF flushed THEN "stable" ELSE "cache", BlockDevice)
                      ELSE IF flushed /\ at[w] = On("cache", BlockDevice)
                           THEN On("stable", BlockDevice) ELSE at[w]]
          /\ Returns(bad /= {} \/ ~flushed)
    /\ Stays

Synced ==
    /\ Step("synced") /\ todo' = Tail(todo) /\ owed' = {}
    /\ UNCHANGED <<types, dev, bound, sb, mounted, probe, alive, at, failed>>

\* A change to the filesystem, from a caller or from deferred work while it is
\* being synced; there are no callers left when it is unmounted.
Change(w) ==
    /\ mounted /\ (Idle \/ IsSuffix(<<"synced">>, todo))
    /\ Places(w) = "none"
    /\ at' = [at EXCEPT ![w] = In(Changes[w])]
    /\ UNCHANGED <<types, dev, bound, sb, mounted, probe, alive, owed, failed, todo>>

(***************************************************************************)
(* Unmounting.                                                             *)
(***************************************************************************)
\* put_super ends the journal and writes the filesystem's mark.
PutSuper ==
    /\ Step("put_super") /\ todo' = Tail(todo)
    /\ at' = [w \in All |-> IF w = Mark \/ Places(w) = "journal" THEN In("buffer") ELSE at[w]]
    /\ UNCHANGED <<owed, failed>> /\ Stays

Unmounted ==
    /\ Step("unmounted") /\ todo' = Tail(todo) /\ mounted' = FALSE
    /\ UNCHANGED <<types, dev, bound, sb, probe, alive, at, owed, failed>>

\* clear_mount_probe_objects after the unmount: buffers and folios are dropped,
\* whatever is in them.
ClearObjects ==
    /\ Step("clear") /\ todo' = Tail(todo)
    /\ at' = [w \in All |-> In("none")]
    /\ sb' = None /\ mounted' = FALSE /\ bound' = None /\ failed' = FALSE
    /\ UNCHANGED <<types, dev, probe, alive, owed>>

SetDevice(d) ==
    /\ Idle /\ d \in alive /\ dev' = d
    /\ UNCHANGED <<types, bound, sb, mounted, probe, alive, at, owed, failed, todo>>

\* The device is forgotten before the mount on it is taken down.
SetNoDevice ==
    /\ Idle /\ dev' = None /\ todo' = ClearSteps(probe.type)
    /\ owed' = IF mounted THEN Unstable ELSE {}
    /\ UNCHANGED <<types, bound, sb, mounted, probe, alive, at, failed>>

\* Callers destroy a device when nothing is bound to it.
DestroyDevice(d) ==
    /\ Idle /\ d \in alive /\ bound /= d
    /\ alive' = alive \ {d} /\ dev' = IF dev = d THEN None ELSE dev
    /\ UNCHANGED <<types, bound, sb, mounted, probe, at, owed, failed, todo>>

(***************************************************************************)
(* Mounting.                                                               *)
(***************************************************************************)
\* The probe forgets the one before.
Forgotten(t) == [NoProbe EXCEPT !.type = t]

\* probe_registered_mount_path: the fs_context's init, ops, parse_param or
\* get_tree may be missing or fail, and then the context is released; else
\* get_tree_bdev takes down the mount there is.  Without a device, or a
\* fill_super, it does nothing.
Probe(n) ==
    /\ Idle /\ ByName(n) /= {}
    /\ LET t == types[Least(ByName(n))].type IN
       /\ probe' = Forgotten(t)
       /\ \/ todo' = <<"release">> /\ UNCHANGED owed
          \/ /\ dev /= None
             /\ todo' = ClearSteps(t) \o <<"fill", "release">>
             /\ owed' = IF mounted THEN Unstable ELSE {}
    /\ UNCHANGED <<types, dev, bound, sb, mounted, alive, at, failed>>

\* The rest of get_tree_bdev: the objects of the mount, bound to the device,
\* and what fill_super says of them.
FillSuper ==
    /\ Step("fill") /\ todo' = Tail(todo)
    /\ sb' = [type |-> probe.type, dev |-> dev] /\ bound' = dev
    /\ \E result \in {0, 1} :
          /\ probe' = [probe EXCEPT !.super = TRUE, !.result = result]
          /\ mounted' = (result = 0)
    /\ UNCHANGED <<types, dev, alive, at, owed, failed>>

\* ENOMEM leaves no mount.
FillNoMemory ==
    /\ Step("fill") /\ todo' = Tail(todo)
    /\ UNCHANGED <<types, dev, bound, sb, mounted, probe, alive, at, owed, failed>>

\* The fs_context is released and freed, whatever get_tree returned.
Release ==
    /\ Step("release") /\ todo' = Tail(todo)
    /\ UNCHANGED <<types, dev, bound, sb, mounted, probe, alive, at, owed, failed>>

Next ==
    \/ \E t \in Types : RegisterFilesystem(t) \/ UnregisterFilesystem(t)
    \/ SyncFilesystem \/ WritebackInodes \/ SyncSuper \/ FlushDirtyBuffers
    \/ SyncBlockdev \/ Synced \/ PutSuper \/ Unmounted \/ ClearObjects
    \/ \E w \in DOMAIN Changes : Change(w)
    \/ SetNoDevice \/ \E d \in Devices : SetDevice(d) \/ DestroyDevice(d)
    \/ \E t \in Types : Probe(NameOf[t])
    \/ FillSuper \/ FillNoMemory \/ Release
Spec == Init /\ [][Next]_vars

-----------------------------------------------------------------------------
(* The types of the variables. *)
TypeOK ==
    /\ \A s \in Slots : types[s] /= None => types[s].type \in Types
    /\ {dev, bound} \subseteq Devices \cup {None} /\ mounted \in BOOLEAN
    /\ sb /= None => sb.type \in Types /\ sb.dev \in Devices
    /\ alive \subseteq Devices /\ owed \subseteq All /\ failed \in BOOLEAN
    /\ \A w \in All :
          /\ Places(w) \in Dirty \cup {"none", "stable", "failed"}
          /\ (at[w].dev /= None) = (Places(w) \in {"cache", "stable"})

(* register_filesystem: a name has one record and a type one, although the   *)
(* modules that register do not know of each other.                          *)
OneRecord ==
    \A r, s \in Slots : types[r] /= None /\ types[s] /= None /\ r /= s =>
       types[r].name /= types[s].name /\ types[r].type /= types[s].type

(* sync_filesystem returns 0 only when all that was dirty when it was called *)
(* is stable, whatever deferred work changes meanwhile.                      *)
SyncedIsStable == Step("synced") => \A w \in owed : Places(w) = "stable"

(* When the objects of a mount are dropped, everything is stable unless      *)
(* something failed; put_super's own write needs the kill_sb of the type     *)
(* probed last.                                                              *)
UnmountKeeps ==
    Step("clear") =>
       \A w \in All : \/ failed \/ Places(w) \notin Dirty
                      \/ w = Mark /\ probe.type \notin WithKill

(* Nothing of a mount reaches another device than the one it is on, although *)
(* the device of the next mount may be set, or none, while it is there.      *)
OwnDevice ==
    sb /= None =>
       /\ bound = sb.dev /\ bound \in alive
       /\ \A w \in All : at[w].dev \in {None, sb.dev}

(* A caller told by the probe of a super block that was filled has a mount   *)
(* of the type asked for.                                                    *)
ToldTrue ==
    Step("release") /\ probe.super /\ probe.result = 0 =>
       mounted /\ sb /= None /\ sb.type = probe.type
=============================================================================
