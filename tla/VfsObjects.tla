------------------------------ MODULE VfsObjects ------------------------------
(***************************************************************************)
(* Inodes, dentries and open files of fs.c and the references between      *)
(* them: the inode registry (iget_locked, insert_inode_locked, ihold,      *)
(* igrab, iput), the dentry registry (d_alloc, d_instantiate,              *)
(* d_splice_alias, d_obtain_alias, dget_parent, dput) and file open and    *)
(* close with write counts.                                                *)
(*                                                                         *)
(* `todo' is the rest of the call in progress: a last dput drops the inode *)
(* and then the parent; a last iput writes the inode back and evicts it,   *)
(* which runs filesystem code and deferred work that may call in again.    *)
(***************************************************************************)
EXTENDS Integers, Sequences, FiniteSets, FiniteSetsExt

CONSTANTS
    Inodes,    \* storage of the inode registry
    Numbers,   \* inode numbers of the filesystem
    Dentries,  \* storage of the dentry registry
    Root,      \* the root dentry, in Dentries
    Files, None,
    RootInode, RootNumber,
    MaxIHeld, MaxDHeld,  \* bounds: references callers keep on an object
    Nested     \* numbers looked up by code that runs inside iput and open

VARIABLES
    ino,    \* [Inodes -> inode or NoInode]
    den,    \* [Dentries -> dentry or NoDentry]
    file,   \* [Files -> open file or None]
    iheld,  \* [Inodes -> references of callers]
    dheld,  \* [Dentries -> references of callers]
    meta,   \* [Numbers -> metadata on disk is current, or its failure logged]
    todo

vars == <<ino, den, file, iheld, dheld, meta, todo>>

NoInode == [num |-> None, cnt |-> 0, nlink |-> 0, hashed |-> FALSE, freeing |-> FALSE,
            dirty |-> FALSE, writers |-> 0]
NoDentry == [inode |-> None, parent |-> None, ref |-> 0, pref |-> FALSE]
Live(i) == ino[i] /= NoInode
DLive(d) == den[d] /= NoDentry

\* A mounted filesystem: an inode for the root and its dentry.
NewInode(n, hashed) == [NoInode EXCEPT !.num = n, !.cnt = 1, !.nlink = 1, !.hashed = hashed]

Init ==
    /\ ino = [i \in Inodes |-> IF i = RootInode THEN NewInode(RootNumber, TRUE) ELSE NoInode]
    /\ den = [d \in Dentries |->
                IF d = Root THEN [NoDentry EXCEPT !.inode = RootInode, !.parent = Root, !.ref = 1]
                ELSE NoDentry]
    /\ file = [f \in Files |-> None]
    /\ iheld = [i \in Inodes |-> 0]
    /\ dheld = [d \in Dentries |-> IF d = Root THEN 1 ELSE 0]
    /\ meta = [n \in Numbers |-> TRUE] /\ todo = <<>>

Idle == todo = <<>>
\* Inside iput and open: deferred work of the writeback, the filesystem's
\* eviction and its open look up inodes other than the one that is going.
Inside(n) ==
    /\ todo /= <<>> /\ n \in Nested
    /\ todo[1][1] \in {"wb", "evict", "open"}
    /\ \A i \in Inodes : i = todo[1][2] => ino[i].num /= n
Unused(i) == ino[i] = NoInode

(***************************************************************************)
(* Inodes.                                                                 *)
(***************************************************************************)
IgetHit(n) == {i \in Inodes : ino[i].num = n /\ ino[i].hashed /\ ino[i].cnt /= 0}

\* iget_locked of a number: the registered inode with references, else a new
\* one; a full registry gives NULL.
Iget(n) ==
    /\ Idle \/ Inside(n)
    /\ IF IgetHit(n) /= {}
       THEN \E i \in IgetHit(n) :
              /\ iheld[i] < MaxIHeld
              /\ ino' = [ino EXCEPT ![i].cnt = @ + 1]
              /\ iheld' = [iheld EXCEPT ![i] = @ + 1]
       ELSE \E i \in Inodes :
              /\ Unused(i)
              /\ ino' = [ino EXCEPT ![i] = NewInode(n, TRUE)]
              /\ iheld' = [iheld EXCEPT ![i] = 1]
    /\ UNCHANGED <<den, file, dheld, meta, todo>>

\* new_inode, then insert_inode_locked under the number the filesystem chose:
\* refused while another inode that is not being freed has it (the filesystem
\* then gives the new inode up: it stays unhashed and unlinked).
Clash(i, n) ==
    \E j \in Inodes \ {i} : ino[j].num = n /\ ino[j].hashed /\ ~ino[j].freeing
Create(n) ==
    /\ Idle
    /\ \E i \in Inodes :
         /\ Unused(i)
         /\ iheld' = [iheld EXCEPT ![i] = 1]
         /\ IF Clash(i, n)
            THEN /\ ino' = [ino EXCEPT ![i] = [NewInode(n, FALSE) EXCEPT !.nlink = 0]]
                 /\ UNCHANGED meta
            ELSE /\ ino' = [ino EXCEPT ![i] = [NewInode(n, TRUE) EXCEPT !.dirty = TRUE]]
                 /\ meta' = [meta EXCEPT ![n] = FALSE]
    /\ UNCHANGED <<den, file, dheld, todo>>

\* igrab and ihold.
Igrab(i) ==
    /\ Idle /\ iheld[i] \in 1 .. MaxIHeld - 1
    /\ ino' = [ino EXCEPT ![i].cnt = @ + 1]
    /\ iheld' = [iheld EXCEPT ![i] = @ + 1]
    /\ UNCHANGED <<den, file, dheld, meta, todo>>

Dirty(i) ==
    /\ Idle /\ iheld[i] > 0 /\ ino[i].hashed /\ ~ino[i].dirty
    /\ ino' = [ino EXCEPT ![i].dirty = TRUE]
    /\ meta' = [meta EXCEPT ![ino[i].num] = FALSE]
    /\ UNCHANGED <<den, file, iheld, dheld, todo>>

\* The filesystem unlinks the inode (drop_nlink).
Unlink(i) ==
    /\ Idle /\ iheld[i] > 0 /\ ino[i].nlink > 0
    /\ ino' = [ino EXCEPT ![i].nlink = 0]
    /\ UNCHANGED <<den, file, iheld, dheld, meta, todo>>

Iput(i) ==
    /\ Idle /\ iheld[i] > 0
    /\ iheld' = [iheld EXCEPT ![i] = @ - 1]
    /\ todo' = <<<<"iput", i>>>>
    /\ UNCHANGED <<ino, den, file, dheld, meta>>

\* iput: the last reference of a linked inode starts its writeback, that of
\* an unlinked one its eviction.
IputStep ==
    /\ todo /= <<>> /\ todo[1][1] = "iput"
    /\ LET i == todo[1][2]
       IN  /\ ino' = [ino EXCEPT ![i].cnt = @ - 1,
                                ![i].freeing = ino[i].cnt = 1 /\ ino[i].nlink = 0]
           /\ todo' = IF ino[i].cnt > 1 THEN Tail(todo)
                      ELSE IF ino[i].nlink /= 0 THEN <<<<"wb", i>>>> \o Tail(todo)
                      ELSE <<<<"evict", i>>>> \o Tail(todo)
    /\ UNCHANGED <<den, file, iheld, dheld, meta>>

\* filemap_writeback_range and sync_inode_metadata: done, or the failure is
\* recorded in the mapping.
Synced(x) == [x EXCEPT !.dirty = FALSE, !.freeing = TRUE]
MetaAfter(i) ==
    IF ino[i].dirty THEN [meta EXCEPT ![ino[i].num] = TRUE] ELSE meta
IputWriteback ==
    /\ todo /= <<>> /\ todo[1][1] = "wb"
    /\ LET i == todo[1][2]
       IN  /\ ino' = [ino EXCEPT ![i] = Synced(@)]
           /\ meta' = MetaAfter(i)
           /\ todo' = <<<<"evict", i>>>> \o Tail(todo)
    /\ UNCHANGED <<den, file, iheld, dheld>>

AfterEvict == Tail(todo)
\* ->evict_inode of the filesystem, then free_fake_inode.  An unlinked inode's
\* number is free afterwards.
IputEvict ==
    /\ todo /= <<>> /\ todo[1][1] = "evict"
    /\ LET i == todo[1][2]
       IN  /\ ino' = [ino EXCEPT ![i] = NoInode]
           /\ meta' = IF ino[i].nlink = 0 /\ ino[i].hashed
                      THEN [meta EXCEPT ![ino[i].num] = TRUE] ELSE meta
    /\ todo' = AfterEvict
    /\ UNCHANGED <<den, file, iheld, dheld>>

(***************************************************************************)
(* Dentries.                                                               *)
(***************************************************************************)
\* d_alloc under a parent the caller refers to.
ParentTaken(p) == [den EXCEPT ![p].ref = @ + 1]
DAlloc(p) ==
    /\ Idle /\ dheld[p] > 0
    /\ \E d \in Dentries :
         /\ ~DLive(d)
         /\ den' = [ParentTaken(p) EXCEPT ![d] =
                      [NoDentry EXCEPT !.parent = p, !.ref = 1, !.pref = TRUE]]
         /\ dheld' = [dheld EXCEPT ![d] = 1]
    /\ UNCHANGED <<ino, file, iheld, meta, todo>>

\* d_instantiate, d_add, d_splice_alias: a negative dentry takes over the
\* caller's inode reference.
Instantiate(d, i) ==
    /\ Idle /\ dheld[d] > 0 /\ den[d].inode = None /\ iheld[i] > 0
    /\ den' = [den EXCEPT ![d].inode = i]
    /\ iheld' = [iheld EXCEPT ![i] = @ - 1]
    /\ UNCHANGED <<ino, file, dheld, meta, todo>>

\* d_obtain_alias takes the caller's inode reference: an existing dentry of
\* the inode gains a reference and the inode's is dropped, else a
\* disconnected dentry is made for it; with no room the reference is dropped.
Alias(i) == {d \in Dentries : den[d].inode = i}
AliasDrops(i) == <<<<"iput", i>>>>
ObtainAlias(i) ==
    /\ Idle /\ iheld[i] > 0
    /\ iheld' = [iheld EXCEPT ![i] = @ - 1]
    /\ IF Alias(i) /= {}
       THEN \E d \in Alias(i) :
              /\ dheld[d] < MaxDHeld
              /\ den' = [den EXCEPT ![d].ref = @ + 1]
              /\ dheld' = [dheld EXCEPT ![d] = @ + 1]
              /\ todo' = AliasDrops(i)
       ELSE IF \E d \in Dentries : ~DLive(d)
       THEN \E d \in Dentries :
              /\ ~DLive(d)
              /\ den' = [den EXCEPT ![d] =
                           [NoDentry EXCEPT !.inode = i, !.parent = d, !.ref = 1]]
              /\ dheld' = [dheld EXCEPT ![d] = 1]
              /\ UNCHANGED todo
       ELSE todo' = <<<<"iput", i>>>> /\ UNCHANGED <<den, dheld>>
    /\ UNCHANGED <<ino, file, meta>>

\* dget_parent, and dget through path_get.
GetParent(d) ==
    LET p == den[d].parent
    IN  /\ Idle /\ dheld[d] > 0 /\ dheld[p] < MaxDHeld
        /\ den' = [den EXCEPT ![p].ref = @ + 1]
        /\ dheld' = [dheld EXCEPT ![p] = @ + 1]
        /\ UNCHANGED <<ino, file, iheld, meta, todo>>

\* The mount keeps the root until the filesystem is killed.
DPut(d) ==
    /\ Idle /\ dheld[d] > (IF d = Root THEN 1 ELSE 0)
    /\ dheld' = [dheld EXCEPT ![d] = @ - 1]
    /\ todo' = <<<<"dput", d>>>>
    /\ UNCHANGED <<ino, den, file, iheld, meta>>

\* dput: the last reference frees the dentry, then drops its inode, then its
\* parent.
AfterDputNegative(d) ==  \* a plausible slip: a negative dentry is not told apart
    <<<<"iput", den[d].inode>>>> \o
    (IF den[d].pref THEN <<<<"dput", den[d].parent>>>> ELSE <<>>)
AfterDput(d) ==
    (IF den[d].inode /= None THEN <<<<"iput", den[d].inode>>>> ELSE <<>>) \o
    (IF den[d].pref THEN <<<<"dput", den[d].parent>>>> ELSE <<>>)
LastRef(d) == den[d].ref <= 1
DPutStep ==
    /\ todo /= <<>> /\ todo[1][1] = "dput"
    /\ LET d == todo[1][2]
       IN  IF ~LastRef(d)
           THEN den' = [den EXCEPT ![d].ref = @ - 1] /\ todo' = Tail(todo)
           ELSE den' = [den EXCEPT ![d] = NoDentry] /\ todo' = AfterDput(d) \o Tail(todo)
    /\ UNCHANGED <<ino, file, iheld, dheld, meta>>

(***************************************************************************)
(* Files.                                                                  *)
(***************************************************************************)
\* finish_open takes a dentry reference and counts a writer, then runs the
\* filesystem's open; when that fails it uncounts the writer and path_put
\* follows.
Writing(f) == IF file[f].writer THEN 1 ELSE 0
Open(f, d, w) ==
    /\ Idle /\ file[f] = None /\ dheld[d] > 0 /\ den[d].inode /= None
    /\ file' = [file EXCEPT ![f] = [dentry |-> d, inode |-> den[d].inode, writer |-> w]]
    /\ den' = [den EXCEPT ![d].ref = @ + 1]
    /\ ino' = [ino EXCEPT ![den[d].inode].writers = @ + (IF w THEN 1 ELSE 0)]
    /\ todo' = <<<<"open", f>>>>
    /\ UNCHANGED <<iheld, dheld, meta>>

Opens ==
    /\ todo /= <<>> /\ todo[1][1] = "open"
    /\ todo' = Tail(todo)
    /\ UNCHANGED <<ino, den, file, iheld, dheld, meta>>

OpenFails ==
    /\ todo /= <<>> /\ todo[1][1] = "open"
    /\ LET f == todo[1][2]
       IN  /\ ino' = [ino EXCEPT ![file[f].inode].writers = @ - Writing(f)]
           /\ todo' = <<<<"dput", file[f].dentry>>>> \o Tail(todo)
           /\ file' = [file EXCEPT ![f] = None]
    /\ UNCHANGED <<den, iheld, dheld, meta>>

Close(f) ==
    /\ Idle /\ file[f] /= None
    /\ ino' = [ino EXCEPT ![file[f].inode].writers = @ - Writing(f)]
    /\ todo' = <<<<"dput", file[f].dentry>>>>
    /\ file' = [file EXCEPT ![f] = None]
    /\ UNCHANGED <<den, iheld, dheld, meta>>

Next ==
    \/ \E n \in Numbers : Iget(n) \/ Create(n)
    \/ \E i \in Inodes : Igrab(i) \/ Dirty(i) \/ Unlink(i) \/ Iput(i) \/ ObtainAlias(i)
    \/ IputStep \/ IputWriteback \/ IputEvict \/ DPutStep \/ Opens \/ OpenFails
    \/ \E d \in Dentries : DAlloc(d) \/ GetParent(d) \/ DPut(d)
    \/ \E d \in Dentries, i \in Inodes : Instantiate(d, i)
    \/ \E f \in Files, d \in Dentries, w \in BOOLEAN : Open(f, d, w)
    \/ \E f \in Files : Close(f)

Spec == Init /\ [][Next]_vars
Steps == IputStep \/ IputWriteback \/ IputEvict \/ DPutStep \/ Opens \/ OpenFails
FairSpec == Spec /\ WF_vars(Steps)

-----------------------------------------------------------------------------
Pending(op, x) == Cardinality({k \in DOMAIN todo : todo[k] = <<op, x>>})

\* Types, and what a drop in progress may still have to do: dput and iput are
\* called on objects of the registries, at most one pair for each dentry.
TypeOK ==
    /\ \A i \in Inodes : ino[i].num \in Numbers \cup {None} /\ ino[i].cnt >= 0
    /\ \A d \in Dentries : den[d].inode \in Inodes \cup {None} /\ den[d].ref >= 0
    /\ \A k \in DOMAIN todo :
         todo[k][2] \in (CASE todo[k][1] = "dput" -> Dentries
                           [] todo[k][1] = "open" -> Files
                           [] OTHER -> Inodes)
    /\ Len(todo) <= 2 * Cardinality(Dentries)

\* The counts are exact: an inode's references are those of callers, of its
\* dentries and of drops still to be made, a dentry's those of callers, files,
\* children and drops still to be made.
RefsExact ==
    /\ \A i \in Inodes :
         ino[i].cnt = iheld[i] + Pending("iput", i)
                      + Cardinality({d \in Dentries : den[d].inode = i})
    /\ \A d \in Dentries :
         den[d].ref = dheld[d] + Pending("dput", d)
                      + Cardinality({f \in Files : file[f] /= None /\ file[f].dentry = d})
                      + Cardinality({c \in Dentries : den[c].pref /\ den[c].parent = d})

\* Nothing refers to freed storage: a dentry's inode and parent and a file's
\* dentry and inode are live, and so is what a caller holds (dput, iput,
\* file_close).
NoDangling ==
    /\ \A i \in Inodes : iheld[i] > 0 => Live(i)
    /\ \A d \in Dentries : dheld[d] > 0 => DLive(d)
    /\ \A d \in Dentries : DLive(d) =>
         (den[d].inode /= None => Live(den[d].inode)) /\ DLive(den[d].parent)
    /\ \A f \in Files : file[f] /= None => DLive(file[f].dentry) /\ Live(file[f].inode)

\* A number has one inode in core that is not being freed (iget_locked,
\* insert_inode_locked): two would not see each other's changes.
OneInodePerNumber ==
    \A i, j \in Inodes :
        (i /= j /\ ino[i].num = ino[j].num /\ ino[i].num /= None) =>
        ~(ino[i].hashed /\ ino[j].hashed) \/ ino[i].freeing \/ ino[j].freeing

\* An inode that leaves core leaves no metadata behind that was neither
\* written nor logged as failed (iput's reclaim-time writeback).
MetadataKept ==
    \A n \in Numbers : ~meta[n] => \E i \in Inodes : ino[i].num = n /\ ino[i].hashed /\ ino[i].dirty

\* The write count of an inode is the number of its writers, open or being
\* opened: an open that fails half-way takes back what it counted
\* (finish_open, file_close).
WritersCounted ==
    \A i \in Inodes : ino[i].writers =
        Cardinality({f \in Files : file[f] /= None /\ file[f].inode = i /\ file[f].writer})
=============================================================================
