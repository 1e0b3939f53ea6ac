--------------------------------- MODULE Rcu ---------------------------------
(***************************************************************************)
(* RCU of src/linux_personality/linux_sync.c: one count of readers, one     *)
(* list of reclaim callbacks, drained whenever the count is zero.           *)
(*                                                                         *)
(* Contexts (the main program and kernel threads) share one processor; they *)
(* switch where code wakes a waiter or waits (kb_wake_up_bit, kb_mutex_lock *)
(* and kb_synchronize_rcu yield or dispatch), inside read sections too.     *)
(***************************************************************************)
EXTENDS Integers, Sequences, FiniteSets, FiniteSetsExt, FiniteSetTheorems,
        WellFoundedInduction, TLAPS

CONSTANTS
  Main, Threads,    \* contexts
  CbObjects,        \* objects given to call_rcu
  FreeObjects,      \* objects given to kvfree_call_rcu
  CallbacksYield,   \* may a callback reach a point where its context yields?
  MaxNest           \* bound: nesting of read sections in a context

ASSUME BoundAssumption == MaxNest \in Nat

Contexts == {Main} \union Threads
Objects == CbObjects \union FreeObjects

VARIABLES
  rcu_readers,   \* the count
  rcu_callbacks, \* rcu_callbacks_head .. rcu_callbacks_tail
  nest,          \* read sections each context is in
  drains,        \* callbacks each context is in, innermost last
  waits,         \* contexts in kb_synchronize_rcu or kb_rcu_barrier
  cur,           \* the context that runs
  status,        \* life of each object
  blockers,      \* readers that may still see a retired object (history)
  before         \* objects retired when a barrier began (history)

vars == <<rcu_readers, rcu_callbacks, nest, drains, waits, cur, status, blockers, before>>

-----------------------------------------------------------------------------
(* A callback in progress, and the read sections of its context below it.   *)
Callback == [object : CbObjects, floor : Nat]
Floor(c) == IF drains[c] = <<>> THEN 0 ELSE drains[c][Len(drains[c])].floor
(* The context runs driver code: its own, or a callback of a drain. *)
Running(c) == cur = c /\ (waits[c] = "no" \/ drains[c] # <<>>)

Init ==
  /\ rcu_readers = 0 /\ rcu_callbacks = <<>>
  /\ nest = [c \in Contexts |-> 0] /\ drains = [c \in Contexts |-> <<>>]
  /\ waits = [c \in Contexts |-> "no"] /\ cur = Main
  /\ status = [o \in Objects |-> "live"] /\ blockers = [o \in Objects |-> {}]
  /\ before = [c \in Contexts |-> {}]

(* rcu_drain_callbacks past its test of the count, on list q and below the  *)
(* callbacks ds: objects to be freed are freed, up to the first callback,   *)
(* which is entered.                                                        *)
FirstCallback(q) ==
  Min({i \in DOMAIN q : q[i] \in CbObjects} \union {Len(q) + 1})
Loop(c, q, ds, st) ==
  LET k == FirstCallback(q)
      freed == {q[i] : i \in 1..(k - 1)}
      entered == {q[i] : i \in {k} \intersect DOMAIN q}
  IN  /\ status' = [o \in Objects |-> IF o \in freed THEN "reclaimed"
                                      ELSE IF o \in entered THEN "running" ELSE st[o]]
      /\ rcu_callbacks' = SubSeq(q, k + 1, Len(q))
      /\ drains' = [drains EXCEPT ![c] = IF entered = {} THEN ds
                       ELSE Append(ds, [object |-> q[k], floor |-> nest'[c]])]

(* rcu_drain_callbacks *)
Drain(c, q, st) ==
  IF rcu_readers' # 0
  THEN /\ rcu_callbacks' = q /\ status' = st
       /\ UNCHANGED drains
  ELSE Loop(c, q, drains[c], st)

(* kb_rcu_read_lock *)
ReadLock(c) ==
  /\ Running(c) /\ nest[c] < MaxNest
  /\ rcu_readers' = rcu_readers + 1
  /\ nest' = [nest EXCEPT ![c] = @ + 1]
  /\ UNCHANGED <<rcu_callbacks, drains, waits, cur, status, blockers, before>>

(* kb_rcu_read_unlock: the last reader drains. *)
ReadUnlock(c) ==
  /\ Running(c) /\ nest[c] > Floor(c)
  /\ rcu_readers' = rcu_readers - 1
  /\ nest' = [nest EXCEPT ![c] = @ - 1]
  /\ blockers' = IF nest'[c] = 0 THEN [o \in Objects |-> blockers[o] \ {c}] ELSE blockers
  /\ IF rcu_readers = 1 THEN Drain(c, rcu_callbacks, status)
                        ELSE UNCHANGED <<rcu_callbacks, status, drains>>
  /\ UNCHANGED <<waits, cur, before>>

(* Mutated form of Enqueued: the list starts anew at the record. *)
EnqueuedAlone(o, ok) == IF ok THEN <<o>> ELSE rcu_callbacks
(* rcu_enqueue: the record may fail to be allocated. *)
Enqueued(o, ok) == IF ok THEN Append(rcu_callbacks, o) ELSE rcu_callbacks

(* kb_call_rcu, kb_kvfree_call_rcu *)
CallRcu(c, o, ok) ==
  /\ Running(c) /\ status[o] = "live"
  /\ blockers' = [blockers EXCEPT ![o] = {d \in Contexts : nest[d] > 0}]
  /\ UNCHANGED <<rcu_readers, nest>>
  /\ Drain(c, Enqueued(o, ok), [status EXCEPT ![o] = IF ok THEN "retired" ELSE "lost"])
  /\ UNCHANGED <<waits, cur, before>>

(* A callback returns: the loop that called it goes on, without looking at  *)
(* the count of readers again.                                              *)
CallbackReturn(c) ==
  /\ Running(c) /\ drains[c] # <<>> /\ nest[c] = Floor(c)
  /\ LET ds == drains[c]
         o == ds[Len(ds)].object
     IN  /\ UNCHANGED <<rcu_readers, nest>>
         /\ Loop(c, rcu_callbacks, SubSeq(ds, 1, Len(ds) - 1),
                 [status EXCEPT ![o] = "reclaimed"])
  /\ UNCHANGED <<waits, cur, blockers, before>>

(* kb_synchronize_rcu, kb_rcu_barrier: the caller is in no read section and *)
(* in no callback.                                                          *)
Pending == {o \in Objects : status[o] \in {"retired", "running"}}
WaitBegin(c, call) ==
  /\ Running(c) /\ nest[c] = 0 /\ drains[c] = <<>>
  /\ waits' = [waits EXCEPT ![c] = call]
  /\ before' = [before EXCEPT ![c] = IF call = "barrier" THEN Pending ELSE {}]
  /\ UNCHANGED <<rcu_readers, rcu_callbacks, nest, drains, cur, status, blockers>>

(* kb_synchronize_rcu with no reader left: it drains and returns; a barrier *)
(* is repeated until the list is empty.                                     *)
SyncDrain(c) ==
  /\ cur = c /\ waits[c] \in {"sync", "barrier"} /\ rcu_readers = 0
  /\ UNCHANGED <<rcu_readers, nest>>
  /\ Drain(c, rcu_callbacks, status)
  /\ waits' = [waits EXCEPT ![c] = IF @ = "barrier" THEN "check" ELSE "no"]
  /\ UNCHANGED <<cur, blockers, before>>
BarrierCheck(c) ==
  /\ cur = c /\ waits[c] = "check" /\ drains[c] = <<>>
  /\ waits' = [waits EXCEPT ![c] = IF rcu_callbacks = <<>> THEN "no" ELSE "barrier"]
  /\ UNCHANGED <<rcu_readers, rcu_callbacks, nest, drains, cur, status, blockers, before>>

(* kb_kthread_yield_current, or kb_kthread_run_ready by the main program.   *)
Switch(c, d) ==
  /\ cur = c /\ c # d /\ (c = Main \/ d = Main)
  /\ CallbacksYield \/ drains[c] = <<>>
  /\ cur' = d
  /\ UNCHANGED <<rcu_readers, rcu_callbacks, nest, drains, waits, status, blockers, before>>

Next ==
  \E c \in Contexts :
    \/ ReadLock(c) \/ ReadUnlock(c) \/ CallbackReturn(c)
    \/ \E o \in Objects, ok \in BOOLEAN : CallRcu(c, o, ok)
    \/ \E call \in {"sync", "barrier"} : WaitBegin(c, call)
    \/ SyncDrain(c) \/ BarrierCheck(c)
    \/ \E d \in Contexts : Switch(c, d)

Spec == Init /\ [][Next]_vars

(* A callback returns, however often it enters and leaves read sections.    *)
Fairness == \A c \in Contexts : SF_vars(CallbackReturn(c))
FairSpec == Spec /\ Fairness

-----------------------------------------------------------------------------
Statuses == {"live", "retired", "running", "reclaimed", "lost"}
TypeOK ==
  /\ rcu_readers \in Nat /\ rcu_callbacks \in Seq(Objects)
  /\ nest \in [Contexts -> 0..MaxNest] /\ drains \in [Contexts -> Seq(Callback)]
  /\ waits \in [Contexts -> {"no", "sync", "barrier", "check"}] /\ cur \in Contexts
  /\ status \in [Objects -> Statuses]
  /\ blockers \in [Objects -> SUBSET Contexts]
  /\ before \in [Contexts -> SUBSET Objects]

(* The open read sections of contexts nested n deep, and of the state.      *)
SectionsOf(n) == UNION {{c} \X (1..n[c]) : c \in Contexts}
Sections == SectionsOf(nest)

(* The count is the number of open read sections of all contexts. *)
ReadersCounted == rcu_readers = Cardinality(Sections)

(* No object is reclaimed before its grace period ends (linux_sync.c:41):   *)
(* every read section that was open when it was retired has been left.      *)
GracePeriod ==
  \A o \in Objects : status[o] \in {"running", "reclaimed"} => blockers[o] = {}

(* Nothing recorded is forgotten: with no reader, and no drain in progress, *)
(* the list is empty.                                                       *)
NothingForgotten ==
  rcu_readers = 0 /\ (\A c \in Contexts : drains[c] = <<>>) => rcu_callbacks = <<>>

(* When kb_rcu_barrier returns, every callback recorded before it has run.  *)
BarrierCovers ==
  \A c \in Contexts :
    waits[c] = "check" /\ waits'[c] = "no" =>
      \A o \in before[c] : status[o] = "reclaimed"

(* Readers are counted, nothing is reclaimed before its grace period ends   *)
(* or forgotten (rcu_drain_callbacks), and kb_rcu_barrier waits for what    *)
(* was retired before it.                                                   *)
RcuSafe ==
  [](ReadersCounted /\ GracePeriod /\ NothingForgotten) /\ [][BarrierCovers]_vars

-----------------------------------------------------------------------------
(* Proofs, for any threads, objects and depth of nesting, when callbacks do *)
(* not yield.                                                               *)

(* What is recorded is where the drain will find it: a retired object is on *)
(* the list q, a running callback in one of the drains D.                   *)
Track(q, D, st) ==
  \A o \in Objects :
    /\ st[o] = "retired" => \E i \in DOMAIN q : q[i] = o
    /\ st[o] = "running" => \E c \in Contexts : \E i \in DOMAIN D[c] : D[c][i].object = o
Tracked == Track(rcu_callbacks, drains, status)

(* Only the running context drains, while no other is in a read section,    *)
(* and its callbacks were entered outside of read sections.                 *)
DrainsAlone ==
  \A c \in Contexts : drains[c] # <<>> =>
    /\ c = cur
    /\ \A d \in Contexts : d # c => nest[d] = 0
    /\ \A i \in DOMAIN drains[c] : drains[c][i].floor = 0

(* Readers that may see an object are in a read section. *)
Blocking == \A o \in Objects : blockers[o] \subseteq {d \in Contexts : nest[d] > 0}

(* What was pending when a barrier began stays recorded until it has run.   *)
BeforeKept ==
  \A c \in Contexts : \A o \in before[c] : status[o] \in {"retired", "running", "reclaimed"}

RInv ==
  /\ TypeOK
  /\ IsFiniteSet(Sections) /\ ReadersCounted
  /\ GracePeriod /\ NothingForgotten
  /\ Tracked /\ DrainsAlone /\ Blocking /\ BeforeKept

(* The first callback of a list, or one past its end. *)
LEMMA FirstCallbackIn ==
  ASSUME NEW q \in Seq(Objects)
  PROVE  /\ FirstCallback(q) \in 1..(Len(q) + 1)
         /\ FirstCallback(q) \in DOMAIN q => q[FirstCallback(q)] \in CbObjects
<1> DEFINE S == {i \in DOMAIN q : q[i] \in CbObjects} \union {Len(q) + 1}
<1>1. S \subseteq Nat /\ S # {} /\ S \subseteq 1..(Len(q) + 1)
  OBVIOUS
<1>2. PICK t \in S : \A u \in S : ~ (<<u, t>> \in OpToRel(<, Nat))
  <2> HIDE DEF S
  <2> QED BY <1>1, NatLessThanWellFounded, WFMin, Zenon
<1>3. \A u \in S : ~ (u < t)
  BY <1>1, <1>2, Zenon DEF OpToRel
<1>4. \A u \in S : t <= u
  BY <1>1, <1>3
<1>5. FirstCallback(q) \in S
  BY <1>4 DEF FirstCallback, Min
<1> QED BY <1>5

(* With no open read section no context is in one. *)
LEMMA NoReaders ==
  ASSUME NEW n \in [Contexts -> 0..MaxNest], IsFiniteSet(SectionsOf(n)),
         Cardinality(SectionsOf(n)) = 0
  PROVE  \A c \in Contexts : n[c] = 0
<1>1. SectionsOf(n) = {}
  BY FS_EmptySet
<1> SUFFICES ASSUME NEW c \in Contexts, n[c] # 0 PROVE FALSE
  OBVIOUS
<1>2. n[c] \in 1..n[c]
  BY BoundAssumption
<1>3. <<c, n[c]>> \in SectionsOf(n)
  BY <1>2 DEF SectionsOf
<1> QED BY <1>1, <1>3

(* The loop of rcu_drain_callbacks: what it frees, enters and leaves on the  *)
(* list is accounted for.                                                    *)
LoopDoes(c, ds, st) ==
  /\ status' \in [Objects -> Statuses]
  /\ rcu_callbacks' \in Seq(Objects)
  /\ drains' \in [Contexts -> Seq(Callback)]
  /\ Track(rcu_callbacks', drains', status')
  /\ \A d \in Contexts : d # c => drains'[d] = drains[d]
  /\ \/ drains'[c] = ds /\ rcu_callbacks' = <<>>
     \/ \E cb \in Callback : cb.floor = nest'[c] /\ drains'[c] = Append(ds, cb)
  /\ \A o \in Objects : status'[o] = st[o] \/ status'[o] \in {"running", "reclaimed"}
LEMMA LoopTracks ==
  ASSUME NEW c \in Contexts, NEW q \in Seq(Objects), NEW ds \in Seq(Callback),
         NEW st \in [Objects -> Statuses],
         drains \in [Contexts -> Seq(Callback)], nest' \in [Contexts -> 0..MaxNest],
         Track(q, [drains EXCEPT ![c] = ds], st),
         Loop(c, q, ds, st)
  PROVE  LoopDoes(c, ds, st)
<1> USE DEF LoopDoes
<1> DEFINE k == FirstCallback(q)
           freed == {q[i] : i \in 1..(k - 1)}
           entered == {q[i] : i \in {k} \intersect DOMAIN q}
           cb == [object |-> q[k], floor |-> nest'[c]]
<1>1. k \in 1..(Len(q) + 1) /\ (k \in DOMAIN q => q[k] \in CbObjects)
  BY FirstCallbackIn
<1>2. /\ status' = [o \in Objects |-> IF o \in freed THEN "reclaimed"
                                      ELSE IF o \in entered THEN "running" ELSE st[o]]
      /\ rcu_callbacks' = SubSeq(q, k + 1, Len(q))
      /\ drains' = [drains EXCEPT ![c] = IF entered = {} THEN ds ELSE Append(ds, cb)]
  BY DEF Loop
<1> HIDE DEF k
<1>3. /\ rcu_callbacks' \in Seq(Objects)
      /\ \A i \in DOMAIN q : i > k => \E j \in DOMAIN rcu_callbacks' : rcu_callbacks'[j] = q[i]
      /\ k = Len(q) + 1 => rcu_callbacks' = <<>>
  <2>1. rcu_callbacks' \in Seq(Objects) /\ (k = Len(q) + 1 => rcu_callbacks' = <<>>)
    BY <1>1, <1>2
  <2>2. ASSUME NEW i \in DOMAIN q, i > k
        PROVE  \E j \in DOMAIN rcu_callbacks' : rcu_callbacks'[j] = q[i]
    <3>1. i \in Nat /\ k \in Nat /\ Len(q) \in Nat /\ i <= Len(q) /\ k >= 1 /\ DOMAIN q = 1..Len(q)
      BY <1>1
    <3>2. \A j \in 1..(Len(q) - k) : SubSeq(q, k + 1, Len(q))[j] = q[k + j]
      BY <3>1
    <3>3. DOMAIN SubSeq(q, k + 1, Len(q)) = 1..(Len(q) - k)
      BY <3>1, <2>2
    <3>4. i - k \in 1..(Len(q) - k) /\ k + (i - k) = i
      BY <2>2, <3>1
    <3> QED BY <1>2, <3>2, <3>3, <3>4, Zenon
  <2> QED BY <2>1, <2>2
<1>4. CASE entered = {}
  <2>1. k \notin DOMAIN q
    BY <1>4
  <2>2. k = Len(q) + 1
    BY <2>1, <1>1
  <2>3. drains' = [drains EXCEPT ![c] = ds]
    BY <1>2, <1>4
  <2>4. \A i \in DOMAIN q : q[i] \in freed
    BY <2>2
  <2>5. status' = [o \in Objects |-> IF o \in freed THEN "reclaimed" ELSE st[o]]
    BY <1>2, <1>4
  <2> HIDE DEF freed, entered, cb
  <2>6. status' \in [Objects -> Statuses]
    BY <2>5 DEF Statuses
  <2>7. Track(rcu_callbacks', drains', status')
    BY <2>3, <2>4, <2>5, ZenonT(40) DEF Track
  <2> QED BY <1>3, <2>2, <2>3, <2>5, <2>6, <2>7
<1>5. CASE entered # {}
  <2>1. k \in DOMAIN q /\ entered = {q[k]}
    BY <1>5
  <2>2. cb \in Callback /\ cb.object = q[k] /\ cb.floor = nest'[c]
    BY <2>1, <1>1 DEF Callback
  <2>3. drains' = [drains EXCEPT ![c] = Append(ds, cb)]
    BY <1>2, <1>5, Zenon
  <2>4. \A i \in DOMAIN q : q[i] \in freed \/ i = k \/ i > k
    BY <1>1
  <2> HIDE DEF freed, entered, cb
  <2>5. status' \in [Objects -> Statuses]
    BY <1>2 DEF Statuses
  <2>6. Append(ds, cb) \in Seq(Callback) /\ drains' \in [Contexts -> Seq(Callback)]
    BY <2>2, <2>3
  <2>7. /\ Len(ds) + 1 \in DOMAIN drains'[c] /\ drains'[c][Len(ds) + 1] = cb
        /\ \A i \in DOMAIN ds : i \in DOMAIN drains'[c] /\ drains'[c][i] = ds[i]
    BY <2>2, <2>3
  <2>8. ASSUME NEW o \in Objects, status'[o] = "retired"
        PROVE  \E j \in DOMAIN rcu_callbacks' : rcu_callbacks'[j] = o
    <3>1. o \notin freed /\ o \notin entered /\ st[o] = "retired"
      BY <1>2, <2>8
    <3>2. PICK i \in DOMAIN q : q[i] = o
      BY <3>1 DEF Track
    <3>3. i > k
      BY <2>1, <2>4, <3>1, <3>2
    <3> QED BY <1>3, <3>2, <3>3
  <2>9. ASSUME NEW o \in Objects, status'[o] = "running"
        PROVE  \E d \in Contexts : \E i \in DOMAIN drains'[d] : drains'[d][i].object = o
    <3>1. CASE o \in entered
      BY <2>1, <2>2, <2>7, <3>1
    <3>2. CASE o \notin entered
      <4> DEFINE D == [drains EXCEPT ![c] = ds]
      <4>1. st[o] = "running"
        BY <1>2, <2>9, <3>2
      <4>2. PICK d \in Contexts : \E i \in DOMAIN D[d] : D[d][i].object = o
        BY <4>1, Zenon DEF Track
      <4>3. CASE d = c
        BY <2>7, <4>2, <4>3
      <4>4. CASE d # c
        BY <2>3, <4>2, <4>4
      <4> QED BY <4>3, <4>4
    <3> QED BY <3>1, <3>2
  <2>10. Track(rcu_callbacks', drains', status')
    BY <2>8, <2>9, Zenon DEF Track
  <2>11. \A o \in Objects : status'[o] = st[o] \/ status'[o] \in {"running", "reclaimed"}
    BY <1>2
  <2> QED BY <1>3, <2>2, <2>3, <2>5, <2>6, <2>10, <2>11
<1> QED BY <1>4, <1>5, Zenon

(* What a drain establishes. *)
Drained ==
  /\ status \in [Objects -> Statuses] /\ rcu_callbacks \in Seq(Objects)
  /\ drains \in [Contexts -> Seq(Callback)]
  /\ GracePeriod /\ NothingForgotten /\ Tracked /\ DrainsAlone /\ BeforeKept

(* The loop, when every read section has been left. *)
LEMMA LoopInv ==
  ASSUME NEW c \in Contexts, NEW q \in Seq(Objects), NEW ds \in Seq(Callback),
         NEW st \in [Objects -> Statuses],
         TypeOK, DrainsAlone, c = cur, UNCHANGED <<cur, before>>,
         nest' \in [Contexts -> 0..MaxNest], \A d \in Contexts : nest'[d] = 0, Blocking',
         \A i \in DOMAIN ds : ds[i].floor = 0,
         Track(q, [drains EXCEPT ![c] = ds], st),
         \A d \in Contexts : \A o \in before[d] : st[o] \in {"retired", "running", "reclaimed"},
         Loop(c, q, ds, st)
  PROVE  Drained'
<1>1. LoopDoes(c, ds, st)
  <2>1. drains \in [Contexts -> Seq(Callback)]
    BY DEF TypeOK
  <2> QED BY <2>1, LoopTracks, Zenon
<1>2. \A o \in Objects : blockers'[o] = {}
  BY DEF Blocking
<1>3. GracePeriod'
  BY <1>2 DEF GracePeriod
<1>4. NothingForgotten'
  <2>1. CASE rcu_callbacks' = <<>>
    BY <2>1 DEF NothingForgotten
  <2>2. CASE \E cb \in Callback : drains'[c] = Append(ds, cb)
    <3>1. drains'[c] # <<>>
      BY <2>2
    <3> QED BY <3>1 DEF NothingForgotten
  <2> QED BY <1>1, <2>1, <2>2 DEF LoopDoes
<1>5. \A i \in DOMAIN drains'[c] : drains'[c][i].floor = 0
  <2>1. CASE drains'[c] = ds
    BY <2>1
  <2>2. ASSUME NEW cb \in Callback, cb.floor = nest'[c], drains'[c] = Append(ds, cb)
        PROVE  \A i \in DOMAIN drains'[c] : drains'[c][i].floor = 0
    <3>1. cb.floor = 0
      BY <2>2
    <3> QED BY <2>2, <3>1
  <2> QED BY <1>1, <2>1, <2>2 DEF LoopDoes
<1>6. DrainsAlone'
  <2>1. \A d \in Contexts : d # c => drains'[d] = <<>>
    BY <1>1, Zenon DEF LoopDoes, DrainsAlone
  <2> QED BY <1>5, <2>1 DEF DrainsAlone
<1>7. BeforeKept'
  BY <1>1 DEF LoopDoes, BeforeKept, TypeOK
<1> QED BY <1>1, <1>3, <1>4, <1>6, <1>7 DEF LoopDoes, Drained, Tracked

(* rcu_drain_callbacks *)
LEMMA DrainInv ==
  ASSUME NEW c \in Contexts, NEW q \in Seq(Objects), NEW st \in [Objects -> Statuses],
         TypeOK, DrainsAlone, c = cur, UNCHANGED <<cur, before>>,
         nest' \in [Contexts -> 0..MaxNest],
         \A d \in Contexts : d # c => nest'[d] = nest[d],
         IsFiniteSet(Sections'), ReadersCounted', Blocking',
         \A o \in Objects : st[o] \in {"running", "reclaimed"} => blockers'[o] = {},
         Track(q, drains, st),
         \A d \in Contexts : \A o \in before[d] : st[o] \in {"retired", "running", "reclaimed"},
         Drain(c, q, st)
  PROVE  Drained'
<1>1. CASE rcu_readers' # 0
  <2>1. rcu_callbacks' = q /\ status' = st /\ drains' = drains
    BY <1>1 DEF Drain
  <2>2. drains' \in [Contexts -> Seq(Callback)]
    BY <2>1 DEF TypeOK
  <2>3. GracePeriod' /\ NothingForgotten' /\ Tracked' /\ BeforeKept'
    BY <1>1, <2>1 DEF GracePeriod, NothingForgotten, Tracked, BeforeKept
  <2>4. DrainsAlone'
    BY <2>1 DEF DrainsAlone
  <2> QED BY <2>1, <2>2, <2>3, <2>4 DEF Drained
<1>2. CASE rcu_readers' = 0
  <2>1. Loop(c, q, drains[c], st)
    BY <1>2 DEF Drain
  <2>2. \A d \in Contexts : nest'[d] = 0
    <3>1. Cardinality(SectionsOf(nest')) = 0 /\ IsFiniteSet(SectionsOf(nest'))
      BY <1>2 DEF ReadersCounted, Sections
    <3> QED BY <3>1, NoReaders
  <2>3. drains[c] \in Seq(Callback) /\ [drains EXCEPT ![c] = drains[c]] = drains
    BY DEF TypeOK
  <2>4. \A i \in DOMAIN drains[c] : drains[c][i].floor = 0
    <3>1. CASE drains[c] = <<>>
      BY <3>1
    <3>2. CASE drains[c] # <<>>
      BY <3>2 DEF DrainsAlone
    <3> QED BY <3>1, <3>2
  <2>5. Track(q, [drains EXCEPT ![c] = drains[c]], st)
    BY <2>3
  <2> QED BY <2>1, <2>2, <2>3, <2>4, <2>5, LoopInv, Zenon
<1> QED BY <1>1, <1>2

(* Entering a read section adds one, so that leaving it takes one away. *)
LEMMA EnterCounts ==
  ASSUME NEW n \in [Contexts -> 0..MaxNest], NEW m \in [Contexts -> 0..MaxNest],
         NEW c \in Contexts, m = [n EXCEPT ![c] = n[c] + 1]
  PROVE  /\ SectionsOf(m) = SectionsOf(n) \cup {<<c, n[c] + 1>>}
         /\ SectionsOf(n) = SectionsOf(m) \ {<<c, n[c] + 1>>}
         /\ <<c, n[c] + 1>> \notin SectionsOf(n)
<1> DEFINE Has(f, s) == \E d \in Contexts : \E i \in 1..f[d] : s = <<d, i>>
<1>1. \A s : (s \in SectionsOf(m) <=> Has(m, s)) /\ (s \in SectionsOf(n) <=> Has(n, s))
  BY DEF SectionsOf
<1>2. n[c] \in Nat /\ m[c] = n[c] + 1 /\ \A d \in Contexts : d # c => m[d] = n[d]
  BY BoundAssumption
<1>3. 1..m[c] = (1..n[c]) \cup {n[c] + 1} /\ n[c] + 1 \notin 1..n[c]
  BY <1>2
<1>4. \A s : Has(m, s) <=> Has(n, s) \/ s = <<c, n[c] + 1>>
  BY <1>2, <1>3
<1>5. ~ Has(n, <<c, n[c] + 1>>)
  BY <1>3
<1> HIDE DEF Has
<1> QED BY <1>1, <1>4, <1>5, Zenon

LEMMA InitRInv == Init => RInv
<1> SUFFICES ASSUME Init PROVE RInv
  OBVIOUS
<1> USE DEF Init
<1>1. TypeOK
  BY BoundAssumption DEF TypeOK, Statuses, Contexts
<1>2. Sections = {}
  BY DEF Sections, SectionsOf
<1>3. IsFiniteSet(Sections) /\ ReadersCounted
  BY <1>2, FS_EmptySet DEF ReadersCounted
<1>4. GracePeriod /\ NothingForgotten /\ Tracked /\ DrainsAlone /\ Blocking /\ BeforeKept
  BY DEF GracePeriod, NothingForgotten, Tracked, Track, DrainsAlone, Blocking, BeforeKept
<1> QED BY <1>1, <1>3, <1>4 DEF RInv

LEMMA ReadLockInv == ASSUME RInv, NEW c \in Contexts, ReadLock(c) PROVE RInv'
<1>1. /\ cur = c /\ rcu_readers' = rcu_readers + 1 /\ nest' = [nest EXCEPT ![c] = nest[c] + 1]
      /\ nest[c] < MaxNest
      /\ UNCHANGED <<rcu_callbacks, drains, waits, cur, status, blockers, before>>
  BY DEF ReadLock, Running
<1>2. TypeOK /\ IsFiniteSet(Sections) /\ ReadersCounted
  BY DEF RInv
<1>3. nest[c] + 1 \in 0..MaxNest /\ rcu_readers + 1 \in Nat /\ nest[c] \in Nat
  BY <1>1, <1>2, BoundAssumption DEF TypeOK
<1>4. TypeOK'
  BY <1>1, <1>2, <1>3 DEF TypeOK
<1>5. IsFiniteSet(Sections') /\ ReadersCounted'
  <2>1. /\ Sections' = Sections \cup {<<c, nest[c] + 1>>}
        /\ <<c, nest[c] + 1>> \notin Sections
    BY <1>1, <1>2, <1>4, EnterCounts, Zenon DEF Sections, TypeOK
  <2> QED BY <1>1, <1>2, <2>1, FS_AddElement, Zenon DEF ReadersCounted
<1>6. \A d \in Contexts : nest'[d] >= nest[d] /\ (d # c => nest'[d] = nest[d])
  BY <1>1, <1>2, <1>3, BoundAssumption DEF TypeOK
<1>7. Blocking'
  <2>1. ASSUME NEW d \in Contexts, nest[d] > 0 PROVE nest'[d] > 0
    <3>1. nest[d] \in Nat /\ nest'[d] \in Nat /\ nest'[d] >= nest[d]
      BY <1>2, <1>4, <1>6, BoundAssumption DEF TypeOK
    <3> QED BY <2>1, <3>1
  <2> QED BY <1>1, <2>1 DEF RInv, Blocking
<1>8. NothingForgotten'
  BY <1>1, <1>2 DEF NothingForgotten, TypeOK
<1>9. DrainsAlone'
  BY <1>1, <1>6 DEF RInv, DrainsAlone
<1>10. GracePeriod' /\ Tracked' /\ BeforeKept'
  BY <1>1 DEF RInv, GracePeriod, Tracked, BeforeKept
<1> QED BY <1>4, <1>5, <1>7, <1>8, <1>9, <1>10 DEF RInv

LEMMA ReadUnlockInv == ASSUME RInv, NEW c \in Contexts, ReadUnlock(c) PROVE RInv'
<1>1. /\ cur = c /\ rcu_readers' = rcu_readers - 1 /\ nest' = [nest EXCEPT ![c] = nest[c] - 1]
      /\ nest[c] > Floor(c)
      /\ blockers' = IF nest'[c] = 0 THEN [o \in Objects |-> blockers[o] \ {c}] ELSE blockers
      /\ UNCHANGED <<waits, cur, before>>
  BY DEF ReadUnlock, Running
<1>2. TypeOK /\ IsFiniteSet(Sections) /\ ReadersCounted
  BY DEF RInv
<1>3. nest[c] \in 0..MaxNest /\ nest[c] > 0
  <2>1. Floor(c) \in Nat
    <3>1. CASE drains[c] = <<>>
      BY <3>1 DEF Floor
    <3>2. CASE drains[c] # <<>>
      <4>1. drains[c] \in Seq(Callback) /\ Len(drains[c]) \in DOMAIN drains[c]
        BY <1>2, <3>2 DEF TypeOK
      <4>2. drains[c][Len(drains[c])] \in Callback
        BY <4>1
      <4> QED BY <3>2, <4>2 DEF Floor, Callback
    <3> QED BY <3>1, <3>2
  <2> QED BY <1>1, <1>2, <2>1, BoundAssumption DEF TypeOK
<1>4. nest' \in [Contexts -> 0..MaxNest] /\ nest = [nest' EXCEPT ![c] = nest'[c] + 1]
  <2>1. nest[c] - 1 \in 0..MaxNest
    BY <1>3, BoundAssumption
  <2>2. nest'[c] = nest[c] - 1 /\ nest'[c] + 1 = nest[c]
    BY <1>1, <1>2, <1>3, BoundAssumption DEF TypeOK
  <2> QED BY <1>1, <1>2, <2>1, <2>2, Zenon DEF TypeOK
<1>5. \A d \in Contexts : d # c => nest'[d] = nest[d]
  BY <1>1, <1>2 DEF TypeOK
<1>6. IsFiniteSet(Sections') /\ ReadersCounted' /\ rcu_readers' \in Nat
  <2> DEFINE sect == <<c, nest'[c] + 1>>
  <2>1. SectionsOf(nest') = SectionsOf(nest) \ {sect} /\ SectionsOf(nest) = SectionsOf(nest') \cup {sect}
    BY <1>2, <1>4, EnterCounts, Zenon DEF TypeOK
  <2>2. IsFiniteSet(SectionsOf(nest'))
        /\ Cardinality(SectionsOf(nest')) = Cardinality(SectionsOf(nest)) - 1
    <3>1. sect \in SectionsOf(nest)
      BY <2>1
    <3>2. IsFiniteSet(SectionsOf(nest))
      BY <1>2 DEF Sections
    <3> HIDE DEF sect
    <3>3. IsFiniteSet(SectionsOf(nest) \ {sect})
          /\ Cardinality(SectionsOf(nest) \ {sect}) = Cardinality(SectionsOf(nest)) - 1
      BY <3>1, <3>2, FS_RemoveElement
    <3> QED BY <2>1, <3>3
  <2>3. Cardinality(SectionsOf(nest')) \in Nat
    BY <2>2, FS_CardinalityType
  <2> QED BY <1>1, <1>2, <2>2, <2>3 DEF Sections, ReadersCounted
<1>7. blockers' \in [Objects -> SUBSET Contexts] /\ Blocking'
      /\ \A o \in Objects : blockers[o] = {} => blockers'[o] = {}
  <2>1. CASE nest'[c] = 0
    BY <1>1, <1>2, <1>5, <2>1 DEF RInv, Blocking, TypeOK
  <2>2. CASE nest'[c] # 0
    <3>1. \A d \in Contexts : nest[d] > 0 => nest'[d] > 0
      BY <1>4, <1>5, <2>2, BoundAssumption
    <3> QED BY <1>1, <1>2, <2>2, <3>1 DEF RInv, Blocking, TypeOK
  <2> QED BY <2>1, <2>2
<1>8. \A o \in Objects : status[o] \in {"running", "reclaimed"} => blockers'[o] = {}
  BY <1>7 DEF RInv, GracePeriod
<1>9. Drained'
  <2>1. CASE rcu_readers = 1
    <3>1. Drain(c, rcu_callbacks, status)
      BY <2>1 DEF ReadUnlock
    <3>2. DrainsAlone /\ Track(rcu_callbacks, drains, status)
      BY DEF RInv, Tracked
    <3>3. \A d \in Contexts : \A o \in before[d] : status[o] \in {"retired", "running", "reclaimed"}
      BY DEF RInv, BeforeKept
    <3>4. rcu_callbacks \in Seq(Objects) /\ status \in [Objects -> Statuses]
      BY <1>2 DEF TypeOK
    <3> QED BY <1>1, <1>2, <1>4, <1>5, <1>6, <1>7, <1>8, <3>1, <3>2, <3>3, <3>4, DrainInv, Zenon
  <2>2. CASE rcu_readers # 1
    <3>1. UNCHANGED <<rcu_callbacks, status, drains>> /\ rcu_readers' # 0
      BY <1>1, <1>2, <2>2 DEF ReadUnlock, TypeOK
    <3>2. DrainsAlone'
      BY <1>1, <1>5, <3>1 DEF RInv, DrainsAlone
    <3> QED BY <1>1, <1>2, <1>8, <3>1, <3>2
         DEF RInv, Drained, TypeOK, GracePeriod, NothingForgotten, Tracked, BeforeKept
  <2> QED BY <2>1, <2>2
<1>10. TypeOK'
  BY <1>1, <1>2, <1>4, <1>6, <1>7, <1>9 DEF TypeOK, Drained
<1> QED BY <1>6, <1>7, <1>9, <1>10 DEF RInv, Drained

LEMMA CallRcuInv ==
  ASSUME RInv, NEW c \in Contexts, NEW o \in Objects, NEW ok \in BOOLEAN, CallRcu(c, o, ok)
  PROVE  RInv'
<1> DEFINE q == Enqueued(o, ok)
           st == [status EXCEPT ![o] = IF ok THEN "retired" ELSE "lost"]
<1>1. /\ cur = c /\ status[o] = "live" /\ Drain(c, q, st)
      /\ blockers' = [blockers EXCEPT ![o] = {d \in Contexts : nest[d] > 0}]
      /\ UNCHANGED <<rcu_readers, nest, waits, cur, before>>
  BY DEF CallRcu, Running
<1>2. TypeOK /\ IsFiniteSet(Sections) /\ ReadersCounted
  BY DEF RInv
<1>3. q \in Seq(Objects) /\ st \in [Objects -> Statuses]
  BY <1>2 DEF TypeOK, Enqueued, Statuses
<1>4. \A p \in Objects : p # o => st[p] = status[p] /\ blockers'[p] = blockers[p]
  BY <1>1, <1>2 DEF TypeOK
<1>5. st[o] \in {"retired", "lost"} /\ (st[o] = "retired" => ok)
  BY <1>2 DEF TypeOK
<1>6. blockers' \in [Objects -> SUBSET Contexts] /\ Blocking'
  BY <1>1, <1>2 DEF RInv, Blocking, TypeOK
<1>7. Track(q, drains, st)
  <2>1. ASSUME NEW p \in Objects, st[p] = "retired" PROVE \E i \in DOMAIN q : q[i] = p
    <3>1. CASE p = o
      <4>1. ok /\ rcu_callbacks \in Seq(Objects)
        BY <1>2, <1>5, <2>1, <3>1 DEF TypeOK
      <4>2. Len(rcu_callbacks) + 1 \in DOMAIN q /\ q[Len(rcu_callbacks) + 1] = o
        BY <4>1 DEF Enqueued
      <4> QED BY <3>1, <4>2
    <3>2. CASE p # o
      <4>1. PICK i \in DOMAIN rcu_callbacks : rcu_callbacks[i] = p
        BY <1>4, <2>1, <3>2 DEF RInv, Tracked, Track
      <4>2. i \in DOMAIN q /\ q[i] = p
        BY <1>2, <4>1 DEF Enqueued, TypeOK
      <4> QED BY <4>2
    <3> QED BY <3>1, <3>2
  <2>2. ASSUME NEW p \in Objects, st[p] = "running"
        PROVE  \E d \in Contexts : \E i \in DOMAIN drains[d] : drains[d][i].object = p
    BY <1>4, <1>5, <2>2 DEF RInv, Tracked, Track
  <2> QED BY <2>1, <2>2 DEF Track
<1>8. \A d \in Contexts : \A p \in before[d] : st[p] \in {"retired", "running", "reclaimed"}
  BY <1>1, <1>2, <1>4 DEF RInv, BeforeKept, TypeOK
<1>9. \A p \in Objects : st[p] \in {"running", "reclaimed"} => blockers'[p] = {}
  BY <1>4, <1>5 DEF RInv, GracePeriod
<1>10. /\ nest' \in [Contexts -> 0..MaxNest] /\ \A d \in Contexts : d # c => nest'[d] = nest[d]
       /\ IsFiniteSet(Sections') /\ ReadersCounted' /\ DrainsAlone
  BY <1>1, <1>2 DEF RInv, TypeOK, Sections, ReadersCounted
<1> HIDE DEF q, st
<1>11. Drained'
  BY <1>1, <1>2, <1>3, <1>6, <1>7, <1>8, <1>9, <1>10, DrainInv, Zenon
<1>12. TypeOK'
  BY <1>1, <1>2, <1>6, <1>11 DEF TypeOK, Drained
<1> QED BY <1>6, <1>10, <1>11, <1>12 DEF RInv, Drained

LEMMA CallbackReturnInv == ASSUME RInv, NEW c \in Contexts, CallbackReturn(c) PROVE RInv'
<1> DEFINE ds == drains[c]
           n == Len(ds)
           o == ds[n].object
           front == SubSeq(ds, 1, n - 1)
           st == [status EXCEPT ![o] = "reclaimed"]
<1>1. /\ cur = c /\ ds # <<>> /\ nest[c] = Floor(c) /\ Loop(c, rcu_callbacks, front, st)
      /\ UNCHANGED <<rcu_readers, nest, waits, cur, blockers, before>>
  BY DEF CallbackReturn, Running
<1>2. TypeOK /\ DrainsAlone
  BY DEF RInv
<1>3. /\ ds \in Seq(Callback) /\ n \in Nat /\ n >= 1 /\ DOMAIN ds = 1..n /\ n \in DOMAIN ds
      /\ ds[n] \in Callback /\ o \in Objects
  <2>1. ds \in Seq(Callback)
    BY <1>2 DEF TypeOK
  <2>2. n \in Nat /\ n >= 1 /\ DOMAIN ds = 1..n /\ n \in DOMAIN ds
    BY <1>1, <2>1
  <2>3. ds[n] \in Callback
    BY <2>1, <2>2
  <2> QED BY <2>1, <2>2, <2>3 DEF Callback, Objects
<1>4. front \in Seq(Callback) /\ DOMAIN front = 1..(n - 1)
      /\ \A i \in 1..(n - 1) : front[i] = ds[i] /\ i \in DOMAIN ds
  BY <1>3
<1>5. \A i \in DOMAIN front : front[i].floor = 0
  BY <1>1, <1>2, <1>4 DEF DrainsAlone
<1>6. \A d \in Contexts : nest'[d] = 0
  <2>1. nest[c] = 0
    BY <1>1, <1>2, <1>3 DEF Floor, DrainsAlone
  <2> QED BY <1>1, <1>2, <2>1 DEF DrainsAlone
<1>7. st \in [Objects -> Statuses] /\ st[o] = "reclaimed"
      /\ \A p \in Objects : p # o => st[p] = status[p]
  BY <1>2, <1>3 DEF TypeOK, Statuses
<1>8. Track(rcu_callbacks, [drains EXCEPT ![c] = front], st)
  <2> DEFINE D == [drains EXCEPT ![c] = front]
  <2>1. ASSUME NEW p \in Objects, st[p] = "retired"
        PROVE  \E i \in DOMAIN rcu_callbacks : rcu_callbacks[i] = p
    BY <1>7, <2>1 DEF RInv, Tracked, Track
  <2>2. ASSUME NEW p \in Objects, st[p] = "running"
        PROVE  \E d \in Contexts : \E i \in DOMAIN D[d] : D[d][i].object = p
    <3>1. p # o /\ status[p] = "running"
      BY <1>7, <2>2
    <3>2. PICK d \in Contexts : \E i \in DOMAIN drains[d] : drains[d][i].object = p
      BY <3>1 DEF RInv, Tracked, Track
    <3>3. PICK i \in DOMAIN drains[d] : drains[d][i].object = p
      BY <3>2
    <3>4. CASE d = c
      <4>1. i \in 1..(n - 1)
        BY <1>3, <3>1, <3>3, <3>4
      <4>2. D[c] = front
        BY <1>2 DEF TypeOK
      <4> QED BY <1>4, <3>3, <3>4, <4>1, <4>2
    <3>5. CASE d # c
      <4>1. D[d] = drains[d]
        BY <1>2, <3>5 DEF TypeOK
      <4> QED BY <3>3, <4>1, Zenon
    <3> QED BY <3>4, <3>5
  <2> QED BY <2>1, <2>2 DEF Track
<1>9. \A d \in Contexts : \A p \in before[d] : st[p] \in {"retired", "running", "reclaimed"}
  BY <1>2, <1>7 DEF RInv, BeforeKept, TypeOK
<1>10. /\ nest' \in [Contexts -> 0..MaxNest] /\ rcu_callbacks \in Seq(Objects)
       /\ IsFiniteSet(Sections') /\ ReadersCounted' /\ Blocking'
  BY <1>1, <1>2 DEF RInv, TypeOK, Sections, ReadersCounted, Blocking
<1> HIDE DEF ds, n, o, front, st
<1>11. Drained'
  BY <1>1, <1>2, <1>4, <1>5, <1>6, <1>7, <1>8, <1>9, <1>10, LoopInv, Zenon
<1>12. TypeOK'
  BY <1>1, <1>2, <1>11 DEF TypeOK, Drained
<1> QED BY <1>10, <1>11, <1>12 DEF RInv, Drained

LEMMA SyncDrainInv == ASSUME RInv, NEW c \in Contexts, SyncDrain(c) PROVE RInv'
<1>1. /\ cur = c /\ waits[c] \in {"sync", "barrier"} /\ Drain(c, rcu_callbacks, status)
      /\ waits' = [waits EXCEPT ![c] = IF @ = "barrier" THEN "check" ELSE "no"]
      /\ UNCHANGED <<rcu_readers, nest, cur, blockers, before>>
  BY DEF SyncDrain
<1>2. TypeOK /\ DrainsAlone /\ Track(rcu_callbacks, drains, status)
  BY DEF RInv, Tracked
<1>3. /\ nest' \in [Contexts -> 0..MaxNest] /\ \A d \in Contexts : d # c => nest'[d] = nest[d]
      /\ rcu_callbacks \in Seq(Objects) /\ status \in [Objects -> Statuses]
  BY <1>1, <1>2 DEF TypeOK
<1>4. IsFiniteSet(Sections') /\ ReadersCounted' /\ Blocking'
  BY <1>1 DEF RInv, Sections, ReadersCounted, Blocking
<1>5. \A o \in Objects : status[o] \in {"running", "reclaimed"} => blockers'[o] = {}
  BY <1>1 DEF RInv, GracePeriod
<1>6. \A d \in Contexts : \A o \in before[d] : status[o] \in {"retired", "running", "reclaimed"}
  BY DEF RInv, BeforeKept
<1>7. Drained'
  BY <1>1, <1>2, <1>3, <1>4, <1>5, <1>6, DrainInv, Zenon
<1>8. TypeOK'
  BY <1>1, <1>2, <1>7 DEF TypeOK, Drained
<1> QED BY <1>4, <1>7, <1>8 DEF RInv, Drained

(* Steps that leave the count, the list, the drains and the objects alone.  *)
LEMMA QuietInv ==
  ASSUME RInv, TypeOK', BeforeKept', DrainsAlone',
         UNCHANGED <<rcu_readers, rcu_callbacks, nest, drains, status, blockers>>
  PROVE  RInv'
  BY DEF RInv, Sections, ReadersCounted, GracePeriod, NothingForgotten, Tracked, Blocking

LEMMA NextRInv == ~CallbacksYield /\ RInv /\ [Next]_vars => RInv'
<1> SUFFICES ASSUME ~CallbacksYield, RInv, [Next]_vars PROVE RInv'
  OBVIOUS
<1>1. CASE UNCHANGED vars
  BY <1>1, QuietInv, Zenon DEF vars, RInv, TypeOK, BeforeKept, DrainsAlone
<1>2. ASSUME NEW c \in Contexts, NEW call \in {"sync", "barrier"}, WaitBegin(c, call)
      PROVE  RInv'
  <2>1. /\ waits' = [waits EXCEPT ![c] = call]
        /\ before' = [before EXCEPT ![c] = IF call = "barrier" THEN Pending ELSE {}]
        /\ UNCHANGED <<rcu_readers, rcu_callbacks, nest, drains, cur, status, blockers>>
    BY <1>2 DEF WaitBegin
  <2>2. Pending \subseteq Objects /\ TypeOK
    BY DEF Pending, RInv
  <2>3. TypeOK'
    BY <2>1, <2>2 DEF TypeOK
  <2>4. BeforeKept'
    BY <2>1, <2>2 DEF RInv, BeforeKept, TypeOK, Pending
  <2>5. DrainsAlone'
    BY <2>1 DEF RInv, DrainsAlone
  <2> QED BY <2>1, <2>3, <2>4, <2>5, QuietInv
<1>3. ASSUME NEW c \in Contexts, BarrierCheck(c) PROVE RInv'
  <2>1. /\ waits' = [waits EXCEPT ![c] = IF rcu_callbacks = <<>> THEN "no" ELSE "barrier"]
        /\ UNCHANGED <<rcu_readers, rcu_callbacks, nest, drains, cur, status, blockers, before>>
    BY <1>3 DEF BarrierCheck
  <2>2. TypeOK' /\ BeforeKept' /\ DrainsAlone'
    BY <2>1 DEF RInv, TypeOK, BeforeKept, DrainsAlone
  <2> QED BY <2>1, <2>2, QuietInv
<1>4. ASSUME NEW c \in Contexts, NEW d \in Contexts, Switch(c, d) PROVE RInv'
  <2>1. /\ cur = c /\ drains[c] = <<>> /\ cur' = d
        /\ UNCHANGED <<rcu_readers, rcu_callbacks, nest, drains, waits, status, blockers, before>>
    BY <1>4 DEF Switch
  <2>2. TypeOK' /\ BeforeKept' /\ DrainsAlone'
    BY <2>1 DEF RInv, TypeOK, BeforeKept, DrainsAlone
  <2> QED BY <2>1, <2>2, QuietInv
<1> QED BY <1>1, <1>2, <1>3, <1>4, ReadLockInv, ReadUnlockInv, CallRcuInv, CallbackReturnInv,
        SyncDrainInv DEF Next

(* A barrier that returns finds the list empty and, no callback yielding,   *)
(* no drain in progress: what was pending when it began has run.            *)
LEMMA BarrierStep == RInv /\ [Next]_vars => [BarrierCovers]_vars
<1> SUFFICES ASSUME RInv, Next, NEW c \in Contexts, waits[c] = "check", waits'[c] = "no",
                    NEW o \in before[c]
             PROVE  status[o] = "reclaimed"
  BY DEF BarrierCovers
<1>1. TypeOK /\ o \in Objects
  BY DEF RInv, TypeOK
<1>2. BarrierCheck(c)
  <2>1. ASSUME NEW d \in Contexts, ~ BarrierCheck(d)
        PROVE  ~ (\/ ReadLock(d) \/ ReadUnlock(d) \/ CallbackReturn(d)
                  \/ \E p \in Objects, ok \in BOOLEAN : CallRcu(d, p, ok)
                  \/ \E call \in {"sync", "barrier"} : WaitBegin(d, call)
                  \/ SyncDrain(d) \/ \E e \in Contexts : Switch(d, e))
    <3>1. ASSUME NEW call \in {"sync", "barrier"}, WaitBegin(d, call) PROVE FALSE
      BY <3>1, <1>1 DEF WaitBegin, TypeOK
    <3>2. ASSUME SyncDrain(d) PROVE FALSE
      BY <3>2, <1>1 DEF SyncDrain, TypeOK
    <3>3. ASSUME UNCHANGED waits PROVE FALSE
      BY <3>3
    <3> QED BY <3>1, <3>2, <3>3, Zenon DEF ReadLock, ReadUnlock, CallbackReturn, CallRcu, Switch
  <2>2. PICK d \in Contexts : BarrierCheck(d)
    BY <2>1 DEF Next
  <2>3. d = c
    BY <1>1, <2>2 DEF BarrierCheck, TypeOK
  <2> QED BY <2>2, <2>3
<1>3. cur = c /\ drains[c] = <<>> /\ rcu_callbacks = <<>>
  BY <1>1, <1>2 DEF BarrierCheck, TypeOK
<1>4. \A d \in Contexts : drains[d] = <<>>
  BY <1>3 DEF RInv, DrainsAlone
<1>5. status[o] # "retired" /\ status[o] # "running"
  BY <1>1, <1>3, <1>4 DEF RInv, Tracked, Track
<1> QED BY <1>5 DEF RInv, BeforeKept

(* RCU keeps its promises for any contexts, objects and nesting, as long as  *)
(* no reclaim callback reaches a point where its context yields: readers are *)
(* counted, grace periods are kept, nothing is forgotten, and a barrier      *)
(* covers what was retired before it (rcu_drain_callbacks, kb_rcu_barrier).  *)
THEOREM RcuKeepsPromises == ASSUME ~CallbacksYield PROVE Spec => RcuSafe
<1>1. Init => RInv
  BY InitRInv
<1>2. RInv /\ [Next]_vars => RInv'
  BY NextRInv
<1>3. RInv => ReadersCounted /\ GracePeriod /\ NothingForgotten
  BY DEF RInv
<1> QED BY <1>1, <1>2, <1>3, BarrierStep, PTL DEF Spec, RcuSafe
=============================================================================
