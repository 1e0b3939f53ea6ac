------------------------------- MODULE WaitBits -------------------------------
(***************************************************************************)
(* Waiting for a bit (wait_on_bit, wait_on_bit_lock and wake_up_bit of      *)
(* src/linux_personality/linux_sync.c) on top of the kernel threads of      *)
(* KThreads: one bit of one word and the wait queue it hashes to.  The wait *)
(* entry of a thread lives on its stack while it waits.                     *)
(***************************************************************************)
EXTENDS KThreads, TLAPS

CONSTANTS
  Program,   \* what threads do: subset of {"wait", "lock"}
  Others     \* other keys that hash to the same queue and are woken through it

VARIABLES
  bit,     \* the bit is set
  queue,   \* the wait queue: threads, head first
  pc       \* where each thread is in its program

wvars == <<bit, queue, pc>>
allvars == <<vars, wvars>>

-----------------------------------------------------------------------------
InQueue(t) == \E i \in DOMAIN queue : queue[i] = t
Without(t) ==
  LET i == CHOOSE i \in DOMAIN queue : queue[i] = t
  IN  IF InQueue(t)
      THEN [j \in 1..(Len(queue) - 1) |-> IF j < i THEN queue[j] ELSE queue[j + 1]]
      ELSE queue
Goto(t, l) == pc' = [pc EXCEPT ![t] = l]
Waiting(t) == pc[t] \in {"wait", "wait_test", "wait_again", "lock", "lock_test", "lock_or"}

WInit ==
  /\ Init
  /\ bit = FALSE /\ queue = <<>> /\ pc = [t \in Threads |-> "idle"]

(* Threads are created and started by the main program. *)
Start(t) ==
  /\ Create(t) \/ (~kthreads[t].activated /\ pc[t] = "idle" /\ WakeUpProcess(t))
  /\ frames = <<>>
  /\ UNCHANGED wvars

Begin(t) ==
  /\ Active(t) /\ pc[t] = "idle"
  /\ \E l \in Program : Goto(t, l)
  /\ UNCHANGED <<vars, bit, queue>>

(* kb_out_of_line_wait_on_bit: kb_prepare_to_wait puts the entry at the     *)
(* head, unless it is queued already.                                       *)
WaitPrepare(t) ==
  /\ pc[t] = "wait" /\ PrepareWait(t)
  /\ queue' = IF InQueue(t) THEN queue ELSE <<t>> \o queue
  /\ Goto(t, "wait_test")
  /\ UNCHANGED bit

(* kb_bit_wait_action calls kb_schedule while the bit is set. *)
WaitSchedule(t) ==
  /\ pc[t] = "wait_test" /\ bit
  /\ Schedule(t) \/ ScheduleReturns(t)
  /\ Goto(t, "wait_again")
  /\ UNCHANGED <<bit, queue>>

WaitRetry(t) ==
  /\ pc[t] = "wait_again" /\ bit /\ Active(t)
  /\ Goto(t, "wait")
  /\ UNCHANGED <<vars, bit, queue>>

(* The bit is clear: kb_finish_wait. *)
WaitDone(t) ==
  /\ pc[t] \in {"wait_test", "wait_again"} /\ ~bit /\ FinishWait(t)
  /\ queue' = Without(t)
  /\ Goto(t, "idle")
  /\ UNCHANGED bit

(* kb_out_of_line_wait_on_bit_lock: kb_prepare_to_wait_exclusive puts the   *)
(* entry at the tail.                                                       *)
LockPrepare(t) ==
  /\ pc[t] = "lock" /\ PrepareWait(t)
  /\ queue' = IF InQueue(t) THEN queue ELSE Append(queue, t)
  /\ Goto(t, "lock_test")
  /\ UNCHANGED bit

LockSchedule(t) ==
  /\ pc[t] = "lock_test" /\ bit
  /\ Schedule(t) \/ ScheduleReturns(t)
  /\ Goto(t, "lock_or")
  /\ UNCHANGED <<bit, queue>>

(* __atomic_fetch_or found the bit clear: the caller holds it now. *)
LockTake(t) ==
  /\ pc[t] \in {"lock_test", "lock_or"} /\ ~bit /\ FinishWait(t)
  /\ bit' = TRUE /\ queue' = Without(t)
  /\ Goto(t, "holder")

(* It was set: the loop goes on. *)
LockRetry(t) ==
  /\ pc[t] = "lock_or" /\ bit /\ Active(t)
  /\ Goto(t, "lock")
  /\ UNCHANGED <<vars, bit, queue>>

(* kb_wake_up_bit with the bit clear: kb_wake_up_waitqueue walks the queue, *)
(* kb_bit_wake_function wakes an entry for this bit and removes it, and the *)
(* walk ends with the first (nr = 1).                                       *)
WakeUpBit ==
  IF queue = <<>>
  THEN UNCHANGED <<vars, queue>>
  ELSE WakeUpProcess(queue[1]) /\ queue' = Tail(queue)

(* A holder clears the bit and wakes a waiter ... *)
Unlock(t) ==
  /\ Active(t) /\ pc[t] = "holder"
  /\ bit' = FALSE /\ Goto(t, "yield")
  /\ WakeUpBit

(* ... and yields once, as kb_wake_up_bit does. *)
UnlockYield(t) ==
  /\ pc[t] = "yield" /\ Yield(t)
  /\ Goto(t, "idle")
  /\ UNCHANGED <<bit, queue>>

(* The main program, or a completion handler it runs, takes and releases    *)
(* the bit (trylock_buffer, end_buffer_read_sync).                          *)
OuterLock ==
  /\ Outside /\ ~bit /\ bit' = TRUE
  /\ UNCHANGED <<vars, queue, pc>>
OuterHolds == bit /\ \A t \in Threads : pc[t] # "holder"
OuterUnlock ==
  /\ Outside /\ OuterHolds
  /\ bit' = FALSE /\ WakeUpBit
  /\ UNCHANGED pc

(* A waker of another key on this queue: kb_bit_wake_function declines      *)
(* every entry, and the waker yields or dispatches.                         *)
OtherWake(t) ==
  /\ Others /\ Active(t) /\ pc[t] \in {"idle", "holder"} /\ Yield(t)
  /\ UNCHANGED wvars

Dispatch(t) == RunReady(t, FALSE) /\ UNCHANGED wvars
(* A work callback under its own task begins or ends on the thread. *)
Callback(t) == pc[t] \in {"idle", "holder"} /\ SwitchTask(t) /\ UNCHANGED wvars
Rest(t) == pc[t] = "idle" /\ Yield(t) /\ UNCHANGED wvars

WNext ==
  \/ OuterLock \/ OuterUnlock
  \/ \E t \in Threads :
       \/ Start(t) \/ Dispatch(t) \/ Begin(t) \/ Rest(t) \/ OtherWake(t) \/ Callback(t)
       \/ WaitPrepare(t) \/ WaitSchedule(t) \/ WaitRetry(t) \/ WaitDone(t)
       \/ LockPrepare(t) \/ LockSchedule(t) \/ LockTake(t) \/ LockRetry(t)
       \/ Unlock(t) \/ UnlockYield(t)

WSpec == WInit /\ [][WNext]_allvars

-----------------------------------------------------------------------------
(* kb_out_of_line_wait_on_bit_lock excludes: one holder at most, and the    *)
(* bit is set while there is one.                                           *)
OneHolder ==
  \A t, u \in Threads :
    pc[t] = "holder" => bit /\ (pc[u] = "holder" => t = u)

(* A wait entry lives on its waiter's stack: it is on the queue once at     *)
(* most, and not at all when the waiting function has returned.             *)
EntriesAlive ==
  \A i, j \in DOMAIN queue :
    Waiting(queue[i]) /\ (queue[i] = queue[j] => i = j)

(* The kernel's wait-table contract (linux_sync.c:579): when the bit is     *)
(* clear, no thread sleeps on it unless another one has been woken for it   *)
(* and will look at the bit.                                                *)
Asleep(t) == Waiting(t) /\ ~kthreads[t].activated
NoStrandedWaiter ==
  ~bit => \/ \A t \in Threads : ~Asleep(t)
          \/ \E t \in Threads : Waiting(t) /\ kthreads[t].activated

(* What a bit lock promises its threads: the last part needs that all of    *)
(* them take the bit, as one that only waits for it wakes nobody.           *)
LocksSafe ==
  OneHolder /\ EntriesAlive /\ (Program \subseteq {"lock"} => NoStrandedWaiter)

-----------------------------------------------------------------------------
(* Proofs about the threads of KThreads, for any number of them, rounds of  *)
(* the stop loop and depth of nesting.                                      *)

AnyFrame == [stop : BOOLEAN, thread : Threads, foreign : BOOLEAN, n : Nat]

(* The threads that have a frame in fs, and that none has two.              *)
In(fs, t) == \E i \in DOMAIN fs : ~fs[i].stop /\ fs[i].thread = t
Single(fs) ==
  \A i, j \in DOMAIN fs :
    ~fs[i].stop /\ ~fs[j].stop /\ fs[i].thread = fs[j].thread => i = j

(* While drivers leave __state alone, a wake that found the thread          *)
(* preparing to sleep is still noted when it calls kb_schedule.             *)
WakeNoted ==
  /\ state = {}
  /\ \A t \in Threads : t \in woken /\ kthreads[t].wait_prepared => kthreads[t].wake_pending

(* No thread has two frames and an ended one has none, so the frame a       *)
(* thread leaves when it ends was its only one.                             *)
KInv ==
  /\ kthreads \in [Threads -> Flags] /\ woken \subseteq Threads /\ frames \in Seq(AnyFrame)
  /\ Single(frames)
  /\ \A t \in Threads : kthreads[t].finished => ~In(frames, t)
  /\ ~DirectState => WakeNoted /\ NoLostWake

(* The top of the frames is taken off, or changed in its other fields.      *)
LEMMA PopIs ==
  ASSUME NEW fs \in Seq(AnyFrame), fs # <<>>
  PROVE  /\ Len(fs) \in DOMAIN fs
         /\ SubSeq(fs, 1, Len(fs) - 1) \in Seq(AnyFrame)
         /\ DOMAIN SubSeq(fs, 1, Len(fs) - 1) = DOMAIN fs \ {Len(fs)}
         /\ \A i \in DOMAIN fs \ {Len(fs)} : SubSeq(fs, 1, Len(fs) - 1)[i] = fs[i]
<1>1. Len(fs) \in Nat /\ Len(fs) # 0 /\ DOMAIN fs = 1 .. Len(fs) /\ Len(fs) - 1 \in 0 .. Len(fs)
  OBVIOUS
<1>2. \A m \in 0 .. Len(fs) : SubSeq(fs, 1, m) \in Seq(AnyFrame) /\ Len(SubSeq(fs, 1, m)) = m
  BY <1>1
<1> DEFINE gs == SubSeq(fs, 1, Len(fs) - 1)
<1>3. gs \in Seq(AnyFrame) /\ Len(gs) = Len(fs) - 1
  BY <1>1, <1>2, Zenon
<1>4. \A i \in 1 .. (Len(fs) - 1) : gs[i] = fs[i]
  BY <1>1
<1> HIDE DEF gs
<1>5. DOMAIN gs = 1 .. (Len(fs) - 1) /\ 1 .. (Len(fs) - 1) = DOMAIN fs \ {Len(fs)}
  BY <1>1, <1>3
<1> QED BY <1>1, <1>3, <1>4, <1>5 DEF gs

LEMMA Popped ==
  ASSUME frames \in Seq(AnyFrame), frames # <<>>, Single(frames), frames' = Pop
  PROVE  /\ frames' \in Seq(AnyFrame) /\ Single(frames')
         /\ \A t : In(frames', t) => In(frames, t)
         /\ \A t : Active(t) => ~In(frames', t)
<1>1. /\ Len(frames) \in DOMAIN frames /\ frames' \in Seq(AnyFrame)
      /\ DOMAIN frames' = DOMAIN frames \ {Len(frames)}
      /\ \A i \in DOMAIN frames \ {Len(frames)} : frames'[i] = frames[i]
  BY PopIs DEF Pop
<1>2. Single(frames')
  BY <1>1 DEF Single
<1>3. \A t : In(frames', t) => In(frames, t)
  BY <1>1 DEF In
<1>4. ASSUME NEW t, Active(t), In(frames', t) PROVE FALSE
  <2>1. ~frames[Len(frames)].stop /\ frames[Len(frames)].thread = t
    BY <1>4 DEF Active, OnTop
  <2>2. PICK i \in DOMAIN frames \ {Len(frames)} : ~frames[i].stop /\ frames[i].thread = t
    BY <1>1, <1>4 DEF In
  <2> QED BY <1>1, <2>1, <2>2 DEF Single
<1> QED BY <1>1, <1>2, <1>3, <1>4

(* A sequence with the same threads in the same places.                     *)
Alike(fs, gs) ==
  /\ gs \in Seq(AnyFrame) /\ DOMAIN gs = DOMAIN fs
  /\ \A i \in DOMAIN fs : gs[i].stop = fs[i].stop /\ gs[i].thread = fs[i].thread

LEMMA AlikeKeeps ==
  ASSUME NEW fs, NEW gs, Alike(fs, gs)
  PROVE  (Single(fs) => Single(gs)) /\ \A t : In(gs, t) <=> In(fs, t)
  BY DEF Alike, Single, In

LEMMA TopChanged ==
  ASSUME NEW fs \in Seq(AnyFrame), fs # <<>>
  PROVE  /\ Alike(fs, [fs EXCEPT ![Len(fs)].foreign = ~@])
         /\ Alike(fs, [fs EXCEPT ![Len(fs)].n = @ + 1])
<1>1. Len(fs) \in DOMAIN fs /\ fs[Len(fs)] \in AnyFrame /\ DOMAIN fs = 1 .. Len(fs)
  BY PopIs
<1>2. ASSUME NEW f \in AnyFrame, f.stop = fs[Len(fs)].stop, f.thread = fs[Len(fs)].thread
      PROVE  Alike(fs, [fs EXCEPT ![Len(fs)] = f])
  BY <1>1, <1>2 DEF Alike
<1>3. ASSUME NEW x \in AnyFrame
      PROVE  /\ [x EXCEPT !.foreign = ~@] \in AnyFrame
             /\ [x EXCEPT !.foreign = ~@].stop = x.stop /\ [x EXCEPT !.foreign = ~@].thread = x.thread
  <2>1. (~x.foreign) \in BOOLEAN
    OBVIOUS
  <2> QED BY <2>1, Zenon DEF AnyFrame
<1>4. ASSUME NEW x \in AnyFrame
      PROVE  /\ [x EXCEPT !.n = @ + 1] \in AnyFrame
             /\ [x EXCEPT !.n = @ + 1].stop = x.stop /\ [x EXCEPT !.n = @ + 1].thread = x.thread
  BY DEF AnyFrame
<1> QED BY <1>1, <1>2, <1>3, <1>4, Zenon

LEMMA Pushed ==
  ASSUME NEW fs \in Seq(AnyFrame), Single(fs), NEW f \in AnyFrame, f.stop \/ ~In(fs, f.thread)
  PROVE  /\ Append(fs, f) \in Seq(AnyFrame) /\ Single(Append(fs, f))
         /\ \A t : In(Append(fs, f), t) => In(fs, t) \/ (~f.stop /\ t = f.thread)
<1> DEFINE gs == Append(fs, f)
<1>1. /\ gs \in Seq(AnyFrame) /\ Len(fs) \in Nat /\ DOMAIN fs = 1 .. Len(fs)
      /\ DOMAIN gs = 1 .. (Len(fs) + 1) /\ gs[Len(fs) + 1] = f
      /\ \A i \in 1 .. Len(fs) : gs[i] = fs[i]
  OBVIOUS
<1> HIDE DEF gs
<1>2. \A i \in DOMAIN gs : (i \in DOMAIN fs /\ gs[i] = fs[i]) \/ (i = Len(fs) + 1 /\ gs[i] = f)
  BY <1>1
<1>3. Single(gs)
  BY <1>2 DEF Single, In
<1>4. \A t : In(gs, t) => In(fs, t) \/ (~f.stop /\ t = f.thread)
  BY <1>2 DEF In
<1> QED BY <1>1, <1>3, <1>4 DEF gs

LEMMA InitKInv == Init => KInv
<1> SUFFICES ASSUME Init PROVE KInv
  OBVIOUS
<1>1. kthreads \in [Threads -> Flags] /\ frames \in Seq(AnyFrame)
  BY DEF Init, Flags
<1>2. Single(frames) /\ \A t : ~In(frames, t)
  BY DEF Init, Single, In
<1> QED BY <1>1, <1>2 DEF Init, KInv, WakeNoted, NoLostWake

(* A step of thread t that leaves the frames in order: what it may do to    *)
(* the flags.                                                               *)
LEMMA StepKeeps ==
  ASSUME KInv, kthreads' \in [Threads -> Flags], woken' \subseteq Threads,
         frames' \in Seq(AnyFrame), Single(frames'),
         \A t \in Threads : kthreads'[t].finished => ~In(frames', t),
         ~DirectState => state' = {},
         ~DirectState => \A t \in Threads : t \in woken' =>
           /\ kthreads'[t].wait_prepared => kthreads'[t].wake_pending
           /\ kthreads'[t].finished \/ kthreads'[t].activated
  PROVE  KInv'
  BY DEF KInv, WakeNoted, NoLostWake

(* What the invariant says of one thread.                                   *)
LEMMA OneThread ==
  ASSUME KInv, NEW t \in Threads
  PROVE  /\ kthreads[t] \in Flags
         /\ kthreads[t].finished => ~In(frames, t)
         /\ ~DirectState /\ t \in woken =>
              /\ kthreads[t].wait_prepared => kthreads[t].wake_pending
              /\ kthreads[t].finished \/ kthreads[t].activated
  BY DEF KInv, WakeNoted, NoLostWake

(* The flags of one thread change, the frames do not name more threads.     *)
LEMMA FlagsChange ==
  ASSUME KInv, NEW t \in Threads, NEW k \in Flags, kthreads' = [kthreads EXCEPT ![t] = k],
         woken' \subseteq Threads, \A s \in Threads : s # t /\ s \in woken' => s \in woken,
         frames' \in Seq(AnyFrame), Single(frames'),
         \A s \in Threads : s # t /\ In(frames', s) => In(frames, s),
         k.finished => ~In(frames', t),
         ~DirectState => state' = state,
         ~DirectState /\ t \in woken' =>
           (k.wait_prepared => k.wake_pending) /\ (k.finished \/ k.activated)
  PROVE  KInv'
<1>1. kthreads' \in [Threads -> Flags] /\ kthreads'[t] = k
      /\ \A s \in Threads : s # t => kthreads'[s] = kthreads[s]
  BY DEF KInv
<1>2. \A s \in Threads : kthreads'[s].finished => ~In(frames', s)
  BY <1>1, OneThread
<1>3. ~DirectState => state' = {}
  BY DEF KInv, WakeNoted
<1>4. ~DirectState => \A s \in Threads : s \in woken' =>
        /\ kthreads'[s].wait_prepared => kthreads'[s].wake_pending
        /\ kthreads'[s].finished \/ kthreads'[s].activated
  BY <1>1, OneThread
<1> QED BY <1>1, <1>2, <1>3, <1>4, StepKeeps

(* Only the frames change.                                                  *)
LEMMA FramesChange ==
  ASSUME KInv, UNCHANGED <<kthreads, state, woken>>, frames' \in Seq(AnyFrame), Single(frames'),
         \A s \in Threads : In(frames', s) => In(frames, s) \/ ~kthreads[s].finished
  PROVE  KInv'
<1>1. \A s \in Threads : kthreads'[s].finished => ~In(frames', s)
  BY OneThread
<1> QED BY <1>1 DEF KInv, WakeNoted, NoLostWake

(* The frame of a thread that runs.                                         *)
LEMMA RunningTop ==
  ASSUME KInv, NEW t \in Threads, Active(t)
  PROVE  frames # <<>> /\ In(frames, t) /\ ~kthreads[t].finished /\ kthreads[t] \in Flags
<1>1. frames # <<>> /\ ~frames[Len(frames)].stop /\ frames[Len(frames)].thread = t
  BY DEF Active, OnTop
<1>2. Len(frames) \in DOMAIN frames
  BY <1>1, PopIs DEF KInv
<1>3. In(frames, t)
  BY <1>1, <1>2 DEF In
<1> QED BY <1>1, <1>3, OneThread

LEMMA ThreadStepOK == ASSUME KInv, NEW t \in Threads, ThreadStep(t) PROVE KInv'
<1>0. /\ kthreads \in [Threads -> Flags] /\ woken \subseteq Threads
      /\ frames \in Seq(AnyFrame) /\ Single(frames) /\ kthreads[t] \in Flags
  BY DEF KInv
<1>1. CASE PrepareWait(t)
  <2> DEFINE k == [kthreads[t] EXCEPT !.wait_prepared = TRUE, !.wake_pending = FALSE]
  <2>1. k \in Flags /\ k.finished = kthreads[t].finished /\ kthreads' = [kthreads EXCEPT ![t] = k]
    BY <1>0, <1>1, Zenon DEF PrepareWait, Flags
  <2>2. woken' = woken \ {t} /\ UNCHANGED <<state, frames>>
    BY <1>1 DEF PrepareWait
  <2> HIDE DEF k
  <2> QED BY <1>0, <2>1, <2>2, OneThread, FlagsChange, Zenon
<1>2. CASE FinishWait(t) \/ ScheduleReturns(t)
  <2> DEFINE k == [kthreads[t] EXCEPT !.wait_prepared = FALSE, !.wake_pending = FALSE]
  <2>1. k \in Flags /\ k.finished = kthreads[t].finished /\ kthreads' = [kthreads EXCEPT ![t] = k]
    BY <1>0, <1>2, Zenon DEF FinishWait, ScheduleReturns, Flags
  <2>2. woken' = woken \ {t} /\ UNCHANGED <<state, frames>>
    BY <1>2 DEF FinishWait, ScheduleReturns
  <2> HIDE DEF k
  <2> QED BY <1>0, <2>1, <2>2, OneThread, FlagsChange, Zenon
<1>3. CASE SetState(t)
  <2>1. DirectState /\ woken' = woken \ {t} /\ UNCHANGED <<kthreads, frames>>
    BY <1>3 DEF SetState
  <2> QED BY <1>0, <2>1, StepKeeps DEF KInv
<1>4. CASE Yield(t)
  <2>1. Active(t) /\ frames' = Pop /\ UNCHANGED <<kthreads, state, woken>>
    BY <1>4 DEF Yield
  <2>2. frames' \in Seq(AnyFrame) /\ Single(frames') /\ \A s : In(frames', s) => In(frames, s)
    BY <1>0, <2>1, RunningTop, Popped
  <2> QED BY <2>1, <2>2, FramesChange
<1>5. CASE Schedule(t)
  <2>1. /\ Active(t) /\ ~(Sleepy(t) /\ kthreads[t].wake_pending)
        /\ kthreads' = (IF Sleepy(t) THEN [kthreads EXCEPT ![t].activated = FALSE] ELSE kthreads)
        /\ frames' = Pop /\ UNCHANGED <<state, woken>>
    BY <1>5 DEF Schedule
  <2>2. frames' \in Seq(AnyFrame) /\ Single(frames') /\ \A s : In(frames', s) => In(frames, s)
    BY <1>0, <2>1, RunningTop, Popped
  <2>3. CASE Sleepy(t)
    <3> DEFINE k == [kthreads[t] EXCEPT !.activated = FALSE]
    <3>1. k \in Flags /\ k.finished = kthreads[t].finished /\ kthreads' = [kthreads EXCEPT ![t] = k]
      BY <1>0, <2>1, <2>3, Zenon DEF Flags
    <3>2. ~k.finished
      BY <2>1, <3>1, RunningTop
    <3>3. ~DirectState => t \notin woken
      <4>1. ~DirectState => kthreads[t].wait_prepared /\ ~kthreads[t].wake_pending
        BY <2>1, <2>3 DEF KInv, WakeNoted, Sleepy
      <4> QED BY <4>1, OneThread
    <3> HIDE DEF k
    <3> QED BY <1>0, <2>1, <2>2, <3>1, <3>2, <3>3, FlagsChange, Zenon
  <2>4. CASE ~Sleepy(t)
    BY <2>1, <2>2, <2>4, FramesChange
  <2> QED BY <2>3, <2>4
<1>6. CASE Finish(t)
  <2> DEFINE k == [kthreads[t] EXCEPT !.finished = TRUE, !.activated = FALSE]
  <2>1. k \in Flags /\ k.finished /\ kthreads' = [kthreads EXCEPT ![t] = k]
        /\ k.wait_prepared = kthreads[t].wait_prepared /\ k.wake_pending = kthreads[t].wake_pending
    BY <1>0, <1>6, Zenon DEF Finish, Flags
  <2>2. Active(t) /\ frames' = Pop /\ UNCHANGED <<state, woken>>
    BY <1>6 DEF Finish
  <2>3. /\ frames' \in Seq(AnyFrame) /\ Single(frames') /\ ~In(frames', t)
        /\ \A s : In(frames', s) => In(frames, s)
    BY <1>0, <2>2, RunningTop, Popped
  <2> HIDE DEF k
  <2> QED BY <1>0, <2>1, <2>2, <2>3, OneThread, FlagsChange, Zenon
<1>7. CASE SwitchTask(t)
  <2>1. frames # <<>> /\ frames' = [frames EXCEPT ![Len(frames)].foreign = ~@] /\ UNCHANGED <<kthreads, state, woken>>
    BY <1>7 DEF SwitchTask, OnTop
  <2>2. Alike(frames, frames')
    BY <1>0, <2>1, TopChanged, Zenon
  <2>3. frames' \in Seq(AnyFrame) /\ Single(frames') /\ \A s : In(frames', s) => In(frames, s)
    BY <1>0, <2>2, AlikeKeeps DEF Alike
  <2> QED BY <2>1, <2>3, FramesChange, Zenon
<1> QED BY <1>1, <1>2, <1>3, <1>4, <1>5, <1>6, <1>7 DEF ThreadStep

LEMMA CreateWakeOK ==
  ASSUME KInv, NEW t \in Threads, Create(t) \/ WakeUpProcess(t)
  PROVE  KInv'
<1>0. /\ kthreads \in [Threads -> Flags] /\ woken \subseteq Threads
      /\ frames \in Seq(AnyFrame) /\ Single(frames) /\ kthreads[t] \in Flags
  BY DEF KInv
<1>1. CASE Create(t)
  <2> DEFINE k == [kthreads[t] EXCEPT !.created = TRUE]
  <2>1. /\ k \in Flags /\ k.finished = kthreads[t].finished /\ k.activated = kthreads[t].activated
        /\ k.wait_prepared = kthreads[t].wait_prepared /\ k.wake_pending = kthreads[t].wake_pending
        /\ kthreads' = [kthreads EXCEPT ![t] = k] /\ UNCHANGED <<state, frames, woken>>
    BY <1>0, <1>1, Zenon DEF Create, Flags
  <2> HIDE DEF k
  <2> QED BY <1>0, <2>1, OneThread, FlagsChange, Zenon
<1>2. CASE WakeUpProcess(t)
  <2> DEFINE p == kthreads[t].wake_pending \/ kthreads[t].wait_prepared
             k == [kthreads[t] EXCEPT !.activated = TRUE, !.wake_pending = p]
  <2>1. p \in BOOLEAN /\ (kthreads[t].wait_prepared => p)
    OBVIOUS
  <2>2. kthreads' = [kthreads EXCEPT ![t] = k]
    BY <1>0, <1>2, Zenon DEF WakeUpProcess, Flags
  <2>3. woken' = woken \union {t} /\ UNCHANGED <<state, frames>>
    BY <1>2 DEF WakeUpProcess
  <2> HIDE DEF p
  <2>4. /\ k \in Flags /\ k.finished = kthreads[t].finished /\ k.activated
        /\ k.wait_prepared = kthreads[t].wait_prepared /\ k.wake_pending = p
    BY <1>0, <2>1, Zenon DEF Flags
  <2> HIDE DEF k
  <2> QED BY <1>0, <2>1, <2>2, <2>3, <2>4, OneThread, FlagsChange, Zenon
<1> QED BY <1>1, <1>2

LEMMA StopOK == ASSUME KInv, NEW t \in Threads, Stop(t) PROVE KInv'
<1>0. /\ kthreads \in [Threads -> Flags] /\ woken \subseteq Threads
      /\ frames \in Seq(AnyFrame) /\ Single(frames) /\ kthreads[t] \in Flags
  BY DEF KInv
<1> DEFINE k == [kthreads[t] EXCEPT !.stop_requested = TRUE, !.activated = TRUE]
<1>1. /\ kthreads' = [kthreads EXCEPT ![t] = k] /\ frames' = Append(frames, StopFrame(t))
      /\ UNCHANGED <<state, woken>>
  BY <1>0, Zenon DEF Stop, Flags
<1>2. /\ k \in Flags /\ k.finished = kthreads[t].finished /\ k.activated
      /\ k.wait_prepared = kthreads[t].wait_prepared /\ k.wake_pending = kthreads[t].wake_pending
  BY <1>0, Zenon DEF Flags
<1>3. StopFrame(t) \in AnyFrame /\ StopFrame(t).stop
  BY DEF StopFrame, AnyFrame
<1>4. frames' \in Seq(AnyFrame) /\ Single(frames') /\ \A s : In(frames', s) => In(frames, s)
  BY <1>0, <1>1, <1>3, Pushed
<1> HIDE DEF k
<1> QED BY <1>0, <1>1, <1>2, <1>4, OneThread, FlagsChange, Zenon

(* kb_kthread_run_one, on frames that name the same threads.                *)
LEMMA RunOneOK ==
  ASSUME KInv, NEW t \in Threads, NEW fs, NEW gs_failed \in BOOLEAN, Alike(frames, fs),
         RunOne(t, fs, gs_failed)
  PROVE  KInv'
<1>0. /\ kthreads \in [Threads -> Flags] /\ woken \subseteq Threads
      /\ frames \in Seq(AnyFrame) /\ Single(frames) /\ kthreads[t] \in Flags
  BY DEF KInv
<1>1. ~kthreads[t].finished /\ ~In(frames, t) /\ UNCHANGED state
  BY DEF RunOne, CanRun, Dispatched, In
<1>2. fs \in Seq(AnyFrame) /\ Single(fs) /\ \A s : In(fs, s) <=> In(frames, s)
  BY <1>0, AlikeKeeps DEF Alike
<1>3. CASE ~gs_failed
  <2>1. ThreadFrame(t) \in AnyFrame /\ ThreadFrame(t).thread = t
    BY DEF ThreadFrame, AnyFrame
  <2>2. frames' = Append(fs, ThreadFrame(t))
    BY <1>3 DEF RunOne
  <2>3. frames' \in Seq(AnyFrame) /\ Single(frames') /\ \A s : In(frames', s) => In(frames, s) \/ s = t
    BY <1>1, <1>2, <2>1, <2>2, Pushed
  <2>4. CASE t \in resume
    <3> DEFINE k == [kthreads[t] EXCEPT !.wait_prepared = FALSE, !.wake_pending = FALSE]
    <3>1. k \in Flags /\ k.finished = kthreads[t].finished /\ kthreads' = [kthreads EXCEPT ![t] = k]
      BY <1>0, <1>3, <2>4, Zenon DEF RunOne, Flags
    <3>2. woken' = woken \ {t}
      BY <1>3, <2>4 DEF RunOne
    <3> HIDE DEF k
    <3> QED BY <1>0, <1>1, <2>3, <3>1, <3>2, FlagsChange, Zenon
  <2>5. CASE t \notin resume
    <3>1. UNCHANGED <<kthreads, woken>>
      BY <1>3, <2>5 DEF RunOne
    <3> QED BY <1>1, <2>3, <3>1, FramesChange
  <2> QED BY <2>4, <2>5
<1>4. CASE gs_failed
  <2> DEFINE k == [kthreads[t] EXCEPT !.finished = TRUE, !.activated = FALSE]
  <2>1. /\ k \in Flags /\ k.finished /\ kthreads' = [kthreads EXCEPT ![t] = k]
        /\ k.wait_prepared = kthreads[t].wait_prepared /\ k.wake_pending = kthreads[t].wake_pending
    BY <1>0, <1>4, Zenon DEF RunOne, Flags
  <2>2. frames' = fs /\ woken' = woken
    BY <1>4 DEF RunOne
  <2> HIDE DEF k
  <2> QED BY <1>0, <1>1, <1>2, <2>1, <2>2, OneThread, FlagsChange, Zenon
<1> QED BY <1>3, <1>4

LEMMA NextKInv == KInv /\ [Next]_vars => KInv'
<1> SUFFICES ASSUME KInv, [Next]_vars PROVE KInv'
  OBVIOUS
<1>0. frames \in Seq(AnyFrame) /\ Single(frames)
  BY DEF KInv
<1>1. ASSUME NEW t \in Threads, Create(t) \/ WakeUpProcess(t) \/ Stop(t) \/ ThreadStep(t)
      PROVE  KInv'
  BY <1>1, CreateWakeOK, StopOK, ThreadStepOK
<1>2. ASSUME NEW t \in Threads, NEW gs_failed \in BOOLEAN, RunReady(t, gs_failed) PROVE KInv'
  <2>1. Alike(frames, frames)
    BY <1>0 DEF Alike
  <2> QED BY <1>2, <2>1, RunOneOK DEF RunReady
<1>3. ASSUME NEW gs_failed \in BOOLEAN, StopRound(gs_failed) PROVE KInv'
  <2>1. PICK t \in Threads : /\ frames # <<>>
                             /\ RunOne(t, [frames EXCEPT ![Len(frames)].n = @ + 1], gs_failed)
    BY <1>3 DEF StopRound, OnTop
  <2>2. Alike(frames, [frames EXCEPT ![Len(frames)].n = @ + 1])
    BY <1>0, <2>1, TopChanged, Zenon
  <2> QED BY <2>1, <2>2, RunOneOK
<1>4. CASE StopReturn
  <2>1. frames # <<>> /\ frames' = Pop /\ UNCHANGED <<kthreads, state, woken>>
    BY <1>4 DEF StopReturn, OnTop
  <2>2. frames' \in Seq(AnyFrame) /\ Single(frames') /\ \A s : In(frames', s) => In(frames, s)
    BY <1>0, <2>1, Popped
  <2> QED BY <2>1, <2>2, FramesChange
<1>5. CASE UNCHANGED vars
  BY <1>5 DEF vars, KInv, WakeNoted, NoLostWake
<1> QED BY <1>1, <1>2, <1>3, <1>4, <1>5 DEF Next

(* linux_stubs.c, for any threads, rounds of kb_kthread_stop and nesting of *)
(* dispatches: a thread has one context; one that has ended, by itself or   *)
(* because its GS base could not be entered, is never resumed, whoever      *)
(* wakes or stops it; and unless drivers write __state no wake between      *)
(* preparing to sleep and kb_schedule is lost.                              *)
THEOREM ThreadsKept == Spec => []ThreadsSafe
<1>1. KInv => ThreadsSafe
  BY DEF KInv, Single, In, ThreadsSafe, OneContext, EndedStaysEnded, Dispatched
<1> QED BY <1>1, InitKInv, NextKInv, PTL DEF Spec

-----------------------------------------------------------------------------
(* Proofs about the bit, for any threads.                                   *)

Labels == {"idle", "wait", "wait_test", "wait_again", "lock", "lock_test", "lock_or",
           "holder", "yield"}
Elems(q) == {q[i] : i \in DOMAIN q}
Once(q) == \A i, j \in DOMAIN q : q[i] = q[j] => i = j

(* Among threads that all take the bit.  A thread with a frame is not       *)
(* asleep.  From the head of the loop in kb_out_of_line_wait_on_bit_lock to *)
(* kb_schedule a thread is on top of the frames, so nobody can wake it out  *)
(* of the queue there; and one that sleeps can still be woken.              *)
Sleepers ==
  /\ \A t \in Threads :
       /\ pc[t] \notin {"wait", "wait_test", "wait_again"}
       /\ In(frames, t) => kthreads[t].activated
       /\ pc[t] \in {"lock", "lock_test"} => Active(t)
       /\ pc[t] = "lock_test" \/ Asleep(t) => t \in Elems(queue)
  /\ NoStrandedWaiter

BInv ==
  /\ KInv
  /\ bit \in BOOLEAN /\ queue \in Seq(Threads) /\ pc \in [Threads -> Labels]
  /\ OneHolder
  /\ Once(queue) /\ \A t \in Elems(queue) : Waiting(t)
  /\ Program \subseteq {"lock"} => Sleepers

(* The wait queue as a list in which a thread is once: an entry joins it    *)
(* at either end, the first one leaves it, or the one of t is taken out.    *)
LEMMA QueueBack ==
  ASSUME NEW S, NEW q \in Seq(S), Once(q), NEW t \in S, t \notin Elems(q)
  PROVE  /\ Append(q, t) \in Seq(S) /\ Once(Append(q, t))
         /\ Elems(Append(q, t)) = Elems(q) \union {t}
<1> DEFINE r == Append(q, t)
<1>1. /\ r \in Seq(S) /\ Len(q) \in Nat /\ DOMAIN q = 1..Len(q)
      /\ DOMAIN r = 1..(Len(q) + 1) /\ r[Len(q) + 1] = t
      /\ \A i \in 1..Len(q) : r[i] = q[i]
  OBVIOUS
<1> HIDE DEF r
<1>2. \A i \in DOMAIN r : (i \in DOMAIN q /\ r[i] = q[i]) \/ (i = Len(q) + 1 /\ r[i] = t)
  BY <1>1
<1>3. (\A i \in DOMAIN q : i \in DOMAIN r /\ r[i] = q[i]) /\ Len(q) + 1 \in DOMAIN r
  BY <1>1
<1>4. Once(r)
  BY <1>2, Zenon DEF Once, Elems
<1>5. Elems(r) = Elems(q) \union {t}
  BY <1>1, <1>2, <1>3, Zenon DEF Elems
<1> QED BY <1>1, <1>4, <1>5 DEF r

LEMMA QueueFront ==
  ASSUME NEW S, NEW q \in Seq(S), Once(q), NEW t \in S, t \notin Elems(q)
  PROVE  /\ <<t>> \o q \in Seq(S) /\ Once(<<t>> \o q)
         /\ Elems(<<t>> \o q) = Elems(q) \union {t}
<1> DEFINE r == <<t>> \o q
<1>1. /\ r \in Seq(S) /\ Len(q) \in Nat /\ DOMAIN q = 1..Len(q)
      /\ DOMAIN r = 1..(Len(q) + 1) /\ r[1] = t
      /\ \A i \in 1..Len(q) : r[i + 1] = q[i]
  OBVIOUS
<1> HIDE DEF r
<1>2. \A i \in DOMAIN r : (i - 1 \in DOMAIN q /\ r[i] = q[i - 1] /\ i # 1) \/ (i = 1 /\ r[i] = t)
  BY <1>1
<1>3. (\A i \in DOMAIN q : i + 1 \in DOMAIN r /\ r[i + 1] = q[i]) /\ 1 \in DOMAIN r
  BY <1>1
<1>4. \A i, j \in DOMAIN r : i - 1 = j - 1 => i = j
  BY <1>1
<1>5. Once(r)
  BY <1>2, <1>4, Zenon DEF Once, Elems
<1>6. Elems(r) = Elems(q) \union {t}
  BY <1>1, <1>2, <1>3 DEF Elems
<1> QED BY <1>1, <1>5, <1>6 DEF r

LEMMA QueueHead ==
  ASSUME NEW S, NEW q \in Seq(S), Once(q), q # <<>>
  PROVE  /\ q[1] \in Elems(q) /\ Tail(q) \in Seq(S) /\ Once(Tail(q))
         /\ Elems(Tail(q)) = Elems(q) \ {q[1]}
<1> DEFINE r == Tail(q)
<1>1. /\ r \in Seq(S) /\ Len(q) \in Nat /\ DOMAIN q = 1..Len(q) /\ 1 \in DOMAIN q
      /\ DOMAIN r = 1..(Len(q) - 1) /\ \A i \in 1..(Len(q) - 1) : r[i] = q[i + 1]
  OBVIOUS
<1> HIDE DEF r
<1>2. /\ \A i \in DOMAIN r : i + 1 \in DOMAIN q /\ r[i] = q[i + 1] /\ i + 1 # 1
      /\ \A i \in DOMAIN q : i = 1 \/ (i - 1 \in DOMAIN r /\ r[i - 1] = q[i])
      /\ \A i, j \in DOMAIN r : i + 1 = j + 1 => i = j
  BY <1>1
<1>3. Once(r)
  BY <1>2 DEF Once
<1>4. \A i \in DOMAIN r : r[i] \in Elems(q) \ {q[1]}
  <2> TAKE i \in DOMAIN r
  <2> DEFINE k == i + 1
  <2>1. k \in DOMAIN q /\ r[i] = q[k] /\ k # 1
    BY <1>2, Zenon
  <2> HIDE DEF k
  <2> QED BY <1>1, <2>1, Zenon DEF Elems, Once
<1>5. \A i \in DOMAIN q : q[i] # q[1] => q[i] \in Elems(r)
  <2> SUFFICES ASSUME NEW i \in DOMAIN q, q[i] # q[1] PROVE q[i] \in Elems(r)
    BY Zenon
  <2> DEFINE k == i - 1
  <2>1. k \in DOMAIN r /\ r[k] = q[i]
    BY <1>2, Zenon
  <2> HIDE DEF k
  <2> QED BY <2>1, Zenon DEF Elems
<1>6. Elems(r) = Elems(q) \ {q[1]}
  BY <1>4, <1>5, Zenon DEF Elems
<1> QED BY <1>1, <1>3, <1>6, Zenon DEF r, Elems

LEMMA QueueWithout ==
  ASSUME queue \in Seq(Threads), Once(queue), NEW t
  PROVE  /\ Without(t) \in Seq(Threads) /\ Once(Without(t))
         /\ Elems(Without(t)) = Elems(queue) \ {t}
<1>1. CASE ~InQueue(t)
  <2>1. Without(t) = queue /\ t \notin Elems(queue)
    BY <1>1, Zenon DEF Without, InQueue, Elems
  <2> QED BY <2>1, Zenon
<1>2. CASE InQueue(t)
  <2> DEFINE i == CHOOSE i \in DOMAIN queue : queue[i] = t
             n == Len(queue) - 1
             r == [j \in 1..n |-> IF j < i THEN queue[j] ELSE queue[j + 1]]
  <2>1. i \in DOMAIN queue /\ queue[i] = t
    BY <1>2, Zenon DEF InQueue
  <2>2. Without(t) = r
    BY <1>2, Zenon DEF Without
  <2> HIDE DEF i
  <2>3. /\ Len(queue) \in Nat /\ n \in Nat /\ DOMAIN queue = 1..Len(queue) /\ i \in 1..Len(queue)
        /\ \A j \in DOMAIN queue : queue[j] \in Threads
    BY <2>1
  <2>4. /\ \A j \in 1..n : (IF j < i THEN queue[j] ELSE queue[j + 1]) \in Threads
    BY <2>3
  <2>5. r \in [1..n -> Threads] /\ \A j \in 1..n : r[j] = queue[IF j < i THEN j ELSE j + 1]
    BY <2>4, Zenon
  <2> HIDE DEF r
  <2>6. r \in Seq(Threads) /\ DOMAIN r = 1..n
    BY <2>3, <2>5
  <2>7. /\ \A j \in DOMAIN r : (IF j < i THEN j ELSE j + 1) \in DOMAIN queue \ {i}
        /\ \A j, k \in DOMAIN r :
             (IF j < i THEN j ELSE j + 1) = (IF k < i THEN k ELSE k + 1) => j = k
        /\ \A k \in DOMAIN queue \ {i} :
             LET j == IF k < i THEN k ELSE k - 1
             IN  j \in DOMAIN r /\ (IF j < i THEN j ELSE j + 1) = k
    <3>1. Len(queue) \in Nat /\ DOMAIN queue = 1..Len(queue) /\ i \in 1..Len(queue)
          /\ DOMAIN r = 1..(Len(queue) - 1)
      BY <2>3, <2>6, Zenon
    <3>2. \A j \in DOMAIN r : (IF j < i THEN j ELSE j + 1) \in DOMAIN queue \ {i}
      BY <3>1
    <3>3. \A j, k \in DOMAIN r :
             (IF j < i THEN j ELSE j + 1) = (IF k < i THEN k ELSE k + 1) => j = k
      BY <3>1
    <3>4. \A k \in DOMAIN queue \ {i} :
             LET j == IF k < i THEN k ELSE k - 1
             IN  j \in DOMAIN r /\ (IF j < i THEN j ELSE j + 1) = k
      BY <3>1
    <3> QED BY <3>2, <3>3, <3>4, Zenon
  <2>8. Once(r)
    BY <2>5, <2>6, <2>7, Zenon DEF Once
  <2>9. Elems(r) = Elems(queue) \ {t}
    <3>1. \A j \in DOMAIN r : r[j] \in Elems(queue) \ {t}
      <4> SUFFICES ASSUME NEW j \in DOMAIN r PROVE r[j] \in Elems(queue) /\ r[j] # t
        BY Zenon
      <4> DEFINE m == IF j < i THEN j ELSE j + 1
      <4>1. m \in DOMAIN queue /\ m # i /\ r[j] = queue[m]
        BY <2>5, <2>6, <2>7, Zenon
      <4> HIDE DEF m
      <4> QED BY <2>1, <4>1, Zenon DEF Elems, Once
    <3>2. ASSUME NEW k \in DOMAIN queue, queue[k] # t PROVE queue[k] \in Elems(r)
      <4>1. k \in DOMAIN queue \ {i}
        BY <2>1, <3>2, Zenon
      <4> DEFINE j == IF k < i THEN k ELSE k - 1
      <4>2. j \in DOMAIN r /\ (IF j < i THEN j ELSE j + 1) = k
        BY <2>7, <4>1, Zenon
      <4> HIDE DEF j
      <4>3. r[j] = queue[k]
        BY <2>5, <2>6, <4>2, Zenon
      <4> QED BY <4>2, <4>3, Zenon DEF Elems
    <3> QED BY <3>1, <3>2, Zenon DEF Elems
  <2> QED BY <2>2, <2>6, <2>8, <2>9, Zenon
<1> QED BY <1>1, <1>2

-----------------------------------------------------------------------------
(* Every step of the threads that use the bit is a step of KThreads.        *)
LEMMA ThreadSide == ASSUME BInv, WNext PROVE KInv'
<1>1. ASSUME NEW t \in Threads, Create(t) \/ WakeUpProcess(t) \/ ThreadStep(t) PROVE KInv'
  BY <1>1, NextKInv, Zenon DEF BInv, Next
<1>2. ASSUME WakeUpBit PROVE KInv'
  <2>1. CASE queue = <<>>
    BY <1>2, <2>1, NextKInv, Zenon DEF WakeUpBit, BInv
  <2>2. CASE queue # <<>>
    <3>1. queue[1] \in Threads
      BY <2>2 DEF BInv
    <3> QED BY <1>1, <1>2, <2>2, <3>1, Zenon DEF WakeUpBit
  <2> QED BY <2>1, <2>2
<1>3. ASSUME UNCHANGED vars PROVE KInv'
  BY <1>3, NextKInv, Zenon DEF BInv
<1>4. CASE OuterLock \/ OuterUnlock
  BY <1>2, <1>3, <1>4, Zenon DEF OuterLock, OuterUnlock
<1>5. ASSUME NEW t \in Threads,
             \/ Start(t) \/ Begin(t) \/ Rest(t) \/ OtherWake(t) \/ Callback(t)
             \/ WaitPrepare(t) \/ WaitSchedule(t) \/ WaitRetry(t) \/ WaitDone(t)
      PROVE  KInv'
  BY <1>1, <1>3, <1>5, Zenon
     DEF Start, Begin, Rest, OtherWake, Callback, WaitPrepare, WaitSchedule, WaitRetry,
         WaitDone, ThreadStep
<1>6. ASSUME NEW t \in Threads,
             \/ LockPrepare(t) \/ LockSchedule(t) \/ LockTake(t) \/ LockRetry(t)
             \/ Unlock(t) \/ UnlockYield(t)
      PROVE  KInv'
  BY <1>1, <1>2, <1>3, <1>6, Zenon
     DEF LockPrepare, LockSchedule, LockTake, LockRetry, Unlock, UnlockYield, ThreadStep
<1>7. ASSUME NEW t \in Threads, Dispatch(t) PROVE KInv'
  <2>1. \E g \in BOOLEAN : RunReady(t, g)
    BY <1>7, Zenon DEF Dispatch
  <2> QED BY <2>1, NextKInv, Zenon DEF BInv, Next
<1> QED BY <1>4, <1>5, <1>6, <1>7, Zenon DEF WNext

(* A thread moves to another label.                                         *)
LEMMA Moved ==
  ASSUME BInv, NEW t \in Threads, NEW l \in Labels, Goto(t, l)
  PROVE  /\ pc' \in [Threads -> Labels] /\ pc'[t] = l
         /\ \A u \in Threads : u # t => pc'[u] = pc[u]
BY DEF BInv, Goto

(* The bit excludes and the queue holds waiters, each of them once.         *)
BitOK ==
  /\ bit \in BOOLEAN /\ queue \in Seq(Threads) /\ pc \in [Threads -> Labels]
  /\ OneHolder
  /\ Once(queue) /\ \A t \in Elems(queue) : Waiting(t)

(* A thread joins the queue, or stays on it, and waits.                     *)
LEMMA Joined ==
  ASSUME BInv, NEW t \in Threads, NEW l \in Labels, Goto(t, l), UNCHANGED bit,
         Waiting(t), l # "holder", Waiting(t)',
         \/ queue' = (IF InQueue(t) THEN queue ELSE <<t>> \o queue)
         \/ queue' = (IF InQueue(t) THEN queue ELSE Append(queue, t))
         \/ queue' = queue
  PROVE  BitOK'
<1>1. /\ pc' \in [Threads -> Labels] /\ pc'[t] = l
      /\ \A u \in Threads : u # t => pc'[u] = pc[u]
  BY Moved, Zenon
<1>2. InQueue(t) <=> t \in Elems(queue)
  BY Zenon DEF InQueue, Elems
<1>3. /\ queue' \in Seq(Threads) /\ Once(queue')
      /\ Elems(queue') \subseteq Elems(queue) \union {t}
  <2>1. queue \in Seq(Threads) /\ Once(queue)
    BY Zenon DEF BInv
  <2>2. CASE queue' = queue
    BY <2>1, <2>2, Zenon
  <2>3. CASE queue' = <<t>> \o queue /\ ~InQueue(t)
    BY <1>2, <2>1, <2>3, QueueFront, Zenon
  <2>4. CASE queue' = Append(queue, t) /\ ~InQueue(t)
    BY <1>2, <2>1, <2>4, QueueBack, Zenon
  <2> QED BY <2>2, <2>3, <2>4, Zenon
<1>4. Elems(queue) \subseteq Threads
  BY DEF BInv, Elems
<1>5. \A u \in Elems(queue') : Waiting(u)'
  BY <1>1, <1>3, <1>4, Zenon DEF BInv, Waiting
<1>6. OneHolder'
  BY <1>1, Zenon DEF BInv, OneHolder
<1> QED BY <1>1, <1>3, <1>5, <1>6, Zenon DEF BInv, BitOK

(* A thread leaves the queue, and takes the bit or not.                     *)
LEMMA LeftQueue ==
  ASSUME BInv, NEW t \in Threads, NEW l \in Labels, Goto(t, l), ~bit, bit' \in BOOLEAN,
         queue' = Without(t), l = "holder" => bit'
  PROVE  BitOK'
<1>1. /\ pc' \in [Threads -> Labels] /\ pc'[t] = l
      /\ \A u \in Threads : u # t => pc'[u] = pc[u]
  BY Moved, Zenon
<1>2. /\ queue' \in Seq(Threads) /\ Once(queue') /\ Elems(queue') = Elems(queue) \ {t}
  BY QueueWithout, Zenon DEF BInv
<1>3. Elems(queue) \subseteq Threads
  BY DEF BInv, Elems
<1>4. \A u \in Elems(queue') : Waiting(u)'
  BY <1>1, <1>2, <1>3, Zenon DEF BInv, Waiting
<1>5. OneHolder'
  BY <1>1, Zenon DEF BInv, OneHolder
<1> QED BY <1>1, <1>2, <1>4, <1>5, Zenon DEF BitOK

(* The queue is woken: the first entry leaves it.                           *)
LEMMA Woken ==
  ASSUME BInv, WakeUpBit
  PROVE  /\ queue' \in Seq(Threads) /\ Once(queue')
         /\ Elems(queue') \subseteq Elems(queue)
         /\ queue # <<>> => /\ queue[1] \in Threads /\ Waiting(queue[1])
                            /\ WakeUpProcess(queue[1])
                            /\ Elems(queue') = Elems(queue) \ {queue[1]}
         /\ queue = <<>> => UNCHANGED <<vars, queue>> /\ Elems(queue) = {}
<1>1. CASE queue = <<>>
  <2>1. UNCHANGED <<vars, queue>>
    BY <1>1, Zenon DEF WakeUpBit
  <2>2. Elems(queue) = {}
    BY <1>1 DEF Elems
  <2> QED BY <1>1, <2>1, <2>2, Zenon DEF BInv
<1>2. CASE queue # <<>>
  <2>1. queue[1] \in Threads
    BY <1>2 DEF BInv
  <2>2. WakeUpProcess(queue[1]) /\ queue' = Tail(queue)
    BY <1>2, Zenon DEF WakeUpBit
  <2>3. /\ queue[1] \in Elems(queue) /\ Tail(queue) \in Seq(Threads) /\ Once(Tail(queue))
        /\ Elems(Tail(queue)) = Elems(queue) \ {queue[1]}
    BY <1>2, QueueHead, Zenon DEF BInv
  <2> QED BY <1>2, <2>1, <2>2, <2>3, Zenon DEF BInv
<1> QED BY <1>1, <1>2

LEMMA BitSide ==
  ASSUME BInv, Program \subseteq {"wait", "lock"}, WNext
  PROVE  BitOK'
<1>0. BitOK /\ queue \in Seq(Threads)
  BY Zenon DEF BInv, BitOK
<1>1. ASSUME UNCHANGED <<queue, pc>>, bit' \in BOOLEAN, bit => bit' PROVE BitOK'
  BY <1>0, <1>1, Zenon DEF BitOK, OneHolder, Waiting
<1>2. CASE OuterLock
  BY <1>1, <1>2, Zenon DEF OuterLock
<1>3. CASE OuterUnlock
  <2>1. WakeUpBit /\ bit' = FALSE /\ UNCHANGED pc /\ \A t \in Threads : pc[t] # "holder"
    BY <1>3, Zenon DEF OuterUnlock, OuterHolds
  <2>2. queue' \in Seq(Threads) /\ Once(queue') /\ Elems(queue') \subseteq Elems(queue)
    BY <2>1, Woken, Zenon
  <2> QED BY <1>0, <2>1, <2>2, Zenon DEF BitOK, OneHolder, Waiting
<1>4. ASSUME NEW t \in Threads,
             Start(t) \/ Dispatch(t) \/ Rest(t) \/ OtherWake(t) \/ Callback(t)
      PROVE  BitOK'
  <2>1. UNCHANGED <<bit, queue, pc>>
    BY <1>4, Zenon DEF Start, Dispatch, Rest, OtherWake, Callback, wvars
  <2> QED BY <1>0, <1>1, <2>1, Zenon DEF BitOK
<1>5. ASSUME NEW t \in Threads, Begin(t) PROVE BitOK'
  <2>1. PICK l \in Program : Goto(t, l)
    BY <1>5, Zenon DEF Begin
  <2>2. l \in {"wait", "lock"} /\ pc[t] = "idle" /\ UNCHANGED <<bit, queue>>
    BY <1>5, Zenon DEF Begin
  <2>3. l \in Labels
    BY <2>2 DEF Labels
  <2>4. pc' \in [Threads -> Labels] /\ pc'[t] = l /\ \A u \in Threads : u # t => pc'[u] = pc[u]
    BY <2>1, <2>3, Moved, Zenon
  <2>5. Elems(queue) \subseteq Threads
    BY <1>0 DEF Elems
  <2>6. l # "holder" /\ l \in {"wait", "wait_test", "wait_again", "lock", "lock_test", "lock_or"}
    BY <2>2
  <2> QED BY <1>0, <2>2, <2>4, <2>5, <2>6, Zenon DEF BitOK, OneHolder, Waiting
<1>6. ASSUME NEW t \in Threads,
             \/ WaitPrepare(t) \/ WaitSchedule(t) \/ WaitRetry(t)
             \/ LockPrepare(t) \/ LockSchedule(t) \/ LockRetry(t)
      PROVE  BitOK'
  <2>1. PICK l \in {"wait", "wait_test", "wait_again", "lock", "lock_test", "lock_or"} :
          /\ Goto(t, l) /\ Waiting(t) /\ UNCHANGED bit
          /\ \/ queue' = (IF InQueue(t) THEN queue ELSE <<t>> \o queue)
             \/ queue' = (IF InQueue(t) THEN queue ELSE Append(queue, t))
             \/ queue' = queue
    BY <1>6 DEF WaitPrepare, WaitSchedule, WaitRetry, LockPrepare, LockSchedule, LockRetry, Waiting
  <2>2. l \in Labels /\ l # "holder"
    BY DEF Labels
  <2>3. pc'[t] = l
    BY <2>1, <2>2, Moved, Zenon
  <2>4. Waiting(t)'
    BY <2>3, Zenon DEF Waiting
  <2> QED BY <2>1, <2>2, <2>4, Joined, Zenon
<1>7. ASSUME NEW t \in Threads, WaitDone(t) \/ LockTake(t) PROVE BitOK'
  <2>1. "idle" \in Labels /\ "holder" \in Labels /\ "idle" # "holder"
    BY DEF Labels
  <2>2. CASE WaitDone(t)
    BY <1>0, <2>1, <2>2, LeftQueue, Zenon DEF WaitDone, BitOK
  <2>3. CASE LockTake(t)
    BY <2>1, <2>3, LeftQueue, Zenon DEF LockTake
  <2> QED BY <1>7, <2>2, <2>3
<1>8. ASSUME NEW t \in Threads, Unlock(t) PROVE BitOK'
  <2>1. pc[t] = "holder" /\ bit' = FALSE /\ Goto(t, "yield") /\ WakeUpBit /\ "yield" \in Labels
    BY <1>8, Zenon DEF Unlock, Labels
  <2>2. /\ pc' \in [Threads -> Labels] /\ pc'[t] = "yield"
        /\ \A u \in Threads : u # t => pc'[u] = pc[u]
    BY <2>1, Moved, Zenon
  <2>3. queue' \in Seq(Threads) /\ Once(queue') /\ Elems(queue') \subseteq Elems(queue)
    BY <2>1, Woken, Zenon
  <2>4. Elems(queue) \subseteq Threads
    BY <1>0 DEF Elems
  <2>5. ~Waiting(t)
    BY <2>1 DEF Waiting
  <2>6. \A u \in Elems(queue') : Waiting(u)'
    BY <1>0, <2>2, <2>3, <2>4, <2>5, Zenon DEF BitOK, Waiting
  <2>7. OneHolder'
    BY <1>0, <2>1, <2>2 DEF BitOK, OneHolder
  <2> QED BY <2>1, <2>2, <2>3, <2>6, <2>7, Zenon DEF BitOK
<1>9. ASSUME NEW t \in Threads, UnlockYield(t) PROVE BitOK'
  <2>1. pc[t] = "yield" /\ Goto(t, "idle") /\ UNCHANGED <<bit, queue>> /\ "idle" \in Labels
    BY <1>9, Zenon DEF UnlockYield, Labels
  <2>2. /\ pc' \in [Threads -> Labels] /\ pc'[t] = "idle"
        /\ \A u \in Threads : u # t => pc'[u] = pc[u]
    BY <2>1, Moved, Zenon
  <2>3. Elems(queue) \subseteq Threads
    BY <1>0 DEF Elems
  <2>4. ~Waiting(t) /\ pc'[t] # "holder"
    BY <2>1, <2>2 DEF Waiting
  <2> QED BY <1>0, <2>1, <2>2, <2>3, <2>4, Zenon DEF BitOK, OneHolder, Waiting
<1> QED BY <1>2, <1>3, <1>4, <1>5, <1>6, <1>7, <1>8, <1>9, Zenon DEF WNext

-----------------------------------------------------------------------------
(* Only kb_schedule takes activated from a thread, and only from its own.   *)
LEMMA FlagsKept ==
  ASSUME kthreads \in [Threads -> Flags], NEW u \in Threads,
         \/ Create(u) \/ PrepareWait(u) \/ FinishWait(u) \/ ScheduleReturns(u) \/ Yield(u)
         \/ SwitchTask(u) \/ RunReady(u, FALSE) \/ UNCHANGED vars
  PROVE  \A t \in Threads : kthreads'[t].activated = kthreads[t].activated
<1>1. CASE kthreads' = kthreads
  BY <1>1, Zenon
<1>2. CASE kthreads' = [kthreads EXCEPT ![u].created = TRUE]
  BY <1>2 DEF Flags
<1>3. ASSUME NEW w \in BOOLEAN,
             kthreads' = [kthreads EXCEPT ![u].wait_prepared = w, ![u].wake_pending = FALSE]
      PROVE  \A t \in Threads : kthreads'[t].activated = kthreads[t].activated
  BY <1>3 DEF Flags
<1>4. ASSUME Create(u) PROVE kthreads' = [kthreads EXCEPT ![u].created = TRUE]
  BY <1>4, Zenon DEF Create
<1>5. ASSUME PrepareWait(u) \/ FinishWait(u) \/ ScheduleReturns(u)
      PROVE  \E w \in BOOLEAN :
               kthreads' = [kthreads EXCEPT ![u].wait_prepared = w, ![u].wake_pending = FALSE]
  BY <1>5, Zenon DEF PrepareWait, FinishWait, ScheduleReturns
<1>6. ASSUME RunReady(u, FALSE)
      PROVE  \/ kthreads' = kthreads
             \/ kthreads' = [kthreads EXCEPT ![u].wait_prepared = FALSE, ![u].wake_pending = FALSE]
  BY <1>6, Zenon DEF RunReady, RunOne
<1>7. ASSUME Yield(u) \/ SwitchTask(u) \/ UNCHANGED vars PROVE kthreads' = kthreads
  BY <1>7, Zenon DEF Yield, SwitchTask, vars
<1> QED BY <1>1, <1>2, <1>3, <1>4, <1>5, <1>6, <1>7, Zenon

LEMMA FlagsWake ==
  ASSUME kthreads \in [Threads -> Flags], NEW u \in Threads, WakeUpProcess(u)
  PROVE  /\ kthreads'[u].activated /\ frames' = frames
         /\ \A t \in Threads : kthreads[t].activated => kthreads'[t].activated
<1>1. kthreads' = [kthreads EXCEPT ![u].activated = TRUE,
                                   ![u].wake_pending = @ \/ kthreads[u].wait_prepared]
  BY Zenon DEF WakeUpProcess
<1>2. \A t \in Threads : t # u => kthreads'[t] = kthreads[t]
  BY <1>1
<1>3. kthreads'[u].activated
  BY <1>1 DEF Flags
<1> QED BY <1>2, <1>3, Zenon DEF WakeUpProcess

LEMMA FlagsSleep ==
  ASSUME kthreads \in [Threads -> Flags], NEW u \in Threads, Schedule(u)
  PROVE  \A t \in Threads : t # u => kthreads'[t].activated = kthreads[t].activated
BY DEF Schedule

(* A thread that runs, or whose callback runs, is the only one on top.      *)
Carries(u) == frames # <<>> /\ ~frames[Len(frames)].stop /\ frames[Len(frames)].thread = u

LEMMA TopOne ==
  ASSUME NEW t, Active(t)
  PROVE  ~Outside /\ \A u : Carries(u) \/ Active(u) => u = t
BY DEF Active, Outside, OnTop, Carries

(* Steps after which every thread with a frame is activated.                *)
Awake == \A t \in Threads : In(frames, t) => kthreads[t].activated

LEMMA AwakeStill ==
  ASSUME KInv, Awake, frames' = frames,
         \A t \in Threads : kthreads[t].activated => kthreads'[t].activated
  PROVE  Awake'
BY Zenon DEF Awake

LEMMA AwakePop ==
  ASSUME KInv, Awake, NEW u \in Threads, Active(u), frames' = Pop,
         \A t \in Threads : t # u => (kthreads[t].activated => kthreads'[t].activated)
  PROVE  Awake'
<1>1. frames # <<>> /\ frames \in Seq(AnyFrame) /\ Single(frames)
  BY RunningTop, Zenon DEF KInv
<1>2. ~In(frames', u) /\ \A t : In(frames', t) => In(frames, t)
  BY <1>1, Popped, Zenon
<1> QED BY <1>2, Zenon DEF Awake

LEMMA AwakeSwitch ==
  ASSUME KInv, Awake, NEW u \in Threads, SwitchTask(u)
  PROVE  Awake'
<1>1. frames # <<>> /\ frames \in Seq(AnyFrame)
  BY Zenon DEF KInv, SwitchTask, OnTop
<1>2. /\ frames' = [frames EXCEPT ![Len(frames)].foreign = ~@]
      /\ kthreads' = kthreads
  BY Zenon DEF SwitchTask
<1>3. \A t : In(frames', t) <=> In(frames, t)
  BY <1>1, <1>2, TopChanged, AlikeKeeps, Zenon
<1> QED BY <1>2, <1>3, Zenon DEF Awake

LEMMA AwakeRun ==
  ASSUME KInv, Awake, NEW u \in Threads, RunReady(u, FALSE)
  PROVE  Awake'
<1>1. /\ frames' = Append(frames, ThreadFrame(u)) /\ kthreads[u].activated /\ ~Dispatched(u)
  BY Zenon DEF RunReady, RunOne, CanRun
<1>2. ThreadFrame(u) \in AnyFrame /\ ThreadFrame(u).thread = u
  BY DEF ThreadFrame, AnyFrame
<1>3. ~In(frames, u) /\ frames \in Seq(AnyFrame) /\ Single(frames)
  BY <1>1, Zenon DEF In, Dispatched, KInv
<1>4. \A t : In(frames', t) => In(frames, t) \/ t = u
  BY <1>1, <1>2, <1>3, Pushed, Zenon
<1>5. \A t \in Threads : kthreads'[t].activated = kthreads[t].activated
  BY FlagsKept, Zenon DEF KInv
<1> QED BY <1>1, <1>4, <1>5, Zenon DEF Awake

(* A step that moves no thread, while none is between the head of the lock  *)
(* loop and kb_schedule.                                                    *)
LEMMA Calm ==
  ASSUME Sleepers, UNCHANGED <<queue, pc>>, bit => bit', Awake',
         \A t \in Threads : kthreads[t].activated => kthreads'[t].activated,
         \A t \in Threads : pc[t] \notin {"lock", "lock_test"}
  PROVE  Sleepers'
<1>1. \A t \in Threads : Asleep(t)' => Asleep(t)
  BY Zenon DEF Asleep, Waiting
<1>2. \A t \in Threads : Waiting(t) /\ kthreads[t].activated => (Waiting(t) /\ kthreads[t].activated)'
  BY Zenon DEF Waiting
<1>3. NoStrandedWaiter'
  BY <1>1, <1>2, Zenon DEF Sleepers, NoStrandedWaiter
<1>4. \A t \in Threads : pc[t] \notin {"wait", "wait_test", "wait_again"}
  BY Zenon DEF Sleepers
<1>5. \A t \in Threads : Asleep(t) => t \in Elems(queue)
  BY Zenon DEF Sleepers
<1>6. \A t \in Threads : pc'[t] # "lock_test"
  OBVIOUS
<1> QED BY <1>1, <1>3, <1>4, <1>5, <1>6, Zenon DEF Sleepers, Awake

(* The running thread moves to another label.                               *)
LEMMA Mine ==
  ASSUME BInv, Sleepers, NEW u \in Threads, Active(u), NEW l \in Labels, Goto(u, l), Awake',
         l \notin {"wait", "wait_test", "wait_again"},
         \A t \in Threads : t # u => (kthreads[t].activated => kthreads'[t].activated),
         \A t \in Threads : t \in Elems(queue) /\ ~kthreads'[t].activated /\ t # u
                              => t \in Elems(queue'),
         l \in {"lock", "lock_test"} => Active(u)',
         l = "lock_test" \/ (l \in {"lock", "lock_or"} /\ ~kthreads'[u].activated)
           => u \in Elems(queue'),
         NoStrandedWaiter'
  PROVE  Sleepers'
<1>1. /\ pc' \in [Threads -> Labels] /\ pc'[u] = l
      /\ \A t \in Threads : t # u => pc'[t] = pc[t]
  BY Moved, Zenon
<1>2. ASSUME NEW t \in Threads, t # u
      PROVE  /\ pc'[t] \notin {"wait", "wait_test", "wait_again"}
             /\ pc'[t] \notin {"lock", "lock_test"}
             /\ Asleep(t)' => t \in Elems(queue')
  <2>1. pc[t] \notin {"lock", "lock_test"}
    BY <1>2, TopOne, Zenon DEF Sleepers
  <2>2. Asleep(t)' => Asleep(t)
    BY <1>1, <1>2, Zenon DEF Asleep, Waiting
  <2> QED BY <1>1, <1>2, <2>1, <2>2, Zenon DEF Sleepers, Asleep
<1>3. Asleep(u)' => u \in Elems(queue')
  <2>1. Asleep(u)' => l \in {"lock", "lock_test", "lock_or"} /\ ~kthreads'[u].activated
    BY <1>1 DEF Asleep, Waiting
  <2> QED BY <2>1
<1>4. \A t \in Threads : pc'[t] \notin {"wait", "wait_test", "wait_again"}
  BY <1>1, <1>2, Zenon
<1>5. \A t \in Threads : pc'[t] \in {"lock", "lock_test"} => Active(t)'
  BY <1>1, <1>2, Zenon
<1>6. \A t \in Threads : pc'[t] = "lock_test" => t \in Elems(queue')
  BY <1>1, <1>2, Zenon
<1>7. \A t \in Threads : Asleep(t)' => t \in Elems(queue')
  BY <1>2, <1>3, Zenon
<1> QED BY <1>4, <1>5, <1>6, <1>7, Zenon DEF Sleepers, Awake

(* The queue is woken and the bit is clear: the first sleeper will look.    *)
LEMMA WokenLooks ==
  ASSUME BInv, Sleepers, WakeUpBit,
         \A t \in Threads : Waiting(t)' <=> Waiting(t)
  PROVE  /\ NoStrandedWaiter' /\ Awake'
         /\ \A t \in Threads : kthreads[t].activated => kthreads'[t].activated
         /\ \A t \in Threads : t \in Elems(queue) /\ ~kthreads'[t].activated
                                 => t \in Elems(queue')
<1>0. kthreads \in [Threads -> Flags] /\ KInv /\ Awake
  BY Zenon DEF BInv, KInv, Sleepers, Awake
<1>1. CASE queue = <<>>
  <2>1. UNCHANGED <<vars, queue>> /\ Elems(queue) = {}
    BY <1>1, Woken, Zenon
  <2>2. kthreads' = kthreads /\ frames' = frames /\ queue' = queue
    BY <2>1, Zenon DEF vars
  <2>3. \A t \in Threads : ~Asleep(t)
    BY <2>1 DEF Sleepers
  <2>4. NoStrandedWaiter'
    BY <2>2, <2>3, Zenon DEF NoStrandedWaiter, Asleep
  <2> QED BY <1>0, <2>2, <2>4, Zenon DEF Awake
<1>2. CASE queue # <<>>
  <2> DEFINE w == queue[1]
  <2>1. /\ w \in Threads /\ Waiting(w) /\ WakeUpProcess(w)
        /\ Elems(queue') = Elems(queue) \ {w}
    BY <1>2, Woken, Zenon
  <2> HIDE DEF w
  <2>2. /\ kthreads'[w].activated /\ frames' = frames
        /\ \A t \in Threads : kthreads[t].activated => kthreads'[t].activated
    BY <1>0, <2>1, FlagsWake, Zenon
  <2>3. Awake'
    BY <1>0, <2>2, AwakeStill, Zenon
  <2>4. NoStrandedWaiter'
    BY <2>1, <2>2, Zenon DEF NoStrandedWaiter
  <2>5. \A t \in Threads : t \in Elems(queue) /\ ~kthreads'[t].activated => t \in Elems(queue')
    BY <2>1, <2>2
  <2> QED BY <2>2, <2>3, <2>4, <2>5, Zenon
<1> QED BY <1>1, <1>2

LEMMA SleepSide ==
  ASSUME BInv, Program \subseteq {"lock"}, WNext
  PROVE  Sleepers'
<1>0. /\ Sleepers /\ KInv /\ Awake /\ kthreads \in [Threads -> Flags]
      /\ queue \in Seq(Threads) /\ Once(queue)
  BY Zenon DEF BInv, KInv, Sleepers, Awake
<1>1. ASSUME Outside PROVE \A t \in Threads : pc[t] \notin {"lock", "lock_test"}
  BY <1>0, <1>1, TopOne, Zenon DEF Sleepers
<1>2. ASSUME NEW u \in Threads, Carries(u), pc[u] \in {"idle", "holder"}
      PROVE  \A t \in Threads : pc[t] \notin {"lock", "lock_test"}
  <2>1. pc[u] \notin {"lock", "lock_test"}
    BY <1>2
  <2>2. ASSUME NEW t \in Threads, pc[t] \in {"lock", "lock_test"} PROVE FALSE
    <3>1. Active(t)
      BY <1>0, <2>2, Zenon DEF Sleepers
    <3>2. u = t
      BY <1>2, <3>1, TopOne, Zenon
    <3> QED BY <2>1, <2>2, <3>2, Zenon
  <2> QED BY <2>2, Zenon
<1>3. ASSUME NEW u, Active(u) PROVE Carries(u)
  BY <1>3, Zenon DEF Active, OnTop, Carries
<1>4. ASSUME NEW u \in Threads, Yield(u) \/ SwitchTask(u), UNCHANGED wvars,
             pc[u] \in {"idle", "holder"}
      PROVE  Sleepers'
  <2>1. \A t \in Threads : kthreads'[t].activated = kthreads[t].activated
    BY <1>0, <1>4, FlagsKept, Zenon
  <2>2. Awake'
    BY <1>0, <1>4, <2>1, AwakePop, AwakeSwitch, Zenon DEF Yield
  <2>3. \A t \in Threads : pc[t] \notin {"lock", "lock_test"}
    <3>1. Carries(u)
      BY <1>3, <1>4, Zenon DEF Yield, SwitchTask, OnTop, Carries
    <3> QED BY <1>2, <1>4, <3>1, Zenon
  <2> QED BY <1>0, <1>4, <2>1, <2>2, <2>3, Calm, Zenon DEF wvars
<1>5. CASE OuterLock
  <2>1. Outside /\ UNCHANGED <<queue, pc>> /\ kthreads' = kthreads /\ frames' = frames /\ bit'
    BY <1>5, Zenon DEF OuterLock, vars
  <2> QED BY <1>0, <1>1, <2>1, AwakeStill, Calm, Zenon
<1>6. CASE OuterUnlock
  <2>1. Outside /\ WakeUpBit /\ pc' = pc
    BY <1>6, Zenon DEF OuterUnlock
  <2>2. /\ NoStrandedWaiter' /\ Awake'
        /\ \A t \in Threads : kthreads[t].activated => kthreads'[t].activated
        /\ \A t \in Threads : t \in Elems(queue) /\ ~kthreads'[t].activated
                                => t \in Elems(queue')
    BY <1>0, <2>1, WokenLooks, Zenon DEF Waiting
  <2>3. \A t \in Threads : Asleep(t)' => Asleep(t) /\ t \in Elems(queue')
    BY <1>0, <2>1, <2>2, Zenon DEF Asleep, Waiting, Sleepers
  <2>4. \A t \in Threads : pc[t] \notin {"lock", "lock_test"}
    BY <1>1, <2>1, Zenon
  <2>5. \A t \in Threads : pc'[t] # "lock_test" /\ pc'[t] \notin {"wait", "wait_test", "wait_again"}
    BY <1>0, <2>1, <2>4 DEF Sleepers
  <2> QED BY <2>1, <2>2, <2>3, <2>4, <2>5, Zenon DEF Sleepers, Awake
<1>7. ASSUME NEW u \in Threads, Start(u) PROVE Sleepers'
  <2>1. (Create(u) \/ WakeUpProcess(u)) /\ Outside /\ UNCHANGED <<bit, queue, pc>>
    BY <1>7, Zenon DEF Start, Outside, wvars
  <2>2. frames' = frames /\ \A t \in Threads : kthreads[t].activated => kthreads'[t].activated
    BY <1>0, <2>1, FlagsKept, FlagsWake, Zenon DEF Create
  <2> QED BY <1>0, <1>1, <2>1, <2>2, AwakeStill, Calm, Zenon
<1>8. ASSUME NEW u \in Threads, Dispatch(u) PROVE Sleepers'
  <2>1. RunReady(u, FALSE) /\ Outside /\ UNCHANGED <<bit, queue, pc>>
    BY <1>8, Zenon DEF Dispatch, RunReady, wvars
  <2> QED BY <1>0, <1>1, <2>1, FlagsKept, AwakeRun, Calm, Zenon
<1>9. ASSUME NEW u \in Threads, Rest(u) \/ OtherWake(u) \/ Callback(u) PROVE Sleepers'
  <2>1. (Yield(u) \/ SwitchTask(u)) /\ UNCHANGED wvars /\ pc[u] \in {"idle", "holder"}
    BY <1>9, Zenon DEF Rest, OtherWake, Callback
  <2> QED BY <1>4, <2>1, Zenon
<1>10. ASSUME NEW u \in Threads, Begin(u) PROVE Sleepers'
  <2>1. Goto(u, "lock") /\ Active(u) /\ UNCHANGED <<vars, queue>> /\ "lock" \in Labels
    BY <1>10, Zenon DEF Begin, Labels
  <2>2. kthreads' = kthreads /\ frames' = frames /\ queue' = queue
    BY <2>1, Zenon DEF vars
  <2>3. Active(u)' /\ Awake' /\ kthreads'[u].activated
    BY <1>0, <2>1, <2>2, AwakeStill, RunningTop, Zenon DEF Active, OnTop, Awake
  <2>4. pc'[u] = "lock"
    BY <2>1, Moved, Zenon
  <2>5. NoStrandedWaiter'
    BY <2>3, <2>4, Zenon DEF NoStrandedWaiter, Waiting
  <2>6. "lock" \notin {"wait", "wait_test", "wait_again"} /\ "lock" # "lock_test"
    OBVIOUS
  <2> QED BY <1>0, <2>1, <2>2, <2>3, <2>5, <2>6, Mine, Zenon
<1>11. ASSUME NEW u \in Threads, WaitPrepare(u) \/ WaitSchedule(u) \/ WaitRetry(u) \/ WaitDone(u)
       PROVE  FALSE
  <2>1. pc[u] \in {"wait", "wait_test", "wait_again"}
    BY <1>11 DEF WaitPrepare, WaitSchedule, WaitRetry, WaitDone
  <2> QED BY <1>0, <2>1, Zenon DEF Sleepers
<1>12. ASSUME NEW u \in Threads, LockPrepare(u) PROVE Sleepers'
  <2>1. PrepareWait(u) /\ Active(u) /\ Goto(u, "lock_test") /\ frames' = frames /\ "lock_test" \in Labels
    BY <1>12, Zenon DEF LockPrepare, PrepareWait, Labels
  <2>2. \A t \in Threads : kthreads'[t].activated = kthreads[t].activated
    BY <1>0, <2>1, FlagsKept, Zenon
  <2>3. Active(u)' /\ Awake' /\ kthreads'[u].activated
    BY <1>0, <2>1, <2>2, AwakeStill, RunningTop, Zenon DEF Active, OnTop, Awake
  <2>4. Elems(queue') = Elems(queue) \union {u}
    <3>1. queue' = (IF InQueue(u) THEN queue ELSE Append(queue, u))
      BY <1>12, Zenon DEF LockPrepare
    <3>2. InQueue(u) <=> u \in Elems(queue)
      BY Zenon DEF InQueue, Elems
    <3>3. CASE InQueue(u)
      BY <3>1, <3>2, <3>3
    <3>4. CASE ~InQueue(u)
      <4>1. u \notin Elems(queue) /\ queue' = Append(queue, u)
        BY <3>1, <3>2, <3>4, Zenon
      <4>2. Elems(Append(queue, u)) = Elems(queue) \union {u}
        BY <1>0, <4>1, QueueBack
      <4> QED BY <4>1, <4>2, Zenon
    <3> QED BY <3>3, <3>4
  <2>5. pc'[u] = "lock_test"
    BY <2>1, Moved, Zenon
  <2>6. NoStrandedWaiter'
    BY <2>3, <2>5, Zenon DEF NoStrandedWaiter, Waiting
  <2>7. "lock_test" \notin {"wait", "wait_test", "wait_again"}
    OBVIOUS
  <2>8. u \in Elems(queue') /\ \A t \in Elems(queue) : t \in Elems(queue')
    BY <2>4
  <2> QED BY <1>0, <2>1, <2>2, <2>3, <2>6, <2>7, <2>8, Mine, Zenon
<1>13. ASSUME NEW u \in Threads, LockSchedule(u) PROVE Sleepers'
  <2>1. /\ Active(u) /\ Goto(u, "lock_or") /\ "lock_or" \in Labels /\ bit' /\ queue' = queue
        /\ pc[u] = "lock_test"
    BY <1>13, Zenon DEF LockSchedule, Schedule, ScheduleReturns, Labels
  <2>2. \A t \in Threads : t # u => kthreads'[t].activated = kthreads[t].activated
    BY <1>0, <1>13, FlagsKept, FlagsSleep, Zenon DEF LockSchedule
  <2>3. Awake'
    <3>1. CASE Schedule(u)
      BY <1>0, <2>1, <2>2, <3>1, AwakePop, Zenon DEF Schedule
    <3>2. CASE ScheduleReturns(u)
      BY <1>0, <3>2, FlagsKept, AwakeStill, Zenon DEF ScheduleReturns
    <3> QED BY <1>13, <3>1, <3>2, Zenon DEF LockSchedule
  <2>4. u \in Elems(queue')
    BY <1>0, <2>1, Zenon DEF Sleepers
  <2>5. NoStrandedWaiter'
    BY <2>1, Zenon DEF NoStrandedWaiter
  <2>6. "lock_or" \notin {"wait", "wait_test", "wait_again"} /\ "lock_or" \notin {"lock", "lock_test"}
    OBVIOUS
  <2> QED BY <1>0, <2>1, <2>2, <2>3, <2>4, <2>5, <2>6, Mine, Zenon
<1>14. ASSUME NEW u \in Threads, LockRetry(u) PROVE Sleepers'
  <2>1. Goto(u, "lock") /\ Active(u) /\ UNCHANGED <<vars, queue>> /\ "lock" \in Labels /\ bit'
    BY <1>14, Zenon DEF LockRetry, Labels
  <2>2. kthreads' = kthreads /\ frames' = frames /\ queue' = queue
    BY <2>1, Zenon DEF vars
  <2>3. Active(u)' /\ Awake' /\ kthreads'[u].activated
    BY <1>0, <2>1, <2>2, AwakeStill, RunningTop, Zenon DEF Active, OnTop, Awake
  <2>4. NoStrandedWaiter'
    BY <2>1, Zenon DEF NoStrandedWaiter
  <2>5. "lock" \notin {"wait", "wait_test", "wait_again"} /\ "lock" # "lock_test"
    OBVIOUS
  <2> QED BY <1>0, <2>1, <2>2, <2>3, <2>4, <2>5, Mine, Zenon
<1>15. ASSUME NEW u \in Threads, LockTake(u) PROVE Sleepers'
  <2>1. /\ FinishWait(u) /\ Active(u) /\ frames' = frames /\ Goto(u, "holder") /\ "holder" \in Labels
        /\ bit' /\ queue' = Without(u)
    BY <1>15, Zenon DEF LockTake, FinishWait, Labels
  <2>2. \A t \in Threads : kthreads'[t].activated = kthreads[t].activated
    BY <1>0, <2>1, FlagsKept, Zenon
  <2>3. Awake'
    BY <1>0, <2>1, <2>2, AwakeStill, Zenon
  <2>4. Elems(queue') = Elems(queue) \ {u}
    BY <1>0, <2>1, QueueWithout, Zenon
  <2>5. \A t \in Elems(queue) : t # u => t \in Elems(queue')
    BY <2>4
  <2>6. NoStrandedWaiter'
    BY <2>1, Zenon DEF NoStrandedWaiter
  <2>7. /\ "holder" \notin {"wait", "wait_test", "wait_again"} /\ "holder" # "lock_test"
        /\ "holder" \notin {"lock", "lock_test"} /\ "holder" \notin {"lock", "lock_or"}
    OBVIOUS
  <2> QED BY <1>0, <2>1, <2>2, <2>3, <2>5, <2>6, <2>7, Mine, Zenon
<1>16. ASSUME NEW u \in Threads, Unlock(u) PROVE Sleepers'
  <2>1. Active(u) /\ pc[u] = "holder" /\ Goto(u, "yield") /\ WakeUpBit /\ "yield" \in Labels
    BY <1>16, Zenon DEF Unlock, Labels
  <2>2. pc'[u] = "yield" /\ \A t \in Threads : t # u => pc'[t] = pc[t]
    BY <2>1, Moved, Zenon
  <2>3. ~Waiting(u) /\ ~Waiting(u)'
    BY <2>1, <2>2 DEF Waiting
  <2>4. \A t \in Threads : Waiting(t)' <=> Waiting(t)
    BY <2>2, <2>3, Zenon DEF Waiting
  <2>5. /\ NoStrandedWaiter' /\ Awake'
        /\ \A t \in Threads : kthreads[t].activated => kthreads'[t].activated
        /\ \A t \in Threads : t \in Elems(queue) /\ ~kthreads'[t].activated
                                => t \in Elems(queue')
    BY <1>0, <2>1, <2>4, WokenLooks, Zenon
  <2>6. /\ "yield" \notin {"wait", "wait_test", "wait_again"} /\ "yield" # "lock_test"
        /\ "yield" \notin {"lock", "lock_test"} /\ "yield" \notin {"lock", "lock_or"}
    OBVIOUS
  <2> QED BY <1>0, <2>1, <2>5, <2>6, Mine, Zenon
<1>17. ASSUME NEW u \in Threads, UnlockYield(u) PROVE Sleepers'
  <2>1. /\ Yield(u) /\ Active(u) /\ frames' = Pop /\ pc[u] = "yield" /\ Goto(u, "idle")
        /\ "idle" \in Labels /\ bit' = bit /\ queue' = queue
    BY <1>17, Zenon DEF UnlockYield, Yield, Labels
  <2>2. \A t \in Threads : kthreads'[t].activated = kthreads[t].activated
    BY <1>0, <2>1, FlagsKept, Zenon
  <2>3. Awake'
    BY <1>0, <2>1, <2>2, AwakePop, Zenon
  <2>4. pc'[u] = "idle" /\ \A t \in Threads : t # u => pc'[t] = pc[t]
    BY <2>1, Moved, Zenon
  <2>5. ~Waiting(u) /\ ~Waiting(u)'
    BY <2>1, <2>4 DEF Waiting
  <2>6. \A t \in Threads : Waiting(t)' <=> Waiting(t)
    BY <2>4, <2>5, Zenon DEF Waiting
  <2>7. NoStrandedWaiter'
    BY <1>0, <2>1, <2>2, <2>6, Zenon DEF Sleepers, NoStrandedWaiter, Asleep
  <2>8. /\ "idle" \notin {"wait", "wait_test", "wait_again"} /\ "idle" # "lock_test"
        /\ "idle" \notin {"lock", "lock_test"} /\ "idle" \notin {"lock", "lock_or"}
    OBVIOUS
  <2> QED BY <1>0, <2>1, <2>2, <2>3, <2>7, <2>8, Mine, Zenon
<1> QED BY <1>5, <1>6, <1>7, <1>8, <1>9, <1>10, <1>11, <1>12, <1>13, <1>14, <1>15, <1>16, <1>17, Zenon
        DEF WNext

-----------------------------------------------------------------------------
(* linux_sync.c, for any threads, of which some wait for the bit and some   *)
(* take it, any bound on nested dispatches and any traffic of other keys on *)
(* the queue: one holder at most; a wait entry is on the queue once, and    *)
(* only while its waiter's frame exists; and when all threads take the bit, *)
(* a clear bit never leaves them all asleep.                                *)
THEOREM LocksKept ==
  ASSUME Program \subseteq {"wait", "lock"}
  PROVE  WSpec => []LocksSafe
<1>1. WInit => BInv
  <2> SUFFICES ASSUME WInit PROVE BInv
    OBVIOUS
  <2>1. KInv /\ bit = FALSE /\ queue = <<>> /\ pc = [t \in Threads |-> "idle"] /\ frames = <<>>
    BY InitKInv, Zenon DEF WInit, Init
  <2>2. /\ queue \in Seq(Threads) /\ Once(queue) /\ Elems(queue) = {} /\ pc \in [Threads -> Labels]
        /\ \A t \in Threads : pc[t] = "idle"
    BY <2>1 DEF Once, Elems, Labels
  <2>3. \A t \in Threads : pc[t] # "holder" /\ ~Waiting(t) /\ ~Asleep(t)
                           /\ pc[t] \notin {"wait", "wait_test", "wait_again"}
                           /\ pc[t] \notin {"lock", "lock_test"}
    BY <2>2 DEF Waiting, Asleep
  <2>4. \A t \in Threads : ~In(frames, t)
    BY <2>1 DEF In
  <2>5. OneHolder
    BY <2>3, Zenon DEF OneHolder
  <2>6. Sleepers
    BY <2>3, <2>4 DEF Sleepers, NoStrandedWaiter
  <2>7. bit \in BOOLEAN
    BY <2>1, Zenon
  <2>8. \A t \in Elems(queue) : Waiting(t)
    BY <2>2, Zenon
  <2> QED BY <2>1, <2>2, <2>5, <2>6, <2>7, <2>8, Zenon DEF BInv
<1>2. BInv /\ [WNext]_allvars => BInv'
  <2> SUFFICES ASSUME BInv, [WNext]_allvars PROVE BInv'
    OBVIOUS
  <2>1. CASE WNext
    <3>1. KInv' /\ BitOK' /\ (Program \subseteq {"lock"} => Sleepers')
      BY <2>1, ThreadSide, BitSide, SleepSide, Zenon
    <3> QED BY <3>1, Zenon DEF BInv, BitOK
  <2>2. CASE UNCHANGED allvars
    <3>1. UNCHANGED vars /\ UNCHANGED <<bit, queue, pc>>
      BY <2>2, Zenon DEF allvars, wvars
    <3>2. KInv'
      BY <3>1, NextKInv, Zenon DEF BInv
    <3>3. BitOK'
      BY <3>1, Zenon DEF BInv, BitOK, OneHolder, Waiting
    <3>4. kthreads' = kthreads /\ frames' = frames
      BY <3>1, Zenon DEF vars
    <3>5. Sleepers => Sleepers'
      BY <3>1, <3>4, Zenon DEF Sleepers, NoStrandedWaiter, Asleep, Waiting, Active, OnTop
    <3> QED BY <3>2, <3>3, <3>5, Zenon DEF BInv, BitOK
  <2> QED BY <2>1, <2>2, Zenon
<1>3. BInv => LocksSafe
  <2> SUFFICES ASSUME BInv PROVE LocksSafe
    OBVIOUS
  <2>1. EntriesAlive
    BY Zenon DEF BInv, EntriesAlive, Once, Elems
  <2> QED BY <2>1, Zenon DEF BInv, LocksSafe, Sleepers
<1> QED BY <1>1, <1>2, <1>3, PTL DEF WSpec
=============================================================================
