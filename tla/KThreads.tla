------------------------------- MODULE KThreads -------------------------------
(***************************************************************************)
(* Kernel threads of src/linux_personality/linux_stubs.c: contexts that run *)
(* on one processor, one inside the other.  A thread is dispatched by the   *)
(* code below it (the main program, kb_kthread_stop, or a work callback     *)
(* that runs under another task) and gives the processor back to it when it *)
(* yields, sleeps or ends.                                                  *)
(***************************************************************************)
EXTENDS Naturals, Sequences, FiniteSets

CONSTANTS
  Threads,      \* kthread records that can be created
  DirectState,  \* does driver code write task_struct::__state itself?
  StopRounds,   \* rounds of the loop in kb_kthread_stop (1024)
  MaxFrames     \* bound: nesting of dispatches and stop calls

VARIABLES
  kthreads, \* the records: kthread_records with their flags
  state,    \* threads whose __state is not TASK_RUNNING
  resume,   \* threads that will resume behind the yield in kb_schedule
  frames,   \* dispatch frames and kb_kthread_stop calls, innermost last
  woken     \* threads woken since they prepared to sleep (history)

vars == <<kthreads, state, resume, frames, woken>>

-----------------------------------------------------------------------------
Flags == [created : BOOLEAN, activated : BOOLEAN, wait_prepared : BOOLEAN,
          wake_pending : BOOLEAN, finished : BOOLEAN, stop_requested : BOOLEAN]
(* A frame: a dispatched thread, which may be inside a work callback that   *)
(* has its own task (foreign), or a stop call with the rounds it has done.  *)
Frame == [stop : BOOLEAN, thread : Threads, foreign : BOOLEAN, n : 0..StopRounds]

ThreadFrame(t) == [stop |-> FALSE, thread |-> t, foreign |-> FALSE, n |-> 0]
StopFrame(t) == [stop |-> TRUE, thread |-> t, foreign |-> FALSE, n |-> 0]

OnTop(P(_)) == frames # <<>> /\ P(frames[Len(frames)])
Pop == SubSeq(frames, 1, Len(frames) - 1)

(* active_kthread is t and the current task is its task. *)
Active(t) == OnTop(LAMBDA f : ~f.stop /\ ~f.foreign /\ f.thread = t)
(* Code that does not run as a kthread: it dispatches instead of yielding.  *)
Outside == frames = <<>> \/ OnTop(LAMBDA f : f.foreign)
Running == Outside \/ \E t \in Threads : Active(t)
Dispatched(t) == \E i \in DOMAIN frames : ~frames[i].stop /\ frames[i].thread = t

Init ==
  /\ kthreads = [t \in Threads |->
       [created |-> FALSE, activated |-> FALSE, wait_prepared |-> FALSE,
        wake_pending |-> FALSE, finished |-> FALSE, stop_requested |-> FALSE]]
  /\ state = {} /\ resume = {} /\ frames = <<>> /\ woken = {}

(* kb_kthread_create_on_node *)
Create(t) ==
  /\ Running /\ ~kthreads[t].created
  /\ kthreads' = [kthreads EXCEPT ![t].created = TRUE]
  /\ UNCHANGED <<state, resume, frames, woken>>

(* kb_wake_up_process *)
WakeUpProcess(t) ==
  /\ Running /\ kthreads[t].created
  /\ kthreads' = [kthreads EXCEPT ![t].activated = TRUE,
                                  ![t].wake_pending = @ \/ kthreads[t].wait_prepared]
  /\ woken' = woken \union {t}
  /\ UNCHANGED <<state, resume, frames>>

-----------------------------------------------------------------------------
(* The thread on top of the frames. *)

(* kb_kthread_prepare_wait, from prepare_to_wait and its variants *)
PrepareWait(t) ==
  /\ Active(t)
  /\ kthreads' = [kthreads EXCEPT ![t].wait_prepared = TRUE, ![t].wake_pending = FALSE]
  /\ woken' = woken \ {t}
  /\ UNCHANGED <<state, resume, frames>>

(* kb_kthread_finish_wait *)
FinishWait(t) ==
  /\ Active(t)
  /\ kthreads' = [kthreads EXCEPT ![t].wait_prepared = FALSE, ![t].wake_pending = FALSE]
  /\ woken' = woken \ {t}
  /\ UNCHANGED <<state, resume, frames>>

(* Driver code writes __state: it goes to sleep, or it is running again. *)
SetState(t) ==
  /\ Active(t) /\ DirectState
  /\ state' = IF t \in state THEN state \ {t} ELSE state \union {t}
  /\ woken' = woken \ {t}
  /\ UNCHANGED <<kthreads, resume, frames>>

(* kb_kthread_yield_current, from kb_mutex_lock, kb_wake_up_bit,            *)
(* kb_schedule_timeout, kb_run_deferred_work and the other waits.           *)
Yield(t) ==
  /\ Active(t)
  /\ frames' = Pop
  /\ UNCHANGED <<kthreads, state, resume, woken>>

Sleepy(t) == kthreads[t].wait_prepared \/ t \in state

(* kb_schedule, the wake came first: it returns at once. *)
ScheduleReturns(t) ==
  /\ Active(t) /\ Sleepy(t) /\ kthreads[t].wake_pending
  /\ kthreads' = [kthreads EXCEPT ![t].wait_prepared = FALSE, ![t].wake_pending = FALSE]
  /\ woken' = woken \ {t}
  /\ UNCHANGED <<state, resume, frames>>

(* Mutated form of Schedule: wake_pending is not looked at. *)
ScheduleBlind(t) ==
  /\ Active(t)
  /\ kthreads' = IF Sleepy(t) THEN [kthreads EXCEPT ![t].activated = FALSE] ELSE kthreads
  /\ resume' = resume \union {t}
  /\ frames' = Pop
  /\ UNCHANGED <<state, woken>>

(* kb_schedule, the thread sleeps or lets the others run. *)
Schedule(t) ==
  /\ Active(t) /\ ~(Sleepy(t) /\ kthreads[t].wake_pending)
  /\ kthreads' = IF Sleepy(t) THEN [kthreads EXCEPT ![t].activated = FALSE] ELSE kthreads
  /\ resume' = resume \union {t}
  /\ frames' = Pop
  /\ UNCHANGED <<state, woken>>

(* kb_kthread_finish_active: the thread function returns. *)
Finish(t) ==
  /\ Active(t)
  /\ kthreads' = [kthreads EXCEPT ![t].finished = TRUE, ![t].activated = FALSE]
  /\ frames' = Pop
  /\ UNCHANGED <<state, resume, woken>>

(* A work callback begins or ends on the thread's stack under a worker task. *)
SwitchTask(t) ==
  /\ OnTop(LAMBDA f : ~f.stop /\ f.thread = t)
  /\ frames' = [frames EXCEPT ![Len(frames)].foreign = ~@]
  /\ UNCHANGED <<kthreads, state, resume, woken>>

-----------------------------------------------------------------------------

(* kb_kthread_run_one runs t unless it is asleep, finished or has a frame.  *)
CanRun(t) ==
  /\ kthreads[t].created /\ kthreads[t].activated /\ ~kthreads[t].finished
  /\ ~Dispatched(t)

(* kb_kthread_run_one, on top of frames fs: the thread starts, resumes in   *)
(* kb_schedule (which clears the wait flags) or behind another yield; or    *)
(* its GS base cannot be entered and it ends.                               *)
RunOne(t, fs, gs_failed) ==
  /\ CanRun(t)
  /\ IF ~gs_failed
     THEN /\ frames' = Append(fs, ThreadFrame(t))
          /\ kthreads' = IF t \in resume
                         THEN [kthreads EXCEPT ![t].wait_prepared = FALSE,
                                               ![t].wake_pending = FALSE]
                         ELSE kthreads
          /\ resume' = resume \ {t}
          /\ woken' = IF t \in resume THEN woken \ {t} ELSE woken
     ELSE /\ frames' = fs
          /\ kthreads' = [kthreads EXCEPT ![t].finished = TRUE, ![t].activated = FALSE]
          /\ UNCHANGED <<resume, woken>>
  /\ UNCHANGED state

(* kb_kthread_run_ready, one thread of its walk. *)
RunReady(t, gs_failed) ==
  /\ Outside /\ Len(frames) < MaxFrames
  /\ RunOne(t, frames, gs_failed)

(* kb_kthread_stop *)
Stop(t) ==
  /\ Running /\ kthreads[t].created /\ Len(frames) + 1 < MaxFrames
  /\ kthreads' = [kthreads EXCEPT ![t].stop_requested = TRUE, ![t].activated = TRUE]
  /\ frames' = Append(frames, StopFrame(t))
  /\ UNCHANGED <<state, resume, woken>>

(* kb_kthread_stop, one round of its loop *)
StopRound(gs_failed) ==
  \E t \in Threads :
    /\ OnTop(LAMBDA f : f.stop /\ f.thread = t /\ f.n < StopRounds)
    /\ RunOne(t, [frames EXCEPT ![Len(frames)].n = @ + 1], gs_failed)

(* kb_kthread_stop returns: the thread ended, or the rounds are over (those *)
(* that do not run the thread change nothing).                              *)
StopReturn ==
  /\ OnTop(LAMBDA f : f.stop /\ (f.n = StopRounds \/ ~CanRun(f.thread)))
  /\ frames' = Pop
  /\ UNCHANGED <<kthreads, state, resume, woken>>

ThreadStep(t) ==
  \/ PrepareWait(t) \/ FinishWait(t) \/ SetState(t) \/ Yield(t)
  \/ ScheduleReturns(t) \/ Schedule(t) \/ Finish(t) \/ SwitchTask(t)

Next ==
  \/ \E t \in Threads : Create(t) \/ WakeUpProcess(t) \/ Stop(t) \/ ThreadStep(t)
  \/ \E t \in Threads, gs_failed \in BOOLEAN : RunReady(t, gs_failed)
  \/ \E gs_failed \in BOOLEAN : StopRound(gs_failed)
  \/ StopReturn

Spec == Init /\ [][Next]_vars

(* Every wait of the main program dispatches the ready threads; stop calls  *)
(* and work callbacks end; and a thread that runs gives the processor back. *)
Leave(t) == Yield(t) \/ Schedule(t) \/ Finish(t)
Fairness ==
  /\ \A t \in Threads : SF_vars(frames = <<>> /\ RunReady(t, FALSE))
  /\ SF_vars(\E t \in Threads : Leave(t))
  /\ SF_vars(OnTop(LAMBDA f : f.foreign) /\ \E t \in Threads : SwitchTask(t))
  /\ WF_vars(StopRound(FALSE)) /\ WF_vars(StopReturn)
FairSpec == Spec /\ Fairness

-----------------------------------------------------------------------------
TypeOK ==
  /\ kthreads \in [Threads -> Flags]
  /\ state \subseteq Threads /\ resume \subseteq Threads /\ woken \subseteq Threads
  /\ frames \in Seq(Frame) /\ Len(frames) <= MaxFrames

(* A thread has one context: it is never resumed while it, or code it       *)
(* called, is still running below on the stack.                             *)
OneContext ==
  \A i, j \in DOMAIN frames :
    ~frames[i].stop /\ ~frames[j].stop /\ frames[i].thread = frames[j].thread => i = j

(* A thread that has ended is never resumed, even by a late wake or stop.   *)
EndedStaysEnded ==
  \A t \in Threads : kthreads[t].finished => ~Dispatched(t)

(* A wake delivered between preparing to sleep and kb_schedule is not lost  *)
(* (linux_stubs.c:1666): a thread that sleeps has not been woken since it   *)
(* prepared to.                                                             *)
NoLostWake ==
  \A t \in Threads :
    t \in woken /\ ~kthreads[t].finished => kthreads[t].activated

(* What a kernel thread is promised; the wakes are its own to lose when the *)
(* driver writes __state.                                                   *)
ThreadsSafe == OneContext /\ EndedStaysEnded /\ (~DirectState => NoLostWake)
=============================================================================
