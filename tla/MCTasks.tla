------------------------------- MODULE MCTasks -------------------------------
(***************************************************************************)
(* Deferred work, kernel threads, bit waits, semaphores and RCU for TLC.    *)
(* The models share no variable, so a behaviour exercises one of them,      *)
(* named by part, and leaves the others in their initial states; the run    *)
(* explores the sum of the state spaces, not their product.                 *)
(***************************************************************************)
EXTENDS Rcu

CONSTANTS w1, w2, q1, NoQueue, t1, t2, t3

VARIABLES
  part,
  deferred, deferred_sequence, pending, sched, usable, workqueues, destroying,
  life, active, poisoned, depth, stack, now,
  kthreads, state, resume, frames, woken, bit, queue, pc,
  readers, writer, waiters, at

workVars == <<deferred, deferred_sequence, pending, sched, usable, workqueues,
              destroying, life, active, poisoned, depth, stack, now>>
threadVars == <<kthreads, state, resume, frames, woken>>
bitVars == <<bit, queue, pc>>
semVars == <<readers, writer, waiters, at>>

(* Two work items and a workqueue; and one object of each kind, with delays. *)
Work == INSTANCE DeferredWork WITH
  Works <- {w1, w2}, Tasklets <- {}, Timers <- {}, Queues <- {q1},
  Faults <- {"poison"}, NestedWqOps <- FALSE, DrainLimit <- 2, MaxDepth <- 2,
  MaxCtx <- 2, MaxSeq <- 3, MaxNow <- 0
Timer == INSTANCE DeferredWork WITH
  Works <- {w1}, Tasklets <- {"tasklet"}, Timers <- {"timer"}, Queues <- {},
  Faults <- {"retry", "quiet"}, NestedWqOps <- FALSE, DrainLimit <- 2,
  MaxDepth <- 2, MaxCtx <- 2, MaxSeq <- 3, MaxNow <- 1

(* Drivers that sleep through the wait calls; and that write __state too. *)
Thread == INSTANCE KThreads WITH
  Threads <- {t1, t2}, DirectState <- FALSE, StopRounds <- 2, MaxFrames <- 4
Raw == INSTANCE KThreads WITH
  Threads <- {t1, t2}, DirectState <- TRUE, StopRounds <- 2, MaxFrames <- 3
(* Three threads that wait for the bit and take it; and three that take it. *)
Bits == INSTANCE WaitBits WITH
  Threads <- {t1, t2, t3}, DirectState <- FALSE, StopRounds <- 1, MaxFrames <- 3,
  Program <- {"wait", "lock"}, Others <- TRUE
Lock == INSTANCE WaitBits WITH
  Threads <- {t1, t2, t3}, DirectState <- FALSE, StopRounds <- 1, MaxFrames <- 3,
  Program <- {"lock"}, Others <- TRUE

Sem == INSTANCE RwSem WITH Threads <- {t1, t2, t3}

MCInit ==
  /\ part \in {"work", "timer", "thread", "raw", "bits", "lock", "rcu", "sem"}
  /\ IF part = "timer" THEN Timer!Init ELSE Work!Init
  /\ IF part \in {"bits", "lock"}
     THEN Bits!WInit
     ELSE Thread!Init /\ bit = FALSE /\ queue = <<>> /\ pc = [t \in {t1, t2} |-> "idle"]
  /\ Init /\ Sem!Init

MCNext ==
  /\ part' = part
  /\ \/ /\ \/ part = "work" /\ Work!Next
           \/ part = "timer" /\ Timer!Next
        /\ UNCHANGED <<threadVars, bitVars, vars, semVars>>
     \/ /\ \/ part = "thread" /\ Thread!Next /\ UNCHANGED bitVars
           \/ part = "bits" /\ Bits!WNext
           \/ part = "lock" /\ Lock!WNext
           \/ part = "raw" /\ Raw!Next /\ UNCHANGED bitVars
        /\ UNCHANGED <<workVars, vars, semVars>>
     \/ /\ part = "rcu" /\ Next
        /\ UNCHANGED <<workVars, threadVars, bitVars, semVars>>
     \/ /\ part = "sem" /\ Sem!Next
        /\ UNCHANGED <<workVars, threadVars, bitVars, vars>>

allVars == <<part, workVars, threadVars, bitVars, vars, semVars>>
MCSpec == MCInit /\ [][MCNext]_allVars

-----------------------------------------------------------------------------
(* The types of all variables. *)
AllTypes ==
  /\ IF part = "timer" THEN Timer!TypeOK ELSE Work!TypeOK
  /\ IF part \in {"bits", "lock"} THEN Bits!TypeOK ELSE Thread!TypeOK
  /\ TypeOK /\ Sem!TypeOK

(* DeferredWork: an object is queued once, a pending bit stands for a queued *)
(* item and a queued tasklet is marked; no callback is re-entered; a         *)
(* destroyed workqueue has no work left; and a flush is bounded.             *)
WorkSafe == IF part = "timer" THEN Timer!WorkSafe ELSE Work!WorkSafe

(* KThreads: a thread has one context, one that ended is not resumed, and no *)
(* wake between preparing to sleep and sleeping is lost unless the driver    *)
(* writes its state itself.                                                  *)
ThreadsSafe ==
  /\ part = "thread" => Thread!ThreadsSafe
  /\ part = "raw" => Raw!ThreadsSafe

(* WaitBits: the bit excludes, wait entries do not outlive the frames they   *)
(* are in, and among threads that take the bit none is left asleep.  RwSem:  *)
(* a writer excludes readers and writers, and readers are kept out only for  *)
(* a writer that is still trying.                                            *)
LocksSafe ==
  /\ part = "bits" => Bits!LocksSafe
  /\ part = "lock" => Lock!LocksSafe
  /\ Sem!LocksSafe
=============================================================================
