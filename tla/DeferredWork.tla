----------------------------- MODULE DeferredWork -----------------------------
(***************************************************************************)
(* The deferred-work engine of src/linux_personality/linux_work.c: one list *)
(* of work items, tasklets and timers, drained by a loop that callbacks may *)
(* re-enter, and the workqueues work is queued on.                          *)
(*                                                                         *)
(* The process has one thread.  What interleaves are the calls of driver    *)
(* code, made from the main program (empty stack) or from inside a          *)
(* callback, with the loops below them on the call stack.  stack holds one  *)
(* frame for each loop, destroy call and callback in progress.              *)
(***************************************************************************)
EXTENDS Integers, Sequences, FiniteSets

CONSTANTS
  Works, Tasklets, Timers,  \* work_struct, tasklet_struct and timer_list objects
  Queues,        \* workqueue records that can be allocated
  NoQueue,       \* a NULL workqueue pointer
  Faults,        \* subset of {"retry", "quiet", "poison"}: outcomes of run_work
  NestedWqOps,   \* may a callback under kb_destroy_workqueue alloc or destroy?
  DrainLimit,    \* KB_DEFERRED_DRAIN_LIMIT
  MaxDepth,      \* KB_DEFERRED_MAX_DRAIN_DEPTH
  MaxCtx,        \* KB_WORK_CONTEXT_MAX_DEPTH
  MaxSeq,        \* bound: items ever queued
  MaxNow         \* bound: the clock

VARIABLES
  deferred,          \* deferred_head .. deferred_tail
  deferred_sequence, \* sequence of the last item queued
  pending,           \* work with KB_WORK_STRUCT_PENDING_BIT
  sched,             \* tasklets with KB_TASKLET_STATE_SCHED
  usable,            \* work whose function work_function_usable accepts
  workqueues,        \* the list of records, head first
  destroying,        \* records with destroying set
  life,              \* what driver code knows of each workqueue
  active,            \* active_work_stack
  poisoned,          \* worker_task_poisoned
  depth,             \* draining_deferred_depth
  stack,             \* loops, destroy calls and callbacks in progress
  now                \* elapsed_ns

lists == <<deferred, deferred_sequence, pending, sched>>
queues == <<workqueues, destroying, life>>
running == <<active, poisoned, depth, stack>>
vars == <<lists, queues, running, usable, now>>

-----------------------------------------------------------------------------
Kinds == {"work", "tasklet", "timer"}
Objects == Works \union Tasklets \union Timers
Item == [kind : Kinds, object : Objects, wq : Queues \union {NoQueue},
         seq : Nat, due : Nat]

(* A frame: a callback, or a loop with the number n of items it has run.    *)
(* all is include_work of a drain; a flush has its workqueue, its sequence  *)
(* boundary and how many items were queued when it began; a destroy has     *)
(* the record before its own, the one its cursor points into.               *)
Frame == [t : Kinds \union {"drain", "flush", "destroy"}, all : BOOLEAN,
          wq : Queues \union {NoQueue}, cursor : Queues \union {NoQueue},
          through : Nat, n : Nat, quota : Nat]
CallFrame(t) == [t |-> t, all |-> FALSE, wq |-> NoQueue, cursor |-> NoQueue,
                 through |-> 0, n |-> 0, quota |-> 0]

RemoveAt(s, i) ==
  [j \in 1..(Len(s) - 1) |-> IF j < i THEN s[j] ELSE s[j + 1]]
Prepend(e, s) == [j \in 1..(Len(s) + 1) |-> IF j = 1 THEN e ELSE s[j - 1]]
Pop(s) == SubSeq(s, 1, Len(s) - 1)
First(I) == CHOOSE i \in I : \A j \in I : i <= j
Elements(s) == {s[i] : i \in DOMAIN s}

(* find_deferred *)
Where(d, kind, object) ==
  {i \in DOMAIN d : d[i].kind = kind /\ d[i].object = object}
(* deferred_contains *)
Queued(d, kind, object) == Where(d, kind, object) # {}
(* remove_deferred: an object is on the list once at most (UniqueQueued),   *)
(* so the walk that removes every match removes the first one.              *)
Without(d, kind, object) ==
  IF Queued(d, kind, object) THEN RemoveAt(d, First(Where(d, kind, object)))
                             ELSE d
(* Mutated form of WorkIsActive: the search stops short of the top entry. *)
WorkIsActiveShort(w) == \E i \in DOMAIN active : i < Len(active) /\ active[i] = w
WorkIsActive(w) == \E i \in DOMAIN active : active[i] = w

Top == stack[Len(stack)]
(* Driver code has the processor: the main program or a callback. *)
Running == \A i \in DOMAIN stack : i = Len(stack) => stack[i].t \in Kinds
(* Driver code queues on no workqueue (NULL), or on one whose destroy call  *)
(* has not returned.                                                        *)
Open(wq) == wq # NoQueue => life[wq] \in {"open", "closing"}
InDestroy == \E i \in DOMAIN stack : stack[i].t = "destroy"

Init ==
  /\ deferred = <<>> /\ deferred_sequence = 0
  /\ pending = {} /\ sched = {} /\ usable = Works
  /\ workqueues = <<>> /\ destroying = {} /\ life = [q \in Queues |-> "new"]
  /\ active = <<>> /\ poisoned = [c \in 1..MaxCtx |-> FALSE]
  /\ depth = 0 /\ stack = <<>> /\ now = 0

-----------------------------------------------------------------------------
(* queue_deferred into list d: a duplicate is refused, and so is an item    *)
(* that cannot be allocated (~ok).                                          *)
Accepted(d, kind, object, ok) == ~Queued(d, kind, object) /\ ok
QueueDeferred(d, kind, object, wq, due, ok) ==
  IF Accepted(d, kind, object, ok)
  THEN /\ deferred' = Append(d, [kind |-> kind, object |-> object, wq |-> wq,
                                 seq |-> deferred_sequence + 1, due |-> due])
       /\ deferred_sequence' = deferred_sequence + 1
  ELSE /\ deferred' = d
       /\ UNCHANGED deferred_sequence

(* kb_queue_work_on and kb_queue_delayed_work_on, entered with list d and   *)
(* pending bits p.                                                          *)
QueueOn(d, p, wq, w, due, ok) ==
  /\ Open(wq)
  /\ IF wq \in destroying
     THEN deferred' = d /\ pending' = p /\ UNCHANGED deferred_sequence
     ELSE IF w \notin usable
     THEN deferred' = d /\ pending' = p \ {w} /\ UNCHANGED deferred_sequence
     ELSE IF w \in p /\ Queued(d, "work", w)
     THEN deferred' = d /\ pending' = p /\ UNCHANGED deferred_sequence
     ELSE /\ QueueDeferred(d, "work", w, wq, due, ok)
          /\ pending' = IF Accepted(d, "work", w, ok) THEN p \union {w} ELSE p \ {w}

(* kb_queue_work_on, kb_kblockd_schedule_work *)
QueueWork(wq, w, ok) ==
  /\ Running /\ deferred_sequence < MaxSeq
  /\ QueueOn(deferred, pending, wq, w, 0, ok)
  /\ UNCHANGED <<sched, queues, running, usable, now>>

(* kb_queue_delayed_work_on *)
DueAfter(delay) == IF delay = 0 THEN 0 ELSE now + delay
QueueDelayedWork(wq, w, delay, ok) ==
  /\ Running /\ deferred_sequence < MaxSeq
  /\ QueueOn(deferred, pending, wq, w, DueAfter(delay), ok)
  /\ UNCHANGED <<sched, queues, running, usable, now>>

(* kb_mod_delayed_work_on: remove, clear the bit, queue again. *)
ModDelayedWork(wq, w, delay, ok) ==
  /\ Running /\ deferred_sequence < MaxSeq
  /\ QueueOn(Without(deferred, "work", w), pending \ {w}, wq, w, DueAfter(delay), ok)
  /\ UNCHANGED <<sched, queues, running, usable, now>>

(* kb_cancel_work_sync, kb_cancel_delayed_work, kb_cancel_delayed_work_sync *)
CancelWork(w) ==
  /\ Running
  /\ deferred' = Without(deferred, "work", w)
  /\ pending' = pending \ {w}
  /\ UNCHANGED <<deferred_sequence, sched, queues, running, usable, now>>

(* kb_tasklet_schedule: the bit is set even if the item is not queued. *)
TaskletSchedule(k, ok) ==
  /\ Running /\ deferred_sequence < MaxSeq
  /\ sched' = sched \union {k}
  /\ QueueDeferred(deferred, "tasklet", k, NoQueue, 0, ok)
  /\ UNCHANGED <<pending, queues, running, usable, now>>

(* kb_mod_timer: a queued timer keeps its place and gets a new time. *)
ModTimer(m, expires, ok) ==
  /\ Running /\ deferred_sequence < MaxSeq
  /\ IF Queued(deferred, "timer", m)
     THEN /\ deferred' = [deferred EXCEPT
                 ![First(Where(deferred, "timer", m))].due = expires]
          /\ UNCHANGED deferred_sequence
     ELSE QueueDeferred(deferred, "timer", m, NoQueue, expires, ok)
  /\ UNCHANGED <<pending, sched, queues, running, usable, now>>

(* kb_add_timer *)
AddTimer(m, expires, ok) ==
  /\ Running /\ deferred_sequence < MaxSeq
  /\ QueueDeferred(deferred, "timer", m, NoQueue, expires, ok)
  /\ UNCHANGED <<pending, sched, queues, running, usable, now>>

(* kb_timer_delete *)
TimerDelete(m) ==
  /\ Running
  /\ deferred' = Without(deferred, "timer", m)
  /\ UNCHANGED <<deferred_sequence, pending, sched, queues, running, usable, now>>

-----------------------------------------------------------------------------
(* run_work's early returns: an unusable function is skipped; work that is  *)
(* active, too deep or in a poisoned context is to be retried.  Faults adds *)
(* what the environment decides: no task or no GS ("retry"), a function run *)
(* by other means ("quiet"), a task left dirty ("poison").                  *)
Outcomes(w) ==
  IF w \notin usable THEN {"quiet"}
  ELSE IF WorkIsActive(w) \/ Len(active) >= MaxCtx THEN {"retry"}
  ELSE IF poisoned[Len(active) + 1] THEN {"retry"}
  ELSE {"run"} \union Faults

(* run_work on the item at place i of the list, taken off it by a caller    *)
(* whose frames become below (broken, if the work is to be retried: the     *)
(* item goes back to the head of the list and the loop ends).               *)
RunWork(i, out, below, broken) ==
  LET item == deferred[i]
      w == item.object
      rest == RemoveAt(deferred, i)
  IN  /\ out \in Outcomes(w)
      /\ \/ /\ out \in {"retry", "poison"}
            /\ deferred' = Prepend(item, rest)
            /\ poisoned' = IF out = "poison"
                           THEN [poisoned EXCEPT ![Len(active) + 1] = TRUE]
                           ELSE poisoned
            /\ stack' = broken
            /\ UNCHANGED <<pending, active>>
         \/ /\ out = "quiet"
            /\ deferred' = rest
            /\ pending' = pending \ {w}
            /\ stack' = below
            /\ UNCHANGED <<active, poisoned>>
         \/ /\ out = "run"
            /\ deferred' = rest
            /\ pending' = pending \ {w}
            /\ active' = Append(active, w)
            /\ stack' = Append(below, CallFrame("work"))
            /\ UNCHANGED poisoned

(* The loop on top of the stack has taken one more item. *)
Counted == [stack EXCEPT ![Len(stack)].n = @ + 1]
Looping(t) == stack # <<>> /\ Top.t = t
DepthAfter(out) == IF out \in {"retry", "poison"} THEN depth - 1 ELSE depth

(* run_tasklet, run_timer: the callback is called if its address is good. *)
RunCallback(i, called) ==
  /\ deferred' = RemoveAt(deferred, i)
  /\ sched' = IF deferred[i].kind = "tasklet" THEN sched \ {deferred[i].object}
                                              ELSE sched
  /\ stack' = IF called THEN Append(Counted, CallFrame(deferred[i].kind)) ELSE Counted
  /\ UNCHANGED <<pending, active, poisoned, depth>>

(* pop_due_deferred_at *)
Due(all) ==
  {i \in DOMAIN deferred :
     /\ all \/ deferred[i].kind # "work"
     /\ deferred[i].kind # "work" \/ ~WorkIsActive(deferred[i].object)
     /\ deferred[i].due = 0 \/ deferred[i].due <= now}

(* kb_run_deferred_work (include_work) and kb_run_deferred_bottom_halves.   *)
(* An empty list and a loop at the depth limit return at once.              *)
RunDeferred(all) ==
  /\ Running /\ deferred # <<>> /\ depth < MaxDepth
  /\ depth' = depth + 1
  /\ stack' = Append(stack, [CallFrame("drain") EXCEPT !.all = all])
  /\ UNCHANGED <<lists, queues, active, poisoned, usable, now>>

(* run_deferred_items_body, one round of its loop. *)
DrainStep(out, called) ==
  /\ Looping("drain") /\ Top.n < DrainLimit /\ Due(Top.all) # {}
  /\ LET i == First(Due(Top.all))
     IN  IF deferred[i].kind = "work"
         THEN /\ RunWork(i, out, Counted, Pop(stack))
              /\ depth' = DepthAfter(out)
              /\ UNCHANGED sched
         ELSE RunCallback(i, called)
  /\ UNCHANGED <<deferred_sequence, queues, usable, now>>

(* run_deferred_items, the loop is over. *)
DrainEnd ==
  /\ Looping("drain")
  /\ Top.n = DrainLimit \/ Due(Top.all) = {}
  /\ depth' = depth - 1 /\ stack' = Pop(stack)
  /\ UNCHANGED <<lists, queues, active, poisoned, usable, now>>

(* A callback returns; work may leave its execution task dirty. *)
Return(dirty) ==
  /\ stack # <<>> /\ Top.t \in Kinds
  /\ dirty => Top.t = "work" /\ "poison" \in Faults
  /\ stack' = Pop(stack)
  /\ active' = IF Top.t = "work" THEN Pop(active) ELSE active
  /\ poisoned' = IF dirty THEN [poisoned EXCEPT ![Len(active)] = TRUE] ELSE poisoned
  /\ UNCHANGED <<lists, queues, depth, usable, now>>

(* kb_flush_work (require_due) and kb_flush_delayed_work *)
FlushWork(w, require_due, out) ==
  /\ Running /\ ~WorkIsActive(w)
  /\ LET ready == {i \in Where(deferred, "work", w) :
                     require_due => deferred[i].due <= now}
     IN  ready # {} /\ RunWork(First(ready), out, stack, stack)
  /\ UNCHANGED <<deferred_sequence, sched, queues, depth, usable, now>>

-----------------------------------------------------------------------------
OnQueue(wq) == {i \in DOMAIN deferred : deferred[i].kind = "work" /\ deferred[i].wq = wq}

(* kb_alloc_workqueue: the record goes to the head of the list. *)
AllocWorkqueue(wq) ==
  /\ Running /\ (InDestroy => NestedWqOps)
  /\ life[wq] = "new"
  /\ life' = [life EXCEPT ![wq] = "open"]
  /\ workqueues' = Prepend(wq, workqueues)
  /\ UNCHANGED <<lists, destroying, running, usable, now>>

FlushFrame(wq) ==
  [CallFrame("flush") EXCEPT !.wq = wq, !.through = deferred_sequence,
                             !.quota = Cardinality(OnQueue(wq))]

(* kb_flush_workqueue: refused at the depth limit. *)
FlushWorkqueue(wq) ==
  /\ Running /\ Open(wq) /\ depth < MaxDepth
  /\ depth' = depth + 1
  /\ stack' = Append(stack, FlushFrame(wq))
  /\ UNCHANGED <<lists, queues, active, poisoned, usable, now>>

(* pop_workqueue_deferred: the queue's work up to the boundary, due or not. *)
Batch(wq, through) ==
  {i \in OnQueue(wq) :
     ~WorkIsActive(deferred[i].object) /\ deferred[i].seq <= through}

(* kb_flush_workqueue, one round of its loop. *)
FlushStep(out) ==
  /\ Looping("flush") /\ Top.n < DrainLimit
  /\ Batch(Top.wq, Top.through) # {}
  /\ RunWork(First(Batch(Top.wq, Top.through)), out, Counted, Pop(stack))
  /\ depth' = DepthAfter(out)
  /\ UNCHANGED <<deferred_sequence, sched, queues, usable, now>>

(* Mutated form of FlushEnd: a flush that found nothing to run leaves twice. *)
FlushEndTwice ==
  /\ Looping("flush")
  /\ Top.n = DrainLimit \/ Batch(Top.wq, Top.through) = {}
  /\ depth' = (IF Top.n = 0 THEN depth - 2 ELSE depth - 1) /\ stack' = Pop(stack)
  /\ UNCHANGED <<lists, queues, active, poisoned, usable, now>>

(* kb_flush_workqueue, the loop is over. *)
FlushEnd ==
  /\ Looping("flush")
  /\ Top.n = DrainLimit \/ Batch(Top.wq, Top.through) = {}
  /\ depth' = depth - 1 /\ stack' = Pop(stack)
  /\ UNCHANGED <<lists, queues, active, poisoned, usable, now>>

-----------------------------------------------------------------------------
Place(wq) == CHOOSE i \in DOMAIN workqueues : workqueues[i] = wq

(* kb_destroy_workqueue: the link to the record is found and kept, new work *)
(* is refused, and the queue is flushed.  A record that is not on the list  *)
(* is left alone.                                                           *)
DestroyWorkqueue(wq) ==
  /\ Running /\ (InDestroy => NestedWqOps)
  /\ life[wq] = "open"
  /\ IF wq \notin Elements(workqueues)
     THEN /\ life' = [life EXCEPT ![wq] = "gone"]
          /\ UNCHANGED <<destroying, stack, depth>>
     ELSE LET before == IF Place(wq) = 1 THEN NoQueue ELSE workqueues[Place(wq) - 1]
              called == Append(stack, [CallFrame("destroy") EXCEPT !.wq = wq,
                                                                  !.cursor = before])
          IN  /\ life' = [life EXCEPT ![wq] = "closing"]
              /\ destroying' = destroying \union {wq}
              /\ IF depth < MaxDepth
                 THEN stack' = Append(called, FlushFrame(wq)) /\ depth' = depth + 1
                 ELSE stack' = called /\ UNCHANGED depth
  /\ UNCHANGED <<lists, workqueues, active, poisoned, usable, now>>

(* Unlinking record wq through the link kept in its cursor: the list head,  *)
(* or the next field of the record before it (a write that goes nowhere if  *)
(* that record is off the list).                                            *)
Unlinked(wq, cursor) ==
  LET after == IF wq \in Elements(workqueues)
               THEN SubSeq(workqueues, Place(wq) + 1, Len(workqueues)) ELSE <<>>
  IN  IF cursor = NoQueue THEN after
      ELSE IF cursor \in Elements(workqueues)
      THEN SubSeq(workqueues, 1, Place(cursor)) \o after
      ELSE workqueues

(* kb_destroy_workqueue after the flush: a queue with work left is kept and *)
(* opened again, else its record is unlinked and freed.                     *)
DestroyFinish ==
  /\ Looping("destroy")
  /\ destroying' = destroying \ {Top.wq}
  /\ IF OnQueue(Top.wq) # {}
     THEN /\ life' = [life EXCEPT ![Top.wq] = "kept"]
          /\ UNCHANGED workqueues
     ELSE /\ life' = [life EXCEPT ![Top.wq] = "gone"]
          /\ workqueues' = Unlinked(Top.wq, Top.cursor)
  /\ stack' = Pop(stack)
  /\ UNCHANGED <<lists, active, poisoned, depth, usable, now>>

(* The module that holds a work function unloads, or the function is reset. *)
LoseFunction(w) ==
  /\ Running /\ w \in usable
  /\ usable' = usable \ {w}
  /\ UNCHANGED <<lists, queues, running, now>>

Tick ==
  /\ now < MaxNow /\ now' = now + 1
  /\ UNCHANGED <<lists, queues, running, usable>>

-----------------------------------------------------------------------------
Anything == {"run", "retry", "quiet", "poison"}

DriverCall ==
  \/ \E w \in Works, wq \in Queues \union {NoQueue}, ok \in BOOLEAN :
       \/ QueueWork(wq, w, ok)
       \/ \E delay \in 0..MaxNow : /\ DueAfter(delay) <= MaxNow
                                   /\ \/ QueueDelayedWork(wq, w, delay, ok)
                                      \/ ModDelayedWork(wq, w, delay, ok)
  \/ \E w \in Works : CancelWork(w) \/ LoseFunction(w)
  \/ \E w \in Works, require_due \in BOOLEAN, out \in Anything :
       FlushWork(w, require_due, out)
  \/ \E k \in Tasklets, ok \in BOOLEAN : TaskletSchedule(k, ok)
  \/ \E m \in Timers, expires \in 0..MaxNow, ok \in BOOLEAN :
       ModTimer(m, expires, ok) \/ AddTimer(m, expires, ok)
  \/ \E m \in Timers : TimerDelete(m)
  \/ \E all \in BOOLEAN : RunDeferred(all)
  \/ \E wq \in Queues \union {NoQueue} : FlushWorkqueue(wq)
  \/ \E wq \in Queues : AllocWorkqueue(wq) \/ DestroyWorkqueue(wq)

EngineStep ==
  \/ \E out \in Anything, called \in BOOLEAN : DrainStep(out, called)
  \/ DrainEnd
  \/ \E out \in Anything : FlushStep(out)
  \/ FlushEnd
  \/ DestroyFinish

Next ==
  \/ DriverCall
  \/ EngineStep
  \/ \E dirty \in BOOLEAN : Return(dirty)
  \/ Tick

Spec == Init /\ [][Next]_vars

(* The loops are sequential code and run on; a callback, which may start    *)
(* nested loops, returns in the end; time passes; and the main program      *)
(* keeps calling kb_run_deferred_work, as every wait of the runtime does.   *)
MainLoop == stack = <<>> /\ RunDeferred(TRUE)
Fairness ==
  /\ WF_vars(EngineStep)
  /\ SF_vars(\E dirty \in BOOLEAN : Return(dirty))
  /\ WF_vars(Tick)
  /\ SF_vars(MainLoop)
FairSpec == Spec /\ Fairness

-----------------------------------------------------------------------------
TypeOK ==
  /\ deferred \in Seq(Item) /\ deferred_sequence \in 0..MaxSeq
  /\ pending \subseteq Works /\ sched \subseteq Tasklets /\ usable \subseteq Works
  /\ workqueues \in Seq(Queues) /\ destroying \subseteq Queues
  /\ life \in [Queues -> {"new", "open", "closing", "kept", "gone"}]
  /\ active \in Seq(Works) /\ poisoned \in [1..MaxCtx -> BOOLEAN]
  /\ depth \in 0..MaxDepth /\ stack \in Seq(Frame) /\ now \in 0..MaxNow

(* An object is on the deferred list once at most, however queue, modify,   *)
(* cancel, retry and re-entrant drains interleave.                          *)
UniqueQueued ==
  \A i, j \in DOMAIN deferred :
    deferred[i].kind = deferred[j].kind /\ deferred[i].object = deferred[j].object => i = j

(* A pending bit stands for a queued item: no path leaves work marked       *)
(* pending that no drain will ever run.                                     *)
PendingIsQueued == \A w \in pending : Queued(deferred, "work", w)

(* A queued tasklet is marked scheduled: neither a second schedule nor the  *)
(* run of the tasklet itself, which may schedule it again, loses the mark.  *)
TaskletMarked == \A k \in Tasklets : Queued(deferred, "tasklet", k) => k \in sched

(* A work callback is never entered again while it is running, whatever     *)
(* nested drain, flush or flush_work its callees start.                     *)
NoReentry == \A i, j \in DOMAIN active : active[i] = active[j] => i = j

(* Once kb_destroy_workqueue has returned, other than by keeping the queue  *)
(* because work was left on it, none of its work is queued.                 *)
DestroyDrains ==
  \A i \in DOMAIN deferred :
    LET wq == deferred[i].wq IN wq # NoQueue => life[wq] # "gone"

(* A flush runs no more items than its queue held when it began, though     *)
(* callbacks queue another generation meanwhile (linux_work.c:666-671).     *)
FlushBounded ==
  \A i \in DOMAIN stack : stack[i].t = "flush" => stack[i].n <= stack[i].quota

(* All of these; the last one where callbacks leave the list of workqueues  *)
(* alone while kb_destroy_workqueue flushes, since it keeps a link into it.  *)
WorkSafe ==
  /\ UniqueQueued /\ PendingIsQueued /\ TaskletMarked
  /\ NoReentry /\ FlushBounded
  /\ ~NestedWqOps => DestroyDrains
=============================================================================
