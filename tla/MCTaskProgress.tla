---------------------------- MODULE MCTaskProgress ----------------------------
(***************************************************************************)
(* What has to happen in the end, of work, threads, semaphores, callbacks,  *)
(* interrupts, drivers and root hubs.  A behaviour exercises one of the     *)
(* models, named by part, and leaves the others in their initial states, so *)
(* that the fairness conditions are those of the active model alone.        *)
(***************************************************************************)
EXTENDS Naturals

CONSTANTS w1, w2, NoQueue, t1, t2, Main, a, x, e1, e2, dA, c1, None

VARIABLES
  part,
  deferred, deferred_sequence, pending, sched, usable, workqueues, destroying,
  life, active, poisoned, depth, stack, now,
  kthreads, state, resume, frames, woken,
  rcu_readers, rcu_callbacks, nest, drains, waits, cur, status, blockers, before,
  irq_list, dev_id, signals, count, due, served, xhci, istack,
  phase, bcur, idx, bactive, registered, bound, probed, serving, lost,
  shadow, hw, enabled, stale,
  readers, writer, waiters, at,
  mode, ports, rh, told, todo, seen

workVars == <<deferred, deferred_sequence, pending, sched, usable, workqueues,
              destroying, life, active, poisoned, depth, stack, now>>
threadVars == <<kthreads, state, resume, frames, woken>>
rcuVars == <<rcu_readers, rcu_callbacks, nest, drains, waits, cur, status,
             blockers, before>>
irqVars == <<irq_list, dev_id, signals, count, due, served, xhci, istack>>
bindVars == <<phase, bcur, idx, bactive, registered, bound, probed, serving, lost>>
cmdVars == <<shadow, hw, enabled, stale>>
semVars == <<readers, writer, waiters, at>>
hubVars == <<mode, ports, rh, told, todo, seen>>
vars == <<part, workVars, threadVars, rcuVars, irqVars, bindVars, cmdVars, semVars,
          hubVars>>

(* Two work items; and one that is delayed.                                 *)
Work == INSTANCE DeferredWork WITH
  Works <- {w1, w2}, Tasklets <- {}, Timers <- {}, Queues <- {}, Faults <- {},
  NestedWqOps <- FALSE, DrainLimit <- 1, MaxDepth <- 2, MaxCtx <- 2, MaxSeq <- 3,
  MaxNow <- 0
Delay == INSTANCE DeferredWork WITH
  Works <- {w1}, Tasklets <- {}, Timers <- {}, Queues <- {}, Faults <- {},
  NestedWqOps <- FALSE, DrainLimit <- 1, MaxDepth <- 2, MaxCtx <- 2, MaxSeq <- 3,
  MaxNow <- 1
Thread == INSTANCE KThreads WITH
  Threads <- {t1, t2}, DirectState <- FALSE, StopRounds <- 2, MaxFrames <- 3
Grace == INSTANCE Rcu WITH
  Threads <- {t1}, CbObjects <- {a}, FreeObjects <- {x}, CallbacksYield <- FALSE,
  MaxNest <- 1
Intr == INSTANCE Irq WITH
  stack <- istack, Ids <- {e1, e2}, DevIds <- {dA}, UsbDevIds <- {},
  DeviceOf <- [d \in {dA} |-> d], MaxSignals <- 1, MaxDepth <- 2
Bind == INSTANCE PciBinding WITH
  active <- bactive, cur <- bcur, N <- 2, Drivers <- {1, 2}, Switched <- {}, NoDriver <- 0
Sem == INSTANCE RwSem WITH Threads <- {t1, t2}
Hub == INSTANCE UsbRootHub WITH
  hw <- ports, Hcds <- {c1}, Primary <- c1, MaxPorts <- 1, Links <- {"none", "usb2"},
  Modes <- {"full", "fake"}, Submits <- {TRUE}

Init ==
  /\ part \in {"work", "delay", "thread", "rcu", "irq", "binding", "sem", "hub"}
  /\ IF part = "delay" THEN Delay!Init ELSE Work!Init
  /\ Thread!Init /\ Grace!Init /\ Intr!Init /\ Bind!Init
  /\ Sem!Init /\ Hub!Init /\ (part # "hub" => mode = "full")

WorkKeep == UNCHANGED <<part, threadVars, rcuVars, irqVars, bindVars, cmdVars,
                       semVars, hubVars>>
ThreadKeep == UNCHANGED <<part, workVars, rcuVars, irqVars, bindVars, cmdVars,
                       semVars, hubVars>>
RcuKeep == UNCHANGED <<part, workVars, threadVars, irqVars, bindVars, cmdVars,
                       semVars, hubVars>>
IrqKeep == UNCHANGED <<part, workVars, threadVars, rcuVars, bindVars, cmdVars,
                       semVars, hubVars>>
BindKeep == UNCHANGED <<part, workVars, threadVars, rcuVars, irqVars, semVars, hubVars>>
SemKeep == UNCHANGED <<part, workVars, threadVars, rcuVars, irqVars, bindVars, cmdVars,
                       hubVars>>
HubKeep == UNCHANGED <<part, workVars, threadVars, rcuVars, irqVars, bindVars, cmdVars,
                       semVars>>

Next ==
  \/ part = "work" /\ Work!Next /\ WorkKeep
  \/ part = "delay" /\ Delay!Next /\ WorkKeep
  \/ part = "thread" /\ Thread!Next /\ ThreadKeep
  \/ part = "rcu" /\ Grace!Next /\ RcuKeep
  \/ part = "irq" /\ Intr!Next /\ IrqKeep
  \/ part = "binding" /\ Bind!Next /\ BindKeep
  \/ part = "sem" /\ Sem!Next /\ SemKeep
  \/ part = "hub" /\ Hub!Next /\ HubKeep

(* The fairness each model states.  Only one model is active, so one fair   *)
(* disjunction stands for one condition of each model.                      *)
Weak1 ==
  \/ part = "work" /\ Work!EngineStep /\ WorkKeep
  \/ part = "delay" /\ Delay!EngineStep /\ WorkKeep
  \/ part = "thread" /\ Thread!StopRound(FALSE) /\ ThreadKeep
  \/ /\ part = "binding" /\ BindKeep
     /\ Bind!BindDevice \/ Bind!SkipDevice \/ Bind!UnregisterStep
     /\ bindVars' # bindVars
  \/ part = "irq" /\ (Intr!Wait \/ Intr!Call) /\ IrqKeep
  \/ part = "sem" /\ Sem!Turn(t1) /\ SemKeep
  \/ part = "hub" /\ Hub!PollRootHubs(TRUE) /\ HubKeep
Weak2 ==
  \/ part = "delay" /\ Delay!Tick /\ WorkKeep
  \/ part = "thread" /\ Thread!StopReturn /\ ThreadKeep
  \/ part = "sem" /\ Sem!Turn(t2) /\ SemKeep
  \/ part = "hub" /\ Hub!HubRead(c1) /\ HubKeep
Weak3 == part = "hub" /\ Hub!HubClear(c1) /\ HubKeep
Weak4 == part = "hub" /\ Hub!HubStarts(c1, TRUE) /\ HubKeep
Weak5 == part = "hub" /\ Hub!SubmitStatusUrb(c1) /\ HubKeep
Strong1 ==
  \/ part \in {"work", "delay"} /\ (\E dirty \in BOOLEAN : Work!Return(dirty)) /\ WorkKeep
  \/ part = "thread" /\ frames = <<>> /\ Thread!RunReady(t1, FALSE) /\ ThreadKeep
  \/ part = "rcu" /\ Grace!CallbackReturn(Main) /\ RcuKeep
  \/ part = "irq" /\ istack = <<>> /\ Intr!Begin("any", None) /\ IrqKeep
  \/ part = "binding" /\ (Bind!ProbeSucceeds \/ Bind!ProbeFails) /\ BindKeep
Strong2 ==
  \/ part = "work" /\ Work!MainLoop /\ WorkKeep
  \/ part = "delay" /\ Delay!MainLoop /\ WorkKeep
  \/ part = "thread" /\ frames = <<>> /\ Thread!RunReady(t2, FALSE) /\ ThreadKeep
  \/ part = "rcu" /\ Grace!CallbackReturn(t1) /\ RcuKeep
  \/ part = "irq" /\ Intr!Depth = 1 /\ (Intr!Return \/ Intr!Finish) /\ IrqKeep
  \/ part = "binding" /\ Bind!RemoveReturns /\ BindKeep
Strong3 ==
  \/ part = "thread" /\ (\E t \in {t1, t2} : Thread!Leave(t)) /\ ThreadKeep
  \/ part = "irq" /\ Intr!Depth = 2 /\ (Intr!Return \/ Intr!Finish) /\ IrqKeep
Strong4 ==
  /\ part = "thread" /\ Thread!OnTop(LAMBDA f : f.foreign) /\ ThreadKeep
  /\ \E t \in {t1, t2} : Thread!SwitchTask(t)

Spec ==
  /\ Init /\ [][Next]_vars
  /\ WF_vars(Weak1) /\ WF_vars(Weak2) /\ WF_vars(Weak3) /\ WF_vars(Weak4) /\ WF_vars(Weak5)
  /\ SF_vars(Strong1) /\ SF_vars(Strong2) /\ SF_vars(Strong3) /\ SF_vars(Strong4)

-----------------------------------------------------------------------------
(* Whom a behaviour may keep waiting, two of each kind. *)
Waiting(k) ==
  CASE part \in {"work", "delay"} -> Work!Queued(deferred, "work", <<w1, w2>>[k])
    [] part = "thread" -> <<t1, t2>>[k] \in woken
    [] part = "rcu" -> status[<<a, x>>[k]] = "retired"
    [] part = "irq" -> signals[<<e1, e2>>[k]] > served[<<e1, e2>>[k]]
    [] part = "binding" -> phase = "unregister"
    [] part = "sem" -> at[<<t1, t2>>[k]] = "to write"
    [] part = "hub" -> IF k = 1 THEN Hub!ChangeLatched(c1) ELSE Hub!Unseen(c1)
Over(k) ==
  CASE part \in {"work", "delay"} -> ~Work!Queued(deferred, "work", <<w1, w2>>[k])
    [] part = "thread" -> LET t == <<t1, t2>>[k]
                          IN  Thread!Dispatched(t) \/ kthreads[t].finished
    [] part = "rcu" -> status[<<a, x>>[k]] = "reclaimed"
    [] part = "irq" -> LET e == <<e1, e2>>[k]
                       IN  signals[e] = served[e] \/ dev_id[e] = None
    [] part = "binding" -> Bind!Left
    [] part = "sem" -> Sem!Doing("writes") # {}
    [] part = "hub" -> IF k = 1 THEN Hub!ChangeRead(c1) ELSE ~Hub!Unseen(c1)

(* Nothing waits for ever: work that is queued is taken from the list        *)
(* (DeferredWork), a woken thread runs (KThreads), what is retired is        *)
(* reclaimed if readers leave again and again (Rcu), a raised interrupt is   *)
(* handled or its entry freed (Irq), unregistration removes every device the *)
(* driver has a binding for (PciBinding), a writer gets a semaphore that     *)
(* readers keep taking (RwSem), and the hub driver reads of a latched change *)
(* and of the first device that is plugged in, unless it is pulled first     *)
(* (UsbRootHub).                                                             *)
NothingWaitsForever ==
  []<>(part = "rcu" => rcu_readers = 0) => \A k \in 1 .. 2 : Waiting(k) ~> Over(k)
=============================================================================
