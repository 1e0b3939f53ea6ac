---------------------------------- MODULE Irq ----------------------------------
(* Interrupt registration and dispatch: linux_irq.c over the irq_register,     *)
(* irq_wait and irq_unregister operations of a device backend.                 *)
(*                                                                             *)
(* There is no asynchronous interrupt in this process: a device raises its     *)
(* backend counter, and a handler runs when somebody walks irq_list and polls. *)
(* A handler is driver code: it may itself wait for an interrupt, which walks  *)
(* the same list again, below the outer walk on the stack.                     *)
EXTENDS Integers, Sequences, FiniteSets, Functions, FiniteSetTheorems,
        WellFoundedInduction, TLAPS

CONSTANTS Ids,        \* addresses kb_kzalloc can return for a shim_irq
          DevIds,     \* the dev_id cookies drivers pass, each with one irq number
          UsbDevIds,  \* the dev_ids that are registered USB host controllers
          DeviceOf,   \* the backend device a dev_id belongs to
          MaxSignals, \* bound: times one interrupt fires
          MaxDepth,   \* bound: nested walks
          None

ASSUME NoneAssumption == None \notin Ids /\ None \notin DevIds
ASSUME BoundAssumption == MaxSignals \in Nat

VARIABLES irq_list,  \* live shim_irqs, newest first
          dev_id,    \* dev_id of a shim_irq, None when it is not allocated
          signals,   \* interrupts the device raised on it (the backend's counter)
          count,     \* the counter value irq_wait has consumed
          due,       \* handler runs the walks owe for it, minus runs that began
          served,    \* value of signals when its handler last began
          xhci,      \* kb_pci_xhci_irq_pending()
          stack      \* walks in progress, innermost last

vars == <<irq_list, dev_id, signals, count, due, served, xhci, stack>>
regs == <<irq_list, dev_id>>
counters == <<signals, count, due, served>>

Kinds == {"any", "device", "dev_id", "signal", "trigger"}
Phases == {"wait", "call", "handler", "work", "done"}
Frame == [kind : Kinds, at : Ids \cup {None}, target : DevIds \cup {None},
          ph : Phases, handled : BOOLEAN, saw_xhci : BOOLEAN, owed : SUBSET Ids]

TypeOK ==
  /\ irq_list \in Seq(Ids) /\ IsInjective(irq_list)
  /\ dev_id \in [Ids -> DevIds \cup {None}]
  /\ signals \in [Ids -> 0 .. MaxSignals]
  /\ count \in [Ids -> 0 .. MaxSignals]
  /\ served \in [Ids -> 0 .. MaxSignals]
  /\ due \in [Ids -> Int]
  /\ xhci \in BOOLEAN
  /\ stack \in Seq(Frame)

Init ==
  /\ irq_list = <<>>
  /\ dev_id = [e \in Ids |-> None]
  /\ signals = [e \in Ids |-> 0] /\ count = [e \in Ids |-> 0]
  /\ due = [e \in Ids |-> 0] /\ served = [e \in Ids |-> 0]
  /\ xhci = FALSE
  /\ stack = <<>>

Live == {e \in Ids : dev_id[e] # None}
Depth == Len(stack)
Top == stack[Len(stack)]
Pop(s) == SubSeq(s, 1, Len(s) - 1)

(* Driver code runs at top level, in a handler and in deferred work.           *)
DriverRuns == \A i \in 1 .. Depth : i = Depth => stack[i].ph \in {"handler", "work"}

(* A walk that still needs its cursor's next pointer.                          *)
Walking(e) == \E i \in 1 .. Depth : stack[i].at = e

(* The entries a walk visits: all, those of one device, the first of a dev_id. *)
Visits(f, e) ==
  CASE f.kind = "any" -> TRUE
    [] f.kind = "device" -> DeviceOf[dev_id[e]] = DeviceOf[f.target]
    [] OTHER -> dev_id[e] = f.target

(* The first entry a walk visits in the sequence es, None at the end.          *)
FirstVisited(f, es) ==
  LET hits == {i \in 1 .. Len(es) : Visits(f, es[i])}
  IN IF hits = {} THEN None ELSE es[CHOOSE i \in hits : \A j \in hits : i <= j]

After(e) ==
  LET i == CHOOSE i \in 1 .. Len(irq_list) : irq_list[i] = e
  IN SubSeq(irq_list, i + 1, Len(irq_list))

-----------------------------------------------------------------------------
(* The device side.                                                            *)

Signal(e) ==
  /\ e \in Live /\ signals[e] < MaxSignals
  /\ signals' = [signals EXCEPT ![e] = @ + 1]
  /\ UNCHANGED <<regs, count, due, served, xhci, stack>>

(* The controller posts an event the polling of its registers shows.           *)
XhciEvent ==
  /\ ~xhci /\ \E e \in Live : dev_id[e] \in UsbDevIds
  /\ xhci' = TRUE
  /\ UNCHANGED <<regs, signals, count, due, served, stack>>

-----------------------------------------------------------------------------
(* Registration. A failing allocation or irq_register frees the entry before   *)
(* it is linked and changes nothing.                                           *)

(* A plausible slip: a retried registration links the entry a second time.     *)
RequestIrqTwice(d) ==
  /\ DriverRuns
  /\ \E e \in Ids \ Live :
       /\ irq_list' = <<e, e>> \o irq_list
       /\ dev_id' = [dev_id EXCEPT ![e] = d]
  /\ UNCHANGED <<counters, xhci, stack>>

RequestIrq(d) ==
  /\ DriverRuns
  /\ \E e \in Ids \ Live :
       /\ irq_list' = <<e>> \o irq_list
       /\ dev_id' = [dev_id EXCEPT ![e] = d]
  /\ UNCHANGED <<counters, xhci, stack>>

Unlink(es, i) == SubSeq(es, 1, i - 1) \o SubSeq(es, i + 1, Len(es))
Forget(E) == [i \in 1 .. Depth |-> [stack[i] EXCEPT !.owed = @ \ E]]
Cleared(f, E) == [e \in Ids |-> IF e \in E THEN 0 ELSE f[e]]

(* ops->irq_unregister and kb_kfree: the next kb_kzalloc returns it zeroed.    *)
Release(E) ==
  /\ dev_id' = [e \in Ids |-> IF e \in E THEN None ELSE dev_id[e]]
  /\ signals' = Cleared(signals, E) /\ count' = Cleared(count, E)
  /\ due' = Cleared(due, E) /\ served' = Cleared(served, E)
  /\ stack' = Forget(E)

(* Unlink the first entry of the dev_id and release it. The kernel's contract  *)
(* keeps a driver from freeing an interrupt whose handler is on the stack.     *)
FreeIrq(d) ==
  /\ DriverRuns
  /\ \E i \in 1 .. Len(irq_list) :
       /\ dev_id[irq_list[i]] = d /\ ~Walking(irq_list[i])
       /\ \A j \in 1 .. i - 1 : dev_id[irq_list[j]] # d
       /\ irq_list' = Unlink(irq_list, i)
       /\ Release({irq_list[i]})
  /\ UNCHANGED xhci

FreeAllIrqs ==
  /\ DriverRuns /\ irq_list # <<>> /\ \A e \in Live : ~Walking(e)
  /\ irq_list' = <<>>
  /\ Release(Ids)
  /\ UNCHANGED xhci

-----------------------------------------------------------------------------
(* The walks.                                                                  *)

Unseen == {e \in Live : signals[e] > count[e]}

(* Enter one of the five loops at the first entry it visits. Without one,      *)
(* handle_any still runs the deferred work and the others return -19 or -110.  *)
Begin(kind, d) ==
  /\ DriverRuns /\ Depth < MaxDepth
  /\ LET f == [kind |-> kind, at |-> None, target |-> d, ph |-> "work",
               handled |-> FALSE, saw_xhci |-> FALSE,
               owed |-> IF kind = "any" THEN Unseen ELSE {}]
         e == FirstVisited(f, irq_list)
     IN /\ e # None \/ kind = "any"
        /\ stack' = Append(stack, [f EXCEPT !.at = e,
                             !.ph = IF e = None THEN "work"
                                    ELSE IF kind = "trigger" THEN "call" ELSE "wait"])
        /\ due' = IF kind = "trigger" THEN [due EXCEPT ![e] = @ + 1] ELSE due
  /\ UNCHANGED <<regs, signals, count, served, xhci>>

(* A plausible slip: a list walk stops at the first interrupt it handled.      *)
NextStopFirst(f) ==
  IF f.kind \in {"any", "device"} /\ ~f.handled THEN FirstVisited(f, After(f.at)) ELSE None

(* The list walks read entry->next here, after the handler; the others leave   *)
(* the loop.                                                                   *)
NextEntry(f) ==
  IF f.kind \in {"any", "device"} THEN FirstVisited(f, After(f.at)) ELSE None

(* Where a walk goes once it has dealt with its cursor. Only                   *)
(* kb_handle_device_irqs skips the deferred work when it handled nothing.      *)
Onward(f) ==
  LET e == NextEntry(f)
  IN [f EXCEPT !.at = e,
               !.ph = IF e # None THEN "wait"
                      ELSE IF f.kind = "device" /\ ~f.handled THEN "done" ELSE "work"]

(* kb_pci_xhci_ack_pending, at the end of a walk that saw the controller.      *)
Acked(f) == f.ph = "work" /\ f.saw_xhci

(* The handlers an entry shows while irq_wait runs: the walk has parked both.  *)
Parked == {}

(* The backend's poll found the counter moved, stored it, and calls the        *)
(* trampoline itself.                                                          *)
PolledRuns(e) == IF signals[e] > count[e] /\ Parked # {} THEN 1 ELSE 0

(* Whether a walk runs the handler after the poll.                             *)
Runs(f, ok, pending) == f.kind # "signal" /\ (ok \/ pending)

(* kb_wait_irq_signal_for_dev_id consumes the interrupt for its caller, which  *)
(* polls the device itself; the other loops decide to run the handler.         *)
Wait ==
  /\ stack # <<>> /\ Top.ph = "wait"
  /\ LET f == Top
         e == f.at
         ok == signals[e] > count[e]
         pending == f.kind \in {"any", "dev_id"} /\ ~f.saw_xhci /\ xhci
         usb == ok /\ dev_id[e] \in UsbDevIds /\ f.kind = "any"
         runs == Runs(f, ok, pending)
         g == [f EXCEPT !.handled = @ \/ runs, !.saw_xhci = @ \/ pending \/ usb]
         h == IF runs THEN [g EXCEPT !.ph = "call"] ELSE Onward(g)
     IN /\ count' = [count EXCEPT ![e] = signals[e]]
        /\ due' = [due EXCEPT ![e] = @ + (IF runs THEN 1 ELSE 0) - PolledRuns(e)]
        /\ served' = IF f.kind = "signal" /\ ok
                       THEN [served EXCEPT ![e] = signals[e]] ELSE served
        /\ stack' = IF f.kind = "signal" THEN Pop(IF ok THEN Forget({e}) ELSE stack)
                                         ELSE [stack EXCEPT ![Depth] = h]
        /\ xhci' = (xhci /\ ~(f.kind # "signal" /\ Acked(h)))
  /\ UNCHANGED <<regs, signals>>

(* irq_trampoline: handler, then thread_fn. From here on the driver sees every *)
(* interrupt raised so far.                                                    *)
Call ==
  /\ stack # <<>> /\ Top.ph = "call"
  /\ LET e == Top.at IN
       /\ due' = [due EXCEPT ![e] = @ - 1]
       /\ served' = [served EXCEPT ![e] = signals[e]]
       /\ stack' = [i \in 1 .. Depth |->
                      [stack[i] EXCEPT !.owed = @ \ {e},
                                       !.ph = IF i = Depth THEN "handler" ELSE @]]
  /\ UNCHANGED <<regs, signals, count, xhci>>

(* The handler returns. A dev_id walk polls the root hub and acknowledges the  *)
(* controller here, a list walk after its last entry.                          *)
Return ==
  /\ stack # <<>> /\ Top.ph = "handler"
  /\ LET g == Onward(Top) IN
       /\ stack' = [stack EXCEPT ![Depth] = g]
       /\ xhci' = (xhci /\ ~Acked(g))
  /\ UNCHANGED <<regs, signals, count, due, served>>

(* Deferred work, or bottom halves only, has run; the walk returns.            *)
Finish ==
  /\ stack # <<>> /\ Top.ph \in {"work", "done"}
  /\ stack' = Pop(stack)
  /\ UNCHANGED <<regs, signals, count, due, served, xhci>>

-----------------------------------------------------------------------------
Next ==
  \/ \E e \in Ids : Signal(e)
  \/ XhciEvent
  \/ \E d \in DevIds : RequestIrq(d) \/ FreeIrq(d)
  \/ FreeAllIrqs
  \/ Begin("any", None)
  \/ \E d \in DevIds, k \in Kinds \ {"any"} : Begin(k, d)
  \/ Wait
  \/ Call
  \/ Return
  \/ Finish

Spec == Init /\ [][Next]_vars

(* Each turn of the host's main loop calls kb_handle_any_irq, whatever else it *)
(* does; a handler returns and deferred work ends, however often they wait for *)
(* interrupts themselves; the straight-line code of a walk goes on.            *)
LiveSpec ==
  /\ Spec
  /\ SF_vars(stack = <<>> /\ Begin("any", None))
  /\ \A k \in 1 .. MaxDepth : SF_vars(Depth = k /\ (Return \/ Finish))
  /\ WF_vars(Wait \/ Call)

-----------------------------------------------------------------------------
(* A handler runs once for each poll that found the interrupt or a pending     *)
(* controller event: the call the backend makes from inside irq_wait and the   *)
(* call of the walk never add up to two.                                       *)
OnceEach ==
  \A e \in Ids :
    due[e] = Cardinality({i \in 1 .. Depth : stack[i].at = e /\ stack[i].ph = "call"})

(* An interrupt whose counter value has been consumed has reached its handler, *)
(* or a walk is about to call it: nothing a poll consumes is dropped.          *)
ConsumedIsServed ==
  \A e \in Live : count[e] > served[e] =>
    \E i \in 1 .. Depth : stack[i].at = e /\ stack[i].ph = "call"

(* When kb_handle_any_irq reaches its deferred work, every interrupt that was  *)
(* pending when it began, and was not freed since, has been handled, whatever  *)
(* the handlers registered or freed while the walk was in the list.            *)
WalkServesAll ==
  \A i \in 1 .. Depth : stack[i].kind = "any" /\ stack[i].ph = "work" => stack[i].owed = {}

(* Live entries are exactly the linked ones, and no walk stands on a freed one.*)
CursorsAlive ==
  /\ Live = Range(irq_list)
  /\ \A i \in 1 .. Depth : stack[i].at # None => stack[i].at \in Live

(* Every consumed interrupt is handled, once, by an entry that is alive, and a *)
(* walk reaches every entry whatever handlers register or free.                *)
IrqsServed == OnceEach /\ ConsumedIsServed /\ WalkServesAll /\ CursorsAlive

-----------------------------------------------------------------------------
(* Proofs, for any entries, dev_ids, devices and depth of nesting.             *)

(* The innermost walk has decided to run the handler of e.                     *)
Calling(e) == Depth > 0 /\ Top.at = e /\ Top.ph = "call"

(* Entry o is at or behind entry e in the list, or strictly behind it.         *)
Behind(es, e, o, strictly) ==
  \E a, b \in DOMAIN es : es[a] = e /\ es[b] = o /\ (IF strictly THEN a < b ELSE a <= b)

(* A walk that has a cursor is at an entry; what it owes a visit is not before *)
(* the cursor, and behind it once the handler has begun.                       *)
WalkOK(f) ==
  /\ f.at = None <=> f.ph \in {"work", "done"}
  /\ f.at # None => f.at \in Range(irq_list)
  /\ f.owed # {} => f.kind = "any"
  /\ \A o \in f.owed : Behind(irq_list, f.at, o, f.ph = "handler")

(* Only the innermost walk is between a poll and the call of a handler; what a *)
(* walk owes is raised, or about to be handled further in.                     *)
WalksOK ==
  \A i \in 1 .. Depth :
    /\ WalkOK(stack[i])
    /\ i < Depth => stack[i].ph \in {"handler", "work"}
    /\ \A o \in stack[i].owed : signals[o] > count[o] \/ Calling(o)

CountersOK ==
  \A e \in Ids :
    /\ count[e] <= signals[e]
    /\ count[e] > served[e] => Calling(e)
    /\ due[e] = IF Calling(e) THEN 1 ELSE 0

IInv == TypeOK /\ Live = Range(irq_list) /\ WalksOK /\ CountersOK

(* The list and the stack as sequences.                                        *)
LEMMA ListFacts ==
  ASSUME TypeOK
  PROVE  /\ irq_list \in Seq(Ids) /\ Len(irq_list) \in Nat
         /\ DOMAIN irq_list = 1 .. Len(irq_list)
         /\ \A a \in DOMAIN irq_list : irq_list[a] \in Ids /\ irq_list[a] # None
         /\ \A a, b \in DOMAIN irq_list : irq_list[a] = irq_list[b] => a = b
         /\ stack \in Seq(Frame) /\ Depth \in Nat /\ DOMAIN stack = 1 .. Depth
         /\ \A i \in 1 .. Depth : stack[i] \in Frame
         /\ Depth > 0 => Depth \in 1 .. Depth /\ Top = stack[Depth]
  BY NoneAssumption DEF TypeOK, IsInjective, Depth, Top

(* The entry a walk visits first is one of the sequence; a walk of all entries *)
(* begins with the first one.                                                  *)
LEMMA FirstVisitedIn ==
  ASSUME NEW f, NEW es \in Seq(Ids)
  PROVE  /\ FirstVisited(f, es) # None => \E i \in DOMAIN es : es[i] = FirstVisited(f, es)
         /\ f.kind = "any" => FirstVisited(f, es) = IF es = <<>> THEN None ELSE es[1]
<1> DEFINE hits == {i \in 1 .. Len(es) : Visits(f, es[i])}
<1>1. FirstVisited(f, es) = IF hits = {} THEN None
                            ELSE es[CHOOSE i \in hits : \A j \in hits : i <= j]
  BY DEF FirstVisited
<1>2. hits \subseteq Nat /\ hits \subseteq DOMAIN es
  OBVIOUS
<1>3. ASSUME hits # {}
      PROVE  \E i \in hits : \A j \in hits : i <= j
  <2> HIDE DEF hits
  <2>1. PICK t \in hits : \A u \in hits : ~ (<<u, t>> \in OpToRel(<, Nat))
    BY <1>2, <1>3, NatLessThanWellFounded, WFMin, Zenon
  <2>2. \A u \in hits : ~ (u < t)
    BY <1>2, <2>1, Zenon DEF OpToRel
  <2>3. \A u \in hits : t <= u
    BY <1>2, <2>2
  <2> QED BY <2>3
<1>4. FirstVisited(f, es) # None => \E i \in DOMAIN es : es[i] = FirstVisited(f, es)
  <2> HIDE DEF hits
  <2> QED BY <1>1, <1>2, <1>3, Zenon
<1>5. ASSUME f.kind = "any"
      PROVE  FirstVisited(f, es) = IF es = <<>> THEN None ELSE es[1]
  <2>1. hits = 1 .. Len(es)
    BY <1>5 DEF Visits
  <2>2. CASE es = <<>>
    BY <1>1, <2>1, <2>2
  <2>3. CASE es # <<>>
    <3>1. Len(es) \in Nat /\ Len(es) >= 1
      BY <2>3
    <3>2. hits # {} /\ (CHOOSE i \in hits : \A j \in hits : i <= j) = 1
      BY <2>1, <3>1
    <3> QED BY <1>1, <2>3, <3>2, Zenon
  <2> QED BY <2>2, <2>3
<1> QED BY <1>4, <1>5

(* entry->next: where a list walk goes from the a-th entry.                    *)
LEMMA NextEntryIs ==
  ASSUME TypeOK, NEW f, NEW a \in DOMAIN irq_list, f.at = irq_list[a]
  PROVE  /\ NextEntry(f) # None => NextEntry(f) \in Range(irq_list)
         /\ f.kind = "any" => NextEntry(f) = IF a < Len(irq_list) THEN irq_list[a + 1] ELSE None
<1> DEFINE n == Len(irq_list)
           es == SubSeq(irq_list, a + 1, n)
<1>1. /\ irq_list \in Seq(Ids) /\ n \in Nat /\ DOMAIN irq_list = 1 .. n
      /\ \A b, c \in DOMAIN irq_list : irq_list[b] = irq_list[c] => b = c
  BY ListFacts
<1>2. After(f.at) = es
  <2>1. (CHOOSE i \in 1 .. n : irq_list[i] = f.at) = a
    BY <1>1
  <2> QED BY <2>1, Zenon DEF After
<1>3. es \in Seq(Ids) /\ DOMAIN es = 1 .. (n - a) /\ \A j \in 1 .. (n - a) : es[j] = irq_list[a + j]
  BY <1>1
<1>4. es = <<>> <=> a = n
  <2>1. Len(es) = n - a
    BY <1>1
  <2> HIDE DEF es
  <2>2. es = <<>> <=> Len(es) = 0
    BY <1>3
  <2> QED BY <1>1, <2>1, <2>2
<1>5. FirstVisited(f, es) # None => \E i \in DOMAIN es : es[i] = FirstVisited(f, es)
  BY <1>3, FirstVisitedIn, Zenon
<1>6. f.kind = "any" => FirstVisited(f, es) = IF es = <<>> THEN None ELSE es[1]
  BY <1>3, FirstVisitedIn, Zenon
<1>7. \A j \in 1 .. (n - a) : es[j] \in Range(irq_list)
  BY <1>1, <1>3 DEF Range
<1> HIDE DEF es
<1>8. NextEntry(f) # None => NextEntry(f) \in Range(irq_list)
  BY <1>2, <1>3, <1>5, <1>7 DEF NextEntry
<1>9. ASSUME f.kind = "any"
      PROVE  NextEntry(f) = IF a < n THEN irq_list[a + 1] ELSE None
  <2>1. NextEntry(f) = IF es = <<>> THEN None ELSE es[1]
    BY <1>2, <1>6, <1>9 DEF NextEntry
  <2>2. CASE a < n
    <3>1. es # <<>> /\ 1 \in 1 .. (n - a)
      BY <1>1, <1>4, <2>2
    <3> QED BY <1>3, <2>1, <2>2, <3>1
  <2>3. CASE ~ (a < n)
    <3>1. a = n
      BY <1>1, <2>3
    <3> QED BY <1>4, <2>1, <2>3, <3>1
  <2> QED BY <2>2, <2>3
<1> QED BY <1>8, <1>9

(* A walk that has dealt with its cursor, and owes only visits behind it, goes *)
(* on to a place from which it can make them.                                  *)
LEMMA OnwardOK ==
  ASSUME TypeOK, NEW f \in Frame, f.at \in Range(irq_list),
         f.owed # {} => f.kind = "any",
         \A o \in f.owed : Behind(irq_list, f.at, o, TRUE)
  PROVE  /\ Onward(f) \in Frame /\ WalkOK(Onward(f))
         /\ Onward(f).owed = f.owed /\ Onward(f).ph # "call" /\ Onward(f).ph # "handler"
         /\ Onward(f).kind = f.kind
<1> DEFINE e == NextEntry(f)
           ph == IF e # None THEN "wait" ELSE IF f.kind = "device" /\ ~f.handled THEN "done" ELSE "work"
           g == Onward(f)
<1>1. PICK a \in DOMAIN irq_list : f.at = irq_list[a]
  BY DEF Range
<1>2. /\ e # None => e \in Range(irq_list)
      /\ f.kind = "any" => e = IF a < Len(irq_list) THEN irq_list[a + 1] ELSE None
  BY <1>1, NextEntryIs, Zenon
<1>3. /\ irq_list \in Seq(Ids) /\ Len(irq_list) \in Nat /\ DOMAIN irq_list = 1 .. Len(irq_list)
      /\ \A b \in DOMAIN irq_list : irq_list[b] \in Ids /\ irq_list[b] # None
      /\ \A b, c \in DOMAIN irq_list : irq_list[b] = irq_list[c] => b = c
  BY ListFacts
<1>4. Range(irq_list) \subseteq Ids
  BY <1>3 DEF Range
<1>5. g = [f EXCEPT !.at = e, !.ph = ph]
  BY DEF Onward
<1>6. /\ g.at = e /\ g.ph = ph /\ g.kind = f.kind /\ g.owed = f.owed
  BY <1>5 DEF Frame
<1>7. g \in Frame
  <2>1. e \in Ids \cup {None} /\ ph \in Phases
    BY <1>2, <1>4 DEF Phases
  <2> HIDE DEF e, ph
  <2> QED BY <1>5, <2>1, Zenon DEF Frame
<1>8. \A o \in f.owed : \E b \in DOMAIN irq_list : irq_list[b] = o /\ a < b
  BY <1>1, <1>3 DEF Behind
<1>9. WalkOK(g)
  <2>1. /\ g.at = None <=> g.ph \in {"work", "done"}
        /\ g.ph \in {"wait", "work", "done"}
    BY <1>6
  <2>2. ASSUME NEW o \in f.owed PROVE Behind(irq_list, e, o, FALSE)
    <3>1. PICK b \in DOMAIN irq_list : irq_list[b] = o /\ a < b
      BY <1>8
    <3>2. a < Len(irq_list) /\ a + 1 \in DOMAIN irq_list /\ a + 1 <= b
      BY <1>3, <3>1
    <3>3. e = irq_list[a + 1]
      BY <1>2, <3>2, <2>2
    <3> HIDE DEF e
    <3> QED BY <3>1, <3>2, <3>3 DEF Behind
  <2> HIDE DEF e, ph, g
  <2>3. (g.ph = "handler") = FALSE
    BY <2>1
  <2> QED BY <1>2, <1>6, <2>1, <2>2, <2>3, Zenon DEF WalkOK
<1> QED BY <1>6, <1>7, <1>9

(* An entry linked at the head moves the others one place.                     *)
LEMMA Linked ==
  ASSUME NEW es \in Seq(Ids), IsInjective(es), NEW x \in Ids, x \notin Range(es)
  PROVE  /\ <<x>> \o es \in Seq(Ids) /\ IsInjective(<<x>> \o es)
         /\ Range(<<x>> \o es) = Range(es) \cup {x}
         /\ \A e, o : \A s \in BOOLEAN : Behind(es, e, o, s) => Behind(<<x>> \o es, e, o, s)
<1> DEFINE n == Len(es)
           fs == <<x>> \o es
<1>1. /\ fs \in Seq(Ids) /\ n \in Nat /\ DOMAIN es = 1 .. n /\ DOMAIN fs = 1 .. (n + 1)
      /\ fs[1] = x /\ \A j \in 1 .. n : fs[j + 1] = es[j]
  OBVIOUS
<1>2. \A j \in 1 .. n : es[j] # x
  BY <1>1 DEF Range
<1>3. \A j \in 1 .. (n + 1) : j = 1 \/ (j - 1 \in 1 .. n /\ fs[j] = es[j - 1])
  BY <1>1
<1> HIDE DEF fs, n
<1>4. IsInjective(fs)
  <2> SUFFICES ASSUME NEW a \in 1 .. (n + 1), NEW b \in 1 .. (n + 1), fs[a] = fs[b]
               PROVE  a = b
    BY <1>1 DEF IsInjective
  <2>1. CASE a = 1
    BY <1>1, <1>2, <1>3, <2>1
  <2>2. CASE b = 1
    BY <1>1, <1>2, <1>3, <2>2
  <2>3. CASE a # 1 /\ b # 1
    <3>1. a - 1 \in DOMAIN es /\ b - 1 \in DOMAIN es /\ es[a - 1] = es[b - 1]
      BY <1>1, <1>3, <2>3
    <3>2. a - 1 = b - 1
      BY <3>1 DEF IsInjective
    <3> QED BY <1>1, <3>2
  <2> QED BY <2>1, <2>2, <2>3
<1>5. Range(fs) = Range(es) \cup {x}
  <2>1. \A j \in 1 .. n : j + 1 \in 1 .. (n + 1)
    BY <1>1
  <2>2. 1 \in 1 .. (n + 1)
    BY <1>1
  <2>3. ASSUME NEW j \in 1 .. (n + 1) PROVE fs[j] \in Range(es) \cup {x}
    <3>1. CASE j = 1
      BY <1>1, <3>1
    <3>2. CASE j # 1
      BY <1>1, <1>3, <3>2, Zenon DEF Range
    <3> QED BY <3>1, <3>2
  <2>4. \A y \in Range(es) : y \in Range(fs)
    BY <1>1, <2>1 DEF Range
  <2>5. x \in Range(fs)
    BY <1>1, <2>2 DEF Range
  <2>6. \A y \in Range(fs) : \E j \in 1 .. (n + 1) : y = fs[j]
    BY <1>1 DEF Range
  <2> QED BY <2>3, <2>4, <2>5, <2>6
<1>6. ASSUME NEW e, NEW o, NEW s \in BOOLEAN, Behind(es, e, o, s) PROVE Behind(fs, e, o, s)
  <2>1. PICK a \in DOMAIN es, b \in DOMAIN es : es[a] = e /\ es[b] = o /\ (IF s THEN a < b ELSE a <= b)
    BY <1>6 DEF Behind
  <2>2. /\ a + 1 \in DOMAIN fs /\ b + 1 \in DOMAIN fs /\ fs[a + 1] = e /\ fs[b + 1] = o
        /\ (IF s THEN a + 1 < b + 1 ELSE a + 1 <= b + 1)
    BY <1>1, <2>1
  <2> QED BY <2>2 DEF Behind
<1> QED BY <1>1, <1>4, <1>5, <1>6 DEF fs

(* An entry unlinked leaves the others in order.                               *)
LEMMA Unlinked ==
  ASSUME NEW es \in Seq(Ids), IsInjective(es), NEW i \in DOMAIN es
  PROVE  /\ Unlink(es, i) \in Seq(Ids) /\ IsInjective(Unlink(es, i))
         /\ Range(Unlink(es, i)) = Range(es) \ {es[i]}
         /\ \A e, o : \A s \in BOOLEAN :
              e # es[i] /\ o # es[i] /\ Behind(es, e, o, s) => Behind(Unlink(es, i), e, o, s)
<1> DEFINE n == Len(es)
           fs == Unlink(es, i)
           new(j) == IF j < i THEN j ELSE j - 1
           old(j) == IF j < i THEN j ELSE j + 1
<1>1. n \in Nat /\ DOMAIN es = 1 .. n /\ i \in 1 .. n
  OBVIOUS
<1>2. /\ fs \in Seq(Ids) /\ Len(fs) = n - 1
      /\ \A j \in 1 .. (n - 1) : fs[j] = es[old(j)]
  <2>1. SubSeq(es, 1, i - 1) \in Seq(Ids) /\ Len(SubSeq(es, 1, i - 1)) = i - 1
        /\ \A j \in 1 .. (i - 1) : SubSeq(es, 1, i - 1)[j] = es[j]
    BY <1>1
  <2>2. SubSeq(es, i + 1, n) \in Seq(Ids) /\ Len(SubSeq(es, i + 1, n)) = n - i
        /\ \A j \in 1 .. (n - i) : SubSeq(es, i + 1, n)[j] = es[i + j]
    BY <1>1
  <2> DEFINE l == SubSeq(es, 1, i - 1)
             r == SubSeq(es, i + 1, n)
  <2>3. fs = l \o r
    BY DEF Unlink
  <2> HIDE DEF l, r, fs, n
  <2>4. fs \in Seq(Ids) /\ Len(fs) = n - 1
    BY <1>1, <2>1, <2>2, <2>3 DEF l, r
  <2>5. ASSUME NEW j \in 1 .. (n - 1) PROVE fs[j] = es[old(j)]
    <3>1. CASE j < i
      <4>1. fs[j] = l[j]
        BY <1>1, <2>1, <2>2, <2>3, <3>1 DEF l, r
      <4> QED BY <1>1, <2>1, <3>1, <4>1 DEF l
    <3>2. CASE ~ (j < i)
      <4>1. j \in (Len(l) + 1) .. (Len(l) + Len(r)) /\ j - (i - 1) \in 1 .. (n - i)
        BY <1>1, <2>1, <2>2, <3>2 DEF l, r
      <4>2. l \in Seq(Ids) /\ r \in Seq(Ids) /\ Len(l) = i - 1
        BY <2>1, <2>2 DEF l, r
      <4>4. fs[j] = r[j - Len(l)]
        BY <2>3, <4>1, <4>2
      <4>3. i + (j - (i - 1)) = j + 1
        BY <1>1
      <4> QED BY <2>2, <3>2, <4>1, <4>2, <4>3, <4>4, Zenon DEF r
    <3> QED BY <3>1, <3>2
  <2> QED BY <2>4, <2>5
<1>3. DOMAIN fs = 1 .. (n - 1)
  BY <1>1, <1>2
<1> HIDE DEF fs, n
<1>4. \A j \in 1 .. (n - 1) : old(j) \in 1 .. n /\ old(j) # i /\ new(old(j)) = j
  BY <1>1
<1>5. \A j \in 1 .. n : j # i => new(j) \in 1 .. (n - 1) /\ old(new(j)) = j
  BY <1>1
<1>6. \A a, b \in 1 .. n : (a # i /\ b # i) =>
        (a < b => new(a) < new(b)) /\ (a <= b => new(a) <= new(b))
  BY <1>1
<1> HIDE DEF new, old
<1>7. \A a, b \in 1 .. n : es[a] = es[b] => a = b
  BY <1>1 DEF IsInjective
<1>8. IsInjective(fs)
  <2> SUFFICES ASSUME NEW a \in 1 .. (n - 1), NEW b \in 1 .. (n - 1), fs[a] = fs[b]
               PROVE  a = b
    BY <1>3 DEF IsInjective
  <2>1. old(a) = old(b)
    BY <1>2, <1>4, <1>7
  <2> QED BY <1>4, <2>1
<1>9. Range(fs) = Range(es) \ {es[i]}
  <2>1. ASSUME NEW j \in 1 .. (n - 1) PROVE fs[j] \in Range(es) \ {es[i]}
    BY <1>1, <1>2, <1>4, <1>7 DEF Range
  <2>2. ASSUME NEW j \in 1 .. n, es[j] # es[i] PROVE es[j] \in Range(fs)
    <3>1. new(j) \in 1 .. (n - 1) /\ fs[new(j)] = es[j]
      BY <1>2, <1>5, <2>2
    <3> QED BY <1>3, <3>1 DEF Range
  <2> QED BY <1>1, <1>3, <2>1, <2>2 DEF Range
<1>10. ASSUME NEW e, NEW o, NEW s \in BOOLEAN, e # es[i], o # es[i], Behind(es, e, o, s)
       PROVE  Behind(fs, e, o, s)
  <2>1. PICK a \in 1 .. n, b \in 1 .. n : es[a] = e /\ es[b] = o /\ (IF s THEN a < b ELSE a <= b)
    BY <1>1, <1>10 DEF Behind
  <2>2. a # i /\ b # i
    BY <1>10, <2>1
  <2>3. /\ new(a) \in DOMAIN fs /\ new(b) \in DOMAIN fs /\ fs[new(a)] = e /\ fs[new(b)] = o
        /\ (IF s THEN new(a) < new(b) ELSE new(a) <= new(b))
    BY <1>2, <1>3, <1>5, <1>6, <2>1, <2>2, Zenon
  <2> QED BY <2>3 DEF Behind
<1> QED BY <1>2, <1>8, <1>9, <1>10 DEF fs

LEMMA InitIInv == Init => IInv
<1> SUFFICES ASSUME Init PROVE IInv
  OBVIOUS
<1>1. TypeOK
  <2>1. irq_list \in Seq(Ids) /\ IsInjective(irq_list) /\ stack \in Seq(Frame)
    BY DEF Init, IsInjective
  <2>2. 0 \in 0 .. MaxSignals
    BY BoundAssumption
  <2>3. /\ signals \in [Ids -> 0 .. MaxSignals] /\ count \in [Ids -> 0 .. MaxSignals]
        /\ served \in [Ids -> 0 .. MaxSignals] /\ due \in [Ids -> Int]
    BY <2>2 DEF Init
  <2> QED BY <2>1, <2>3, Zenon DEF Init, TypeOK
<1>2. Live = {} /\ Range(irq_list) = {} /\ Depth = 0
  BY DEF Init, Live, Range, Depth
<1>3. WalksOK /\ CountersOK
  BY <1>2 DEF WalksOK, CountersOK, Calling, Init
<1> QED BY <1>1, <1>2, <1>3 DEF IInv

(* A step that leaves the list and the stack alone.                            *)
LEMMA SignalOK == ASSUME IInv, NEW e \in Ids, Signal(e) PROVE IInv'
<1>1. /\ signals[e] < MaxSignals /\ signals' = [signals EXCEPT ![e] = signals[e] + 1]
      /\ UNCHANGED <<irq_list, dev_id, count, due, served, xhci, stack>>
  BY DEF Signal, regs
<1>2. TypeOK
  BY DEF IInv
<1>3. signals[e] + 1 \in 0 .. MaxSignals
  BY <1>1, <1>2, BoundAssumption DEF TypeOK
<1>4. TypeOK'
  BY <1>1, <1>2, <1>3, Zenon DEF TypeOK
<1>5. \A o \in Ids : /\ signals[o] \in Nat /\ signals'[o] \in Nat /\ count[o] \in Nat
                     /\ signals'[o] >= signals[o]
  BY <1>1, <1>2, <1>3, BoundAssumption DEF TypeOK
<1>6. Live' = Range(irq_list)' /\ Depth' = Depth /\ \A o : Calling(o)' = Calling(o)
  BY <1>1 DEF IInv, Live, Depth, Calling, Top
<1>7. \A i \in 1 .. Depth : stack[i].owed \subseteq Ids
  BY <1>2, ListFacts DEF Frame
<1>8. WalksOK'
  <2> SUFFICES ASSUME NEW i \in 1 .. Depth
               PROVE  /\ WalkOK(stack[i])'
                      /\ i < Depth => stack[i].ph \in {"handler", "work"}
                      /\ \A o \in stack[i].owed : signals'[o] > count[o] \/ Calling(o)
    BY <1>1, <1>6 DEF WalksOK
  <2>1. WalkOK(stack[i])'
    BY <1>1 DEF IInv, WalksOK, WalkOK
  <2>2. i < Depth => stack[i].ph \in {"handler", "work"}
    BY DEF IInv, WalksOK
  <2>3. ASSUME NEW o \in stack[i].owed PROVE signals'[o] > count[o] \/ Calling(o)
    <3>1. signals[o] > count[o] \/ Calling(o)
      BY DEF IInv, WalksOK
    <3>2. o \in Ids
      BY <1>7
    <3> QED BY <1>5, <3>1, <3>2
  <2> QED BY <2>1, <2>2, <2>3
<1>9. CountersOK'
  <2> SUFFICES ASSUME NEW o \in Ids
               PROVE  /\ count[o] <= signals'[o]
                      /\ count[o] > served[o] => Calling(o)
                      /\ due[o] = IF Calling(o) THEN 1 ELSE 0
    BY <1>1, <1>6 DEF CountersOK
  <2>1. count[o] <= signals[o] /\ (count[o] > served[o] => Calling(o))
        /\ due[o] = IF Calling(o) THEN 1 ELSE 0
    BY DEF IInv, CountersOK
  <2> QED BY <1>5, <2>1
<1> QED BY <1>4, <1>6, <1>8, <1>9 DEF IInv

LEMMA RequestIrqOK == ASSUME IInv, NEW d \in DevIds, RequestIrq(d) PROVE IInv'
<1>1. PICK e \in Ids \ Live : /\ irq_list' = <<e>> \o irq_list
                              /\ dev_id' = [dev_id EXCEPT ![e] = d]
  BY Zenon DEF RequestIrq
<1>2. UNCHANGED <<signals, count, due, served, xhci, stack>>
  BY DEF RequestIrq, counters
<1>3. TypeOK /\ Live = Range(irq_list) /\ WalksOK /\ CountersOK
  BY DEF IInv
<1>4. e \in Ids /\ e \notin Range(irq_list) /\ irq_list \in Seq(Ids) /\ IsInjective(irq_list)
  BY <1>1, <1>3 DEF TypeOK
<1>5. /\ irq_list' \in Seq(Ids) /\ IsInjective(irq_list')
      /\ Range(irq_list') = Range(irq_list) \cup {e}
      /\ \A f, o : \A s \in BOOLEAN : Behind(irq_list, f, o, s) => Behind(irq_list', f, o, s)
  BY <1>1, <1>4, Linked
<1>6. TypeOK'
  <2>1. dev_id' \in [Ids -> DevIds \cup {None}]
    BY <1>1, <1>3 DEF TypeOK
  <2> QED BY <1>2, <1>3, <1>5, <2>1 DEF TypeOK
<1>7. Live' = Live \cup {e}
  <2>1. \A f \in Ids : dev_id'[f] # None <=> dev_id[f] # None \/ f = e
    BY <1>1, <1>3, NoneAssumption DEF TypeOK
  <2> QED BY <1>4, <2>1 DEF Live
<1>8. Depth' = Depth /\ \A o : Calling(o)' = Calling(o)
  BY <1>2 DEF Depth, Calling, Top
<1>9. ASSUME NEW i \in 1 .. Depth PROVE WalkOK(stack[i])'
  <2>1. WalkOK(stack[i]) /\ (stack[i].ph = "handler") \in BOOLEAN
    BY <1>3 DEF WalksOK
  <2> QED BY <1>2, <1>5, <2>1, Zenon DEF WalkOK
<1>10. WalksOK'
  BY <1>2, <1>3, <1>8, <1>9 DEF WalksOK
<1>11. CountersOK'
  BY <1>2, <1>3, <1>8 DEF CountersOK
<1> QED BY <1>3, <1>5, <1>6, <1>7, <1>10, <1>11 DEF IInv

(* What a frame keeps when entries of E are no longer owed a visit.            *)
LEMMA ForgetIs ==
  ASSUME TypeOK, NEW E
  PROVE  /\ Forget(E) \in Seq(Frame) /\ Len(Forget(E)) = Depth
         /\ \A i \in 1 .. Depth :
              /\ Forget(E)[i].at = stack[i].at /\ Forget(E)[i].ph = stack[i].ph
              /\ Forget(E)[i].kind = stack[i].kind /\ Forget(E)[i].owed = stack[i].owed \ E
<1> DEFINE s == Forget(E)
<1>1. Depth \in Nat /\ \A i \in 1 .. Depth : stack[i] \in Frame
  BY ListFacts
<1>2. s = [i \in 1 .. Depth |-> [stack[i] EXCEPT !.owed = @ \ E]]
  BY DEF Forget
<1> HIDE DEF s
<1>3. ASSUME NEW i \in 1 .. Depth
      PROVE  /\ s[i] \in Frame
             /\ s[i].at = stack[i].at /\ s[i].ph = stack[i].ph
             /\ s[i].kind = stack[i].kind /\ s[i].owed = stack[i].owed \ E
  <2>1. s[i] = [stack[i] EXCEPT !.owed = @ \ E] /\ stack[i] \in Frame
    BY <1>1, <1>2
  <2> QED BY <2>1 DEF Frame
<1>4. s = [i \in 1 .. Depth |-> s[i]]
  BY <1>2
<1>5. s \in Seq(Frame) /\ Len(s) = Depth
  BY <1>1, <1>3, <1>4
<1> QED BY <1>3, <1>5 DEF s

LEMMA ForgetFacts ==
  ASSUME TypeOK, NEW E, stack' = Forget(E)
  PROVE  /\ stack' \in Seq(Frame) /\ Depth' = Depth
         /\ \A i \in 1 .. Depth :
              /\ stack'[i].at = stack[i].at /\ stack'[i].ph = stack[i].ph
              /\ stack'[i].kind = stack[i].kind /\ stack'[i].owed = stack[i].owed \ E
         /\ \A o : Calling(o)' = Calling(o)
<1>1. Depth \in Nat /\ (Depth > 0 => Depth \in 1 .. Depth /\ Top = stack[Depth])
  BY ListFacts
<1>2. stack' \in Seq(Frame) /\ Len(stack') = Depth
      /\ \A i \in 1 .. Depth :
           /\ stack'[i].at = stack[i].at /\ stack'[i].ph = stack[i].ph
           /\ stack'[i].kind = stack[i].kind /\ stack'[i].owed = stack[i].owed \ E
  BY ForgetIs
<1>3. Depth' = Depth /\ Top' = stack'[Depth]
  BY <1>2 DEF Depth, Top
<1>4. \A o : Calling(o)' = Calling(o)
  BY <1>1, <1>2, <1>3 DEF Calling
<1> QED BY <1>2, <1>3, <1>4

(* Entries are unlinked and released that no walk stands on.                   *)
LEMMA ReleaseOK ==
  ASSUME IInv, NEW E \in SUBSET Ids, Release(E), UNCHANGED xhci,
         \A e \in E : e \in Live => ~Walking(e),
         irq_list' \in Seq(Ids), IsInjective(irq_list'),
         Range(irq_list') = Range(irq_list) \ E,
         \A e, o : \A s \in BOOLEAN :
           e \notin E /\ o \notin E /\ Behind(irq_list, e, o, s) => Behind(irq_list', e, o, s)
  PROVE  IInv'
<1>1. TypeOK /\ Live = Range(irq_list) /\ WalksOK /\ CountersOK
  BY DEF IInv
<1>2. /\ dev_id' = [e \in Ids |-> IF e \in E THEN None ELSE dev_id[e]]
      /\ signals' = Cleared(signals, E) /\ count' = Cleared(count, E)
      /\ due' = Cleared(due, E) /\ served' = Cleared(served, E)
      /\ stack' = Forget(E)
  BY DEF Release
<1>3. /\ stack' \in Seq(Frame) /\ Depth' = Depth
      /\ \A i \in 1 .. Depth :
           /\ stack'[i].at = stack[i].at /\ stack'[i].ph = stack[i].ph
           /\ stack'[i].kind = stack[i].kind /\ stack'[i].owed = stack[i].owed \ E
      /\ \A o : Calling(o)' = Calling(o)
  BY <1>1, <1>2, ForgetFacts
<1>4. TypeOK'
  <2>1. dev_id' \in [Ids -> DevIds \cup {None}]
    BY <1>1, <1>2 DEF TypeOK
  <2>2. /\ signals' \in [Ids -> 0 .. MaxSignals] /\ count' \in [Ids -> 0 .. MaxSignals]
        /\ served' \in [Ids -> 0 .. MaxSignals] /\ due' \in [Ids -> Int]
    BY <1>1, <1>2, BoundAssumption DEF TypeOK, Cleared
  <2> QED BY <1>1, <1>3, <2>1, <2>2 DEF TypeOK
<1>5. Live' = Range(irq_list')
  <2>1. Live' = Live \ E
    BY <1>2 DEF Live
  <2> QED BY <1>1, <2>1
<1>6. \A i \in 1 .. Depth : stack[i] \in Frame /\ stack[i].owed \subseteq Ids
  BY <1>1, ListFacts DEF Frame
<1>7. \A i \in 1 .. Depth : stack[i].at # None => stack[i].at \notin E
  BY <1>1 DEF WalksOK, WalkOK, Walking
<1>8. None \notin E /\ None \notin Range(irq_list)
  BY <1>1, NoneAssumption DEF Live
<1>9. ASSUME NEW i \in 1 .. Depth PROVE WalkOK(stack[i])'
  <2>1. WalkOK(stack[i]) /\ (stack[i].ph = "handler") \in BOOLEAN
    BY <1>1 DEF WalksOK
  <2>2. ASSUME NEW o \in stack[i].owed \ E
        PROVE  Behind(irq_list', stack[i].at, o, stack[i].ph = "handler")
    <3>1. Behind(irq_list, stack[i].at, o, stack[i].ph = "handler")
      BY <2>1 DEF WalkOK
    <3>2. stack[i].at \notin E
      BY <1>7, <1>8
    <3> QED BY <2>1, <3>1, <3>2, Zenon
  <2> QED BY <1>3, <1>7, <2>1, <2>2 DEF WalkOK
<1>10. WalksOK'
  <2> SUFFICES ASSUME NEW i \in 1 .. Depth
               PROVE  /\ i < Depth => stack'[i].ph \in {"handler", "work"}
                      /\ \A o \in stack'[i].owed : signals'[o] > count'[o] \/ Calling(o)
    BY <1>3, <1>9 DEF WalksOK
  <2>1. i < Depth => stack'[i].ph \in {"handler", "work"}
    BY <1>1, <1>3 DEF WalksOK
  <2>2. ASSUME NEW o \in stack'[i].owed PROVE signals'[o] > count'[o] \/ Calling(o)
    <3>1. o \in stack[i].owed /\ o \notin E /\ o \in Ids
      BY <1>3, <1>6
    <3>2. signals'[o] = signals[o] /\ count'[o] = count[o]
      BY <1>2, <3>1 DEF Cleared
    <3> QED BY <1>1, <3>1, <3>2 DEF WalksOK
  <2> QED BY <2>1, <2>2
<1>11. CountersOK'
  <2> SUFFICES ASSUME NEW o \in Ids
               PROVE  /\ count'[o] <= signals'[o]
                      /\ count'[o] > served'[o] => Calling(o)
                      /\ due'[o] = IF Calling(o) THEN 1 ELSE 0
    BY <1>3 DEF CountersOK
  <2>1. CASE o \in E
    <3>1. signals'[o] = 0 /\ count'[o] = 0 /\ served'[o] = 0 /\ due'[o] = 0
      BY <1>2, <2>1 DEF Cleared
    <3>2. ~Calling(o)
      <4>1. Depth > 0 => Depth \in 1 .. Depth /\ Top = stack[Depth]
        BY <1>1, ListFacts
      <4> QED BY <1>7, <2>1, <4>1, NoneAssumption DEF Calling
    <3> QED BY <3>1, <3>2
  <2>2. CASE o \notin E
    <3>1. signals'[o] = signals[o] /\ count'[o] = count[o] /\ served'[o] = served[o] /\ due'[o] = due[o]
      BY <1>2, <2>2 DEF Cleared
    <3> QED BY <1>1, <3>1 DEF CountersOK
  <2> QED BY <2>1, <2>2
<1> QED BY <1>4, <1>5, <1>10, <1>11 DEF IInv

LEMMA FreeIrqOK == ASSUME IInv, NEW d \in DevIds, FreeIrq(d) PROVE IInv'
<1>1. PICK i \in 1 .. Len(irq_list) : /\ ~Walking(irq_list[i])
                                      /\ irq_list' = Unlink(irq_list, i)
                                      /\ Release({irq_list[i]})
  BY Zenon DEF FreeIrq
<1>2. UNCHANGED xhci
  BY DEF FreeIrq
<1>3. irq_list \in Seq(Ids) /\ IsInjective(irq_list) /\ i \in DOMAIN irq_list /\ irq_list[i] \in Ids
  BY <1>1 DEF IInv, TypeOK
<1>4. /\ irq_list' \in Seq(Ids) /\ IsInjective(irq_list')
      /\ Range(irq_list') = Range(irq_list) \ {irq_list[i]}
      /\ \A e, o : \A s \in BOOLEAN :
           e # irq_list[i] /\ o # irq_list[i] /\ Behind(irq_list, e, o, s) => Behind(irq_list', e, o, s)
  BY <1>1, <1>3, Unlinked
<1> QED BY <1>1, <1>2, <1>3, <1>4, ReleaseOK

LEMMA FreeAllIrqsOK == ASSUME IInv, FreeAllIrqs PROVE IInv'
<1>1. /\ irq_list' = <<>> /\ Release(Ids) /\ UNCHANGED xhci /\ \A e \in Live : ~Walking(e)
  BY DEF FreeAllIrqs
<1>2. Range(irq_list) \subseteq Ids
  BY ListFacts DEF IInv, Live
<1>3. irq_list' \in Seq(Ids) /\ IsInjective(irq_list') /\ Range(irq_list') = Range(irq_list) \ Ids
  BY <1>1, <1>2 DEF IsInjective, Range
<1>4. \A e, o : \A s \in BOOLEAN : Behind(irq_list, e, o, s) => e \in Ids
  BY ListFacts DEF IInv, Behind
<1> QED BY <1>1, <1>3, <1>4, ReleaseOK

LEMMA XhciEventOK == ASSUME IInv, XhciEvent PROVE IInv'
<1>1. xhci' = TRUE /\ UNCHANGED <<irq_list, dev_id, signals, count, due, served, stack>>
  BY DEF XhciEvent, regs
<1>2. TypeOK'
  BY <1>1 DEF IInv, TypeOK
<1>3. (Live = Range(irq_list))' /\ WalksOK' /\ CountersOK'
  BY <1>1 DEF IInv, Live, WalksOK, WalkOK, CountersOK, Calling, Depth, Top
<1> QED BY <1>2, <1>3 DEF IInv

(* A frame pushed on the stack, and the innermost one replaced or popped.      *)
LEMMA Pushed ==
  ASSUME TypeOK, NEW f \in Frame, stack' = Append(stack, f)
  PROVE  /\ stack' \in Seq(Frame) /\ Depth' = Depth + 1 /\ Top' = f /\ stack'[Depth + 1] = f
         /\ \A i \in 1 .. Depth : stack'[i] = stack[i]
<1>1. stack \in Seq(Frame) /\ Depth \in Nat
  BY ListFacts
<1>2. stack' \in Seq(Frame) /\ Len(stack') = Len(stack) + 1 /\ stack'[Len(stack) + 1] = f
      /\ \A i \in 1 .. Len(stack) : stack'[i] = stack[i]
  BY <1>1
<1> QED BY <1>2 DEF Depth, Top

LEMMA Replaced ==
  ASSUME TypeOK, stack # <<>>, NEW f \in Frame, stack' = [stack EXCEPT ![Depth] = f]
  PROVE  /\ stack' \in Seq(Frame) /\ Depth' = Depth /\ Depth \in 1 .. Depth /\ Top' = f
         /\ stack'[Depth] = f /\ \A i \in 1 .. Depth : i # Depth => stack'[i] = stack[i]
<1>1. stack \in Seq(Frame) /\ Len(stack) \in Nat
  BY DEF TypeOK
<1>2. Len(stack) # 0
  BY <1>1
<1>3. Depth = Len(stack) /\ stack' = [stack EXCEPT ![Len(stack)] = f]
  BY DEF Depth
<1>4. stack' \in Seq(Frame) /\ Len(stack') = Len(stack) /\ stack'[Len(stack)] = f
      /\ \A i \in 1 .. Len(stack) : i # Len(stack) => stack'[i] = stack[i]
  BY <1>1, <1>2, <1>3
<1>5. Depth' = Len(stack') /\ Top' = stack'[Len(stack')]
  BY DEF Depth, Top
<1> QED BY <1>1, <1>2, <1>3, <1>4, <1>5

LEMMA Popped ==
  ASSUME NEW s \in Seq(Frame), s # <<>>, stack' = Pop(s)
  PROVE  /\ stack' \in Seq(Frame) /\ Depth' = Len(s) - 1 /\ Len(s) \in Nat \ {0}
         /\ \A i \in 1 .. (Len(s) - 1) : stack'[i] = s[i]
<1>1. Len(s) \in Nat /\ Len(s) # 0 /\ Len(s) - 1 \in 0 .. Len(s)
  OBVIOUS
<1>2. stack' = SubSeq(s, 1, Len(s) - 1)
  BY DEF Pop
<1>3. stack' \in Seq(Frame) /\ Len(stack') = Len(s) - 1
  <2>1. \A m \in 0 .. Len(s) : SubSeq(s, 1, m) \in Seq(Frame) /\ Len(SubSeq(s, 1, m)) = m
    BY <1>1
  <2>2. SubSeq(s, 1, Len(s) - 1) \in Seq(Frame) /\ Len(SubSeq(s, 1, Len(s) - 1)) = Len(s) - 1
    BY <1>1, <2>1, Zenon
  <2> QED BY <1>2, <2>1, <2>2
<1>4. \A i \in 1 .. (Len(s) - 1) : stack'[i] = s[i]
  BY <1>1, <1>2
<1> QED BY <1>1, <1>3, <1>4 DEF Depth

(* No walk owes a visit to an entry out of reach, and those it owes are linked.*)
LEMMA OwedLinked ==
  ASSUME IInv, NEW i \in 1 .. Depth
  PROVE  /\ stack[i].owed \subseteq Ids /\ stack[i] \in Frame
         /\ stack[i].at = None => stack[i].owed = {}
<1>1. TypeOK /\ WalkOK(stack[i])
  BY DEF IInv, WalksOK
<1>2. \A o \in stack[i].owed : \E a \in DOMAIN irq_list : irq_list[a] = stack[i].at
  BY <1>1 DEF WalkOK, Behind
<1> QED BY <1>1, <1>2, ListFacts DEF Frame

LEMMA FinishOK == ASSUME IInv, Finish PROVE IInv'
<1>1. /\ stack # <<>> /\ Top.ph \in {"work", "done"} /\ stack' = Pop(stack)
      /\ UNCHANGED <<irq_list, dev_id, signals, count, due, served, xhci>>
  BY DEF Finish, regs
<1>2. TypeOK /\ Live = Range(irq_list) /\ WalksOK /\ CountersOK /\ stack \in Seq(Frame)
  BY DEF IInv, TypeOK
<1>3. /\ stack' \in Seq(Frame) /\ Depth' = Depth - 1 /\ Depth \in Nat \ {0}
      /\ \A i \in 1 .. (Depth - 1) : stack'[i] = stack[i]
  BY <1>1, <1>2, Popped DEF Depth
<1>4. Live' = Range(irq_list)' /\ TypeOK'
  BY <1>1, <1>2, <1>3 DEF Live, TypeOK
<1>5. \A o : ~Calling(o)
  BY <1>1 DEF Calling
<1>6. \A o : ~Calling(o)'
  <2>1. Depth' > 0 => Top' = stack[Depth - 1] /\ Depth - 1 \in 1 .. Depth
    BY <1>3 DEF Depth, Top
  <2>2. Depth' > 0 => stack[Depth - 1].ph \in {"handler", "work"}
    BY <1>2, <1>3, <2>1 DEF WalksOK
  <2> QED BY <2>1, <2>2 DEF Calling
<1>7. ASSUME NEW i \in 1 .. (Depth - 1)
      PROVE  /\ WalkOK(stack[i])' /\ stack'[i].ph \in {"handler", "work"}
             /\ \A o \in stack'[i].owed : signals'[o] > count'[o]
  <2>1. stack'[i] = stack[i] /\ i \in 1 .. Depth /\ i < Depth
    BY <1>3
  <2>2. WalkOK(stack[i]) /\ stack[i].ph \in {"handler", "work"}
        /\ \A o \in stack[i].owed : signals[o] > count[o] \/ Calling(o)
    BY <1>2, <2>1 DEF WalksOK
  <2>3. WalkOK(stack[i])'
    BY <1>1, <2>1, <2>2 DEF WalkOK
  <2> QED BY <1>1, <1>5, <2>1, <2>2, <2>3
<1>8. WalksOK'
  BY <1>3, <1>7 DEF WalksOK
<1>9. CountersOK'
  BY <1>1, <1>2, <1>5, <1>6 DEF CountersOK
<1> QED BY <1>4, <1>8, <1>9 DEF IInv

(* The innermost walk moves on, with counters that still account for visits.   *)
LEMMA WalkMoves ==
  ASSUME IInv, stack # <<>>, NEW f \in Frame, stack' = [stack EXCEPT ![Depth] = f],
         UNCHANGED <<irq_list, dev_id>>, WalkOK(f),
         \A o \in f.owed : signals'[o] > count'[o] \/ Calling(o)',
         \A i \in 1 .. Depth : \A o \in stack[i].owed : i # Depth => signals'[o] > count'[o] \/ Calling(o)'
  PROVE  WalksOK' /\ Live' = Range(irq_list')
<1>1. TypeOK /\ Live = Range(irq_list) /\ WalksOK
  BY DEF IInv
<1>2. /\ stack' \in Seq(Frame) /\ Depth' = Depth /\ Depth \in 1 .. Depth
      /\ stack'[Depth] = f /\ \A i \in 1 .. Depth : i # Depth => stack'[i] = stack[i]
  BY <1>1, Replaced, Zenon
<1>3. Live' = Range(irq_list')
  BY <1>1 DEF Live
<1>4. Depth \in Nat
  BY <1>1, ListFacts
<1>5. ASSUME NEW i \in 1 .. Depth
      PROVE  /\ WalkOK(stack[i])' /\ (i < Depth => stack'[i].ph \in {"handler", "work"})
             /\ \A o \in stack'[i].owed : signals'[o] > count'[o] \/ Calling(o)'
  <2>1. CASE i = Depth
    <3>1. stack'[i] = f /\ ~ (i < Depth)
      BY <1>2, <1>4, <2>1
    <3>2. WalkOK(stack[i])'
      BY <3>1 DEF WalkOK
    <3> QED BY <3>1, <3>2
  <2>2. CASE i # Depth
    <3>1. stack'[i] = stack[i] /\ i < Depth
      BY <1>2, <1>4, <2>2
    <3>2. WalkOK(stack[i]) /\ stack[i].ph \in {"handler", "work"}
      BY <1>1, <3>1 DEF WalksOK
    <3>3. WalkOK(stack[i])'
      BY <3>1, <3>2 DEF WalkOK
    <3> QED BY <2>2, <3>1, <3>2, <3>3
  <2> QED BY <2>1, <2>2
<1>6. WalksOK'
  BY <1>2, <1>5 DEF WalksOK
<1> QED BY <1>3, <1>6

LEMMA ReturnOK == ASSUME IInv, Return PROVE IInv'
<1> DEFINE g == Onward(Top)
<1>1. /\ stack # <<>> /\ Top.ph = "handler" /\ stack' = [stack EXCEPT ![Depth] = g]
      /\ xhci' = (xhci /\ ~Acked(g))
      /\ UNCHANGED <<irq_list, dev_id, signals, count, due, served>>
  BY DEF Return, regs
<1>2. TypeOK /\ WalksOK /\ CountersOK
  BY DEF IInv
<1>3. Depth \in 1 .. Depth /\ Top = stack[Depth] /\ Top \in Frame
  <2>1. Depth # 0 /\ Depth \in Nat
    BY <1>1, <1>2, ListFacts DEF Depth
  <2> QED BY <1>2, <2>1, ListFacts
<1>4. WalkOK(Top) /\ \A o \in Top.owed : signals[o] > count[o] \/ Calling(o)
  BY <1>2, <1>3 DEF WalksOK
<1>5. /\ Top.at \in Range(irq_list) /\ (Top.owed # {} => Top.kind = "any")
      /\ \A o \in Top.owed : Behind(irq_list, Top.at, o, TRUE)
  <2>1. (Top.ph = "handler") = TRUE
    BY <1>1
  <2> QED BY <1>1, <1>4, <2>1, Zenon DEF WalkOK
<1>6. g \in Frame /\ WalkOK(g) /\ g.owed = Top.owed /\ g.ph # "call"
  BY <1>2, <1>3, <1>5, OnwardOK, Zenon
<1> HIDE DEF g
<1>7. /\ stack' \in Seq(Frame) /\ Depth' = Depth /\ Top' = g
  BY <1>1, <1>2, <1>6, Replaced, Zenon
<1>8. \A o : ~Calling(o) /\ ~Calling(o)'
  BY <1>1, <1>6, <1>7 DEF Calling
<1>9. WalksOK' /\ Live' = Range(irq_list')
  <2>1. \A o \in g.owed : signals'[o] > count'[o] \/ Calling(o)'
    BY <1>1, <1>4, <1>6, <1>8
  <2>2. \A i \in 1 .. Depth : \A o \in stack[i].owed : i # Depth => signals'[o] > count'[o] \/ Calling(o)'
    BY <1>1, <1>2, <1>8 DEF WalksOK
  <2> QED BY <1>1, <1>6, <2>1, <2>2, WalkMoves, Zenon
<1>10. xhci' \in BOOLEAN
  BY <1>1
<1>11. TypeOK'
  BY <1>1, <1>2, <1>7, <1>10 DEF TypeOK
<1>12. CountersOK'
  BY <1>1, <1>2, <1>8 DEF CountersOK
<1> QED BY <1>9, <1>11, <1>12 DEF IInv

(* The innermost walk, when there is one.                                      *)
LEMMA Innermost ==
  ASSUME IInv, stack # <<>>
  PROVE  /\ Depth \in 1 .. Depth /\ Depth \in Nat /\ Top = stack[Depth] /\ Top \in Frame
         /\ WalkOK(Top) /\ Top.at \in Ids \cup {None} /\ Top.owed \subseteq Ids
         /\ \A o \in Top.owed : signals[o] > count[o] \/ Calling(o)
<1>1. TypeOK /\ WalksOK
  BY DEF IInv
<1>2. Depth # 0 /\ Depth \in Nat
  BY <1>1, ListFacts DEF Depth
<1>3. Depth \in 1 .. Depth /\ Top = stack[Depth] /\ Top \in Frame
  BY <1>1, <1>2, ListFacts
<1> QED BY <1>1, <1>2, <1>3 DEF WalksOK, Frame

(* What is not before the cursor, and is not the cursor, is behind it.         *)
LEMMA NotCursor ==
  ASSUME TypeOK, NEW e, NEW o, NEW s \in BOOLEAN, Behind(irq_list, e, o, s), o # e
  PROVE  Behind(irq_list, e, o, TRUE)
<1>1. PICK a \in DOMAIN irq_list, b \in DOMAIN irq_list :
        irq_list[a] = e /\ irq_list[b] = o /\ (IF s THEN a < b ELSE a <= b)
  BY DEF Behind
<1>2. a # b /\ DOMAIN irq_list \subseteq Nat
  BY <1>1, ListFacts
<1>3. a < b
  BY <1>1, <1>2
<1> QED BY <1>1, <1>3 DEF Behind

LEMMA CallOK == ASSUME IInv, Call PROVE IInv'
<1> DEFINE e == Top.at
<1>1. /\ stack # <<>> /\ Top.ph = "call"
      /\ due' = [due EXCEPT ![e] = due[e] - 1]
      /\ served' = [served EXCEPT ![e] = signals[e]]
      /\ stack' = [i \in 1 .. Depth |->
                     [stack[i] EXCEPT !.owed = @ \ {e},
                                      !.ph = IF i = Depth THEN "handler" ELSE @]]
      /\ UNCHANGED <<irq_list, dev_id, signals, count, xhci>>
  BY Zenon DEF Call, regs
<1>2. TypeOK /\ Live = Range(irq_list) /\ WalksOK /\ CountersOK
  BY Zenon DEF IInv
<1>3. Depth \in 1 .. Depth /\ Depth \in Nat /\ Top = stack[Depth] /\ WalkOK(Top)
  BY <1>1, Innermost, Zenon
<1>4. e \in Range(irq_list) /\ e \in Ids
  <2>1. e \in Range(irq_list)
    BY <1>1, <1>3, Zenon DEF WalkOK
  <2> QED BY <1>2, <2>1, Zenon DEF Live
<1> HIDE DEF e
<1>5. ASSUME NEW i \in 1 .. Depth
      PROVE  /\ stack'[i] \in Frame
             /\ stack'[i].at = stack[i].at /\ stack'[i].kind = stack[i].kind
             /\ stack'[i].ph = (IF i = Depth THEN "handler" ELSE stack[i].ph)
             /\ stack'[i].owed = stack[i].owed \ {e}
  <2>1. /\ stack[i] \in Frame
        /\ stack'[i] = [stack[i] EXCEPT !.owed = @ \ {e},
                                        !.ph = IF i = Depth THEN "handler" ELSE @]
    BY <1>1, <1>2, ListFacts, Zenon
  <2>2. (IF i = Depth THEN "handler" ELSE stack[i].ph) \in Phases
    BY <2>1 DEF Frame, Phases
  <2> QED BY <2>1, <2>2, Zenon DEF Frame
<1>6. stack' \in Seq(Frame) /\ Depth' = Depth /\ Top' = stack'[Depth]
  <2>1. stack' = [i \in 1 .. Depth |-> stack'[i]]
    BY <1>1, Zenon
  <2>2. stack' \in Seq(Frame) /\ Len(stack') = Depth
    BY <1>3, <1>5, <2>1
  <2> QED BY <2>2 DEF Depth, Top
<1>7. (\A o : Calling(o) <=> o = e) /\ \A o : ~Calling(o)'
  <2>1. Depth > 0
    BY <1>3
  <2>2. Top'.ph = "handler"
    BY <1>3, <1>5, <1>6, Zenon
  <2>3. \A o : Calling(o) <=> o = e
    BY <1>1, <2>1, Zenon DEF Calling, e
  <2>4. \A o : ~Calling(o)'
    BY <2>2, Zenon DEF Calling
  <2> QED BY <2>3, <2>4
<1>8. TypeOK'
  <2>1. served' \in [Ids -> 0 .. MaxSignals]
    BY <1>1, <1>2, <1>4, Zenon DEF TypeOK
  <2>2. due[e] - 1 \in Int /\ due \in [Ids -> Int]
    BY <1>2, <1>4 DEF TypeOK
  <2>3. due' \in [Ids -> Int]
    BY <1>1, <2>2, Zenon
  <2> QED BY <1>1, <1>2, <1>6, <2>1, <2>3, Zenon DEF TypeOK
<1>9. Live' = Range(irq_list)'
  BY <1>1, <1>2, Zenon DEF Live
<1>10. ASSUME NEW i \in 1 .. Depth
       PROVE  /\ WalkOK(stack[i])' /\ (i < Depth => stack'[i].ph \in {"handler", "work"})
              /\ \A o \in stack'[i].owed : signals'[o] > count'[o]
  <2>1. /\ WalkOK(stack[i]) /\ (i < Depth => stack[i].ph \in {"handler", "work"})
        /\ \A o \in stack[i].owed : signals[o] > count[o] \/ Calling(o)
    BY <1>2, ZenonT(40) DEF WalksOK
  <2>2. \A o \in stack'[i].owed : signals'[o] > count'[o]
    BY <1>1, <1>5, <1>7, <2>1, ZenonT(40)
  <2>3. WalkOK(stack[i])'
    <3>1. CASE i = Depth
      <4>1. stack[i].at = e /\ e # None /\ stack[i].ph = "call"
        BY <1>1, <1>2, <1>3, <1>4, <3>1, NoneAssumption, Zenon DEF e
      <4>2. ASSUME NEW o \in stack[i].owed \ {e} PROVE Behind(irq_list, e, o, TRUE)
        <5>1. Behind(irq_list, e, o, stack[i].ph = "handler") /\ (stack[i].ph = "handler") \in BOOLEAN
          BY <2>1, <4>1 DEF WalkOK
        <5> QED BY <1>2, <5>1, NotCursor, Zenon
      <4>3. stack'[i].ph = "handler" /\ (stack'[i].ph = "handler") = TRUE
        BY <1>5, <3>1
      <4> QED BY <1>1, <1>4, <1>5, <2>1, <4>1, <4>2, <4>3, ZenonT(40) DEF WalkOK
    <3>2. CASE i # Depth
      BY <1>1, <1>5, <2>1, <3>2, ZenonT(40) DEF WalkOK
    <3> QED BY <3>1, <3>2
  <2>4. i < Depth => stack'[i].ph \in {"handler", "work"}
    BY <1>3, <1>5, <2>1
  <2> QED BY <2>2, <2>3, <2>4
<1>11. WalksOK'
  BY <1>6, <1>10 DEF WalksOK
<1>12. CountersOK'
  <2> SUFFICES ASSUME NEW o \in Ids
               PROVE  count'[o] <= signals'[o] /\ ~(count'[o] > served'[o]) /\ due'[o] = 0
    BY <1>7 DEF CountersOK
  <2>1. /\ count[o] <= signals[o] /\ (count[o] > served[o] => Calling(o))
        /\ due[o] = IF Calling(o) THEN 1 ELSE 0
    BY <1>2 DEF CountersOK
  <2>2. count[o] \in Int /\ signals[o] \in Int
    BY <1>2 DEF TypeOK
  <2>3. CASE o = e
    <3>1. served'[o] = signals[o] /\ due'[o] = due[o] - 1
      BY <1>1, <1>2, <2>3, Zenon DEF TypeOK
    <3>2. due[o] = 1
      BY <1>7, <2>1, <2>3
    <3>3. due'[o] = 0
      BY <3>1, <3>2
    <3>4. count'[o] = count[o] /\ signals'[o] = signals[o]
      BY <1>1, Zenon
    <3> QED BY <2>1, <2>2, <3>1, <3>3, <3>4
  <2>4. CASE o # e
    <3>1. served'[o] = served[o] /\ due'[o] = due[o]
      BY <1>1, <1>2, <2>4, Zenon DEF TypeOK
    <3> QED BY <1>1, <1>7, <2>1, <2>4, <3>1, Zenon
  <2> QED BY <2>3, <2>4
<1> QED BY <1>8, <1>9, <1>11, <1>12, Zenon DEF IInv

LEMMA BeginOK ==
  ASSUME IInv, NEW kind \in Kinds, NEW d \in DevIds \cup {None}, Begin(kind, d)
  PROVE  IInv'
<1> DEFINE w == IF kind = "any" THEN Unseen ELSE {}
           f == [kind |-> kind, at |-> None, target |-> d, ph |-> "work",
                 handled |-> FALSE, saw_xhci |-> FALSE, owed |-> w]
           e == FirstVisited(f, irq_list)
           ph == IF e = None THEN "work" ELSE IF kind = "trigger" THEN "call" ELSE "wait"
           g == [f EXCEPT !.at = e, !.ph = ph]
<1>1. /\ DriverRuns /\ (e # None \/ kind = "any") /\ stack' = Append(stack, g)
      /\ due' = (IF kind = "trigger" THEN [due EXCEPT ![e] = due[e] + 1] ELSE due)
      /\ UNCHANGED <<irq_list, dev_id, signals, count, served, xhci>>
  BY DEF Begin, regs
<1>2. TypeOK /\ Live = Range(irq_list) /\ WalksOK /\ CountersOK
  BY DEF IInv
<1>3. /\ irq_list \in Seq(Ids) /\ Len(irq_list) \in Nat /\ DOMAIN irq_list = 1 .. Len(irq_list)
      /\ Depth \in Nat /\ (Depth > 0 => Depth \in 1 .. Depth /\ Top = stack[Depth])
  BY <1>2, ListFacts
<1>4. /\ e # None => \E i \in DOMAIN irq_list : irq_list[i] = e
      /\ kind = "any" => e = IF irq_list = <<>> THEN None ELSE irq_list[1]
  <2>1. f.kind = kind
    OBVIOUS
  <2> HIDE DEF f
  <2> QED BY <1>3, <2>1, FirstVisitedIn
<1>5. Unseen \subseteq Range(irq_list) /\ Unseen \subseteq Ids
  BY <1>2 DEF Unseen, Live
<1>6. e # None => e \in Range(irq_list) /\ e \in Ids
  <2> HIDE DEF e
  <2>1. e # None => e \in Range(irq_list)
    BY <1>4 DEF Range
  <2> QED BY <1>2, <2>1 DEF Live
<1>7. f \in Frame /\ f.kind = kind /\ f.owed = w
  BY <1>5 DEF Frame, Phases
<1>8. ph \in {"work", "call", "wait"} /\ (e = None <=> ph = "work") /\ (ph = "call" <=> e # None /\ kind = "trigger")
  <2> HIDE DEF e
  <2> QED OBVIOUS
<1> HIDE DEF e, ph, f
<1>9. /\ g \in Frame /\ g.at = e /\ g.ph = ph /\ g.kind = kind
      /\ g.owed = IF kind = "any" THEN Unseen ELSE {}
  <2>1. e \in Ids \cup {None} /\ ph \in Phases
    BY <1>6, <1>8 DEF Phases
  <2> HIDE DEF w
  <2>2. g \in Frame /\ g.at = e /\ g.ph = ph /\ g.kind = kind /\ g.owed = w
    BY <1>7, <2>1, Zenon DEF Frame
  <2> QED BY <2>2 DEF w
<1> HIDE DEF g
<1>10. /\ stack' \in Seq(Frame) /\ Depth' = Depth + 1 /\ Top' = g /\ stack'[Depth + 1] = g
       /\ \A i \in 1 .. Depth : stack'[i] = stack[i]
  BY <1>1, <1>2, <1>9, Pushed, Zenon
<1>11. \A o : ~Calling(o)
  BY <1>1, <1>3 DEF Calling, DriverRuns
<1>12. \A o : Calling(o)' <=> o = e /\ ph = "call"
  BY <1>3, <1>9, <1>10 DEF Calling
<1>13. TypeOK'
  <2>1. due' \in [Ids -> Int]
    <3>1. CASE kind = "trigger"
      <4>1. e \in Ids
        BY <1>1, <1>6, <3>1
      <4>2. due \in [Ids -> Int] /\ due[e] + 1 \in Int
        BY <1>2, <4>1 DEF TypeOK
      <4> QED BY <1>1, <3>1, <4>2, Zenon
    <3>2. CASE kind # "trigger"
      BY <1>1, <1>2, <3>2 DEF TypeOK
    <3> QED BY <3>1, <3>2
  <2> QED BY <1>1, <1>2, <1>10, <2>1, Zenon DEF TypeOK
<1>14. Live' = Range(irq_list)'
  BY <1>1, <1>2 DEF Live
<1>15. WalkOK(g) /\ \A o \in g.owed : signals[o] > count[o]
  <2>1. ASSUME NEW o \in g.owed PROVE Behind(irq_list, e, o, g.ph = "handler") /\ signals[o] > count[o]
    <3>1. kind = "any" /\ o \in Unseen
      BY <1>9, <2>1
    <3>2. PICK b \in DOMAIN irq_list : irq_list[b] = o
      BY <1>5, <3>1 DEF Range
    <3>3. irq_list # <<>> /\ 1 \in DOMAIN irq_list /\ 1 <= b
      BY <1>3, <3>2
    <3>4. e = irq_list[1] /\ (g.ph = "handler") = FALSE
      BY <1>4, <1>8, <1>9, <3>1, <3>3
    <3>5. Behind(irq_list, e, o, FALSE)
      BY <3>2, <3>3, <3>4 DEF Behind
    <3> QED BY <3>1, <3>4, <3>5, Zenon DEF Unseen
  <2>2. (g.at = None <=> g.ph \in {"work", "done"}) /\ (g.at # None => g.at \in Range(irq_list))
    BY <1>6, <1>8, <1>9
  <2> QED BY <1>9, <2>1, <2>2 DEF WalkOK
<1>16. ASSUME NEW i \in 1 .. Depth + 1
       PROVE  /\ WalkOK(stack[i])' /\ (i < Depth + 1 => stack'[i].ph \in {"handler", "work"})
              /\ \A o \in stack'[i].owed : signals'[o] > count'[o]
  <2>1. CASE i = Depth + 1
    <3>1. stack'[i] = g /\ ~ (i < Depth + 1)
      BY <1>3, <1>10, <2>1
    <3>2. WalkOK(stack[i])'
      BY <1>1, <1>15, <3>1 DEF WalkOK
    <3> QED BY <1>1, <1>15, <3>1, <3>2
  <2>2. CASE i # Depth + 1
    <3>1. i \in 1 .. Depth /\ stack'[i] = stack[i]
      BY <1>3, <1>10, <2>2
    <3>2. /\ WalkOK(stack[i]) /\ (i < Depth => stack[i].ph \in {"handler", "work"})
          /\ \A o \in stack[i].owed : signals[o] > count[o]
      BY <1>2, <1>11, <3>1 DEF WalksOK
    <3>3. stack[i].ph \in {"handler", "work"}
      <4>1. i < Depth \/ i = Depth
        BY <1>3, <3>1
      <4> QED BY <1>1, <3>1, <3>2, <4>1 DEF DriverRuns
    <3>4. WalkOK(stack[i])'
      BY <1>1, <3>1, <3>2 DEF WalkOK
    <3> QED BY <1>1, <3>1, <3>2, <3>3, <3>4
  <2> QED BY <2>1, <2>2
<1>17. WalksOK'
  BY <1>10, <1>16 DEF WalksOK
<1>18. CountersOK'
  <2> SUFFICES ASSUME NEW o \in Ids
               PROVE  /\ count'[o] <= signals'[o] /\ (count'[o] > served'[o] => Calling(o)')
                      /\ due'[o] = IF Calling(o)' THEN 1 ELSE 0
    BY DEF CountersOK
  <2>1. count[o] <= signals[o] /\ ~(count[o] > served[o]) /\ due[o] = 0
    BY <1>2, <1>11 DEF CountersOK
  <2>2. due'[o] = IF Calling(o)' THEN 1 ELSE 0
    <3>1. CASE kind = "trigger"
      <4>1. ph = "call" /\ e \in Ids
        BY <1>1, <1>6, <1>8, <3>1
      <4>2. due'[o] = IF o = e THEN due[e] + 1 ELSE due[o]
        BY <1>1, <1>2, <3>1 DEF TypeOK
      <4>3. o = e => due'[o] = 1
        BY <2>1, <4>2
      <4> QED BY <1>12, <2>1, <4>1, <4>2, <4>3, Zenon
    <3>2. CASE kind # "trigger"
      BY <1>1, <1>8, <1>12, <2>1, <3>2, Zenon
    <3> QED BY <3>1, <3>2
  <2> QED BY <1>1, <2>1, <2>2
<1> QED BY <1>13, <1>14, <1>17, <1>18 DEF IInv

(* The walk that takes the interrupt for its caller returns after one poll.    *)
LEMMA WaitSignalOK == ASSUME IInv, Wait, Top.kind = "signal" PROVE IInv'
<1> DEFINE e == Top.at
           ok == signals[e] > count[e]
           s == IF ok THEN Forget({e}) ELSE stack
<1>1. /\ stack # <<>> /\ Top.ph = "wait"
      /\ count' = [count EXCEPT ![e] = signals[e]]
      /\ due' = [due EXCEPT ![e] = due[e] + 0 - PolledRuns(e)]
      /\ served' = (IF ok THEN [served EXCEPT ![e] = signals[e]] ELSE served)
      /\ stack' = Pop(s)
      /\ xhci' = (xhci /\ TRUE)
      /\ UNCHANGED <<irq_list, dev_id, signals>>
  BY DEF Wait, Runs, regs
<1>2. TypeOK /\ Live = Range(irq_list) /\ WalksOK /\ CountersOK
  BY DEF IInv
<1>3. Depth \in 1 .. Depth /\ Depth \in Nat /\ Top = stack[Depth] /\ WalkOK(Top)
  BY <1>1, Innermost
<1>4. e \in Range(irq_list) /\ e \in Ids
  <2>1. e \in Range(irq_list)
    BY <1>1, <1>3 DEF WalkOK
  <2> QED BY <1>2, <2>1 DEF Live
<1>5. \A o : ~Calling(o)
  BY <1>1 DEF Calling
<1>6. \A o \in Ids : /\ signals[o] \in 0 .. MaxSignals /\ count[o] \in 0 .. MaxSignals
                     /\ served[o] \in 0 .. MaxSignals /\ due[o] = 0
                     /\ count[o] <= signals[o] /\ ~(count[o] > served[o])
  BY <1>2, <1>5 DEF TypeOK, CountersOK
<1> HIDE DEF e
<1>7. s \in Seq(Frame) /\ Len(s) = Depth /\ s # <<>>
      /\ \A i \in 1 .. Depth :
           /\ s[i].at = stack[i].at /\ s[i].ph = stack[i].ph /\ s[i].kind = stack[i].kind
           /\ s[i].owed = IF ok THEN stack[i].owed \ {e} ELSE stack[i].owed
  <2>1. CASE ok
    <3>1. s \in Seq(Frame) /\ Len(s) = Depth
          /\ \A i \in 1 .. Depth :
               /\ s[i].at = stack[i].at /\ s[i].ph = stack[i].ph /\ s[i].kind = stack[i].kind
               /\ s[i].owed = stack[i].owed \ {e}
      BY <1>2, <2>1, ForgetIs
    <3> HIDE DEF s
    <3>2. s # <<>>
      BY <1>3, <3>1
    <3> QED BY <2>1, <3>1, <3>2
  <2>2. CASE ~ok
    BY <1>1, <1>2, <2>2 DEF TypeOK, Depth
  <2> QED BY <2>1, <2>2, Zenon
<1> HIDE DEF s
<1>8. /\ stack' \in Seq(Frame) /\ Depth' = Depth - 1
      /\ \A i \in 1 .. (Depth - 1) : stack'[i] = s[i]
  BY <1>1, <1>7, Popped, Zenon
<1>9. /\ count' \in [Ids -> 0 .. MaxSignals] /\ served' \in [Ids -> 0 .. MaxSignals]
      /\ due' = due
      /\ \A o \in Ids : /\ count'[o] = IF o = e THEN signals[o] ELSE count[o]
                        /\ served'[o] = IF o = e /\ ok THEN signals[o] ELSE served[o]
  <2>1. PolledRuns(e) = 0
    BY DEF PolledRuns, Parked
  <2>2. due' = due
    <3>1. due \in [Ids -> Int] /\ due[e] + 0 - PolledRuns(e) = due[e]
      BY <1>2, <1>4, <2>1 DEF TypeOK
    <3> QED BY <1>1, <3>1
  <2> QED BY <1>1, <1>2, <1>4, <1>6, <2>2 DEF TypeOK
<1>10. TypeOK'
  BY <1>1, <1>2, <1>8, <1>9 DEF TypeOK
<1>11. Live' = Range(irq_list)'
  BY <1>1, <1>2 DEF Live
<1>12. ASSUME NEW i \in 1 .. (Depth - 1)
       PROVE  /\ WalkOK(stack[i])' /\ stack'[i].ph \in {"handler", "work"}
              /\ \A o \in stack'[i].owed : signals'[o] > count'[o]
  <2>1. i \in 1 .. Depth /\ i < Depth /\ stack'[i] = s[i]
    BY <1>3, <1>8
  <2>2. /\ WalkOK(stack[i]) /\ stack[i].ph \in {"handler", "work"}
        /\ \A o \in stack[i].owed : signals[o] > count[o]
    BY <1>2, <1>5, <2>1 DEF WalksOK
  <2>3. stack[i].owed \subseteq Ids
    BY <1>2, <2>1, OwedLinked
  <2>4. /\ stack'[i].at = stack[i].at /\ stack'[i].ph = stack[i].ph /\ stack'[i].kind = stack[i].kind
        /\ stack'[i].owed = IF ok THEN stack[i].owed \ {e} ELSE stack[i].owed
    BY <1>7, <2>1, Zenon
  <2>5. ASSUME NEW o \in stack'[i].owed PROVE signals'[o] > count'[o]
    <3>1. o \in stack[i].owed /\ o \in Ids /\ signals[o] > count[o]
      BY <2>2, <2>3, <2>4
    <3>2. o # e
      BY <2>4, <3>1
    <3> QED BY <1>1, <1>9, <3>1, <3>2
  <2>6. stack'[i].owed \subseteq stack[i].owed
    BY <2>4
  <2>7. WalkOK(stack[i])'
    <3> HIDE DEF ok
    <3> QED BY <1>1, <2>2, <2>4, <2>6 DEF WalkOK
  <2> QED BY <2>2, <2>4, <2>5, <2>7
<1>13. WalksOK'
  BY <1>3, <1>8, <1>12 DEF WalksOK
<1>14. \A o : ~Calling(o)'
  <2>1. Depth' > 0 => Top' = stack'[Depth - 1] /\ Depth - 1 \in 1 .. (Depth - 1)
    BY <1>3, <1>8 DEF Depth, Top
  <2>2. Depth' > 0 => Top'.ph \in {"handler", "work"}
    BY <1>12, <2>1
  <2> QED BY <2>2 DEF Calling
<1>15. CountersOK'
  <2> SUFFICES ASSUME NEW o \in Ids
               PROVE  count'[o] <= signals'[o] /\ ~(count'[o] > served'[o]) /\ due'[o] = 0
    BY <1>14 DEF CountersOK
  <2> QED BY <1>1, <1>6, <1>9
<1> QED BY <1>10, <1>11, <1>13, <1>15 DEF IInv

(* The other walks decide to run the handler, or go on to the next entry.      *)
LEMMA WaitOtherOK == ASSUME IInv, Wait, Top.kind # "signal" PROVE IInv'
<1> DEFINE e == Top.at
           ok == signals[e] > count[e]
           pending == Top.kind \in {"any", "dev_id"} /\ ~Top.saw_xhci /\ xhci
           usb == ok /\ dev_id[e] \in UsbDevIds /\ Top.kind = "any"
           runs == Runs(Top, ok, pending)
           g == [Top EXCEPT !.handled = @ \/ runs, !.saw_xhci = @ \/ pending \/ usb]
           h == IF runs THEN [g EXCEPT !.ph = "call"] ELSE Onward(g)
<1>1. /\ stack # <<>> /\ Top.ph = "wait"
      /\ count' = [count EXCEPT ![e] = signals[e]]
      /\ due' = [due EXCEPT ![e] = due[e] + (IF runs THEN 1 ELSE 0) - PolledRuns(e)]
      /\ served' = served
      /\ stack' = [stack EXCEPT ![Depth] = h]
      /\ xhci' = (xhci /\ ~(Top.kind # "signal" /\ Acked(h)))
      /\ UNCHANGED <<irq_list, dev_id, signals>>
  BY DEF Wait, regs
<1>2. TypeOK /\ Live = Range(irq_list) /\ WalksOK /\ CountersOK
  BY DEF IInv
<1>3. /\ Depth \in 1 .. Depth /\ Depth \in Nat /\ Top = stack[Depth] /\ Top \in Frame /\ WalkOK(Top)
      /\ \A o \in Top.owed : signals[o] > count[o] \/ Calling(o)
  BY <1>1, Innermost
<1>4. e \in Range(irq_list) /\ e \in Ids
  <2>1. e \in Range(irq_list)
    BY <1>1, <1>3 DEF WalkOK
  <2> QED BY <1>2, <2>1, ZenonT(40) DEF Live
<1>5. \A o : ~Calling(o)
  BY <1>1 DEF Calling
<1>6. \A o \in Ids : /\ signals[o] \in 0 .. MaxSignals /\ count[o] \in 0 .. MaxSignals
                     /\ served[o] \in 0 .. MaxSignals /\ due[o] = 0
                     /\ count[o] <= signals[o] /\ ~(count[o] > served[o])
  BY <1>2, <1>5 DEF TypeOK, CountersOK
<1>7. ok => runs
  BY DEF Runs
<1>8. runs \in BOOLEAN /\ pending \in BOOLEAN /\ usb \in BOOLEAN
  BY DEF Runs
<1> HIDE DEF ok, pending, usb, runs
<1>9. /\ g \in Frame /\ g.at = e /\ g.ph = "wait" /\ g.kind = Top.kind /\ g.owed = Top.owed
  <2>1. (Top.handled \/ runs) \in BOOLEAN /\ (Top.saw_xhci \/ pending \/ usb) \in BOOLEAN
    BY <1>8
  <2> QED BY <1>1, <1>3, <2>1, Zenon DEF Frame
<1> HIDE DEF g, e
<1>10. /\ e # None /\ (Top.owed # {} => Top.kind = "any")
       /\ \A o \in Top.owed : Behind(irq_list, e, o, FALSE)
  <2>1. (Top.ph = "handler") = FALSE
    BY <1>1
  <2> QED BY <1>1, <1>3, <2>1, Zenon DEF WalkOK, e
<1>11. /\ h \in Frame /\ WalkOK(h) /\ h.owed = Top.owed
       /\ runs => h.ph = "call" /\ h.at = e
       /\ ~runs => h.ph # "call"
  <2>1. CASE runs
    <3>1. h = [g EXCEPT !.ph = "call"]
      BY <2>1
    <3> HIDE DEF h
    <3>2. h \in Frame /\ h.at = e /\ h.ph = "call" /\ h.kind = Top.kind /\ h.owed = Top.owed
      BY <1>9, <3>1 DEF Frame, Phases
    <3>3. (h.ph = "handler") = FALSE
      BY <3>2
    <3>4. WalkOK(h)
      BY <1>4, <1>10, <3>2, <3>3, Zenon DEF WalkOK
    <3> QED BY <2>1, <3>2, <3>4
  <2>2. CASE ~runs
    <3>1. h = Onward(g)
      BY <2>2
    <3>2. e \notin Top.owed
      BY <1>3, <1>5, <1>7, <2>2 DEF ok
    <3>3. \A o \in g.owed : Behind(irq_list, g.at, o, TRUE)
      <4>1. \A o \in Top.owed : o # e /\ Behind(irq_list, e, o, FALSE)
        BY <1>10, <3>2, Zenon
      <4>2. \A o \in Top.owed : Behind(irq_list, e, o, TRUE)
        BY <1>2, <4>1, NotCursor, Zenon
      <4> QED BY <1>9, <4>2, Zenon
    <3>4. Onward(g) \in Frame /\ WalkOK(Onward(g)) /\ Onward(g).owed = g.owed /\ Onward(g).ph # "call"
      BY <1>2, <1>4, <1>9, <1>10, <3>3, OnwardOK, Zenon
    <3> QED BY <1>9, <2>2, <3>1, <3>4
  <2> QED BY <2>1, <2>2
<1> HIDE DEF h
<1>12. /\ stack' \in Seq(Frame) /\ Depth' = Depth /\ Top' = h
  BY <1>1, <1>2, <1>11, Replaced, Zenon
<1>13. \A o : Calling(o)' <=> runs /\ o = e
  <2>1. Depth' > 0
    BY <1>3, <1>12
  <2> QED BY <1>11, <1>12, <2>1 DEF Calling
<1>14. /\ count' \in [Ids -> 0 .. MaxSignals] /\ due' \in [Ids -> Int]
       /\ \A o \in Ids : /\ count'[o] = IF o = e THEN signals[o] ELSE count[o]
                         /\ due'[o] = IF o = e /\ runs THEN 1 ELSE 0
  <2>1. PolledRuns(e) = 0
    BY DEF PolledRuns, Parked
  <2>2. due[e] + (IF runs THEN 1 ELSE 0) - PolledRuns(e) = IF runs THEN 1 ELSE 0
    BY <1>4, <1>6, <2>1
  <2>3. due' = [due EXCEPT ![e] = IF runs THEN 1 ELSE 0]
    BY <1>1, <2>2, Zenon DEF e
  <2>4. due' \in [Ids -> Int] /\ \A o \in Ids : due'[o] = IF o = e /\ runs THEN 1 ELSE 0
    <3> DEFINE n == IF runs THEN 1 ELSE 0
    <3>1. n \in Int /\ due \in [Ids -> Int] /\ due' = [due EXCEPT ![e] = n]
      BY <1>2, <2>3 DEF TypeOK
    <3> HIDE DEF n
    <3>2. due' \in [Ids -> Int] /\ \A o \in Ids : due'[o] = IF o = e THEN n ELSE due[o]
      BY <3>1, Zenon
    <3> QED BY <1>6, <3>2 DEF n
  <2>5. count' \in [Ids -> 0 .. MaxSignals] /\ \A o \in Ids : count'[o] = IF o = e THEN signals[o] ELSE count[o]
    BY <1>1, <1>2, <1>4, <1>6 DEF TypeOK, e
  <2> QED BY <2>4, <2>5
<1>15. TypeOK'
  BY <1>1, <1>2, <1>12, <1>14, Zenon DEF TypeOK
<1>16. ASSUME NEW i \in 1 .. Depth, NEW o \in stack[i].owed
       PROVE  signals'[o] > count'[o] \/ Calling(o)'
  <2>1. signals[o] > count[o]
    BY <1>2, <1>5 DEF WalksOK
  <2>2. o \in Ids
    BY OwedLinked
  <2>3. CASE o = e
    BY <1>7, <1>13, <2>1, <2>3 DEF ok
  <2>4. CASE o # e
    BY <1>1, <1>14, <2>1, <2>2, <2>4, Zenon
  <2> QED BY <2>3, <2>4
<1>17. WalksOK' /\ Live' = Range(irq_list')
  <2>1. \A o \in h.owed : signals'[o] > count'[o] \/ Calling(o)'
    BY <1>3, <1>11, <1>16
  <2> QED BY <1>1, <1>11, <1>16, <2>1, WalkMoves, Zenon
<1>18. CountersOK'
  <2> SUFFICES ASSUME NEW o \in Ids
               PROVE  /\ count'[o] <= signals'[o] /\ (count'[o] > served'[o] => Calling(o)')
                      /\ due'[o] = IF Calling(o)' THEN 1 ELSE 0
    BY DEF CountersOK
  <2>1. due'[o] = IF Calling(o)' THEN 1 ELSE 0
    BY <1>13, <1>14
  <2>2. CASE o = e
    <3>1. count'[o] = signals[o] /\ (~runs => count'[o] = count[o])
      <4>1. ~runs => ~(signals[e] > count[e])
        BY <1>7 DEF ok
      <4> QED BY <1>6, <1>14, <2>2, <4>1
    <3> QED BY <1>1, <1>6, <1>13, <2>1, <2>2, <3>1
  <2>3. CASE o # e
    BY <1>1, <1>6, <1>14, <2>1, <2>3
  <2> QED BY <2>2, <2>3
<1> QED BY <1>15, <1>17, <1>18 DEF IInv

LEMMA NextIInv == IInv /\ [Next]_vars => IInv'
<1> SUFFICES ASSUME IInv, [Next]_vars PROVE IInv'
  OBVIOUS
<1>1. CASE \E e \in Ids : Signal(e)
  BY <1>1, SignalOK
<1>2. CASE XhciEvent
  BY <1>2, XhciEventOK
<1>3. CASE \E d \in DevIds : RequestIrq(d) \/ FreeIrq(d)
  BY <1>3, RequestIrqOK, FreeIrqOK
<1>4. CASE FreeAllIrqs
  BY <1>4, FreeAllIrqsOK
<1>5. CASE Begin("any", None)
  BY <1>5, BeginOK DEF Kinds
<1>6. CASE \E d \in DevIds, k \in Kinds \ {"any"} : Begin(k, d)
  BY <1>6, BeginOK
<1>7. CASE Wait
  BY <1>7, WaitSignalOK, WaitOtherOK, Zenon
<1>8. CASE Call
  BY <1>8, CallOK
<1>9. CASE Return
  BY <1>9, ReturnOK
<1>10. CASE Finish
  BY <1>10, FinishOK
<1>11. CASE UNCHANGED vars
  <2>1. UNCHANGED <<irq_list, dev_id, signals, count, due, served, xhci, stack>>
    BY <1>11 DEF vars
  <2>2. TypeOK' /\ (Live = Range(irq_list))' /\ Depth' = Depth /\ \A o : Calling(o)' = Calling(o)
    BY <2>1, Zenon DEF IInv, TypeOK, Live, Calling, Depth, Top
  <2>3. WalksOK'
    BY <2>1, <2>2, Zenon DEF IInv, WalksOK, WalkOK
  <2>4. CountersOK'
    BY <2>1, <2>2, Zenon DEF IInv, CountersOK
  <2> QED BY <2>2, <2>3, <2>4 DEF IInv
<1> QED BY <1>1, <1>2, <1>3, <1>4, <1>5, <1>6, <1>7, <1>8, <1>9, <1>10, <1>11, ZenonT(40) DEF Next

(* At most the innermost walk is about to call the handler of e.               *)
LEMMA OneCaller ==
  ASSUME IInv, NEW e
  PROVE  {i \in 1 .. Depth : stack[i].at = e /\ stack[i].ph = "call"} =
           IF Calling(e) THEN {Depth} ELSE {}
<1>1. Depth \in Nat /\ (Depth > 0 => Depth \in 1 .. Depth /\ Top = stack[Depth])
  BY ListFacts DEF IInv
<1>2. \A i \in 1 .. Depth : stack[i].ph = "call" => i = Depth
  <2>1. \A i \in 1 .. Depth : i < Depth => stack[i].ph \in {"handler", "work"}
    BY DEF IInv, WalksOK
  <2>2. \A i \in 1 .. Depth : i < Depth \/ i = Depth
    BY <1>1
  <2> QED BY <2>1, <2>2
<1>3. \A i \in 1 .. Depth : stack[i].at = e /\ stack[i].ph = "call" => i = Depth /\ Calling(e)
  <2>1. \A i \in 1 .. Depth : i = Depth => Depth > 0
    BY <1>1
  <2> QED BY <1>1, <1>2, <2>1 DEF Calling
<1>4. Calling(e) => Depth \in 1 .. Depth /\ stack[Depth].at = e /\ stack[Depth].ph = "call"
  BY <1>1 DEF Calling
<1>5. CASE Calling(e)
  BY <1>3, <1>4, <1>5
<1>6. CASE ~Calling(e)
  BY <1>3, <1>6
<1> QED BY <1>5, <1>6

LEMMA IInvServes == IInv => IrqsServed
<1> SUFFICES ASSUME IInv PROVE IrqsServed
  OBVIOUS
<1>1. TypeOK /\ Live = Range(irq_list) /\ WalksOK /\ CountersOK
  BY DEF IInv
<1>2. OnceEach
  <2> SUFFICES ASSUME NEW e \in Ids
               PROVE  due[e] = Cardinality({i \in 1 .. Depth : stack[i].at = e /\ stack[i].ph = "call"})
    BY DEF OnceEach
  <2>1. due[e] = IF Calling(e) THEN 1 ELSE 0
    BY <1>1 DEF CountersOK
  <2>2. Cardinality({Depth}) = 1 /\ Cardinality({}) = 0
    BY FS_Singleton, FS_EmptySet, Zenon
  <2>3. CASE Calling(e)
    BY <2>1, <2>2, <2>3, OneCaller
  <2>4. CASE ~Calling(e)
    BY <2>1, <2>2, <2>4, OneCaller
  <2> QED BY <2>3, <2>4
<1>3. ConsumedIsServed
  <2>1. \A e \in Ids : count[e] > served[e] => Calling(e)
    BY <1>1 DEF CountersOK
  <2>2. \A e : Calling(e) => \E i \in 1 .. Depth : stack[i].at = e /\ stack[i].ph = "call"
    BY <1>1, ListFacts DEF Calling
  <2> QED BY <2>1, <2>2 DEF ConsumedIsServed, Live
<1>4. WalkServesAll
  <2>1. \A i \in 1 .. Depth : stack[i].ph = "work" => stack[i].at = None
    BY <1>1 DEF WalksOK, WalkOK
  <2> QED BY <2>1, OwedLinked DEF WalkServesAll
<1>5. CursorsAlive
  BY <1>1 DEF CursorsAlive, WalksOK, WalkOK
<1> QED BY <1>2, <1>3, <1>4, <1>5 DEF IrqsServed

(* linux_irq.c, for any number of entries, handlers and nested walks: every    *)
(* interrupt a poll consumes reaches its handler, each poll runs it once, a    *)
(* walk of the list serves all that was pending when it began, and no walk     *)
(* stands on a freed entry.                                                    *)
THEOREM InterruptsServed == Spec => []IrqsServed
<1>1. Init => IInv
  BY InitIInv
<1>2. IInv /\ [Next]_vars => IInv'
  BY NextIInv
<1>3. IInv => IrqsServed
  BY IInvServes
<1> QED BY <1>1, <1>2, <1>3, PTL DEF Spec
=============================================================================
