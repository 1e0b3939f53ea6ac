----------------------------- MODULE InputEvents -----------------------------
(***************************************************************************)
(* Input devices (input/input.c): records of devices, the state of their   *)
(* keys and axes, events staged until the frame they belong to ends, and   *)
(* the one bounded queue all devices publish their frames to.  A frame     *)
(* that does not fit empties the queue and leaves a recovery frame (a      *)
(* SYN_DROPPED and a SYN_REPORT) for every device that lost something.     *)
(* The reader follows the usual rule: it replays what it reads, and after  *)
(* a SYN_DROPPED skips to the next SYN_REPORT and asks for the state.      *)
(***************************************************************************)
EXTENDS Integers, FiniteSets, Sequences, SequencesExt, FiniteSetsExt

CONSTANTS
    Devices,   \* input_devs
    Embedded,  \* those that a driver embeds in its own memory
    Slots,     \* KB_INPUT_DEVICE_MAX
    QueueMax,  \* KB_INPUT_EVENT_QUEUE_MAX
    StageMax,  \* KB_INPUT_FRAME_STAGE_MAX
    Inputs,    \* events the drivers send: type and value
    Fuzz,      \* the fuzz of the axis
    None

VARIABLES
    rec,    \* input_devices
    bits,   \* what each device's memory says of its key, switch and sound
    queue,  \* input_events, from the head
    view,   \* the reader's copy of each device's state
    sync,   \* devices whose recovery the reader is not in the middle of
    quiet   \* devices whose axis was reset without an event for the reader

vars == <<rec, bits, queue, view, sync, quiet>>

Pseudo == "pseudo"   \* the id of the record made for events of no device
Orphan == "orphan"   \* the id of such a record that is no more
Report == [t |-> "report", v |-> 0]
Dropped == [t |-> "dropped", v |-> 0]
Off == [w \in {"key", "sw", "snd"} |-> FALSE]

Empty == [dev |-> None, id |-> None, act |-> FALSE, open |-> FALSE, alloc |-> FALSE,
          mt |-> FALSE, abs |-> None, stage |-> <<>>, drop |-> FALSE]

Of(d) == {i \in 1 .. Slots : rec[i].dev = d}
Known(d) == Of(d) # {}
Slot(d) == Min(Of(d))
Vacant == {i \in 1 .. Slots : rec[i].dev = None}
\* The reader forgets a device that goes.
Blank == [abs |-> None, bits |-> Off]
Forget(ds) ==
    /\ view' = [d \in Devices |-> IF d \in ds THEN Blank ELSE view[d]]
    /\ sync' = sync \cup ds
    /\ quiet' = quiet \ ds
Unstaged(r) == [r EXCEPT !.stage = <<>>, !.drop = FALSE]

\* alloc_record: the record of d, found or made; it may take the slot of the
\* record made for events of no device.
Room(d) == Known(d) \/ Vacant # {}
At(d) == IF Known(d) THEN Slot(d) ELSE Min(Vacant)
Kept(d) == IF Known(d) THEN rec ELSE [rec EXCEPT ![At(d)] = [Empty EXCEPT !.dev = d, !.id = d]]
Renamed(d) ==
    IF ~Known(d) /\ rec[At(d)].id = Pseudo
    THEN [i \in DOMAIN queue |-> IF queue[i].id = Pseudo THEN [queue[i] EXCEPT !.id = Orphan]
                                 ELSE queue[i]]
    ELSE queue
Without(d) == SelectSeq(queue, LAMBDA e : e.id # d)

-----------------------------------------------------------------------------
(***************************************************************************)
(* Devices.                                                                *)
(***************************************************************************)
Usable(d) == d \in Embedded \/ Known(d)

AllocateDevice(d) ==
    /\ d \notin Embedded /\ ~Known(d) /\ Vacant # {}
    /\ rec' = [Kept(d) EXCEPT ![At(d)].alloc = TRUE]
    /\ queue' = Renamed(d)
    /\ UNCHANGED <<bits, view, sync, quiet>>

\* The driver gives up a device it has not registered.
FreeDevice(d) ==
    /\ Known(d) /\ ~rec[Slot(d)].act
    /\ rec' = [rec EXCEPT ![Slot(d)] = Empty]
    /\ queue' = Without(d)
    /\ bits' = IF d \in Embedded THEN bits ELSE [bits EXCEPT ![d] = Off]
    /\ Forget({d})

\* The axis starts from 0, also that of a device that is registered already;
\* no event says so.
SetAbsParams(d) ==
    /\ Usable(d) /\ Room(d)
    /\ rec' = [Kept(d) EXCEPT ![At(d)].abs = 0]
    /\ queue' = Renamed(d)
    /\ quiet' = IF Kept(d)[At(d)].act THEN quiet \cup {d} ELSE quiet
    /\ UNCHANGED <<bits, view, sync>>

MtInitSlots(d) ==
    /\ Usable(d) /\ Room(d)
    /\ rec' = IF rec[At(d)].dev = d /\ rec[At(d)].act THEN rec
              ELSE [Kept(d) EXCEPT ![At(d)].mt = TRUE]
    /\ queue' = Renamed(d)
    /\ UNCHANGED <<bits, view, sync, quiet>>

StateOf(d, r) == [abs |-> r.abs, bits |-> bits[d]]

\* Multi-touch devices are turned away.  Whoever reads starts from the state.
RegisterDevice(d) ==
    /\ Usable(d) /\ Room(d)
    /\ ~Known(d) \/ ~rec[At(d)].act
    /\ LET r == Unstaged(Kept(d)[At(d)])
       IN  /\ rec' = [rec EXCEPT ![At(d)] = [r EXCEPT !.act = ~r.mt]]
           /\ view' = [view EXCEPT ![d] = StateOf(d, r)]
    /\ sync' = sync \cup {d}
    /\ quiet' = quiet \ {d}
    /\ queue' = Renamed(d)
    /\ UNCHANGED bits

UnregisterDeviceUnpurged(d) ==
    /\ Known(d)
    /\ rec' = [rec EXCEPT ![Slot(d)] =
                  IF @.alloc THEN Empty
                  ELSE [Unstaged(@) EXCEPT !.act = FALSE, !.open = @ /\ ~rec[Slot(d)].act]]
    /\ bits' = IF d \in Embedded THEN bits ELSE [bits EXCEPT ![d] = Off]
    /\ Forget({d})
    /\ UNCHANGED queue
UnregisterDevice(d) ==
    /\ Known(d)
    /\ rec' = [rec EXCEPT ![Slot(d)] =
                  IF @.alloc THEN Empty
                  ELSE [Unstaged(@) EXCEPT !.act = FALSE, !.open = @ /\ ~rec[Slot(d)].act]]
    /\ queue' = Without(d)
    /\ bits' = IF d \in Embedded THEN bits ELSE [bits EXCEPT ![d] = Off]
    /\ Forget({d})

\* kb_input_subsystem_open_registered_devices, where the drivers of fail refuse.
OpenDevices(fail) ==
    /\ rec' = [i \in 1 .. Slots |->
                  IF rec[i].act /\ rec[i].dev # None /\ rec[i].dev \notin fail
                  THEN [rec[i] EXCEPT !.open = TRUE] ELSE rec[i]]
    /\ UNCHANGED <<bits, queue, view, sync, quiet>>

CloseDevices ==
    /\ rec' = [i \in 1 .. Slots |->
                  IF rec[i].act /\ rec[i].dev # None THEN [rec[i] EXCEPT !.open = FALSE]
                  ELSE rec[i]]
    /\ UNCHANGED <<bits, queue, view, sync, quiet>>

Reset ==
    /\ rec' = [i \in 1 .. Slots |-> Empty]
    /\ queue' = <<>>
    /\ bits' = [d \in Devices |-> IF d \in Embedded THEN bits[d] ELSE Off]
    /\ Forget(Devices)

-----------------------------------------------------------------------------
(***************************************************************************)
(* Frames.                                                                 *)
(***************************************************************************)
Tagged(r, events) == [k \in DOMAIN events |-> [id |-> r.id, t |-> events[k].t, v |-> events[k].v]]
Recovery(r) == Tagged(r, <<Dropped, Report>>)

\* recover_input_event_queue_overflow: the queue is emptied; a device in the
\* middle of a frame is told when that frame ends.
Losers(rs, i) == {j \in 1 .. Slots : j = i \/ (rs[j].id # None /\ \E k \in DOMAIN queue : queue[k].id = rs[j].id)}
MidFrame(rs, i, j) == j # i /\ (rs[j].stage # <<>> \/ rs[j].drop)
Overflown(rs, i) ==
    [j \in 1 .. Slots |->
        IF j \in Losers(rs, i) /\ MidFrame(rs, i, j)
        THEN [rs[j] EXCEPT !.drop = TRUE, !.stage = <<>>] ELSE rs[j]]
Recovered(rs, i) ==
    FlattenSeq([j \in 1 .. Slots |->
        IF j \in Losers(rs, i) /\ ~MidFrame(rs, i, j) /\ rs[j].act THEN Recovery(rs[j]) ELSE <<>>])

\* publish_staged_input_frame: its new records and queue.
Frame(r) == IF r.drop THEN Recovery(r) ELSE Tagged(r, Append(r.stage, Report))
Publish(rs, i) ==
    LET r == rs[i]
        frame == Frame(r)
    IN  IF ~r.drop /\ r.stage = <<>> THEN [rs |-> rs, queue |-> queue]
        ELSE IF Len(queue) > QueueMax - Len(frame)
        THEN [rs |-> [Overflown(rs, i) EXCEPT ![i] = Unstaged(@)], queue |-> Recovered(rs, i)]
        ELSE [rs |-> [rs EXCEPT ![i] = Unstaged(@)], queue |-> queue \o frame]

Stage(r, e) ==
    IF r.drop THEN r
    ELSE IF Len(r.stage) = StageMax THEN [r EXCEPT !.drop = TRUE, !.stage = <<>>]
    ELSE [r EXCEPT !.stage = Append(@, e)]

-----------------------------------------------------------------------------
(***************************************************************************)
(* Events.                                                                 *)
(***************************************************************************)
\* defuzz_abs_event
Defuzz(value, old) ==
    LET within(n) == value > old - n /\ value < old + n
    IN  IF Fuzz > 0 /\ within(Fuzz \div 2) THEN old
        ELSE IF Fuzz > 0 /\ within(Fuzz) THEN (old * 3 + value) \div 4
        ELSE IF Fuzz > 0 /\ within(2 * Fuzz) THEN (old + value) \div 2
        ELSE value

\* Whether an event passes, and as which.
Settled(r, e) == IF e.t = "abs" /\ r.abs # None THEN [e EXCEPT !.v = Defuzz(e.v, r.abs)] ELSE e
Passes(r, e) ==
    CASE e.t \in {"key", "sw"} ->
           r.dev # None /\ ((e.t = "key" /\ e.v = 2) \/ bits[r.dev][e.t] # (e.v # 0))
      [] e.t = "snd" -> r.dev # None
      [] e.t = "abs" -> r.abs # None /\ Settled(r, e).v # r.abs
      [] e.t = "rel" -> r.dev # None /\ e.v # 0
      [] OTHER -> TRUE

Written(r, e) ==
    IF e.t \in {"key", "sw", "snd"} /\ ~(e.t = "key" /\ e.v = 2)
    THEN [bits EXCEPT ![r.dev][e.t] = (e.v # 0)] ELSE bits
Moved(r, e) == IF e.t = "abs" THEN [r EXCEPT !.abs = Settled(r, e).v] ELSE r

\* fallback_event_record, for an event of no device.
Fallback ==
    LET open == {i \in 1 .. Slots : rec[i].act /\ rec[i].open}
        active == {i \in 1 .. Slots : rec[i].act}
    IN  IF open # {} THEN open ELSE active
\* An event of the axis that reaches the frame tells the reader of its value.
Told(r, e) == e.t = "abs" /\ r.act /\ ~r.drop /\ Len(r.stage) < StageMax
Fresh == {i \in Vacant : rec[i].id = None}

EventAt(i, rs, e) ==
    IF ~Passes(rs[i], e)
    THEN rec' = rs /\ UNCHANGED <<bits, quiet>>
    ELSE /\ bits' = Written(rs[i], e)
         /\ quiet' = IF Told(rs[i], e) THEN quiet \ {rs[i].dev} ELSE quiet
         /\ LET r == Moved(rs[i], e)
                moved == [rs EXCEPT ![i] = r]
            IN  IF ~r.act THEN rec' = moved
                ELSE IF e.t = "report" THEN rec' = Publish(moved, i).rs
                ELSE rec' = [rs EXCEPT ![i] = Stage(r, Settled(rs[i], e))]
\* The queue changes only when a frame ends.
QueueAt(i, rs, e) ==
    IF e.t = "report" /\ rs[i].act THEN Publish(rs, i).queue ELSE queue

RecordEvent(d, e) ==
    /\ Usable(d) /\ Room(d)
    /\ EventAt(At(d), Kept(d), e)
    /\ queue' = IF Known(d) THEN QueueAt(At(d), rec, e) ELSE Renamed(d)
    /\ UNCHANGED <<view, sync>>

RecordFallback(e) ==
    /\ \/ /\ Fallback # {}
          /\ EventAt(Min(Fallback), rec, e)
          /\ queue' = QueueAt(Min(Fallback), rec, e)
       \/ /\ Fallback = {} /\ Fresh # {}
          /\ LET i == Min(Fresh)
                 rs == [rec EXCEPT ![i] = [Empty EXCEPT !.id = Pseudo, !.act = TRUE]]
             IN  EventAt(i, rs, e) /\ queue' = queue
    /\ UNCHANGED <<view, sync>>

-----------------------------------------------------------------------------
(***************************************************************************)
(* The reader.                                                             *)
(***************************************************************************)
Replay(state, e) ==
    CASE e.t \in {"key", "sw", "snd"} /\ ~(e.t = "key" /\ e.v = 2) ->
           [state EXCEPT !.bits[e.t] = (e.v # 0)]
      [] e.t = "abs" -> [state EXCEPT !.abs = e.v]
      [] OTHER -> state

\* kb_input_subsystem_pop_events of one event, and what its reader makes of it.
Pop ==
    /\ queue # <<>>
    /\ queue' = Tail(queue)
    /\ LET e == Head(queue)
           d == e.id
           late(s) == \E k \in DOMAIN s : s[k].t = "abs"
           mine == SelectSeq(Tail(queue), LAMBDA x : x.id = d)
       IN  IF d \notin Devices THEN UNCHANGED <<view, sync, quiet>>
           ELSE IF e.t = "dropped" THEN sync' = sync \ {d} /\ UNCHANGED <<view, quiet>>
           ELSE IF d \notin sync
           THEN IF e.t = "report"
                THEN /\ sync' = sync \cup {d}
                     /\ view' = [view EXCEPT ![d] = StateOf(d, rec[Slot(d)])]
                     /\ quiet' = IF late(mine) \/ late(rec[Slot(d)].stage) THEN quiet
                                 ELSE quiet \ {d}
                ELSE UNCHANGED <<view, sync, quiet>>
           ELSE view' = [view EXCEPT ![d] = Replay(@, e)] /\ UNCHANGED <<sync, quiet>>
    /\ UNCHANGED <<rec, bits>>

Init ==
    /\ rec = [i \in 1 .. Slots |-> Empty]
    /\ bits = [d \in Devices |-> Off]
    /\ queue = <<>>
    /\ view = [d \in Devices |-> Blank]
    /\ sync = Devices /\ quiet = {}

Next ==
    \/ \E d \in Devices :
          \/ AllocateDevice(d) \/ FreeDevice(d) \/ SetAbsParams(d) \/ MtInitSlots(d)
          \/ RegisterDevice(d) \/ UnregisterDevice(d)
          \/ \E e \in Inputs : RecordEvent(d, e)
    \/ \E e \in Inputs : RecordFallback(e)
    \/ \E fail \in SUBSET Devices : OpenDevices(fail)
    \/ CloseDevices \/ Reset \/ Pop

-----------------------------------------------------------------------------
(* The types of the variables: the queue and the stages keep their bounds. *)
TypeOK ==
    /\ Len(queue) <= QueueMax
    /\ \A i \in 1 .. Slots : /\ rec[i].dev \in Devices \cup {None}
                             /\ Len(rec[i].stage) <= StageMax
                             /\ rec[i].drop => rec[i].stage = <<>>
    /\ bits \in [Devices -> [{"key", "sw", "snd"} -> BOOLEAN]]
    /\ sync \subseteq Devices /\ quiet \subseteq Devices

(* A reader is never left with a wrong idea of a device: unless it is going  *)
(* to be told that it lost events (by a SYN_DROPPED in the queue, or at the  *)
(* end of the frame being staged), what it has, with the queued and the      *)
(* staged events replayed, is the state of the device's keys and axes,       *)
(* whatever other devices' frames made the queue overflow.  The exception is *)
(* an axis that set_abs_params reset on a registered device, of which the    *)
(* reader learns with the axis' next event, or when it next asks for the     *)
(* state.                                                                    *)
Replayed(state, events) == FoldLeft(Replay, state, events)

ReaderRight ==
    \A d \in Devices :
        LET i == Slot(d)
            mine == SelectSeq(queue, LAMBDA e : e.id = d)
        IN  Known(d) /\ rec[i].act /\ d \in sync /\ ~rec[i].drop
              /\ (\A k \in DOMAIN mine : mine[k].t # "dropped")
            => LET seen == Replayed(Replayed(view[d], mine), rec[i].stage)
               IN  /\ seen.bits = bits[d]
                   /\ d \notin quiet => seen.abs = rec[i].abs

(* Frames are whole: what the queue holds of a device ends with a            *)
(* SYN_REPORT, and holds nothing of a device that is gone.                   *)
FramesWhole ==
    \A d \in Devices :
        LET mine == SelectSeq(queue, LAMBDA e : e.id = d)
        IN  mine # <<>> => Known(d) /\ rec[Slot(d)].act /\ Last(mine).t = "report"
=============================================================================
