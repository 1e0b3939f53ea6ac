------------------------------ MODULE NetDevice ------------------------------
(***************************************************************************)
(* Network devices (net/net_device.c): the table of devices, packets going *)
(* out through the driver, NAPI polling that brings packets in, the frame  *)
(* callback that may send from inside a poll, the ARP answer of the smoke  *)
(* test, and the backend each call works on and puts back.  Calls nest:    *)
(* stack holds the ones in progress, the innermost first.                  *)
(***************************************************************************)
EXTENDS Integers, FiniteSets, Sequences, SequencesExt, FiniteSetsExt

CONSTANTS
    Devs,        \* net_devices
    Napis,       \* napi_structs
    Skbs,        \* packets there is memory for
    Backends,    \* device backends
    MaxTracked,  \* KB_NETDEV_TRACKED_MAX
    MaxDepth,    \* bound on calls in progress
    None

VARIABLES
    made,     \* devices allocated and not freed
    slots,    \* netdev_records: a device's record in each slot
    napis,    \* napi_records, latest first: napi, device, ever received
    skb,      \* where each packet is
    backend,  \* the current device backend
    stack,    \* calls in progress
    sent      \* ghost: the reason of the packet the driver just took

vars == <<made, slots, napis, skb, backend, stack, sent>>

Idle == stack = <<>>
Top == Head(stack)
In(op) == stack # <<>> /\ Head(stack).op = op
Tracked(d) == \E i \in DOMAIN slots : slots[i] # None /\ slots[i].dev = d
SlotOf(d) == CHOOSE i \in DOMAIN slots : slots[i] # None /\ slots[i].dev = d
Rec(d) == slots[SlotOf(d)]
FreeSlots == {i \in DOMAIN slots : slots[i] = None}
At(n) == CHOOSE i \in DOMAIN napis : napis[i].napi = n
Opened == {i \in DOMAIN slots : slots[i] # None /\ slots[i].reg /\ slots[i].open}

NewRec(d) == [dev |-> d, backend |-> backend, reg |-> FALSE, open |-> FALSE,
              smoked |-> FALSE, pending |-> FALSE, replied |-> FALSE, seen |-> FALSE]
Call(op, d, why) == [op |-> op, dev |-> d, why |-> why, old |-> backend,
                     skb |-> None, napi |-> 0, got |-> FALSE]

\* Device code runs between calls and inside the driver's own functions.
DriverRuns == Idle \/ In("poll")

-----------------------------------------------------------------------------
(***************************************************************************)
(* Devices.  One that finds no slot works without a record: registering    *)
(* and opening it succeed and do nothing.                                  *)
(***************************************************************************)
Alloc(d) ==
    /\ Idle /\ d \notin made
    /\ made' = made \cup {d}
    /\ slots' = IF FreeSlots = {} THEN slots ELSE [slots EXCEPT ![Min(FreeSlots)] = NewRec(d)]
    /\ sent' = None
    /\ UNCHANGED <<napis, skb, backend, stack>>

\* The records of the device's NAPIs stay, and are polled on.
Free(d) ==
    /\ Idle /\ d \in made
    /\ made' = made \ {d}
    /\ slots' = IF Tracked(d) THEN [slots EXCEPT ![SlotOf(d)] = None] ELSE slots
    /\ sent' = None
    /\ UNCHANGED <<napis, skb, backend, stack>>

\* ndo_init may fail; with auto-open the device is opened at once.
Register(d, initOk, autoOpen, openOk) ==
    /\ Idle /\ d \in made
    /\ slots' = IF Tracked(d) /\ initOk
                THEN [slots EXCEPT ![SlotOf(d)].reg = TRUE,
                                   ![SlotOf(d)].open = @ \/ (autoOpen /\ openOk)]
                ELSE slots
    /\ sent' = None
    /\ UNCHANGED <<made, napis, skb, backend, stack>>

Open(d, ok) ==
    /\ Idle /\ d \in made
    /\ slots' = IF Tracked(d) /\ ok THEN [slots EXCEPT ![SlotOf(d)].open = TRUE] ELSE slots
    /\ sent' = None
    /\ UNCHANGED <<made, napis, skb, backend, stack>>

\* A NAPI that has a record keeps its place and its count.
NapiAdd(d, n) ==
    /\ Idle /\ d \in made
    /\ napis' = IF \E i \in DOMAIN napis : napis[i].napi = n
                THEN [napis EXCEPT ![At(n)].dev = d]
                ELSE <<[napi |-> n, dev |-> d, ever |-> FALSE]>> \o napis
    /\ sent' = None
    /\ UNCHANGED <<made, slots, skb, backend, stack>>

\* The environment works on another backend.
SetBackend(b) ==
    /\ Idle /\ b # backend
    /\ backend' = b
    /\ sent' = None
    /\ UNCHANGED <<made, slots, napis, skb, stack>>

-----------------------------------------------------------------------------
(***************************************************************************)
(* xmit_raw_frame: onto the device's backend, a packet, the driver's       *)
(* transmit function; the packet is the driver's if it takes it.           *)
(***************************************************************************)
CanCall == Len(stack) < MaxDepth
FreeSkbs == {s \in Skbs : skb[s] = "free"}

XmitBegins(d, why, rest) ==
    /\ CanCall /\ Tracked(d) /\ Rec(d).backend # None
    /\ \E s \in FreeSkbs :
          /\ skb' = [skb EXCEPT ![s] = "kobox"]
          /\ stack' = <<[Call("xmit", d, why) EXCEPT !.skb = s]>> \o rest
    /\ backend' = Rec(d).backend
    /\ sent' = None
    /\ UNCHANGED <<made, slots, napis>>

\* No backend to send on, or no packet to be had: back to the backend before.
XmitFails(d, why, rest) ==
    /\ Tracked(d) /\ (Rec(d).backend = None \/ FreeSkbs = {})
    /\ stack' = rest /\ backend' = backend
    /\ sent' = None
    /\ UNCHANGED <<made, slots, napis, skb>>

\* What a caller of xmit_raw_frame does with success.
AfterOk(t) ==
    CASE t.why = "udp" -> [slots EXCEPT ![SlotOf(t.dev)].pending = TRUE,
                                        ![SlotOf(t.dev)].replied = FALSE,
                                        ![SlotOf(t.dev)].seen = FALSE]
      [] t.why = "reply" -> [slots EXCEPT ![SlotOf(t.dev)].pending = FALSE,
                                          ![SlotOf(t.dev)].replied = TRUE]
      [] OTHER -> slots

Rest(ok) ==
    IF Top.why \in {"arp", "udp"} /\ ~ok THEN Tail(Tail(stack)) ELSE Tail(stack)

XmitReturnsLeaks(ok) ==
    /\ In("xmit")
    /\ skb' = IF ok THEN [skb EXCEPT ![Top.skb] = "driver"] ELSE skb
    /\ slots' = IF ok THEN AfterOk(Top) ELSE slots
    /\ backend' = Top.old
    /\ stack' = Rest(ok)
    /\ sent' = IF ok THEN [why |-> Top.why, dev |-> Top.dev] ELSE None
    /\ UNCHANGED <<made, napis>>
XmitReturns(ok) ==
    /\ In("xmit")
    /\ skb' = [skb EXCEPT ![Top.skb] = IF ok THEN "driver" ELSE "free"]
    /\ slots' = IF ok THEN AfterOk(Top) ELSE slots
    /\ backend' = Top.old
    /\ stack' = Rest(ok)
    /\ sent' = IF ok THEN [why |-> Top.why, dev |-> Top.dev] ELSE None
    /\ UNCHANGED <<made, napis>>

\* The driver is done with a packet.
Consume(s) ==
    /\ DriverRuns /\ skb[s] = "driver"
    /\ skb' = [skb EXCEPT ![s] = "free"]
    /\ sent' = None
    /\ UNCHANGED <<made, slots, napis, backend, stack>>

\* kb_net_device_tx_frame: through the first open device.
TxFrame ==
    /\ Idle \/ In("rx")
    /\ Opened # {}
    /\ LET d == slots[Min(Opened)].dev
       IN  XmitBegins(d, "frame", stack) \/ XmitFails(d, "frame", stack)

-----------------------------------------------------------------------------
(***************************************************************************)
(* poll_rx_devices: each NAPI on its device's backend; then the ARP answer *)
(* if one is due.                                                          *)
(***************************************************************************)
BackendOf(d, old) == IF Tracked(d) THEN Rec(d).backend ELSE old
PollCall(i, old) == [Call("poll", napis[i].dev, "poll") EXCEPT !.old = old, !.napi = napis[i].napi]

PollBegins(rest) ==
    /\ CanCall /\ napis # <<>>
    /\ stack' = <<PollCall(1, backend)>> \o rest
    /\ backend' = BackendOf(napis[1].dev, backend)
    /\ sent' = None
    /\ UNCHANGED <<made, slots, napis, skb>>

Poll == Idle /\ PollBegins(stack)

\* The driver hands a packet up: it is looked at, then given to the callback.
Receive(asks) ==
    /\ In("poll") /\ CanCall /\ ~Top.got
    /\ \E s \in FreeSkbs :
          /\ skb' = [skb EXCEPT ![s] = "kobox"]
          /\ stack' = <<[Call("rx", Top.dev, "rx") EXCEPT !.skb = s]>>
                      \o <<[Top EXCEPT !.got = TRUE]>> \o Tail(stack)
    /\ napis' = [napis EXCEPT ![At(Top.napi)].ever = TRUE]
    /\ slots' = IF asks /\ Tracked(Top.dev) THEN [slots EXCEPT ![SlotOf(Top.dev)].seen = TRUE]
                ELSE slots
    /\ sent' = None
    /\ UNCHANGED <<made, backend>>

ReceiveReturns ==
    /\ In("rx")
    /\ skb' = [skb EXCEPT ![Top.skb] = "free"]
    /\ stack' = Tail(stack)
    /\ sent' = None
    /\ UNCHANGED <<made, slots, napis, backend>>

\* maybe_reply_gateway_arp compares this NAPI's count with all of the device's.
ReplyDue(t) ==
    /\ Tracked(t.dev)
    /\ Rec(t.dev).pending /\ ~Rec(t.dev).replied /\ Rec(t.dev).seen
    /\ \/ t.got
       \/ \E i \in DOMAIN napis : napis[i].dev = t.dev /\ napis[i].napi # t.napi /\ napis[i].ever

\* The answer is tried once; the frame then only has to put the backend back.
PollReplies ==
    /\ In("poll") /\ ReplyDue(Top)
    /\ LET rest == <<[Top EXCEPT !.op = "polled"]>> \o Tail(stack)
       IN  XmitBegins(Top.dev, "reply", rest) \/ XmitFails(Top.dev, "reply", rest)

PollAdvances ==
    /\ In("polled") \/ (In("poll") /\ ~ReplyDue(Top))
    /\ LET i == At(Top.napi) + 1
       IN  IF i <= Len(napis)
           THEN /\ stack' = <<PollCall(i, Top.old)>> \o Tail(stack)
                /\ backend' = BackendOf(napis[i].dev, Top.old)
           ELSE stack' = Tail(stack) /\ backend' = Top.old
    /\ sent' = None
    /\ UNCHANGED <<made, slots, napis, skb>>

-----------------------------------------------------------------------------
(***************************************************************************)
(* kb_net_device_run_pending_smokes on one device: a broadcast, a poll,    *)
(* then a datagram, a poll in which the gateway asks for our address, and  *)
(* another if it was answered.                                             *)
(***************************************************************************)
Smoke(d) ==
    /\ Idle /\ Tracked(d) /\ Rec(d).reg /\ Rec(d).open /\ ~Rec(d).smoked
    /\ slots' = [slots EXCEPT ![SlotOf(d)].smoked = TRUE]
    /\ \E why \in {"arp", "udp"} : stack' = <<Call("smoke", d, why)>>
    /\ sent' = None
    /\ UNCHANGED <<made, napis, skb, backend>>

SmokeSends ==
    /\ In("smoke")
    /\ LET rest == <<[Top EXCEPT !.op = "sleep"]>> \o Tail(stack)
       IN  \/ XmitBegins(Top.dev, Top.why, rest)
           \/ XmitFails(Top.dev, Top.why, Tail(stack))

\* Polling after the send is a setting.
SmokePolls ==
    /\ In("sleep")
    /\ LET rest == <<[Top EXCEPT !.op = IF Top.why = "udp" THEN "again" ELSE "done"]>>
                   \o Tail(stack)
       IN  \/ PollBegins(rest)
           \/ /\ stack' = rest
              /\ sent' = None
              /\ UNCHANGED <<made, slots, napis, skb, backend>>

SmokePollsAgain ==
    /\ In("again")
    /\ ~Rec(Top.dev).pending /\ napis # <<>>
    /\ PollBegins(<<[Top EXCEPT !.op = "done"]>> \o Tail(stack))

\* The broadcast went well and the datagram is wanted too, or the test is over.
SmokeEnds ==
    /\ \/ In("done")
       \/ In("again") /\ (Rec(Top.dev).pending \/ napis = <<>>)
    /\ \/ stack' = Tail(stack)
       \/ Top.why = "arp" /\ stack' = <<[Top EXCEPT !.op = "smoke", !.why = "udp"]>> \o Tail(stack)
    /\ sent' = None
    /\ UNCHANGED <<made, slots, napis, skb, backend>>

Init ==
    /\ made = {} /\ napis = <<>> /\ stack = <<>> /\ sent = None
    /\ slots = [i \in 1 .. MaxTracked |-> None]
    /\ skb = [s \in Skbs |-> "free"]
    /\ backend \in Backends

Next ==
    \/ \E d \in Devs :
          \/ Alloc(d) \/ Free(d) \/ Smoke(d)
          \/ \E a, b, c \in BOOLEAN : Register(d, a, b, c)
          \/ \E ok \in BOOLEAN : Open(d, ok)
          \/ \E n \in Napis : NapiAdd(d, n)
    \/ \E b \in Backends : SetBackend(b)
    \/ TxFrame \/ Poll \/ PollReplies \/ PollAdvances \/ ReceiveReturns
    \/ SmokeSends \/ SmokePolls \/ SmokePollsAgain \/ SmokeEnds
    \/ \E ok \in BOOLEAN : XmitReturns(ok) \/ Receive(ok)
    \/ \E s \in Skbs : Consume(s)

-----------------------------------------------------------------------------
(* The types of the variables. *)
TypeOK ==
    /\ made \subseteq Devs /\ backend \in Backends
    /\ \A i \in DOMAIN slots : slots[i] # None => slots[i].dev \in made
    /\ skb \in [Skbs -> {"free", "kobox", "driver"}]
    /\ Len(stack) <= MaxDepth + 1

(* Every packet has one owner: the ones kobox holds are exactly those of the  *)
(* calls in progress, one each, so that none is left when they have returned  *)
(* (freed twice, or leaked, on no path of a transmission or a receipt).       *)
PacketsOwned ==
    LET held == {i \in DOMAIN stack : stack[i].skb # None}
    IN  /\ {stack[i].skb : i \in held} = {s \in Skbs : skb[s] = "kobox"}
        /\ \A i, j \in held : stack[i].skb = stack[j].skb => i = j

(* Each call finds the backend it works on, however deeply sends and polls    *)
(* nested inside it and whichever of them failed: a send its device's, a poll *)
(* its NAPI's device's, a callback or a test the one it was called on; and    *)
(* when the outermost returns, its caller's is back.                          *)
Owed ==
    CASE Top.op = "xmit" -> Rec(Top.dev).backend
      [] Top.op \in {"poll", "polled"} -> BackendOf(Top.dev, Top.old)
      [] OTHER -> Top.old

BackendKept ==
    stack # <<>> => /\ backend = Owed
                    /\ stack' = <<>> => backend' = Last(stack).old

(* The gateway is answered at most once after each datagram, and only when it *)
(* has asked since.                                                           *)
AnswersAsked ==
    sent' # None /\ sent'.why = "reply" =>
        Rec(sent'.dev).pending /\ Rec(sent'.dev).seen /\ ~Rec(sent'.dev).replied
=============================================================================
