----------------------------- MODULE UsbRootHub -----------------------------
(***************************************************************************)
(* The root hubs of an xHCI controller as usbcore's hub driver sees them   *)
(* (linux_usb.c, usb/port_state.c): one virtual port per controller whose  *)
(* status is made from the ports' registers and from latched bits, polling *)
(* that completes the status URB or kicks the hub, and the hub's requests. *)
(* mode is the configuration: "full" (the port registers are read and      *)
(* requests answered here), "orig" (answered by the driver first), "fake"  *)
(* (a port that is always connected), "inject" (no real device: the driver *)
(* answers, events are injected).                                          *)
(***************************************************************************)
EXTENDS Integers, FiniteSets, FiniteSetsExt

CONSTANTS
    Hcds,      \* controllers
    Primary,   \* the one for USB 2 devices; the others are for USB 3
    MaxPorts,  \* ports of the hardware
    Links,     \* what a port may hold: "none", "usb2", "usb3"
    Modes,     \* the configurations explored
    Submits,   \* outcomes of submitting the status URB
    None

VARIABLES
    mode,   \* the configuration
    hw,     \* PORTSC of each port: link, enabled, and three change bits
    rh,     \* per controller: latched bits, injected events, hub, status URB
    told,   \* what the hub driver last read and still has to act on
    todo,   \* changes it has read and not yet cleared
    seen    \* whether it has ever read "connected"

vars == <<mode, hw, rh, told, todo, seen>>

Ports == 1 .. MaxPorts
Changes == {"conn", "enable", "reset"}
Real == mode \in {"full", "orig"}

Off == [conn |-> FALSE, enab |-> FALSE, chg |-> {}]
NoState == [conn |-> FALSE, enab |-> FALSE, chg |-> {}, cleared |-> {}, act |-> 0]
NoHub == [s |-> NoState, ev |-> FALSE, ready |-> FALSE, urb |-> "none", woken |-> FALSE]

(***************************************************************************)
(* The registers.                                                          *)
(***************************************************************************)
Speed(h) == IF h = Primary THEN "usb2" ELSE "usb3"
Matches(h, p) == hw[p].link = Speed(h)
PortStatus(p) == [conn |-> hw[p].link # "none", enab |-> hw[p].enab, chg |-> hw[p].chg]

\* The port behind virtual port 1, and the latched state that remembers it.
StickyPort(h, s) ==
    LET M == {p \in Ports : Matches(h, p)}
    IN  IF s.act # 0 THEN s.act ELSE IF M # {} THEN Min(M) ELSE 1
ActualPort(h, s) ==
    LET M == {p \in Ports : Matches(h, p)}
    IN  IF s.act \in M THEN s.act
        ELSE IF M # {} THEN Min(M)
        ELSE IF s.act # 0 THEN s.act ELSE 1
Remember(h, s) ==
    IF \E p \in Ports : Matches(h, p) THEN [s EXCEPT !.act = ActualPort(h, s)] ELSE s

BaseStatus(h, s) ==
    IF mode = "fake" THEN [conn |-> TRUE, enab |-> TRUE, chg |-> {}]
    ELSE IF Matches(h, ActualPort(h, s)) THEN PortStatus(ActualPort(h, s))
    ELSE Off

(***************************************************************************)
(* The latched bits.  cleared holds the register's changes that the hub    *)
(* has cleared here and the register still shows.                          *)
(***************************************************************************)
Overlay(s, st) ==
    LET flip == s.conn # st.conn
        enab == (s.enab /\ st.conn) \/ st.enab
        now == [s EXCEPT !.conn = st.conn, !.enab = enab,
                         !.chg = IF flip THEN @ \cup {"conn"} ELSE @,
                         !.cleared = (IF flip THEN @ \ {"conn"} ELSE @)
                                     \ (IF st.conn THEN {} ELSE {"enable", "reset"})]
    IN  [s |-> now,
         st |-> [conn |-> st.conn, enab |-> enab,
                 chg |-> (st.chg \ now.cleared) \cup now.chg]]

ReadPort(h, s) ==
    IF mode = "inject" THEN [s |-> s, st |-> PortStatus(1)]
    ELSE Overlay(IF mode = "fake" THEN s ELSE Remember(h, s), BaseStatus(h, s))

ClearChange(s, f) == [s EXCEPT !.chg = @ \ {f}, !.cleared = @ \cup {f}]

ResetDone(s) ==
    [s EXCEPT !.conn = TRUE, !.enab = TRUE, !.chg = @ \cup {"enable", "reset"},
              !.cleared = @ \ {"enable", "reset"}]

(***************************************************************************)
(* The status data: whether bit 1 is set, and the latched bits after it.   *)
(***************************************************************************)
HwChanged(p) == hw[p].chg # {}
AnyChanged == \E p \in Ports : HwChanged(p)

\* Only a new connection counts.
RegisterDataNew(h, s) ==
    LET on == Matches(h, ActualPort(h, s))
    IN  [bit |-> on /\ ~s.conn,
         s |-> [Remember(h, s) EXCEPT !.conn = on, !.enab = @ /\ on]]
RegisterData(h, s) ==
    LET r == Remember(h, s)
        on == Matches(h, ActualPort(h, s))
        fresh == hw[ActualPort(h, s)].chg \ s.cleared
        bit == s.chg # {} \/ (IF on THEN ~s.conn \/ fresh # {} ELSE s.conn)
    IN  [bit |-> bit,
         s |-> [r EXCEPT !.conn = on, !.enab = @ /\ on,
                         !.chg = IF bit /\ on THEN @ \cup {"conn"} ELSE @]]

FakeData(h, s) ==
    LET read == ReadPort(h, s)
        changed == ~s.conn \/ "conn" \in read.st.chg
    IN  IF AnyChanged
        THEN [bit |-> changed \/ HwChanged(1),
              s |-> IF changed THEN [read.s EXCEPT !.chg = @ \cup {"conn"}] ELSE read.s]
        ELSE [bit |-> "conn" \in s.chg, s |-> s]

StatusData(h, s) ==
    IF Real THEN RegisterData(h, s)
    ELSE IF mode = "fake" THEN FakeData(h, s)
    ELSE [bit |-> HwChanged(1), s |-> s]

\* Nothing to report: hub_status_data returned no bytes.
Silent(h, s) == IF mode = "inject" THEN ~AnyChanged ELSE ~StatusData(h, s).bit

(***************************************************************************)
(* Completing the status URB: the hub driver's handler wakes the hub and   *)
(* submits the URB again, unless that fails (again).                       *)
(***************************************************************************)
GiveBack(r, again) ==
    [r EXCEPT !.urb = IF again THEN "out" ELSE "none", !.woken = TRUE]

StatusComplete(h, r, again) ==
    IF r.urb = "none" THEN [done |-> FALSE, r |-> r]
    ELSE LET d == [r EXCEPT !.s = StatusData(h, @).s]
         IN  IF Silent(h, r.s) THEN [done |-> FALSE, r |-> d]
             ELSE [done |-> TRUE, r |-> GiveBack(d, again)]

\* A change on a port that neither is nor was connected is dropped.
Filtered(s) ==
    LET bit == HwChanged(1)
        on == bit /\ hw[1].link # "none"
    IN  [bit |-> bit /\ (on \/ s.conn), s |-> [s EXCEPT !.conn = on]]

InjectEvent(r, bit) ==
    LET ev == bit /\ r.ev
        new == bit /\ ~ev
    IN  IF r.ready /\ bit
        THEN [r EXCEPT !.s.conn = TRUE, !.ev = TRUE,
                       !.s.chg = IF new THEN @ \cup {"conn"} ELSE @,
                       !.woken = @ \/ new]
        ELSE [r EXCEPT !.ev = ev]

Kick(h, r, again) ==
    LET d == IF mode = "inject" /\ AnyChanged THEN Filtered(r.s) ELSE StatusData(h, r.s)
        r1 == [r EXCEPT !.s = d.s]
        c == StatusComplete(h, r1, again)
    IN  IF Silent(h, r.s) THEN [done |-> FALSE, r |-> r1]
        ELSE IF Real /\ c.done THEN c
        ELSE [done |-> r.ready,
              r |-> InjectEvent(IF Real THEN c.r ELSE r1, d.bit)]

\* usbcore's own poll (external), when the kick was not handled.
UsbcorePoll(r, again) ==
    IF AnyChanged /\ r.urb = "out" THEN GiveBack(r, again) ELSE r

PollOne(h, r, again) ==
    LET k == Kick(h, r, again)
    IN  IF k.done THEN k.r ELSE UsbcorePoll(k.r, again)

-----------------------------------------------------------------------------
(***************************************************************************)
(* What kobox does.                                                        *)
(***************************************************************************)
PollRootHubs(again) ==
    /\ rh' = [h \in Hcds |-> PollOne(h, rh[h], again)]
    /\ UNCHANGED <<mode, hw, told, todo, seen>>

PollRhStatus(h, again) ==
    /\ rh' = [rh EXCEPT ![h] = StatusComplete(h, @, again).r]
    /\ UNCHANGED <<mode, hw, told, todo, seen>>

GetPortStatus(h) ==
    LET read == ReadPort(h, rh[h].s)
    IN  /\ rh' = [rh EXCEPT ![h].s = read.s, ![h].woken = FALSE]
        /\ told' = [told EXCEPT ![h] = read.st]
        /\ todo' = [todo EXCEPT ![h] = read.st.chg]
        /\ seen' = [seen EXCEPT ![h] = @ \/ read.st.conn]
        /\ UNCHANGED <<mode, hw>>

ClearPortFeature(h, f) ==
    /\ rh' = IF mode = "inject" THEN rh
             ELSE [rh EXCEPT ![h].s = ClearChange(@, f)]
    /\ hw' = IF mode \in {"orig", "inject"} THEN [hw EXCEPT ![1].chg = @ \ {f}] ELSE hw

\* The reset of a port with a device may enable it or time out.
SetPortReset(h, works) ==
    LET s == rh[h].s
        port == IF mode = "full" THEN ActualPort(h, s) ELSE 1
        resets == mode # "fake" /\ hw[port].link # "none"
    IN  /\ hw' = IF resets
                 THEN [hw EXCEPT ![port].enab = works,
                                 ![port].chg = IF works THEN @ \cup {"reset"} ELSE @]
                 ELSE hw
        /\ rh' = IF mode = "inject" THEN rh
                 ELSE [rh EXCEPT ![h].s =
                         ResetDone(IF mode = "fake" THEN s ELSE Remember(h, s))]

\* hub_port_debounce with the registers: the status, latched, without a wait.
Debounce(h) ==
    LET on == Matches(h, ActualPort(h, rh[h].s))
    IN  /\ Real /\ todo[h] = {}
        /\ rh' = [rh EXCEPT ![h].s = IF on THEN ReadPort(h, @).s ELSE @]
        /\ seen' = [seen EXCEPT ![h] = @ \/ on]
        /\ UNCHANGED <<mode, hw, told, todo>>

(***************************************************************************)
(* The hub driver (external): woken, it reads the port, clears each change *)
(* it read, and may debounce and reset a port that is connected.           *)
(***************************************************************************)
HubRead(h) ==
    /\ rh[h].woken /\ rh[h].ready /\ todo[h] = {}
    /\ GetPortStatus(h)

HubClear(h) ==
    \E f \in todo[h] :
        /\ ClearPortFeature(h, f)
        /\ todo' = [todo EXCEPT ![h] = @ \ {f}]
        /\ told' = [told EXCEPT ![h] = IF todo[h] = {f} THEN None ELSE @]
        /\ UNCHANGED <<mode, seen>>

HubReset(h, works) ==
    /\ told[h] # None /\ told[h].conn
    /\ SetPortReset(h, works)
    /\ UNCHANGED <<mode, told, todo, seen>>

HubStarts(h, again) ==
    /\ ~rh[h].ready
    /\ rh' = [rh EXCEPT ![h].ready = TRUE, ![h].urb = IF again THEN "out" ELSE "none"]
    /\ UNCHANGED <<mode, hw, told, todo, seen>>

SubmitStatusUrb(h) ==
    /\ rh[h].ready /\ rh[h].urb = "none"
    /\ rh' = [rh EXCEPT ![h].urb = "out"]
    /\ UNCHANGED <<mode, hw, told, todo, seen>>

\* Devices come and go (external); a USB 3 port enables itself.
Plug(p, link) ==
    /\ (hw[p].link = "none") # (link = "none")
    /\ hw' = [hw EXCEPT ![p] = [link |-> link, enab |-> link = "usb3",
                                chg |-> @.chg \cup {"conn"}]]
    /\ UNCHANGED <<mode, rh, told, todo, seen>>

Init ==
    /\ mode \in Modes
    /\ hw = [p \in Ports |-> [link |-> "none", enab |-> FALSE, chg |-> {}]]
    /\ rh = [h \in Hcds |->
                IF mode = "fake" THEN [NoHub EXCEPT !.s.conn = TRUE, !.s.chg = {"conn"}]
                ELSE NoHub]
    /\ told = [h \in Hcds |-> None]
    /\ todo = [h \in Hcds |-> {}]
    /\ seen = [h \in Hcds |-> FALSE]

Next ==
    \/ \E again \in Submits :
          PollRootHubs(again) \/ \E h \in Hcds : PollRhStatus(h, again) \/ HubStarts(h, again)
    \/ \E h \in Hcds : \/ HubRead(h) \/ HubClear(h) \/ Debounce(h) \/ SubmitStatusUrb(h)
                       \/ \E works \in BOOLEAN : HubReset(h, works)
    \/ \E p \in Ports, link \in Links : Plug(p, link)

\* Polling goes on in every wait, and the hub driver does its work.
Fair ==
    /\ WF_vars(\E again \in Submits : PollRootHubs(again))
    /\ \A h \in Hcds :
          /\ WF_vars(\E again \in Submits : HubStarts(h, again))
          /\ WF_vars(SubmitStatusUrb(h)) /\ WF_vars(HubRead(h)) /\ WF_vars(HubClear(h))

Spec == Init /\ [][Next]_vars /\ Fair

-----------------------------------------------------------------------------
Statuses == [conn : BOOLEAN, enab : BOOLEAN, chg : SUBSET Changes]

(* The types of the variables. *)
TypeOK ==
    /\ mode \in Modes
    /\ hw \in [Ports -> [link : Links, enab : BOOLEAN, chg : SUBSET Changes]]
    /\ rh \in [Hcds ->
          [s : [conn : BOOLEAN, enab : BOOLEAN, chg : SUBSET Changes,
                cleared : SUBSET Changes, act : 0 .. MaxPorts],
           ev : BOOLEAN, ready : BOOLEAN, urb : {"none", "out"}, woken : BOOLEAN]]
    /\ told \in [Hcds -> Statuses \cup {None}]
    /\ todo \in [Hcds -> SUBSET Changes]

Plugged(h) == \E p \in Ports : Matches(h, p)

(* What the hub reads is so: the port is connected exactly when a device of  *)
(* the controller's speed is in some port (moved to another one since the    *)
(* last read, even), it is enabled only if connected, and a change the hub   *)
(* cleared does not come back by reading alone.                              *)
ReadsTrue ==
    \A h \in Hcds : told'[h] # told[h] /\ told'[h] # None =>
        /\ Real => told'[h].conn = Plugged(h)
        /\ told'[h].enab => told'[h].conn
        /\ mode = "full" /\ rh[h].s.conn = told'[h].conn =>
              (told'[h].chg \cap rh[h].s.cleared) \subseteq rh[h].s.chg

(* What has to come to the hub driver: a latched connection change, and the  *)
(* first device that is plugged in, unless it is pulled first.               *)
ChangeLatched(h) == mode # "inject" /\ "conn" \in rh[h].s.chg
ChangeRead(h) == told[h] # None /\ "conn" \in told[h].chg
Unseen(h) == Real /\ Plugged(h) /\ ~seen[h]
=============================================================================
