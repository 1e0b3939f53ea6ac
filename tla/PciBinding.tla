------------------------------ MODULE PciBinding ------------------------------
(***************************************************************************)
(* PCI drivers and the devices (linux_pci.c): registration probes the      *)
(* devices one after the other, unregistration removes those of the driver,*)
(* and in between drivers switch their devices on and off.  `active' is    *)
(* the global active_binding, which every call of a driver moves to its    *)
(* own device; probe and remove finish on the one it is at when they       *)
(* return.  There is one table of bindings, which every registration       *)
(* clears.  Drivers do not register others from their probes.              *)
(***************************************************************************)
EXTENDS Integers

CONSTANTS
    N,           \* devices of the backend, 1 .. N
    Drivers,     \* the drivers
    Switched,    \* the devices their drivers switch on and off
    NoDriver     \* the driver of an empty binding

Devs == 1 .. N

VARIABLES
    phase,      \* "idle", "register", "probe", "unregister", "remove"
    cur,        \* the driver that is registered or unregistered
    idx,        \* registration_device_index, or unregister's i
    active,     \* active_binding
    registered, \* drivers between registration and unregistration
    bound,      \* [Devs -> binding.driver]; binding.device is set with it
    probed,     \* [Devs -> binding.probed]
    serving,    \* <<d, r>>: r took d and has not been asked to leave
    lost,       \* <<d, r>>: that came to nothing in the table (history)
    shadow, hw, \* [Devs -> bits of the command register]: binding, device
    enabled,    \* bound devices whose last pci_enable_device returned 0
    stale       \* devices that parted from their shadow (history)

bindVars == <<phase, cur, idx, active, registered, bound, probed, serving, lost>>
cmdVars == <<shadow, hw, enabled, stale>>
vars == <<bindVars, cmdVars>>

Empty == [d \in Devs |-> NoDriver]

Init ==
    /\ phase = "idle" /\ cur = NoDriver /\ idx = 1 /\ active = 1
    /\ registered = {} /\ bound = Empty /\ probed = [d \in Devs |-> FALSE]
    /\ serving = {} /\ lost = {}
    /\ shadow = [d \in Devs |-> {}] /\ hw = shadow /\ enabled = {} /\ stale = {}

-----------------------------------------------------------------------------
\* Registration and unregistration

\* pci_register_driver, outer call: every binding is cleared, whoever it
\* belongs to, and the drivers that were bound will not be asked to leave.
Register(r) ==
    /\ phase = "idle" /\ r \notin registered
    /\ phase' = "register" /\ cur' = r /\ idx' = 1 /\ active' = 1
    /\ registered' = registered \cup {r}
    /\ bound' = Empty /\ probed' = [d \in Devs |-> FALSE]
    /\ serving' = serving \ (Devs \X {r}) /\ lost' = serving'
    /\ shadow' = [d \in Devs |-> {}] /\ enabled' = {} /\ stale' = {}
    /\ UNCHANGED hw

\* The loop goes on to the next device; after the last active is binding 0.
NextDevice(ph) ==
    IF idx < N THEN phase' = ph /\ idx' = idx + 1 /\ active' = idx + 1 /\ UNCHANGED cur
               ELSE phase' = "idle" /\ idx' = 1 /\ active' = 1 /\ cur' = NoDriver

\* The device does not match, or cannot be identified: no binding.
SkipDevice ==
    /\ phase = "register" /\ NextDevice("register")
    /\ UNCHANGED <<registered, bound, probed, serving, lost, cmdVars>>

\* The binding is filled, its command word read from the device (or 0 when
\* that fails); a driver without probe is done, otherwise probe is called.
BindDevice ==
    /\ phase = "register"
    /\ bound' = [bound EXCEPT ![active] = cur]
    /\ probed' = [probed EXCEPT ![active] = FALSE]
    /\ \E c \in {hw[idx], {}} : shadow' = [shadow EXCEPT ![active] = c]
    /\ enabled' = enabled \ {idx} /\ stale' = stale \ {idx}
    /\ \/ phase' = "probe" /\ UNCHANGED <<idx, active, cur>>
       \/ NextDevice("register")
    /\ UNCHANGED <<registered, serving, lost, hw>>

\* The outcome of a probe or remove of idx went to another binding.
Astray ==
    IF active = idx THEN {} ELSE ({idx} \X {cur}) \cup ({active} \X ({bound[active]} \ {NoDriver}))

\* probe returns; the outcome is written to the active binding.
ProbeSucceeds ==
    /\ phase = "probe"
    /\ probed' = [probed EXCEPT ![active] = TRUE]
    /\ serving' = serving \cup {<<idx, cur>>} /\ lost' = lost \cup Astray
    /\ NextDevice("register")
    /\ UNCHANGED <<registered, bound, cmdVars>>

ProbeFails ==
    /\ phase = "probe"
    /\ bound' = [bound EXCEPT ![active] = NoDriver]
    /\ lost' = lost \cup Astray
    /\ NextDevice("register")
    /\ enabled' = enabled \ {idx, active}
    /\ UNCHANGED <<registered, probed, serving, shadow, hw, stale>>

Unregister(r) ==
    /\ phase = "idle" /\ r \in registered
    /\ phase' = "unregister" /\ cur' = r /\ idx' = 1 /\ active' = 1
    /\ registered' = registered \ {r}
    /\ UNCHANGED <<bound, probed, serving, lost, cmdVars>>

\* Forget binding a: the memset at the end of the loop body.
Forget(a) ==
    /\ bound' = [bound EXCEPT ![a] = NoDriver]
    /\ probed' = [probed EXCEPT ![a] = FALSE]
    /\ shadow' = [shadow EXCEPT ![a] = {}]
    /\ enabled' = enabled \ {idx, a} /\ stale' = stale \ {a}

UnregisterStepAny ==  \* a plausible slip: probed is not looked at
    /\ phase = "unregister"
    /\ IF bound[idx] /= cur
       THEN NextDevice("unregister") /\ UNCHANGED <<bound, probed, shadow, enabled, stale>>
       ELSE phase' = "remove" /\ UNCHANGED <<cur, idx, active, bound, probed, shadow, enabled, stale>>
    /\ UNCHANGED <<registered, serving, lost, hw>>

\* The loop body up to the call of remove: a binding of another driver is
\* passed over, one that is not probed is only cleared.
UnregisterStep ==
    /\ phase = "unregister"
    /\ CASE bound[idx] /= cur ->
              NextDevice("unregister") /\ UNCHANGED <<bound, probed, shadow, enabled, stale>>
         [] bound[idx] = cur /\ ~probed[idx] -> NextDevice("unregister") /\ Forget(idx)
         [] OTHER -> /\ phase' = "remove"
                     /\ UNCHANGED <<cur, idx, active, bound, probed, shadow, enabled, stale>>
    /\ UNCHANGED <<registered, serving, lost, hw>>

RemoveReturns ==
    /\ phase = "remove"
    /\ serving' = serving \ {<<idx, cur>>} /\ lost' = lost \cup Astray
    /\ Forget(active) /\ NextDevice("unregister")
    /\ UNCHANGED <<registered, hw>>

-----------------------------------------------------------------------------
\* What a driver's code for device d does, and when it runs: during probe and
\* remove, and, from interrupts and deferred work, while the device is served.

MayRun(d) ==
    \/ phase \in {"probe", "remove"} /\ idx = d
    \/ phase \in {"idle", "probe", "remove"} /\ \E r \in Drivers : <<d, r>> \in serving

Activates(d) ==
    /\ MayRun(d) /\ active' = d
    /\ UNCHANGED <<phase, cur, idx, registered, bound, probed, serving, lost>>

\* first_device: the device of binding d, or when it has none the one that is
\* being registered, or the first.
FirstDevice(d) ==
    IF bound[d] /= NoDriver THEN d ELSE IF phase = "probe" THEN idx ELSE 1

\* update_pci_command succeeds or not; nothing is written when the shadow
\* agrees already.
Command(d, next, ok) ==
    LET to == FirstDevice(d)
        writes == ok /\ next /= shadow[d]
    IN  /\ hw' = IF writes THEN [hw EXCEPT ![to] = next] ELSE hw
        /\ stale' = IF writes /\ to /= d THEN stale \cup {to}
                    ELSE IF writes \/ "mem" \notin next THEN stale \ {d}
                    ELSE IF "mem" \notin shadow[d] THEN stale \cup {d} ELSE stale

\* pci_enable_device: the shadow gets the bit even if the write failed.
Enable(d) ==
    /\ Activates(d)
    /\ \E ok \in BOOLEAN :
         LET next == shadow[d] \cup {"mem"}
         IN  /\ Command(d, next, ok) /\ shadow' = [shadow EXCEPT ![d] = next]
             /\ enabled' = IF ok /\ bound[d] /= NoDriver THEN enabled \cup {d} ELSE enabled \ {d}

\* pci_set_master: a failure is not reported.
SetMaster(d) ==
    /\ Activates(d)
    /\ LET next == shadow[d] \cup {"master"}
       IN  /\ \E ok \in BOOLEAN : Command(d, next, ok)
           /\ shadow' = [shadow EXCEPT ![d] = next]
    /\ UNCHANGED enabled

\* pci_disable_device; an NVMe controller's window is mapped for the while.
Disable(d) ==
    /\ Activates(d)
    /\ LET next == shadow[d] \ {"mem", "master"}
       IN  /\ \E ok \in BOOLEAN : Command(d, next, ok)
           /\ shadow' = [shadow EXCEPT ![d] = next]
    /\ enabled' = enabled \ {d}

\* Other calls for a device (configuration space, vectors, interrupts).
Touch(d) == Activates(d) /\ UNCHANGED cmdVars

DriverStep(d) ==
    \/ Touch(d)
    \/ d \in Switched /\ (Enable(d) \/ SetMaster(d) \/ Disable(d))

Next ==
    \/ \E r \in Drivers : Register(r) \/ Unregister(r)
    \/ SkipDevice \/ BindDevice \/ ProbeSucceeds \/ ProbeFails
    \/ UnregisterStep \/ RemoveReturns
    \/ \E d \in Devs : DriverStep(d)

Spec == Init /\ [][Next]_vars

\* Probes and removes return, and the loops around them go on.
FairSpec ==
    /\ Spec
    /\ WF_bindVars(BindDevice \/ SkipDevice \/ UnregisterStep)
    /\ SF_vars(ProbeSucceeds \/ ProbeFails) /\ SF_vars(RemoveReturns)

-----------------------------------------------------------------------------
\* Types.
TypeOK ==
    /\ phase \in {"idle", "register", "probe", "unregister", "remove"}
    /\ idx \in Devs /\ active \in Devs /\ cur \in Drivers \cup {NoDriver}
    /\ bound \in [Devs -> Drivers \cup {NoDriver}] /\ serving \subseteq Devs \X Drivers
    /\ shadow \in [Devs -> SUBSET {"mem", "master"}] /\ hw \in [Devs -> SUBSET {"mem", "master"}]

\* Between the calls a driver has a binding marked probed exactly for the
\* devices it serves, so that its unregistration removes each of them; and
\* remove is called for no device its driver did not take, a failed or absent
\* probe and another driver's device included.  A driver loses this for a
\* device only when a later registration cleared the table, or when code of
\* another device ran during its probe or remove and moved active_binding
\* (pci_register_driver, pci_unregister_driver).
ProbedServed ==
    /\ phase = "idle" => \A d \in Devs, r \in Drivers :
         <<d, r>> \notin lost => ((bound[d] = r /\ probed[d]) <=> <<d, r>> \in serving)
    /\ phase = "remove" => <<idx, cur>> \in serving \cup lost

\* A device whose pci_enable_device returned 0 decodes memory, unless an
\* earlier enable's write had failed (the shadow has the bit, and a retry
\* writes nothing) or a driver without a binding wrote to it.
EnabledOn == \A d \in enabled \ stale : "mem" \in hw[d]

\* A driver that has been unregistered has left all its devices.
Left == phase = "idle" /\ \A p \in serving \ lost : p[2] \in registered
=============================================================================
