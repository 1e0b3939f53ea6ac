----------------------------- MODULE UsbDevices -----------------------------
(***************************************************************************)
(* The USB subsystem's records of what usbcore and its drivers made        *)
(* (usb/usb.c, linux_usb.c), with the mass storage they lead to            *)
(* (UsbStorage), the SCSI hosts (scsi.c, linux_scsi.c), and the driver     *)
(* usb-storage.ko as its environment.  Records are found by address, so an *)
(* interface that was unplugged and one that was plugged in later at the   *)
(* same address are one name here, as they are to the code.                *)
(***************************************************************************)
EXTENDS UsbStorage

CONSTANTS
    Hcds,      \* host controllers
    DeviceOf   \* the device an interface belongs to

VARIABLES
    hcds,     \* usb_hcd_records: "no", "primary" or "shared"
    devrec,   \* usb_device_records: the controller of each, or "no"
    orphans,  \* history: devices observed under a controller without a record
    ifrec,    \* usb_interface_records: the device of each, None, or "no"
    eprec,    \* usb_endpoint_records: the device of each, None, or "no"
    driver,   \* usb_driver_records: usb-storage "registered"
    intf,     \* struct usb_interface: driver bound, driver data
    hosts     \* scsi_hosts, and the interface each was made for

devVars == <<hcds, devrec, orphans, ifrec, eprec, driver, intf, hosts>>
vars == <<storVars, devVars>>

Devices == Parents
Dirs == {"in", "out"}
Endpoints == Interfaces \X Dirs
InterfacesOf(d) == {i \in Interfaces : DeviceOf[i] = d}
Attached(ep) == [i \in Interfaces |-> {dir \in Dirs : ep[<<i, dir>>] # "no"}]

(***************************************************************************)
(* Observation.  g holds the records and the storage table while a call    *)
(* goes through them; got says which record allocations succeed.           *)
(***************************************************************************)
Graph == [dev |-> devrec, ifr |-> ifrec, ep |-> eprec, st |-> stor]

ObserveEndpoint(g, udev, i, dir, got, mem) ==
    IF g.ep[<<i, dir>>] = "no" /\ "ep" \notin got THEN g
    ELSE [g EXCEPT !.ep[<<i, dir>>] = udev, !.st = EndpointSeen(@, i, dir, mem)]

ObserveInterface(g, udev, i, bound, got, mem) ==
    LET seen == [g EXCEPT !.ifr[i] = udev,
                          !.st = Observed(@, i, DeviceOf[i], bound, intf[i].data,
                                          Attached(g.ep)[i], mem)]
    IN  ObserveEndpoint(IF g.ifr[i] = "no" /\ "if" \notin got THEN g ELSE seen,
                        udev, i, "in", got, mem)

ObserveGraph(hcd, d, got, mem) ==
    LET seen == IF devrec[d] = "no" /\ "dev" \notin got THEN Graph
                ELSE [Graph EXCEPT !.dev[d] = hcd]
    IN  FoldLeft(LAMBDA g, i : ObserveInterface(g, d, i, intf[i].drv, got, mem),
                 seen, SetToSeq(InterfacesOf(d)))

Becomes(g) ==
    /\ devrec' = g.dev /\ ifrec' = g.ifr /\ eprec' = g.ep
    /\ Follows(g.st)

\* The controller need not have a record: tracking it may have failed.
DeviceGraph(hcd, d, got, mem) ==
    /\ Becomes(ObserveGraph(hcd, d, got, mem))
    /\ orphans' = IF hcds[hcd] = "no" THEN orphans \cup {d} ELSE orphans \ {d}
    /\ UNCHANGED <<registered, hcds, driver, intf, hosts>>

\* A device added to the driver core, or bound; or the interface of a minor.
LinuxDevice(i, hint, got, mem) ==
    /\ Becomes(ObserveInterface(Graph, None, i, hint \/ intf[i].drv, got, mem))
    /\ UNCHANGED <<registered, hcds, orphans, driver, intf, hosts>>

FindCommonEndpoints(i, got, mem) ==
    /\ Becomes(IF ifrec[i] = "no" THEN Graph
               ELSE LET g == ObserveEndpoint(Graph, ifrec[i], i, "in", got, mem)
                    IN  ObserveEndpoint(g, ifrec[i], i, "out", got, mem))
    /\ UNCHANGED <<registered, hcds, orphans, driver, intf, hosts>>

(***************************************************************************)
(* Removal.  An interface takes its endpoints and its storage with it, a   *)
(* device the interfaces and endpoints that name it, a controller its      *)
(* devices.                                                                *)
(***************************************************************************)
ReleaseDevices(D) ==
    LET I == {i \in Interfaces : ifrec[i] \in D}
    IN  /\ devrec' = [d \in Devices |-> IF d \in D THEN "no" ELSE devrec[d]]
        /\ orphans' = orphans \ D
        /\ ifrec' = [i \in Interfaces |-> IF i \in I THEN "no" ELSE ifrec[i]]
        /\ eprec' = [e \in Endpoints |->
                IF e[1] \in I \/ eprec[e] \in D THEN "no" ELSE eprec[e]]
        /\ stor' = Forgotten(stor, I)
        /\ Unregistered(ForgottenSlots(stor, I))

DeviceRemove(d) ==
    /\ devrec[d] # "no"
    /\ ReleaseDevices({d})
    /\ UNCHANGED <<registered, hcds, driver, intf, hosts>>

InterfaceRemove(i) ==
    /\ ifrec[i] # "no"
    /\ ifrec' = [ifrec EXCEPT ![i] = "no"]
    /\ eprec' = [e \in Endpoints |-> IF e[1] = i THEN "no" ELSE eprec[e]]
    /\ stor' = Forgotten(stor, {i})
    /\ Unregistered(ForgottenSlots(stor, {i}))
    /\ UNCHANGED <<registered, hcds, devrec, orphans, driver, intf, hosts>>

EndpointRemove(e) ==
    /\ eprec[e] # "no"
    /\ eprec' = [eprec EXCEPT ![e] = "no"]
    /\ reply' = None
    /\ UNCHANGED <<stor, registered, gendisks, hist, hcds, devrec, orphans, ifrec, driver,
                   intf, hosts>>

(***************************************************************************)
(* Controllers: a PCI probe tracks the primary one, polling the shared one *)
(* of a tracked primary; each is released by itself.                       *)
(***************************************************************************)
TrackHcd(h, kind) ==
    /\ hcds[h] = "no"
    /\ kind = "shared" => \E p \in Hcds : hcds[p] = "primary"
    /\ hcds' = [hcds EXCEPT ![h] = kind]
    /\ reply' = None
    /\ UNCHANGED <<stor, registered, gendisks, hist, devrec, orphans, ifrec, eprec, driver,
                   intf, hosts>>

HcdRelease(h) ==
    /\ hcds[h] # "no"
    /\ hcds' = [hcds EXCEPT ![h] = "no"]
    /\ ReleaseDevices({d \in Devices : devrec[d] = h})
    /\ UNCHANGED <<registered, driver, intf, hosts>>

(***************************************************************************)
(* Drivers.  The storage table hears of usb-storage by its module name,    *)
(* whatever usbcore answered, and of every driver that goes.               *)
(***************************************************************************)
RegisterDriver(ok, mem) ==
    /\ driver' = IF ok THEN "registered" ELSE "failed"
    /\ registered' = TRUE
    /\ Follows(DriverSeen(stor, Attached(eprec), mem))
    /\ UNCHANGED <<hcds, devrec, orphans, ifrec, eprec, intf, hosts>>

DeregisterDriver ==
    /\ driver' = "gone"
    /\ registered' = FALSE
    /\ reply' = None
    /\ UNCHANGED <<stor, gendisks, hist, hcds, devrec, orphans, ifrec, eprec, intf, hosts>>

(***************************************************************************)
(* usb-storage.ko (external): its probe allocates a host, makes it the     *)
(* interface's data, adds and scans it; its disconnect goes back.          *)
(***************************************************************************)
HostFree == [state |-> "free", intf |-> None]
Kept == <<registered, hcds, devrec, orphans, ifrec, eprec, driver>>
Quiet == reply' = None /\ UNCHANGED <<stor, gendisks, hist>>

HostAlloc(h, i) ==
    /\ hosts[h].state = "free"
    /\ \A g \in Hosts : hosts[g].intf # i
    /\ hosts' = [hosts EXCEPT ![h] = [state |-> "alloc", intf |-> i]]
    /\ intf' = [intf EXCEPT ![i] = [drv |-> TRUE, data |-> h]]
    /\ Quiet /\ UNCHANGED Kept

\* Its memory is mapped for the interface or for the device above it.
AddHost(h, above, mem) ==
    /\ hosts[h].state = "alloc"
    /\ hosts' = [hosts EXCEPT ![h].state = "added"]
    /\ LET i == hosts[h].intf
       IN  NoteHost(h, i, IF above THEN DeviceOf[i] ELSE i, mem)
    /\ UNCHANGED <<Kept, intf>>

ScanHost(h, mem) ==
    /\ hosts[h].state = "added"
    /\ NoteScan(h, mem)
    /\ UNCHANGED <<Kept, intf, hosts>>

ScsiRemoveHost(h) ==
    /\ hosts[h].state = "added"
    /\ hosts' = [hosts EXCEPT ![h].state = "removed"]
    /\ RemoveHost(h)
    /\ UNCHANGED <<Kept, intf>>

\* After removal, or when the probe fails before the host was added.
HostPut(h) ==
    /\ hosts[h].state \in {"alloc", "removed"}
    /\ intf' = [intf EXCEPT ![hosts[h].intf] = [drv |-> FALSE, data |-> None]]
    /\ hosts' = [hosts EXCEPT ![h] = HostFree]
    /\ Quiet /\ UNCHANGED Kept

-----------------------------------------------------------------------------
Init ==
    /\ StorInit
    /\ hcds = [h \in Hcds |-> "no"]
    /\ devrec = [d \in Devices |-> "no"] /\ orphans = {}
    /\ ifrec = [i \in Interfaces |-> "no"]
    /\ eprec = [e \in Endpoints |-> "no"]
    /\ driver = "none"
    /\ intf = [i \in Interfaces |-> [drv |-> FALSE, data |-> None]]
    /\ hosts = [h \in Hosts |-> HostFree]

Observe(got, mem) ==
    \/ \E h \in Hcds, d \in {DeviceOf[i] : i \in Interfaces \ Synthetic} :
          DeviceGraph(h, d, got, mem)
    \/ \E i \in Interfaces \ Synthetic, hint \in BOOLEAN : LinuxDevice(i, hint, got, mem)
    \/ \E i \in Interfaces : FindCommonEndpoints(i, got, mem)

Removal ==
    \/ \E d \in Devices : DeviceRemove(d)
    \/ \E i \in Interfaces : InterfaceRemove(i)
    \/ \E e \in Endpoints : EndpointRemove(e)
    \/ \E h \in Hcds : HcdRelease(h) \/ TrackHcd(h, "primary") \/ TrackHcd(h, "shared")

Bind(mem) ==
    \/ \E ok \in BOOLEAN : RegisterDriver(ok, mem)
    \/ DeregisterDriver
    \/ \E h \in Hosts, i \in Interfaces \ Synthetic : HostAlloc(h, i)
    \/ \E h \in Hosts, above \in BOOLEAN : AddHost(h, above, mem)
    \/ \E h \in Hosts : ScanHost(h, mem) \/ ScsiRemoveHost(h) \/ HostPut(h)

Next ==
    \/ \E mem \in SUBSET Slots :
          Bind(mem) \/ \E got \in SUBSET {"dev", "if", "ep"} : Observe(got, mem)
    \/ Removal
    \/ (StorNext \/ StorSynthesize) /\ UNCHANGED devVars
Spec == Init /\ [][Next]_vars

-----------------------------------------------------------------------------
(* The types of the variables. *)
TypeOK ==
    /\ StorTypeOK
    /\ hcds \in [Hcds -> {"no", "primary", "shared"}]
    /\ devrec \in [Devices -> Hcds \cup {"no"}] /\ orphans \subseteq Devices
    /\ ifrec \in [Interfaces -> Devices \cup {None, "no"}]
    /\ eprec \in [Endpoints -> Devices \cup {None, "no"}]
    /\ intf \in [Interfaces -> [drv : BOOLEAN, data : Hosts \cup {None}]]
    /\ hosts \in [Hosts -> [state : {"free", "alloc", "added", "removed"},
                            intf : Interfaces \cup {None}]]

(* Nothing outlives what it hangs on: no device record names a controller    *)
(* that was released, unless it was made under a controller that had no      *)
(* record, and an interface's storage, with its disk, is gone as soon as the *)
(* interface's record is, by whichever of the three removals.                *)
NothingDangles ==
    /\ \A d \in Devices \ orphans : devrec[d] # "no" => hcds[devrec[d]] # "no"
    /\ \A k \in Active(stor) : stor[k].intf \in Synthetic \/ ifrec[stor[k].intf] # "no"

(* A host that is added goes to the storage of the interface it was made     *)
(* for, if that has a record and no other record still holds the host's      *)
(* address as its driver data; and removing the host takes that disk.        *)
HostsGoHome ==
    \A h \in Hosts :
        /\ hosts[h].state = "alloc" /\ hosts'[h].state = "added" =>
              LET own == ByInterface(stor, hosts[h].intf)
              IN  own # 0 /\ (\A k \in Active(stor) : stor[k].data = h => k = own) =>
                      stor'[own].host = h
        /\ hosts[h].state = "added" /\ hosts'[h].state = "removed" =>
              \A k \in Active(stor) : stor[k].host = h => ~Disk(stor'[k])
=============================================================================
