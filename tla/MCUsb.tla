-------------------------------- MODULE MCUsb --------------------------------
(***************************************************************************)
(* The USB subsystem for TLC.  A behaviour exercises one setting, named by  *)
(* part, and leaves the variables of the others in their initial states:    *)
(* the tree of controllers, devices, interfaces and endpoints; the SCSI     *)
(* hosts of usb-storage.ko; the medium; the root hubs, with two ports read  *)
(* from the registers and with one in every configuration; the requests.    *)
(***************************************************************************)
EXTENDS UsbUrb, TLC

CONSTANTS i1, i2, i3, d1, d2, h1, h2, c1, c2

VARIABLES
  part,
  stor, registered, gendisks, hist, reply,
  hcds, devrec, orphans, ifrec, eprec, driver, intf, hosts,
  mode, hw, rh, told, todo, seen

storVars == <<stor, registered, gendisks, hist, reply>>
devVars == <<hcds, devrec, orphans, ifrec, eprec, driver, intf, hosts>>
hubVars == <<mode, hw, rh, told, todo, seen>>
allVars == <<part, storVars, devVars, hubVars, vars>>

Rw(op, lba, n, len, out, val) ==
  [op |-> op, lba |-> lba, n |-> n, len |-> len, out |-> out, short |-> FALSE, val |-> val]

(* Across extents and in one, past the end, with the wrong direction and    *)
(* with too little room; and the replies of fixed size.                     *)
Sent ==
  {Rw("write", 0, 2, 2, TRUE, 0), Rw("write", 1, 2, 2, TRUE, 0),
   Rw("write", 2, 2, 2, TRUE, 1), Rw("write", 1, 1, 1, FALSE, 1),
   Rw("read", 0, 2, 2, FALSE, 0), Rw("read", 1, 2, 1, FALSE, 0),
   Rw("sense", 0, 0, 2, FALSE, 0), Rw("capacity", 0, 0, 1, TRUE, 0),
   Rw("bad", 0, 0, 0, FALSE, 0)}

Devs == INSTANCE UsbDevices WITH
  MaxRecords <- 2, Interfaces <- {i1, i2, i3}, Synthetic <- {i3}, Parents <- {d1, d2},
  Hosts <- {h1, h2}, Capacity <- 3, ExtentBlocks <- 2, Commands <- Sent,
  SmokeAt <- 0, SmokeScsiAt <- 2, SmokeMin <- 3,
  Hcds <- {c1, c2}, DeviceOf <- (i1 :> d1 @@ i2 :> d1 @@ i3 :> d2)
Hub == INSTANCE UsbRootHub WITH
  Hcds <- {c1}, Primary <- c1, MaxPorts <- 2, Links <- {"none", "usb2"},
  Modes <- {"full"}, Submits <- {TRUE}
Port == INSTANCE UsbRootHub WITH
  Hcds <- {c1}, Primary <- c1, MaxPorts <- 1, Links <- {"none", "usb2", "usb3"},
  Modes <- {"full", "orig", "fake", "inject"}, Submits <- BOOLEAN

MCInit ==
  /\ part \in {"tree", "hosts", "media", "hub", "port", "urb"}
  /\ Devs!Init /\ Init
  /\ IF part = "port" THEN Port!Init ELSE Hub!Init

(* The records allocations succeed for, and the kinds of record that do. *)
Mems == {{}, {1, 2}}
All == {"dev", "if", "ep"}

Tree ==
  \/ \E g \in {<<{"dev"}, {1, 2}>>, <<{"if"}, {1, 2}>>, <<{"ep"}, {1, 2}>>,
             <<All, {1}>>, <<All, {1, 2}>>} :
        \/ Devs!DeviceGraph(c1, d1, g[1], g[2])
        \/ Devs!LinuxDevice(i1, FALSE, g[1], g[2])
        \/ Devs!FindCommonEndpoints(i1, g[1], g[2])
  \/ Devs!TrackHcd(c1, "primary") \/ Devs!TrackHcd(c2, "shared")
  \/ \E c \in {c1, c2} : Devs!HcdRelease(c)
  \/ Devs!DeviceRemove(d1) \/ Devs!InterfaceRemove(i2) \/ Devs!EndpointRemove(<<i1, "in">>)
  \/ Devs!RegisterDriver(TRUE, {1, 2}) \/ Devs!DeregisterDriver
HostsOf ==
  \/ \E i \in {i1, i2} : Devs!LinuxDevice(i, FALSE, All, {1, 2})
  \/ Devs!InterfaceRemove(i1)
  \/ Devs!RegisterDriver(FALSE, {1, 2})
  \/ \E h \in {h1, h2} :
        \/ \E i \in {i1, i2} : Devs!HostAlloc(h, i)
        \/ \E mem \in Mems : Devs!AddHost(h, mem = {}, mem)
        \/ Devs!ScanHost(h, {1, 2}) \/ Devs!ScsiRemoveHost(h) \/ Devs!HostPut(h)
  \/ Devs!Synthesize(i3, d2, {1, 2}) /\ UNCHANGED devVars
Media ==
  \/ Devs!StorNext /\ UNCHANGED devVars
  \/ /\ reply = None
     /\ \/ Devs!LinuxDevice(i1, FALSE, {"if"}, {1, 2})
        \/ Devs!HostAlloc(h1, i1) \/ Devs!AddHost(h1, TRUE, {1, 2})
        \/ Devs!ScsiRemoveHost(h1) \/ Devs!HostPut(h1)
        \/ Devs!InterfaceRemove(i1)

MCNext ==
  /\ part' = part
  /\ \/ /\ \/ part = "tree" /\ Tree
           \/ part = "hosts" /\ HostsOf
           \/ part = "media" /\ Media
        /\ UNCHANGED <<hubVars, vars>>
     \/ /\ \/ part = "hub" /\ Hub!Next
           \/ part = "port" /\ Port!Next
        /\ UNCHANGED <<storVars, devVars, vars>>
     \/ /\ part = "urb" /\ Next
        /\ UNCHANGED <<storVars, devVars, hubVars>>
MCSpec == MCInit /\ [][MCNext]_allVars

-----------------------------------------------------------------------------
(* The types of all variables. *)
AllTypes ==
  /\ Devs!TypeOK /\ TypeOK
  /\ IF part = "port" THEN Port!TypeOK ELSE Hub!TypeOK

(* UsbStorage and UsbDevices: a sector reads as it was last written whichever *)
(* way, answers tell what happened, the block layer's disks are the records', *)
(* each interface and each SCSI host has one record, no record outlives what  *)
(* it hangs on, and a SCSI host goes to the storage of its interface and      *)
(* takes that disk when it leaves.                                            *)
StorageTrue ==
  [][/\ (/\ Devs!ReadsTrue /\ Devs!AnswersTrue /\ Devs!DisksOwned /\ Devs!OneRecordEach
         /\ Devs!NothingDangles)'
     /\ Devs!HostsGoHome]_allVars

(* UsbRootHub: what the hub driver reads of its port is so. *)
PortReadsTrue ==
  [][(part = "hub" => Hub!ReadsTrue) /\ (part = "port" => Port!ReadsTrue)]_allVars
=============================================================================
