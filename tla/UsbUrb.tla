------------------------------- MODULE UsbUrb -------------------------------
(***************************************************************************)
(* The requests (URBs) of the USB stack: their DMA mappings and the        *)
(* records kobox keeps of them (linux_usb.c: map and unmap for DMA, submit, *)
(* unlink, kill, give back, the clean-up at shutdown; usb/usb.c: the       *)
(* records).  usbcore and the controller driver are external: a submission *)
(* clears the URB's mapping flags, maps it and queues it.                  *)
(***************************************************************************)
EXTENDS Integers, FiniteSets, FiniteSetTheorems, TLAPS

CONSTANTS
    Urbs,     \* the requests
    Control,  \* those with a setup packet beside the data
    Hcd,      \* the controller
    MaxMaps,  \* bound on the mappings made
    None

ASSUME MapsAssumption == MaxMaps \in Nat

VARIABLES
    urb,     \* flags (mapped parts) and DMA address of each part, in the URB
    rec,     \* kobox's record of it
    live,    \* mappings that exist
    made,    \* mappings made so far
    queued,  \* URBs the controller holds
    wild,    \* an address was unmapped that was not mapped
    done     \* the clean-up at shutdown has run

vars == <<urb, rec, live, made, queued, wild, done>>

Parts == {"data", "setup"}
PartsOf(u) == IF u \in Control THEN Parts ELSE {"data"}
NoDma == [p \in Parts |-> 0]
NoRecord == [hcd |-> None, linked |-> FALSE, mapped |-> {}, dma |-> NoDma]

\* urb_record_for: the record, made if there is none and memory for it.
RecordFor(u, h) ==
    IF rec[u] = None THEN [NoRecord EXCEPT !.hcd = h]
    ELSE [rec[u] EXCEPT !.hcd = IF @ = None THEN h ELSE @]

Addresses(x, parts) == {x.dma[p] : p \in parts}

Linked(r, u, on) ==
    [r EXCEPT ![u] = [(IF @ = None THEN NoRecord ELSE @) EXCEPT !.linked = on]]

(***************************************************************************)
(* map_urb_for_dma for a URB whose flags usbcore has cleared: it maps every *)
(* part and notes it in the record if there is one or memory for it; or    *)
(* some part cannot be mapped, and then none is.                           *)
(***************************************************************************)
MapFails(u, part) ==
    /\ part \in PartsOf(u)
    /\ LET dma == [urb[u].dma EXCEPT !["data"] = IF part = "setup" THEN 0 ELSE @]
       IN  urb' = [urb EXCEPT ![u] = [flags |-> {}, dma |-> dma]]
    /\ rec' = Linked(rec, u, FALSE)
    /\ UNCHANGED <<live, made>>

NewDma(u) ==
    [p \in Parts |-> IF p \notin PartsOf(u) THEN 0
                     ELSE IF p = "data" THEN made + 1 ELSE made + 2]

Maps(u) ==
    LET n == Cardinality(PartsOf(u))
    IN  made + n <= MaxMaps /\ made' = made + n

MapOk(u) ==
    /\ Maps(u)
    /\ live' = live \cup Addresses([dma |-> NewDma(u)], PartsOf(u))
    /\ urb' = [urb EXCEPT ![u] = [flags |-> PartsOf(u), dma |-> NewDma(u)]]

MapRecord(u, parts) ==
    [RecordFor(u, Hcd) EXCEPT !.hcd = Hcd, !.mapped = parts, !.dma = NewDma(u)]

\* A plausible slip: the record goes on naming what was unmapped.
UnmapKeepsRecord(u) ==
    LET gone == Addresses(urb[u], urb[u].flags)
    IN  /\ wild' = (wild \/ ~(gone \subseteq live))
        /\ live' = live \ gone
        /\ urb' = [urb EXCEPT ![u].flags = {}]
        /\ rec' = [rec EXCEPT ![u] = RecordFor(u, Hcd)]

\* unmap_urb_for_dma goes by the URB's flags.
Unmap(u) ==
    LET gone == Addresses(urb[u], urb[u].flags)
    IN  /\ wild' = (wild \/ ~(gone \subseteq live))
        /\ live' = live \ gone
        /\ urb' = [urb EXCEPT ![u].flags = {}]
        /\ rec' = [rec EXCEPT ![u] = [RecordFor(u, Hcd) EXCEPT !.mapped = {}]]

(***************************************************************************)
(* kb_usb_submit_urb.  The last thing it does is to note the result, after *)
(* usbcore may already have completed the URB: it is then "linked" though  *)
(* nobody holds it.                                                        *)
(***************************************************************************)
SubmitFails(u) ==
    /\ ~done /\ u \notin queued
    /\ \/ \E part \in Parts : MapFails(u, part)
       \/ /\ rec[u] = None /\ MapOk(u)
          /\ rec' \in {rec, Linked(rec, u, FALSE)}
    /\ UNCHANGED <<queued, wild, done>>

Submit(u) ==
    /\ ~done
    /\ u \notin queued \/ (rec[u] # None /\ ~rec[u].linked)
    /\ MapOk(u)
    /\ rec' = Linked([rec EXCEPT ![u] = MapRecord(u, PartsOf(u))], u, TRUE)
    /\ queued' = queued \cup {u}
    /\ UNCHANGED <<wild, done>>

SubmitCompletes(u) ==
    /\ ~done /\ u \notin queued
    /\ Maps(u)
    /\ urb' = [urb EXCEPT ![u] = [flags |-> {}, dma |-> NewDma(u)]]
    /\ rec' = Linked([rec EXCEPT ![u] = MapRecord(u, {})], u, TRUE)
    /\ UNCHANGED <<live, queued, wild, done>>

\* The controller is done with it: usbcore unmaps and gives back.
CompleteByCore(u) ==
    /\ u \in queued /\ ~done
    /\ Unmap(u)
    /\ queued' = queued \ {u}
    /\ UNCHANGED <<made, done>>

\* kb_usb_hcd_giveback_urb and kb_usb_hcd_unlink_urb_from_ep, for drivers bound to them.
CompleteByShim(u) ==
    /\ u \in queued /\ ~done
    /\ rec' = Linked(rec, u, FALSE)
    /\ queued' = queued \ {u}
    /\ UNCHANGED <<urb, live, made, wild, done>>

(***************************************************************************)
(* kb_usb_unlink_urb, kb_usb_kill_urb: a linked URB is given back here and *)
(* the controller still holds it, so the driver may submit it once more;   *)
(* another is left to usbcore.  A report of the synthetic mouse gives a    *)
(* URB back the same way, at the end of its submission.                    *)
(***************************************************************************)
Kill(u) ==
    /\ ~done
    /\ IF rec[u] # None /\ rec[u].linked
       THEN /\ rec' = Linked(rec, u, FALSE)
            /\ UNCHANGED <<urb, live, queued, wild>>
       ELSE IF u \in queued
       THEN /\ Unmap(u)
            /\ queued' = queued \ {u}
       ELSE /\ rec' = Linked(rec, u, FALSE)
            /\ UNCHANGED <<urb, live, queued, wild>>
    /\ UNCHANGED <<made, done>>

\* urb_records_release_for_hcd.
ReleaseHcd ==
    /\ ~done
    /\ \E u \in Urbs : rec[u] # None /\ rec[u].hcd = Hcd
    /\ rec' = [u \in Urbs |-> IF rec[u] # None /\ rec[u].hcd = Hcd THEN None ELSE rec[u]]
    /\ UNCHANGED <<urb, live, made, queued, wild, done>>

\* kb_usb_cleanup_tracked_urb_dma goes by the records.
Recorded == UNION {Addresses(rec[u], rec[u].mapped) : u \in {v \in Urbs : rec[v] # None}}

Cleanup ==
    /\ ~done
    /\ done' = TRUE
    /\ wild' = (wild \/ ~(Recorded \subseteq live))
    /\ live' = live \ Recorded
    /\ rec' = [u \in Urbs |-> IF rec[u] = None THEN None ELSE [rec[u] EXCEPT !.mapped = {}]]
    /\ UNCHANGED <<urb, made, queued>>

Init ==
    /\ urb = [u \in Urbs |-> [flags |-> {}, dma |-> NoDma]]
    /\ rec = [u \in Urbs |-> None]
    /\ live = {} /\ made = 0 /\ queued = {}
    /\ wild = FALSE /\ done = FALSE

Next ==
    \/ \E u \in Urbs : \/ SubmitFails(u) \/ Submit(u) \/ SubmitCompletes(u)
                       \/ CompleteByCore(u) \/ CompleteByShim(u)
                       \/ Kill(u)
    \/ ReleaseHcd
    \/ Cleanup

Spec == Init /\ [][Next]_vars

UrbState == [flags : SUBSET Parts, dma : [Parts -> 0 .. MaxMaps]]
Record == [hcd : {None, Hcd}, linked : BOOLEAN, mapped : SUBSET Parts,
           dma : [Parts -> 0 .. MaxMaps]]

(* The types of the variables. *)
TypeOK ==
    /\ urb \in [Urbs -> UrbState]
    /\ rec \in [Urbs -> Record \cup {None}]
    /\ live \subseteq 1 .. MaxMaps
    /\ made \in 0 .. MaxMaps
    /\ queued \subseteq Urbs
    /\ wild \in BOOLEAN /\ done \in BOOLEAN

(* Whoever unmaps, by the URB's flags or by kobox's record at shutdown, has   *)
(* a mapping that exists and is this URB's: failed submissions, kills of      *)
(* URBs the controller still holds and released controllers included.         *)
UnmapsOwn ==
    /\ ~wild
    /\ Recorded \subseteq live
    /\ ~done => \A u \in Urbs : Addresses(urb[u], urb[u].flags) \subseteq live
    /\ \A u, v \in Urbs : u # v => Addresses(urb[u], urb[u].flags)
                                     \cap Addresses(urb[v], urb[v].flags) = {}

-----------------------------------------------------------------------------
(* Proofs, for any requests and any number of mappings. *)

(* The mappings a URB's flags, and kobox's record of it, name. *)
Own(u) == Addresses(urb[u], urb[u].flags)
HeldBy(r) == IF r = None THEN {} ELSE Addresses(r, r.mapped)

(* No mapping is named by one URB and by the flags or the record of another:  *)
(* a record may outlive the flags of its own URB, and is still right.         *)
UInv ==
    /\ TypeOK /\ ~wild
    /\ live \subseteq 1 .. made
    /\ \A u \in Urbs : HeldBy(rec[u]) \subseteq live
    /\ ~done => \A u \in Urbs : Own(u) \subseteq live
    /\ \A u, v \in Urbs : u # v => Own(u) \cap (Own(v) \cup HeldBy(rec[v])) = {}

LEMMA RecordedIs == Recorded = UNION {HeldBy(rec[u]) : u \in Urbs}
  BY DEF Recorded, HeldBy

LEMMA InitUInv == Init => UInv
<1> SUFFICES ASSUME Init PROVE UInv
  OBVIOUS
<1>1. NoDma \in [Parts -> 0 .. MaxMaps] /\ 0 \in 0 .. MaxMaps
  BY MapsAssumption DEF NoDma
<1>2. TypeOK
  BY <1>1, Zenon DEF Init, TypeOK, UrbState, Record
<1>3. \A u \in Urbs : Own(u) = {} /\ HeldBy(rec[u]) = {}
  BY DEF Init, Own, HeldBy, Addresses
<1> QED BY <1>2, <1>3 DEF Init, UInv

(* What a record becomes when its link is noted. *)
LEMMA LinkedIs ==
  ASSUME NEW r \in [Urbs -> Record \cup {None}], NEW u \in Urbs, NEW on \in BOOLEAN
  PROVE  /\ Linked(r, u, on) \in [Urbs -> Record \cup {None}]
         /\ \A v \in Urbs : HeldBy(Linked(r, u, on)[v]) \subseteq HeldBy(r[v])
<1> DEFINE x == IF r[u] = None THEN NoRecord ELSE r[u]
           y == [x EXCEPT !.linked = on]
<1>1. NoRecord \in Record /\ NoRecord.mapped = {}
  BY MapsAssumption DEF NoRecord, Record, NoDma
<1>2. x \in Record /\ Addresses(x, x.mapped) \subseteq HeldBy(r[u])
  BY <1>1 DEF HeldBy, Addresses
<1>3. Linked(r, u, on) = [r EXCEPT ![u] = y]
  BY DEF Linked
<1> HIDE DEF x
<1>4. y \in Record /\ y.mapped = x.mapped /\ y.dma = x.dma
  BY <1>2 DEF Record
<1> HIDE DEF y
<1>5. HeldBy(y) \subseteq HeldBy(r[u])
  BY <1>2, <1>4 DEF HeldBy, Addresses
<1> QED BY <1>3, <1>4, <1>5

(* A step that changes no mapping and names no more. *)
LEMMA NamesLess ==
  ASSUME UInv, TypeOK', UNCHANGED <<live, made, wild>>, done' = done,
         \A u \in Urbs : Own(u)' \subseteq Own(u) /\ HeldBy(rec'[u]) \subseteq HeldBy(rec[u])
  PROVE  UInv'
<1>1. \A u, v \in Urbs : u # v => Own(u)' \cap (Own(v)' \cup HeldBy(rec'[v])) = {}
  BY DEF UInv
<1>2. \A u \in Urbs : HeldBy(rec'[u]) \subseteq live' /\ (~done' => Own(u)' \subseteq live')
  BY DEF UInv
<1> QED BY <1>1, <1>2 DEF UInv

LEMMA MapFailsOK ==
  ASSUME UInv, NEW u \in Urbs, NEW part, MapFails(u, part), UNCHANGED <<queued, wild, done>>
  PROVE  UInv'
<1> DEFINE d == [urb[u].dma EXCEPT !["data"] = IF part = "setup" THEN 0 ELSE @]
<1>1. /\ urb' = [urb EXCEPT ![u] = [flags |-> {}, dma |-> d]]
      /\ rec' = Linked(rec, u, FALSE) /\ UNCHANGED <<live, made>>
  BY DEF MapFails
<1>2. TypeOK
  BY DEF UInv
<1>3. d \in [Parts -> 0 .. MaxMaps]
  <2>1. urb[u] \in UrbState /\ 0 \in 0 .. MaxMaps
    BY <1>2, MapsAssumption DEF TypeOK
  <2> QED BY <2>1, Zenon DEF UrbState
<1> HIDE DEF d
<1>4. /\ urb' \in [Urbs -> UrbState] /\ urb'[u].flags = {}
      /\ \A v \in Urbs : v # u => urb'[v] = urb[v]
  BY <1>1, <1>2, <1>3 DEF TypeOK, UrbState
<1>5. rec' \in [Urbs -> Record \cup {None}] /\ \A v \in Urbs : HeldBy(rec'[v]) \subseteq HeldBy(rec[v])
  BY <1>1, <1>2, LinkedIs, Zenon DEF TypeOK
<1>6. \A v \in Urbs : Own(v)' \subseteq Own(v)
  BY <1>4 DEF Own, Addresses
<1>7. TypeOK'
  BY <1>1, <1>2, <1>4, <1>5, Zenon DEF TypeOK
<1> QED BY <1>1, <1>5, <1>6, <1>7, NamesLess, Zenon

(* The addresses map_urb_for_dma gives a URB are new ones. *)
LEMMA NewDmaIs ==
  ASSUME UInv, NEW u \in Urbs, Maps(u)
  PROVE  /\ made' \in 0 .. MaxMaps /\ live \subseteq 1 .. made' /\ 1 .. made' \subseteq 1 .. MaxMaps
         /\ NewDma(u) \in [Parts -> 0 .. MaxMaps]
         /\ PartsOf(u) \subseteq Parts
         /\ \A p \in PartsOf(u) : NewDma(u)[p] \in 1 .. made' /\ NewDma(u)[p] \notin 1 .. made
<1> DEFINE n == Cardinality(PartsOf(u))
<1>1. made + n <= MaxMaps /\ made' = made + n
  BY DEF Maps
<1>2. made \in Nat /\ made <= MaxMaps /\ live \subseteq 1 .. made
  BY MapsAssumption DEF UInv, TypeOK
<1>3. CASE u \in Control
  <2>1. PartsOf(u) = {"data", "setup"} /\ PartsOf(u) = Parts
    BY <1>3 DEF PartsOf, Parts
  <2>2. n = 2
    <3>1. IsFiniteSet({"data"}) /\ Cardinality({"data"}) = 1
      BY FS_Singleton, Zenon
    <3>2. Cardinality({"data"} \cup {"setup"}) = 2
      BY <3>1, FS_AddElement
    <3>3. PartsOf(u) = {"data"} \cup {"setup"}
      BY <2>1
    <3> QED BY <3>2, <3>3
  <2> HIDE DEF n
  <2> QED BY <1>1, <1>2, <2>1, <2>2, MapsAssumption DEF NewDma, Parts
<1>4. CASE u \notin Control
  <2>1. PartsOf(u) = {"data"}
    BY <1>4 DEF PartsOf
  <2>2. n = 1
    BY <2>1, FS_Singleton, Zenon
  <2> HIDE DEF n
  <2> QED BY <1>1, <1>2, <2>1, <2>2, MapsAssumption DEF NewDma, Parts
<1> QED BY <1>3, <1>4

(* A submission: the URB, and perhaps its record, name new mappings; or both  *)
(* name none, because usbcore has completed the URB already.                  *)
LEMMA SubmittedOK ==
  ASSUME UInv, ~done, NEW u \in Urbs, Maps(u), NEW flags \in SUBSET PartsOf(u),
         live' = live \cup Addresses([dma |-> NewDma(u)], flags),
         urb' = [urb EXCEPT ![u] = [flags |-> flags, dma |-> NewDma(u)]],
         rec' \in [Urbs -> Record \cup {None}],
         \A v \in Urbs : v # u => HeldBy(rec'[v]) \subseteq HeldBy(rec[v]),
         HeldBy(rec'[u]) \subseteq HeldBy(rec[u]) \cup Addresses([dma |-> NewDma(u)], flags),
         queued' \subseteq Urbs, UNCHANGED <<wild, done>>
  PROVE  UInv'
<1> DEFINE new == Addresses([dma |-> NewDma(u)], flags)
<1>1. /\ TypeOK /\ ~wild /\ live \subseteq 1 .. made
      /\ \A v \in Urbs : HeldBy(rec[v]) \subseteq live /\ Own(v) \subseteq live
      /\ \A v, w \in Urbs : v # w => Own(v) \cap (Own(w) \cup HeldBy(rec[w])) = {}
  BY DEF UInv
<1>2. /\ made' \in 0 .. MaxMaps /\ live \subseteq 1 .. made' /\ 1 .. made' \subseteq 1 .. MaxMaps
      /\ NewDma(u) \in [Parts -> 0 .. MaxMaps] /\ PartsOf(u) \subseteq Parts
      /\ \A p \in PartsOf(u) : NewDma(u)[p] \in 1 .. made' /\ NewDma(u)[p] \notin 1 .. made
  BY NewDmaIs
<1>3. new = {NewDma(u)[p] : p \in flags}
  BY DEF Addresses
<1>4. new \subseteq 1 .. made' /\ new \cap live = {}
  BY <1>1, <1>2, <1>3
<1>5. /\ urb' \in [Urbs -> UrbState] /\ urb'[u] = [flags |-> flags, dma |-> NewDma(u)]
      /\ \A v \in Urbs : v # u => urb'[v] = urb[v]
  BY <1>1, <1>2 DEF TypeOK, UrbState
<1>6. Own(u)' = new /\ \A v \in Urbs : v # u => Own(v)' = Own(v)
  BY <1>3, <1>5 DEF Own, Addresses
<1> HIDE DEF new
<1>7. live' = live \cup new /\ HeldBy(rec'[u]) \subseteq HeldBy(rec[u]) \cup new
  BY DEF new
<1>8. TypeOK'
  BY <1>1, <1>2, <1>4, <1>5, <1>7, Zenon DEF TypeOK
<1>9. \A v \in Urbs : HeldBy(rec'[v]) \subseteq live' /\ Own(v)' \subseteq live'
  BY <1>1, <1>6, <1>7
<1>10. \A v, w \in Urbs : v # w => Own(v)' \cap (Own(w)' \cup HeldBy(rec'[w])) = {}
  <2> SUFFICES ASSUME NEW v \in Urbs, NEW w \in Urbs, v # w
               PROVE  Own(v)' \cap (Own(w)' \cup HeldBy(rec'[w])) = {}
    OBVIOUS
  <2>1. CASE v = u
    <3>1. Own(v)' = new /\ Own(w)' \subseteq live /\ HeldBy(rec'[w]) \subseteq live
      BY <1>1, <1>6, <2>1
    <3> QED BY <1>4, <3>1
  <2>2. CASE w = u
    <3>1. Own(v)' = Own(v) /\ Own(w)' = new /\ Own(v) \subseteq live
      BY <1>1, <1>6, <2>2
    <3>2. Own(v) \cap HeldBy(rec[w]) = {}
      BY <1>1
    <3> QED BY <1>4, <1>7, <2>2, <3>1, <3>2
  <2>3. CASE v # u /\ w # u
    <3>1. Own(v)' = Own(v) /\ Own(w)' = Own(w) /\ HeldBy(rec'[w]) \subseteq HeldBy(rec[w])
      BY <1>6, <2>3
    <3>2. Own(v) \cap (Own(w) \cup HeldBy(rec[w])) = {}
      BY <1>1
    <3> QED BY <3>1, <3>2
  <2> QED BY <2>1, <2>2, <2>3
<1>11. live' \subseteq 1 .. made'
  BY <1>2, <1>4, <1>7, Zenon
<1> QED BY <1>1, <1>8, <1>9, <1>10, <1>11 DEF UInv

LEMMA SubmitFailsOK == ASSUME UInv, NEW u \in Urbs, SubmitFails(u) PROVE UInv'
<1>1. ~done /\ UNCHANGED <<queued, wild, done>> /\ TypeOK
  BY DEF SubmitFails, UInv
<1>2. CASE \E part \in Parts : MapFails(u, part)
  BY <1>1, <1>2, MapFailsOK
<1>3. CASE MapOk(u) /\ rec' \in {rec, Linked(rec, u, FALSE)}
  <2>1. /\ Maps(u) /\ live' = live \cup Addresses([dma |-> NewDma(u)], PartsOf(u))
        /\ urb' = [urb EXCEPT ![u] = [flags |-> PartsOf(u), dma |-> NewDma(u)]]
    BY <1>3 DEF MapOk
  <2>2. rec' \in [Urbs -> Record \cup {None}] /\ \A v \in Urbs : HeldBy(rec'[v]) \subseteq HeldBy(rec[v])
    <3>1. rec \in [Urbs -> Record \cup {None}]
      BY <1>1 DEF TypeOK
    <3>2. CASE rec' = rec
      BY <3>1, <3>2
    <3>3. CASE rec' = Linked(rec, u, FALSE)
      BY <3>1, <3>3, LinkedIs, Zenon
    <3> QED BY <1>3, <3>2, <3>3, Zenon
  <2>3. queued' \subseteq Urbs
    BY <1>1 DEF TypeOK
  <2> QED BY <1>1, <2>1, <2>2, <2>3, SubmittedOK, Zenon
<1> QED BY <1>2, <1>3, Zenon DEF SubmitFails

LEMMA RecordForIs ==
  ASSUME rec \in [Urbs -> Record \cup {None}], NEW u \in Urbs
  PROVE  RecordFor(u, Hcd) \in Record
<1>1. NoRecord \in Record
  BY MapsAssumption DEF NoRecord, Record, NoDma
<1>2. CASE rec[u] = None
  BY <1>1, <1>2 DEF RecordFor, Record
<1>3. CASE rec[u] # None
  <2>1. rec[u] \in Record
    BY <1>3
  <2> QED BY <1>3, <2>1 DEF RecordFor, Record
<1> QED BY <1>2, <1>3

(* The record of a submission that was mapped. *)
LEMMA MapRecordIs ==
  ASSUME UInv, NEW u \in Urbs, Maps(u), NEW parts \in SUBSET PartsOf(u),
         rec' = Linked([rec EXCEPT ![u] = MapRecord(u, parts)], u, TRUE)
  PROVE  /\ rec' \in [Urbs -> Record \cup {None}]
         /\ \A v \in Urbs : v # u => HeldBy(rec'[v]) \subseteq HeldBy(rec[v])
         /\ HeldBy(rec'[u]) \subseteq Addresses([dma |-> NewDma(u)], parts)
<1> DEFINE x == MapRecord(u, parts)
           r == [rec EXCEPT ![u] = x]
<1>1. rec \in [Urbs -> Record \cup {None}]
  BY DEF UInv, TypeOK
<1>2. RecordFor(u, Hcd) \in Record
  BY <1>1, RecordForIs
<1>3. NewDma(u) \in [Parts -> 0 .. MaxMaps] /\ parts \subseteq Parts
  BY NewDmaIs
<1>4. x \in Record /\ x.mapped = parts /\ x.dma = NewDma(u)
  BY <1>2, <1>3, Zenon DEF MapRecord, Record
<1> HIDE DEF x
<1>5. r \in [Urbs -> Record \cup {None}] /\ r[u] = x /\ \A v \in Urbs : v # u => r[v] = rec[v]
  BY <1>1, <1>4
<1>6. HeldBy(x) \subseteq Addresses([dma |-> NewDma(u)], parts)
  BY <1>4 DEF HeldBy, Addresses
<1>7. rec' = Linked(r, u, TRUE)
  BY DEF x
<1> HIDE DEF r
<1>8. rec' \in [Urbs -> Record \cup {None}] /\ \A v \in Urbs : HeldBy(rec'[v]) \subseteq HeldBy(r[v])
  BY <1>5, <1>7, LinkedIs, Zenon
<1> QED BY <1>5, <1>6, <1>8, Zenon

LEMMA SubmitOK == ASSUME UInv, NEW u \in Urbs, Submit(u) PROVE UInv'
<1>1. /\ ~done /\ MapOk(u) /\ rec' = Linked([rec EXCEPT ![u] = MapRecord(u, PartsOf(u))], u, TRUE)
      /\ queued' = queued \cup {u} /\ UNCHANGED <<wild, done>>
  BY DEF Submit
<1>2. /\ Maps(u) /\ live' = live \cup Addresses([dma |-> NewDma(u)], PartsOf(u))
      /\ urb' = [urb EXCEPT ![u] = [flags |-> PartsOf(u), dma |-> NewDma(u)]]
  BY <1>1 DEF MapOk
<1>3. /\ rec' \in [Urbs -> Record \cup {None}]
      /\ \A v \in Urbs : v # u => HeldBy(rec'[v]) \subseteq HeldBy(rec[v])
      /\ HeldBy(rec'[u]) \subseteq Addresses([dma |-> NewDma(u)], PartsOf(u))
  BY <1>1, <1>2, MapRecordIs, Zenon
<1>4. queued' \subseteq Urbs
  BY <1>1 DEF UInv, TypeOK
<1> QED BY <1>1, <1>2, <1>3, <1>4, SubmittedOK, Zenon

LEMMA SubmitCompletesOK == ASSUME UInv, NEW u \in Urbs, SubmitCompletes(u) PROVE UInv'
<1>1. /\ ~done /\ Maps(u) /\ urb' = [urb EXCEPT ![u] = [flags |-> {}, dma |-> NewDma(u)]]
      /\ rec' = Linked([rec EXCEPT ![u] = MapRecord(u, {})], u, TRUE)
      /\ UNCHANGED <<live, queued, wild, done>>
  BY DEF SubmitCompletes
<1>2. Addresses([dma |-> NewDma(u)], {}) = {}
  BY DEF Addresses
<1>3. /\ rec' \in [Urbs -> Record \cup {None}]
      /\ \A v \in Urbs : v # u => HeldBy(rec'[v]) \subseteq HeldBy(rec[v])
      /\ HeldBy(rec'[u]) \subseteq Addresses([dma |-> NewDma(u)], {})
  BY <1>1, MapRecordIs, Zenon
<1>4. queued' \subseteq Urbs /\ live' = live \cup Addresses([dma |-> NewDma(u)], {})
  BY <1>1, <1>2 DEF UInv, TypeOK
<1>5. /\ {} \in SUBSET PartsOf(u)
      /\ HeldBy(rec'[u]) \subseteq HeldBy(rec[u]) \cup Addresses([dma |-> NewDma(u)], {})
  BY <1>3
<1> QED BY <1>1, <1>3, <1>4, <1>5, SubmittedOK, Zenon

(* unmap_urb_for_dma, from a completion or a kill. *)
LEMMA UnmapOK ==
  ASSUME UInv, ~done, NEW u \in Urbs, Unmap(u), queued' \subseteq Urbs, UNCHANGED <<made, done>>
  PROVE  UInv'
<1>1. /\ TypeOK /\ ~wild /\ live \subseteq 1 .. made
      /\ \A v \in Urbs : HeldBy(rec[v]) \subseteq live /\ Own(v) \subseteq live
      /\ \A v, w \in Urbs : v # w => Own(v) \cap (Own(w) \cup HeldBy(rec[w])) = {}
  BY DEF UInv
<1> DEFINE x == [RecordFor(u, Hcd) EXCEPT !.mapped = {}]
<1>2. /\ wild' = (wild \/ ~(Own(u) \subseteq live)) /\ live' = live \ Own(u)
      /\ urb' = [urb EXCEPT ![u].flags = {}] /\ rec' = [rec EXCEPT ![u] = x]
  BY DEF Unmap, Own
<1>3. x \in Record /\ HeldBy(x) = {}
  <2>1. RecordFor(u, Hcd) \in Record
    BY <1>1, RecordForIs DEF TypeOK
  <2>2. x \in Record /\ x.mapped = {}
    BY <2>1 DEF Record
  <2> HIDE DEF x
  <2> QED BY <2>2 DEF HeldBy, Addresses
<1> HIDE DEF x
<1>4. /\ urb' \in [Urbs -> UrbState] /\ urb'[u].flags = {}
      /\ \A v \in Urbs : v # u => urb'[v] = urb[v]
  BY <1>1, <1>2 DEF TypeOK, UrbState
<1>5. Own(u)' = {} /\ \A v \in Urbs : v # u => Own(v)' = Own(v)
  BY <1>4 DEF Own, Addresses
<1>6. /\ rec' \in [Urbs -> Record \cup {None}] /\ HeldBy(rec'[u]) = {}
      /\ \A v \in Urbs : v # u => rec'[v] = rec[v]
  BY <1>1, <1>2, <1>3 DEF TypeOK
<1>7. ~wild'
  BY <1>1, <1>2, Zenon
<1>8. TypeOK'
  BY <1>1, <1>2, <1>4, <1>6, <1>7 DEF TypeOK
<1>9. \A v \in Urbs : HeldBy(rec'[v]) \subseteq live' /\ Own(v)' \subseteq live'
  <2> SUFFICES ASSUME NEW v \in Urbs, v # u PROVE HeldBy(rec[v]) \subseteq live' /\ Own(v) \subseteq live'
    BY <1>5, <1>6
  <2>1. Own(u) \cap (Own(v) \cup HeldBy(rec[v])) = {}
    BY <1>1
  <2> QED BY <1>1, <1>2, <2>1
<1>10. \A v, w \in Urbs : v # w => Own(v)' \cap (Own(w)' \cup HeldBy(rec'[w])) = {}
  <2>1. \A v \in Urbs : Own(v)' \subseteq Own(v) /\ HeldBy(rec'[v]) \subseteq HeldBy(rec[v])
    BY <1>5, <1>6
  <2> QED BY <1>1, <2>1
<1>11. live' \subseteq 1 .. made'
  BY <1>1, <1>2
<1> QED BY <1>7, <1>8, <1>9, <1>10, <1>11 DEF UInv

(* A step that only notes the link. *)
LEMMA NotedOK ==
  ASSUME UInv, NEW u \in Urbs, rec' = Linked(rec, u, FALSE), queued' \subseteq Urbs,
         UNCHANGED <<urb, live, made, wild, done>>
  PROVE  UInv'
<1>1. rec' \in [Urbs -> Record \cup {None}] /\ \A v \in Urbs : HeldBy(rec'[v]) \subseteq HeldBy(rec[v])
  BY LinkedIs, Zenon DEF UInv, TypeOK
<1>2. TypeOK'
  BY <1>1, Zenon DEF UInv, TypeOK
<1>3. \A v \in Urbs : Own(v)' \subseteq Own(v)
  BY DEF Own
<1> QED BY <1>1, <1>2, <1>3, NamesLess, Zenon

LEMMA CompleteOK ==
  ASSUME UInv, NEW u \in Urbs, CompleteByCore(u) \/ CompleteByShim(u)
  PROVE  UInv'
<1>1. ~done /\ queued' \subseteq Urbs /\ UNCHANGED <<made, done>>
  BY Zenon DEF UInv, TypeOK, CompleteByCore, CompleteByShim
<1>2. CASE CompleteByCore(u)
  BY <1>1, <1>2, UnmapOK DEF CompleteByCore
<1>3. CASE CompleteByShim(u)
  BY <1>1, <1>3, NotedOK, Zenon DEF CompleteByShim
<1> QED BY <1>2, <1>3

LEMMA KillOK == ASSUME UInv, NEW u \in Urbs, Kill(u) PROVE UInv'
<1>1. ~done /\ UNCHANGED <<made, done>> /\ queued \subseteq Urbs
  BY DEF UInv, TypeOK, Kill
<1>2. CASE Unmap(u) /\ queued' = queued \ {u}
  <2>1. queued' \subseteq Urbs
    BY <1>1, <1>2
  <2> QED BY <1>1, <1>2, <2>1, UnmapOK
<1>3. CASE rec' = Linked(rec, u, FALSE) /\ UNCHANGED <<urb, live, queued, wild>>
  BY <1>1, <1>3, NotedOK, Zenon
<1> QED BY <1>2, <1>3, Zenon DEF Kill

LEMMA ReleaseHcdOK == ASSUME UInv, ReleaseHcd PROVE UInv'
<1>1. /\ rec' = [u \in Urbs |-> IF rec[u] # None /\ rec[u].hcd = Hcd THEN None ELSE rec[u]]
      /\ UNCHANGED <<urb, live, made, queued, wild, done>>
  BY DEF ReleaseHcd
<1>2. rec' \in [Urbs -> Record \cup {None}] /\ \A v \in Urbs : HeldBy(rec'[v]) \subseteq HeldBy(rec[v])
  BY <1>1 DEF UInv, TypeOK, HeldBy
<1>3. TypeOK'
  BY <1>1, <1>2 DEF UInv, TypeOK
<1>4. \A v \in Urbs : Own(v)' \subseteq Own(v)
  BY <1>1 DEF Own
<1> QED BY <1>1, <1>2, <1>3, <1>4, NamesLess

LEMMA CleanupOK == ASSUME UInv, Cleanup PROVE UInv'
<1>1. /\ done' = TRUE /\ wild' = (wild \/ ~(Recorded \subseteq live)) /\ live' = live \ Recorded
      /\ rec' = [u \in Urbs |-> IF rec[u] = None THEN None ELSE [rec[u] EXCEPT !.mapped = {}]]
      /\ UNCHANGED <<urb, made, queued>>
  BY DEF Cleanup
<1>2. ~wild'
  BY <1>1, RecordedIs, Zenon DEF UInv
<1>3. \A u \in Urbs : rec'[u] \in Record \cup {None} /\ HeldBy(rec'[u]) = {}
  <2> SUFFICES ASSUME NEW u \in Urbs PROVE rec'[u] \in Record \cup {None} /\ HeldBy(rec'[u]) = {}
    OBVIOUS
  <2>1. CASE rec[u] = None
    BY <1>1, <2>1 DEF HeldBy
  <2>2. CASE rec[u] # None
    <3>1. rec[u] \in Record /\ rec'[u] = [rec[u] EXCEPT !.mapped = {}]
      BY <1>1, <2>2 DEF UInv, TypeOK
    <3>2. rec'[u] \in Record /\ rec'[u].mapped = {}
      BY <3>1 DEF Record
    <3> QED BY <3>2 DEF HeldBy, Addresses
  <2> QED BY <2>1, <2>2
<1>4. rec' \in [Urbs -> Record \cup {None}]
  BY <1>1, <1>3
<1>5. TypeOK'
  BY <1>1, <1>2, <1>4 DEF UInv, TypeOK
<1>6. \A u \in Urbs : Own(u)' = Own(u)
  BY <1>1 DEF Own
<1>7. \A u, v \in Urbs : u # v => Own(u)' \cap (Own(v)' \cup HeldBy(rec'[v])) = {}
  <2>1. \A u, v \in Urbs : u # v => Own(u) \cap Own(v) = {}
    BY DEF UInv
  <2> QED BY <1>3, <1>6, <2>1
<1>8. live' \subseteq 1 .. made'
  BY <1>1 DEF UInv
<1> QED BY <1>1, <1>2, <1>3, <1>5, <1>7, <1>8, Zenon DEF UInv

LEMMA NextUInv == UInv /\ [Next]_vars => UInv'
<1> SUFFICES ASSUME UInv, [Next]_vars PROVE UInv'
  OBVIOUS
<1>1. ASSUME NEW u \in Urbs, SubmitFails(u) \/ Submit(u) \/ SubmitCompletes(u) PROVE UInv'
  BY <1>1, SubmitFailsOK, SubmitOK, SubmitCompletesOK
<1>2. ASSUME NEW u \in Urbs, CompleteByCore(u) \/ CompleteByShim(u) \/ Kill(u) PROVE UInv'
  BY <1>2, CompleteOK, KillOK
<1>3. CASE ReleaseHcd \/ Cleanup
  BY <1>3, ReleaseHcdOK, CleanupOK
<1>4. CASE UNCHANGED vars
  BY <1>4 DEF vars, UInv, TypeOK, Own
<1> QED BY <1>1, <1>2, <1>3, <1>4 DEF Next

(* linux_usb.c, for any requests and any number of submissions, completions,  *)
(* kills and released controllers: what is unmapped, by a URB's flags or by   *)
(* kobox's records at shutdown, is mapped and is that URB's.                  *)
THEOREM UrbsUnmapOwn == Spec => []UnmapsOwn
<1>1. Init => UInv
  BY InitUInv
<1>2. UInv /\ [Next]_vars => UInv'
  BY NextUInv
<1>3. UInv => UnmapsOwn
  BY RecordedIs DEF UInv, UnmapsOwn, Own
<1> QED BY <1>1, <1>2, <1>3, PTL DEF Spec
=============================================================================
