----------------------------- MODULE DmaSubsystem -----------------------------
(***************************************************************************)
(* The DMA subsystem of src/linux_subsystem/dma/dma.c: the list of         *)
(* mappings it remembers, the one scoped window whose device mapping is     *)
(* lent to many requests, and the device backend behind both.               *)
(*                                                                         *)
(* Buffers are ranges of pages.  A request has a start page, a number of    *)
(* pages and an offset in its first page (0: page aligned).  A list is a    *)
(* set of entries stamped in the order they were pushed: its head is the    *)
(* entry with the largest stamp.  A device address carries the stamp of the *)
(* backend mapping it belongs to: the backend gives every mapping addresses *)
(* of its own, as the IOVA allocator of linux_vfio does.                    *)
(***************************************************************************)
EXTENDS Integers, FiniteSets, Sequences

CONSTANTS
  Devices,      \* backend devices (a device names its backend too)
  Directions,   \* kb_dma_dir_t
  NPages,       \* pages of CPU memory that can be mapped
  MaxPages,     \* KB_DEVICE_DMA_MAPPING_MAX_PAGES
  MaxStamp,     \* bound: how many entries are ever pushed
  MaxDirect,    \* bound: pages of a mapping outside the window
  NoDevice      \* a NULL device pointer

Pages == 1..NPages
Offsets == {0, 1}
Addrs == Nat \X Pages \X Offsets

ASSUME DmaConstants ==
  /\ NPages \in Nat \ {0}
  /\ MaxPages \in Nat \ {0}
  /\ MaxStamp \in Nat
  /\ MaxDirect \in Nat
  /\ NoDevice \notin Devices

VARIABLES
  dma_mappings, \* remembered mappings (dma.c:34)
  dma_window,   \* the scoped window (dma.c:35)
  backend,      \* device mappings that exist in the backend
  held,         \* mappings their callers have not given back yet
  stamp         \* entries pushed so far

vars == <<dma_mappings, dma_window, backend, held, stamp>>

-----------------------------------------------------------------------------
(* The address that backend mapping t, of a buffer that starts at offset o  *)
(* of page s, gives page p: only the first page carries the offset.         *)
PageDma(t, s, o, p) == <<t, p, IF p = s THEN o ELSE 0>>
Span(t, s, o, n) == [i \in 1..n |-> PageDma(t, s, o, s + i - 1)]
Covers(dmas) == {dmas[i] : i \in DOMAIN dmas}

Newest(S) == CHOOSE m \in S : \A x \in S : x.id <= m.id

Mapping == [id : Nat, page : Pages, off : Offsets, size : Nat, dma : Addrs,
            device : Devices, borrowed : BOOLEAN]
BackendMapping == [id : Nat, device : Devices, dma : Addrs,
                   covers : SUBSET Addrs]
Handle == [id : Nat, device : Devices, page : Pages, off : Offsets,
           dma : Addrs, covers : SUBSET Addrs, alloc : BOOLEAN]

NoWindow == [device |-> NoDevice, scope_start |-> 0, scope_size |-> 0,
             direction |-> NoDevice, mapped_start |-> 0, mapped_size |-> 0,
             page_dma |-> <<>>, borrowers |-> 0, active |-> FALSE,
             mapped |-> FALSE]

(* ops->dma_unmap: the backend drops the newest mapping at this address.    *)
BackendUnmap(b, d, a) ==
  LET ms == {m \in b : m.device = d /\ m.dma = a}
  IN  IF ms = {} THEN b ELSE b \ {Newest(ms)}

(* dma_window_release_mapping *)
CanRelease(w) == w.mapped /\ w.borrowers = 0
ReleaseMapping(w) ==
  IF CanRelease(w)
  THEN [w EXCEPT !.mapped = FALSE, !.mapped_start = 0, !.mapped_size = 0,
                 !.page_dma = <<>>]
  ELSE w
BackendReleased(w) ==
  IF CanRelease(w) THEN BackendUnmap(backend, w.device, w.page_dma[1])
                   ELSE backend

Init ==
  /\ dma_mappings = {}
  /\ dma_window = NoWindow
  /\ backend = {}
  /\ held = {}
  /\ stamp = 0

-----------------------------------------------------------------------------
(* dma_window_begin_common on window w0 with backend state b0. *)
BeginCommon(w0, b0, d, s, n, dir) ==
  LET moved == /\ w0.mapped
               /\ \/ d # w0.device
                  \/ dir # w0.direction
                  \/ s # w0.mapped_start
      w1 == IF moved THEN ReleaseMapping(w0) ELSE w0
      w2 == IF w1.mapped THEN w1 ELSE NoWindow
  IN  /\ dma_window' = [w2 EXCEPT !.device = d, !.scope_start = s,
                                  !.scope_size = n, !.direction = dir,
                                  !.active = TRUE]
      /\ backend' = IF moved /\ CanRelease(w0)
                    THEN BackendUnmap(b0, w0.device, w0.page_dma[1])
                    ELSE b0

(* kb_subsystem_dma_window_begin: a cached mapping is dropped first. *)
WindowBegin(d, s, n, dir) ==
  /\ ~dma_window.active
  /\ LET drop == dma_window.mapped
     IN  BeginCommon(IF drop THEN NoWindow ELSE dma_window,
                     IF drop THEN BackendReleased(dma_window) ELSE backend,
                     d, s, n, dir)
  /\ UNCHANGED <<dma_mappings, held, stamp>>

(* kb_subsystem_dma_cached_window_begin *)
CachedWindowBegin(d, s, n, dir) ==
  /\ ~dma_window.active
  /\ BeginCommon(dma_window, backend, d, s, n, dir)
  /\ UNCHANGED <<dma_mappings, held, stamp>>

(* kb_subsystem_dma_window_end *)
WindowEnd ==
  /\ dma_window.active /\ dma_window.borrowers = 0
  /\ backend' = BackendReleased(dma_window)
  /\ dma_window' = NoWindow
  /\ UNCHANGED <<dma_mappings, held, stamp>>

(* kb_subsystem_dma_cached_window_end *)
CachedWindowEnd ==
  /\ dma_window.active /\ dma_window.borrowers = 0
  /\ dma_window' = [dma_window EXCEPT !.active = FALSE, !.scope_start = 0,
                                      !.scope_size = 0]
  /\ UNCHANGED <<dma_mappings, backend, held, stamp>>

(* kb_subsystem_dma_cached_window_discard *)
CachedWindowDiscard ==
  /\ ~dma_window.active /\ dma_window.borrowers = 0
  /\ backend' = BackendReleased(dma_window)
  /\ dma_window' = NoWindow
  /\ UNCHANGED <<dma_mappings, held, stamp>>

-----------------------------------------------------------------------------
(* remember_dma_mapping_full, and the handle its caller keeps.              *)
Remember(d, s, o, dmas, borrowed, alloc) ==
  /\ dma_mappings' = dma_mappings \union
       {[id |-> stamp + 1, page |-> s, off |-> o, size |-> Len(dmas),
         dma |-> dmas[1], device |-> d, borrowed |-> borrowed]}
  /\ held' = held \union
       {[id |-> stamp + 1, device |-> d, page |-> s, off |-> o,
         dma |-> dmas[1], covers |-> Covers(dmas), alloc |-> alloc]}

(* ops->dma_map_pages, dma_map, dma_alloc: a new mapping with its own       *)
(* addresses.                                                               *)
NewBackendMapping(d, dmas) ==
  [id |-> stamp + 1, device |-> d, dma |-> dmas[1], covers |-> Covers(dmas)]

(* A request the active window serves (dma_window_map_pages sets out_used). *)
InWindow(d, s, o, n, dir) ==
  /\ dma_window.active
  /\ d = dma_window.device
  /\ dir = dma_window.direction
  /\ s >= dma_window.scope_start
  /\ s + n <= dma_window.scope_start + dma_window.scope_size
  /\ o = 0

InMapped(w, s, n) ==
  w.mapped /\ s >= w.mapped_start /\ s + n <= w.mapped_start + w.mapped_size

(* Mutated form of Lend: the borrower is not counted. *)
LendUncounted(w, d, s, n, remembered) ==
  LET first == s - w.mapped_start
      dmas == [i \in 1..n |-> w.page_dma[first + i]]
  IN  /\ IF remembered THEN Remember(d, s, 0, dmas, TRUE, FALSE)
         ELSE UNCHANGED <<dma_mappings, held>>
      /\ dma_window' = w

(* dma_window_map_pages, the last part: addresses of the mapped window are  *)
(* lent to the request, unless the entry cannot be allocated.               *)
Lend(w, d, s, n, remembered) ==
  LET first == s - w.mapped_start
      dmas == [i \in 1..n |-> w.page_dma[first + i]]
  IN  IF remembered
      THEN /\ Remember(d, s, 0, dmas, TRUE, FALSE)
           /\ dma_window' = [w EXCEPT !.borrowers = @ + 1]
      ELSE /\ dma_window' = w
           /\ UNCHANGED <<dma_mappings, held>>

(* kb_subsystem_dma_map_pages, served by the window as it is mapped. *)
MapPagesReuse(d, s, n, dir, remembered) ==
  /\ InWindow(d, s, 0, n, dir)
  /\ n <= MaxPages
  /\ InMapped(dma_window, s, n)
  /\ stamp < MaxStamp
  /\ Lend(dma_window, d, s, n, remembered)
  /\ stamp' = stamp + 1
  /\ UNCHANGED backend

(* Mutated form of MapPagesRemap: the window moves under its borrowers. *)
MapPagesRemapBorrowed(d, s, n, dir, mapped, remembered) ==
  /\ InWindow(d, s, 0, n, dir)
  /\ n <= MaxPages
  /\ ~InMapped(dma_window, s, n)
  /\ stamp < MaxStamp
  /\ LET dmas == Span(stamp + 1, s, 0, n)
     IN  /\ backend' = backend \union {NewBackendMapping(d, dmas)}
         /\ Lend([dma_window EXCEPT !.mapped_start = s, !.mapped_size = n,
                                    !.page_dma = dmas, !.mapped = TRUE],
                 d, s, n, remembered)
  /\ stamp' = stamp + 1

(* kb_subsystem_dma_map_pages, the window has to be mapped elsewhere: only  *)
(* when nobody borrows it.                                                  *)
MapPagesRemap(d, s, n, dir, mapped, remembered) ==
  /\ InWindow(d, s, 0, n, dir)
  /\ n <= MaxPages
  /\ ~InMapped(dma_window, s, n)
  /\ dma_window.borrowers = 0
  /\ stamp < MaxStamp
  /\ LET remaining == dma_window.scope_start + dma_window.scope_size - s
         size == IF remaining < MaxPages THEN remaining ELSE MaxPages
         dmas == Span(stamp + 1, s, 0, size)
         w0 == ReleaseMapping(dma_window)
         w1 == [w0 EXCEPT !.mapped_start = s, !.mapped_size = size,
                          !.page_dma = dmas, !.mapped = TRUE]
     IN  IF mapped
         THEN /\ backend' = BackendReleased(dma_window)
                             \union {NewBackendMapping(d, dmas)}
              /\ Lend(w1, d, s, n, remembered)
         ELSE /\ backend' = BackendReleased(dma_window)
              /\ dma_window' = w0
              /\ UNCHANGED <<dma_mappings, held>>
  /\ stamp' = stamp + 1

(* A mapping of its own.  When the entry cannot be allocated (or the        *)
(* backend's address is unusable) the backend mapping is rolled back.       *)
MapDirect(d, s, o, n, alloc, remembered) ==
  /\ stamp < MaxStamp
  /\ LET dmas == Span(stamp + 1, s, o, n)
         added == backend \union {NewBackendMapping(d, dmas)}
     IN  IF remembered
         THEN /\ backend' = added
              /\ Remember(d, s, o, dmas, FALSE, alloc)
         ELSE /\ backend' = BackendUnmap(added, d, dmas[1])
              /\ UNCHANGED <<dma_mappings, held>>
  /\ stamp' = stamp + 1
  /\ UNCHANGED dma_window

(* kb_subsystem_dma_alloc: memory the backend allocates, page aligned. *)
Alloc(d, s, n, remembered) == MapDirect(d, s, 0, n, TRUE, remembered)

(* kb_subsystem_dma_map, kb_subsystem_dma_map_persistent_bidirectional. *)
Map(d, s, o, n, remembered) == MapDirect(d, s, o, n, FALSE, remembered)

(* kb_subsystem_dma_map_pages, outside the window. *)
MapPagesDirect(d, s, o, n, dir, remembered) ==
  /\ ~InWindow(d, s, o, n, dir)
  /\ MapDirect(d, s, o, n, FALSE, remembered)

(* Mutated forms of Unmap: every transient entry is taken for a borrower,   *)
(* and a borrower's unmap goes on to the backend.                           *)
UnmapAllBorrowed(h) ==
  /\ h \in held /\ ~h.alloc
  /\ LET ms == {m \in dma_mappings : m.device = h.device /\ m.dma = h.dma}
     IN  dma_mappings' = dma_mappings \ {Newest(ms)}
  /\ dma_window' = [dma_window EXCEPT !.borrowers = @ - 1]
  /\ held' = held \ {h}
  /\ UNCHANGED <<backend, stamp>>

UnmapThrough(h) ==
  /\ h \in held /\ ~h.alloc
  /\ LET ms == {m \in dma_mappings : m.device = h.device /\ m.dma = h.dma}
         taken == Newest(ms)
     IN  /\ dma_mappings' = dma_mappings \ {taken}
         /\ backend' = BackendUnmap(backend, h.device, h.dma)
         /\ dma_window' = IF taken.borrowed
                          THEN [dma_window EXCEPT !.borrowers = @ - 1]
                          ELSE dma_window
  /\ held' = held \ {h}
  /\ UNCHANGED stamp

(* kb_subsystem_dma_unmap by the holder of h: take_dma_mapping finds the    *)
(* entry by device and address.                                             *)
Unmap(h) ==
  /\ h \in held /\ ~h.alloc
  /\ LET ms == {m \in dma_mappings : m.device = h.device /\ m.dma = h.dma}
         taken == Newest(ms)
         lent == ms # {} /\ taken.borrowed
     IN  /\ dma_mappings' = IF ms = {} THEN dma_mappings
                            ELSE dma_mappings \ {taken}
         /\ backend' = IF lent THEN backend
                       ELSE BackendUnmap(backend, h.device, h.dma)
         /\ dma_window' = IF lent /\ dma_window.borrowers # 0
                          THEN [dma_window EXCEPT !.borrowers = @ - 1]
                          ELSE dma_window
  /\ held' = held \ {h}
  /\ UNCHANGED stamp

(* kb_subsystem_dma_free by the holder of h: the entry is found by its CPU  *)
(* address and its device address.                                          *)
Free(h) ==
  /\ h \in held /\ h.alloc
  /\ LET ms == {m \in dma_mappings : /\ m.page = h.page /\ m.off = h.off
                                     /\ m.dma = h.dma}
     IN  IF ms = {} THEN UNCHANGED <<dma_mappings, backend>>
         ELSE /\ dma_mappings' = dma_mappings \ {Newest(ms)}
              /\ backend' = BackendUnmap(backend, Newest(ms).device, h.dma)
  /\ held' = held \ {h}
  /\ UNCHANGED <<dma_window, stamp>>

-----------------------------------------------------------------------------
(* Ranges of pages a caller can ask for. *)
PageRange(s, n) == s \in Pages /\ n \in 1..NPages /\ s + n - 1 <= NPages

Next ==
  \/ WindowEnd \/ CachedWindowEnd \/ CachedWindowDiscard
  \/ \E h \in held : Unmap(h) \/ Free(h)
  \/ \E d \in Devices, s \in Pages, n \in 1..NPages, dir \in Directions :
       /\ PageRange(s, n)
       /\ \/ WindowBegin(d, s, n, dir)
          \/ CachedWindowBegin(d, s, n, dir)
          \/ \E remembered \in BOOLEAN :
               \/ MapPagesReuse(d, s, n, dir, remembered)
               \/ \E mapped \in BOOLEAN :
                    MapPagesRemap(d, s, n, dir, mapped, remembered)
               \/ n <= MaxDirect /\ Alloc(d, s, n, remembered)
               \/ \E o \in Offsets :
                    /\ n <= MaxDirect
                    /\ \/ Map(d, s, o, n, remembered)
                       \/ MapPagesDirect(d, s, o, n, dir, remembered)

Spec == Init /\ [][Next]_vars

-----------------------------------------------------------------------------
WindowType ==
  [device : Devices \union {NoDevice}, scope_start : 0..NPages,
   scope_size : 0..NPages, direction : Directions \union {NoDevice},
   mapped_start : 0..NPages, mapped_size : 0..NPages, page_dma : Seq(Addrs),
   borrowers : Nat, active : BOOLEAN, mapped : BOOLEAN]

TypeOK ==
  /\ dma_mappings \subseteq Mapping
  /\ dma_window \in WindowType
  /\ backend \subseteq BackendMapping
  /\ held \subseteq Handle
  /\ stamp \in 0..MaxStamp

Borrowed == {m \in dma_mappings : m.borrowed}

(* The borrower count of the window is the number of remembered mappings    *)
(* that borrow it, and a window with borrowers is active and mapped.        *)
BorrowAccounting ==
  /\ dma_window.borrowers = Cardinality(Borrowed)
  /\ dma_window.borrowers # 0 => dma_window.active /\ dma_window.mapped

(* An address a caller still holds is still mapped in the backend for its   *)
(* device: no path of the window (end, begin, discard, remap) and no other  *)
(* caller's unmap tears it down.  And every mapping in the backend is the   *)
(* window's or a remembered entry's: no failure path and no unmap leaks one.*)
MappingsHeld ==
  /\ \A h \in held : \E m \in backend :
       m.device = h.device /\ h.covers \subseteq m.covers
  /\ Cardinality(backend) =
       Cardinality(dma_mappings \ Borrowed) + (IF dma_window.mapped THEN 1 ELSE 0)

(* While a request borrows the window, the window is not mapped elsewhere.  *)
BorrowedWindowFixed ==
  [][dma_window.borrowers # 0 /\ dma_window'.borrowers # 0
       => /\ dma_window'.page_dma = dma_window.page_dma
          /\ dma_window'.device = dma_window.device]_vars
=============================================================================
