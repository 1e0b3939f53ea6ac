-------------------------- MODULE DmaSubsystemProofs --------------------------
(***************************************************************************)
(* Proofs about DmaSubsystem, for any devices, directions and bounds.       *)
(***************************************************************************)
EXTENDS DmaSubsystem, FiniteSetTheorems, WellFoundedInduction, TLAPS

-----------------------------------------------------------------------------
(* What backs the addresses DmaSubsystem hands out: how a window, a set of  *)
(* backend mappings, the remembered entries and the callers' handles fit    *)
(* together, and that each thing dma.c does to them keeps it so.            *)

(* The head of a list is one of its entries. *)
LEMMA NewestIsMember ==
  ASSUME NEW S, S # {}, NEW N \in Nat, \A x \in S : x.id \in 0..N
  PROVE  Newest(S) \in S
<1> DEFINE T == {N - x.id : x \in S}
<1>1. T \subseteq Nat /\ T # {}
  OBVIOUS
<1>2. PICK t \in T : \A u \in T : ~ (<<u, t>> \in OpToRel(<, Nat))
  <2> HIDE DEF T
  <2> QED BY <1>1, NatLessThanWellFounded, WFMin, Zenon
<1>3. \A u \in T : ~ (u < t)
  BY <1>1, <1>2, Zenon DEF OpToRel
<1>4. PICK m \in S : t = N - m.id
  OBVIOUS
<1>5. \A x \in S : x.id <= m.id
  <2> TAKE x \in S
  <2>1. N - x.id \in T
    OBVIOUS
  <2>2. ~ (N - x.id < N - m.id)
    BY <2>1, <1>3, <1>4
  <2> QED BY <2>2
<1> QED BY <1>5 DEF Newest

(* A non-empty sequence of addresses has a first one and a set of them. *)
LEMMA CoversType ==
  ASSUME NEW dmas \in Seq(Addrs), Len(dmas) # 0
  PROVE  dmas[1] \in Addrs /\ Covers(dmas) \in SUBSET Addrs /\ Len(dmas) \in Nat
BY DEF Covers

-----------------------------------------------------------------------------
(* What backs the mappings: window w, backend mappings b, remembered        *)
(* entries E and handles H, when t entries have been pushed.                *)
Direct(E) == {e \in E : ~e.borrowed}
Lent(E) == {e \in E : e.borrowed}

WindowTag(w) == w.page_dma[1][1]
WindowMapping(w) == [id |-> WindowTag(w), device |-> w.device, dma |-> w.page_dma[1],
                     covers |-> Covers(w.page_dma)]

(* Every backend mapping has a tag of its own. *)
BackendOK(b, t) ==
  /\ b \subseteq BackendMapping /\ IsFiniteSet(b) /\ t \in Nat
  /\ \A m \in b : m.dma[1] = m.id /\ m.id <= t
  /\ \A m1, m2 \in b : m1.id = m2.id => m1 = m2

Stamped(E, H, t) ==
  /\ E \subseteq Mapping /\ IsFiniteSet(E)
  /\ H \subseteq Handle /\ IsFiniteSet(H)
  /\ \A x \in E \union H : x.id <= t
  /\ \A e1, e2 \in E : e1.id = e2.id => e1 = e2
  /\ \A h1, h2 \in H : h1.id = h2.id => h1 = h2

(* The mapped window is one backend mapping. *)
WindowBacked(w, b) ==
  w.mapped => /\ w.page_dma \in Seq(Addrs) /\ Len(w.page_dma) # 0
              /\ WindowMapping(w) \in b
              /\ \A a \in Covers(w.page_dma) : a[1] = WindowTag(w)

(* An entry of its own is a backend mapping other than the window's; the     *)
(* address of a borrower is one of the window's.                             *)
EntriesBacked(w, b, E) ==
  /\ \A e \in Direct(E) :
       /\ e.dma[1] = e.id
       /\ w.mapped => e.id # WindowTag(w)
       /\ \E m \in b : m.id = e.id /\ m.device = e.device /\ m.dma = e.dma
  /\ \A e \in Lent(E) :
       w.mapped /\ e.device = w.device /\ e.dma \in Covers(w.page_dma)

(* A caller holds a part of the window or the mapping of an entry.           *)
HoldsLent(h, w) ==
  /\ w.mapped /\ ~h.alloc /\ h.device = w.device
  /\ h.dma \in Covers(w.page_dma) /\ h.covers \subseteq Covers(w.page_dma)
HoldsDirect(h, b, E) ==
  /\ \E e \in Direct(E) : /\ e.id = h.id /\ e.device = h.device /\ e.dma = h.dma
                          /\ e.page = h.page /\ e.off = h.off
  /\ \E m \in b : m.id = h.id /\ m.device = h.device /\ m.covers = h.covers

(* As many callers hold an address of the window as there are entries for it. *)
EntriesFor(E, a) == {e \in Lent(E) : e.dma = a}
HoldersOf(H, a) == {h \in H : h.dma = a}

Counted(w, b, E, H) ==
  /\ w.mapped => \A a \in Covers(w.page_dma) :
                   Cardinality(EntriesFor(E, a)) = Cardinality(HoldersOf(H, a))
  /\ Cardinality(b) = Cardinality(Direct(E)) + (IF w.mapped THEN 1 ELSE 0)

Backed(w, b, E, H, t) ==
  /\ w.mapped \in BOOLEAN
  /\ BackendOK(b, t)
  /\ Stamped(E, H, t)
  /\ WindowBacked(w, b)
  /\ EntriesBacked(w, b, E)
  /\ \A h \in H : HoldsLent(h, w) \/ HoldsDirect(h, b, E)
  /\ Counted(w, b, E, H)

(* ops->dma_unmap of a mapping's address drops that mapping. *)
LEMMA BackendUnmapOne ==
  ASSUME NEW b, NEW t, BackendOK(b, t), NEW m \in b
  PROVE  BackendUnmap(b, m.device, m.dma) = b \ {m}
<1> DEFINE ms == {x \in b : x.device = m.device /\ x.dma = m.dma}
<1>1. ms = {m}
  BY DEF BackendOK
<1>2. t \in Nat /\ \A x \in ms : x.id \in 0..t
  BY DEF BackendOK, BackendMapping
<1> HIDE DEF ms
<1>3. Newest(ms) \in ms
  BY <1>1, <1>2, NewestIsMember
<1> QED BY <1>1, <1>3 DEF BackendUnmap, ms

(* More entries may have been pushed. *)
LEMMA BackedLater ==
  ASSUME NEW w, NEW b, NEW E, NEW H, NEW t \in Nat, NEW u \in Nat, t <= u, Backed(w, b, E, H, t)
  PROVE  Backed(w, b, E, H, u)
<1>1. BackendOK(b, u)
  BY DEF Backed, BackendOK, BackendMapping
<1>2. Stamped(E, H, u)
  <2>1. \A x \in E \union H : x.id \in Nat /\ x.id <= t
    BY DEF Backed, Stamped, Mapping, Handle
  <2> QED BY <2>1 DEF Backed, Stamped
<1> QED BY <1>1, <1>2 DEF Backed

(* Only the mapping of the window matters. *)
LEMMA BackedSameMapping ==
  ASSUME NEW w, NEW v, NEW b, NEW E, NEW H, NEW t, Backed(w, b, E, H, t),
         v.mapped = w.mapped, w.mapped => v.device = w.device /\ v.page_dma = w.page_dma
  PROVE  Backed(v, b, E, H, t)
<1>1. WindowBacked(v, b) /\ EntriesBacked(v, b, E) /\ Counted(v, b, E, H)
  BY DEF Backed, WindowBacked, EntriesBacked, Counted, WindowTag, WindowMapping
<1>2. \A h \in H : HoldsLent(h, w) => HoldsLent(h, v)
  BY DEF HoldsLent
<1> QED BY <1>1, <1>2 DEF Backed

(* The sets that are counted are finite. *)
LEMMA BackedFinite ==
  ASSUME NEW w, NEW b, NEW E, NEW H, NEW t, Backed(w, b, E, H, t)
  PROVE  /\ IsFiniteSet(b) /\ IsFiniteSet(Direct(E))
         /\ \A a : IsFiniteSet(EntriesFor(E, a)) /\ IsFiniteSet(HoldersOf(H, a))
<1>1. IsFiniteSet(b) /\ IsFiniteSet(E) /\ IsFiniteSet(H)
  BY DEF Backed, BackendOK, Stamped
<1>2. Direct(E) \subseteq E /\ \A a : EntriesFor(E, a) \subseteq E /\ HoldersOf(H, a) \subseteq H
  BY DEF Direct, Lent, EntriesFor, HoldersOf
<1> QED BY <1>1, <1>2, FS_Subset

(* While nothing is lent, nobody holds a part of the window. *)
LEMMA NoneLent ==
  ASSUME NEW w, NEW b, NEW E, NEW H, NEW t, Backed(w, b, E, H, t), Lent(E) = {}, NEW h \in H
  PROVE  ~HoldsLent(h, w) /\ HoldsDirect(h, b, E)
<1>1. SUFFICES ASSUME HoldsLent(h, w) PROVE FALSE
  BY DEF Backed
<1>2. EntriesFor(E, h.dma) = {} /\ h \in HoldersOf(H, h.dma)
  BY DEF EntriesFor, HoldersOf
<1>3. Cardinality(HoldersOf(H, h.dma)) = Cardinality(EntriesFor(E, h.dma))
  BY <1>1 DEF HoldsLent, Backed, Counted
<1>4. Cardinality(EntriesFor(E, h.dma)) = 0
  BY <1>2, FS_EmptySet
<1> QED BY <1>2, <1>3, <1>4, BackedFinite, FS_EmptySet

(* dma_window_release_mapping of a window nobody borrows. *)
LEMMA BackedDrop ==
  ASSUME NEW w, NEW v, NEW b, NEW E, NEW H, NEW t, Backed(w, b, E, H, t), Lent(E) = {},
         w.mapped, v.mapped = FALSE
  PROVE  Backed(v, BackendUnmap(b, w.device, w.page_dma[1]), E, H, t)
<1> DEFINE m == WindowMapping(w)
           c == b \ {m}
<1>1. /\ m \in b /\ m.id = WindowTag(w) /\ m.device = w.device /\ m.dma = w.page_dma[1]
      /\ BackendOK(b, t)
  BY DEF Backed, WindowBacked, WindowMapping
<1> HIDE DEF m
<1>2. BackendUnmap(b, w.device, w.page_dma[1]) = c
  BY <1>1, BackendUnmapOne
<1>3. BackendOK(c, t)
  BY <1>1, FS_RemoveElement DEF BackendOK
<1>4. WindowBacked(v, c)
  BY DEF WindowBacked
<1>5. EntriesBacked(v, c, E)
  BY <1>1 DEF Backed, EntriesBacked
<1>6. ASSUME NEW h \in H PROVE HoldsDirect(h, c, E)
  <2>1. HoldsDirect(h, b, E)
    BY NoneLent
  <2> QED BY <1>1, <2>1 DEF HoldsDirect, Backed, EntriesBacked
<1>7. Counted(v, c, E, H)
  <2>1. Cardinality(c) = Cardinality(b) - 1
    BY <1>1, FS_RemoveElement, Zenon DEF BackendOK
  <2>2. Cardinality(b) = Cardinality(Direct(E)) + 1 /\ Cardinality(Direct(E)) \in Nat
    BY BackedFinite, FS_CardinalityType, Zenon DEF Backed, Counted
  <2> QED BY <2>1, <2>2 DEF Counted
<1> HIDE DEF c
<1> QED BY <1>2, <1>3, <1>4, <1>5, <1>6, <1>7, Zenon DEF Backed

(* dma_window_map_pages maps the window: a backend mapping with a new tag. *)
LEMMA BackedMapWindow ==
  ASSUME NEW w, NEW v, NEW b, NEW E, NEW H, NEW t, Backed(w, b, E, H, t), ~w.mapped,
         v.mapped = TRUE, v.page_dma \in Seq(Addrs), Len(v.page_dma) # 0, v.device \in Devices,
         \A a \in Covers(v.page_dma) : a[1] = t + 1
  PROVE  Backed(v, b \union {[id |-> t + 1, device |-> v.device, dma |-> v.page_dma[1],
                              covers |-> Covers(v.page_dma)]}, E, H, t + 1)
<1> DEFINE m == [id |-> t + 1, device |-> v.device, dma |-> v.page_dma[1],
                 covers |-> Covers(v.page_dma)]
           c == b \union {m}
<1>1. /\ t \in Nat /\ BackendOK(b, t) /\ Stamped(E, H, t) /\ Lent(E) = {}
  BY DEF Backed, BackendOK, EntriesBacked
<1>2. v.page_dma[1] \in Covers(v.page_dma)
  BY DEF Covers
<1>3. WindowTag(v) = t + 1
  BY <1>2 DEF WindowTag
<1>4. WindowMapping(v) = m
  BY <1>3 DEF WindowMapping
<1>5. m \in BackendMapping
  BY <1>1, CoversType DEF BackendMapping
<1>6. m.id = t + 1 /\ m.dma[1] = t + 1
  BY <1>2
<1> HIDE DEF m
<1>7. m \notin b
  BY <1>1, <1>6 DEF BackendOK
<1>8. BackendOK(c, t + 1)
  <2>1. \A x \in b : x.id \in Nat /\ x.id <= t
    BY <1>1 DEF BackendOK, BackendMapping
  <2> QED BY <1>1, <1>5, <1>6, <2>1, FS_AddElement DEF BackendOK
<1>9. Stamped(E, H, t + 1)
  <2>1. \A x \in E \union H : x.id \in Nat /\ x.id <= t
    BY <1>1 DEF Stamped, Mapping, Handle
  <2> QED BY <1>1, <2>1 DEF Stamped
<1>10. WindowBacked(v, c)
  BY <1>3, <1>4 DEF WindowBacked
<1>11. EntriesBacked(v, c, E)
  <2>1. \A e \in Direct(E) : e.id # t + 1
    BY <1>1 DEF Direct, Stamped, Mapping
  <2> QED BY <1>1, <1>3, <2>1 DEF Backed, EntriesBacked
<1>12. \A h \in H : HoldsDirect(h, b, E) /\ HoldsDirect(h, c, E)
  BY <1>1, NoneLent DEF HoldsDirect
<1>13. Counted(v, c, E, H)
  <2>1. Cardinality(c) = Cardinality(b) + 1
    BY <1>1, <1>7, FS_AddElement, Zenon DEF BackendOK
  <2>2. Cardinality(b) = Cardinality(Direct(E)) /\ Cardinality(Direct(E)) \in Nat
    BY BackedFinite, FS_CardinalityType DEF Backed, Counted
  <2>3. \A a \in Covers(v.page_dma) : EntriesFor(E, a) = {} /\ HoldersOf(H, a) = {}
    <3> TAKE a \in Covers(v.page_dma)
    <3>1. EntriesFor(E, a) = {}
      BY <1>1 DEF EntriesFor
    <3>2. ASSUME NEW h \in H, h.dma = a PROVE FALSE
      <4>1. PICK e \in Direct(E) : e.dma = h.dma
        BY <1>12 DEF HoldsDirect
      <4>2. e.dma[1] = e.id
        BY DEF Backed, EntriesBacked
      <4>3. e.id \in Nat /\ e.id <= t
        BY <1>1 DEF Direct, Stamped, Mapping
      <4> QED BY <1>1, <3>2, <4>1, <4>2, <4>3
    <3> QED BY <3>1, <3>2 DEF HoldersOf
  <2> QED BY <2>1, <2>2, <2>3, Zenon DEF Counted
<1> HIDE DEF c
<1>14. Backed(v, c, E, H, t + 1)
  BY <1>8, <1>9, <1>10, <1>11, <1>12, <1>13, Zenon DEF Backed
<1> QED BY <1>14 DEF c, m

(* One more member of a counted class. *)
LEMMA CountAdd ==
  ASSUME NEW S, IsFiniteSet(S), NEW x, x \notin S
  PROVE  Cardinality(S \union {x}) = Cardinality(S) + 1 /\ Cardinality(S) \in Nat
BY FS_AddElement, FS_CardinalityType

LEMMA CountRemove ==
  ASSUME NEW S, IsFiniteSet(S), NEW x \in S
  PROVE  Cardinality(S \ {x}) = Cardinality(S) - 1 /\ Cardinality(S) \in Nat
BY FS_RemoveElement, FS_CardinalityType

(* An entry and a handle with a new identity. *)
LEMMA StampedAdd ==
  ASSUME NEW E, NEW H, NEW t, Stamped(E, H, t), NEW e \in Mapping, NEW h \in Handle,
         e.id = h.id, e.id <= t, \A x \in E \union H : x.id # e.id
  PROVE  Stamped(E \union {e}, H \union {h}, t) /\ e \notin E /\ h \notin H
BY FS_AddElement DEF Stamped

(* dma_window_map_pages lends an address of the window. *)
LEMMA BackedLend ==
  ASSUME NEW w, NEW b, NEW E, NEW H, NEW t, Backed(w, b, E, H, t), w.mapped,
         NEW e \in Mapping, NEW h \in Handle, e.id = h.id, e.id <= t,
         \A x \in E \union H : x.id # e.id, e.borrowed = TRUE, h.alloc = FALSE,
         e.device = w.device, h.device = w.device, e.dma = h.dma,
         h.dma \in Covers(w.page_dma), h.covers \subseteq Covers(w.page_dma)
  PROVE  Backed(w, b, E \union {e}, H \union {h}, t)
<1> DEFINE F == E \union {e}
           G == H \union {h}
<1>1. Stamped(F, G, t) /\ e \notin E /\ h \notin H
  BY StampedAdd DEF Backed
<1>2. Direct(F) = Direct(E) /\ Lent(F) = Lent(E) \union {e}
  BY DEF Direct, Lent
<1>3. EntriesBacked(w, b, F)
  BY <1>2, Zenon DEF Backed, EntriesBacked
<1>4. \A g \in G : HoldsLent(g, w) \/ HoldsDirect(g, b, F)
  BY <1>2 DEF Backed, HoldsLent, HoldsDirect
<1>5. Counted(w, b, F, G)
  <2>1. ASSUME NEW a \in Covers(w.page_dma)
        PROVE  Cardinality(EntriesFor(F, a)) = Cardinality(HoldersOf(G, a))
    <3>1. /\ Cardinality(EntriesFor(E, a)) = Cardinality(HoldersOf(H, a))
          /\ IsFiniteSet(EntriesFor(E, a)) /\ IsFiniteSet(HoldersOf(H, a))
      BY BackedFinite, Zenon DEF Backed, Counted
    <3>2. CASE h.dma = a
      <4>1. /\ EntriesFor(F, a) = EntriesFor(E, a) \union {e}
            /\ HoldersOf(G, a) = HoldersOf(H, a) \union {h}
        BY <1>2, <3>2, Zenon DEF EntriesFor, HoldersOf
      <4>2. e \notin EntriesFor(E, a) /\ h \notin HoldersOf(H, a)
        BY <1>1 DEF EntriesFor, HoldersOf, Lent
      <4>3. Cardinality(EntriesFor(E, a) \union {e}) = Cardinality(EntriesFor(E, a)) + 1
        BY <3>1, <4>2, CountAdd
      <4>4. Cardinality(HoldersOf(H, a) \union {h}) = Cardinality(HoldersOf(H, a)) + 1
        BY <3>1, <4>2, CountAdd
      <4> HIDE DEF F, G
      <4> QED BY <3>1, <4>1, <4>3, <4>4
    <3>3. CASE h.dma # a
      <4>1. EntriesFor(F, a) = EntriesFor(E, a) /\ HoldersOf(G, a) = HoldersOf(H, a)
        BY <1>2, <3>3, Zenon DEF EntriesFor, HoldersOf
      <4> QED BY <3>1, <4>1
    <3> QED BY <3>2, <3>3
  <2> HIDE DEF F, G
  <2> QED BY <1>2, <2>1 DEF Backed, Counted
<1> HIDE DEF F, G
<1>6. Backed(w, b, F, G, t)
  BY <1>1, <1>3, <1>4, <1>5 DEF Backed
<1> QED BY <1>6 DEF F, G

(* A mapping of its own, with a new tag. *)
LEMMA BackedDirect ==
  ASSUME NEW w, NEW b, NEW E, NEW H, NEW t, Backed(w, b, E, H, t),
         NEW m \in BackendMapping, NEW e \in Mapping, NEW h \in Handle,
         m.id = t + 1, e.id = t + 1, h.id = t + 1, e.borrowed = FALSE,
         m.dma[1] = t + 1, e.dma = m.dma, h.dma = m.dma,
         e.device = m.device, h.device = m.device, h.covers = m.covers,
         e.page = h.page, e.off = h.off
  PROVE  Backed(w, b \union {m}, E \union {e}, H \union {h}, t + 1)
<1> DEFINE c == b \union {m}
           F == E \union {e}
           G == H \union {h}
<1>1. Backed(w, b, E, H, t + 1) /\ t \in Nat
  <2>1. t \in Nat /\ t + 1 \in Nat /\ t <= t + 1
    BY DEF Backed, BackendOK
  <2> QED BY <2>1, BackedLater
<1>2. /\ \A x \in E \union H : x.id \in Nat /\ x.id # t + 1
      /\ \A x \in b : x.id \in Nat /\ x.id # t + 1
  BY <1>1 DEF Backed, Stamped, BackendOK, Mapping, Handle, BackendMapping
<1>3. Stamped(F, G, t + 1) /\ e \notin E /\ h \notin H
  BY <1>1, <1>2, StampedAdd DEF Backed
<1>4. BackendOK(c, t + 1) /\ m \notin b
  BY <1>1, <1>2, FS_AddElement DEF Backed, BackendOK
<1>5. Direct(F) = Direct(E) \union {e} /\ Lent(F) = Lent(E) /\ e \notin Direct(E)
  BY <1>3 DEF Direct, Lent
<1>6. w.mapped => WindowTag(w) # t + 1
  <2>1. w.mapped => WindowMapping(w) \in b /\ WindowMapping(w).id = WindowTag(w)
    BY DEF Backed, WindowBacked, WindowMapping
  <2> QED BY <1>2, <2>1
<1>7. WindowBacked(w, c)
  BY DEF Backed, WindowBacked
<1>8. EntriesBacked(w, c, F)
  <2>1. \A x \in Direct(E) :
          /\ x.dma[1] = x.id
          /\ w.mapped => x.id # WindowTag(w)
          /\ \E y \in c : y.id = x.id /\ y.device = x.device /\ y.dma = x.dma
    BY DEF Backed, EntriesBacked
  <2>2. /\ e.dma[1] = e.id
        /\ w.mapped => e.id # WindowTag(w)
        /\ m \in c /\ m.id = e.id /\ m.device = e.device /\ m.dma = e.dma
    BY <1>6, Zenon
  <2>3. \A x \in Lent(E) : w.mapped /\ x.device = w.device /\ x.dma \in Covers(w.page_dma)
    BY DEF Backed, EntriesBacked
  <2> HIDE DEF c, F
  <2> QED BY <1>5, <2>1, <2>2, <2>3, Zenon DEF EntriesBacked
<1>9. \A g \in G : HoldsLent(g, w) \/ HoldsDirect(g, c, F)
  BY <1>5 DEF Backed, HoldsDirect
<1>10. Counted(w, c, F, G)
  <2>1. Cardinality(c) = Cardinality(b) + 1 /\ Cardinality(b) \in Nat
    BY <1>4, BackedFinite, CountAdd
  <2>2. Cardinality(Direct(F)) = Cardinality(Direct(E)) + 1 /\ Cardinality(Direct(E)) \in Nat
    BY <1>5, BackedFinite, CountAdd, Zenon
  <2>3. w.mapped => \A a \in Covers(w.page_dma) : /\ EntriesFor(F, a) = EntriesFor(E, a)
                                                  /\ HoldersOf(G, a) = HoldersOf(H, a)
    BY <1>5, <1>6, Zenon DEF EntriesFor, HoldersOf, Backed, WindowBacked
  <2> HIDE DEF c, F, G
  <2> QED BY <2>1, <2>2, <2>3 DEF Backed, Counted
<1> HIDE DEF c, F, G
<1>11. Backed(w, c, F, G, t + 1)
  BY <1>1, <1>3, <1>4, <1>7, <1>8, <1>9, <1>10 DEF Backed
<1> QED BY <1>11 DEF c, F, G

(* Entries and handles that are taken away. *)
LEMMA StampedRemove ==
  ASSUME NEW E, NEW H, NEW t, Stamped(E, H, t), NEW e \in E, NEW h \in H
  PROVE  Stamped(E \ {e}, H \ {h}, t)
BY FS_RemoveElement DEF Stamped

(* kb_subsystem_dma_unmap of a part of the window: whichever entry of the    *)
(* same address is taken, the other callers keep as many.                    *)
LEMMA BackedUnlend ==
  ASSUME NEW w, NEW b, NEW E, NEW H, NEW t, Backed(w, b, E, H, t),
         NEW h \in H, HoldsLent(h, w), NEW e \in EntriesFor(E, h.dma)
  PROVE  Backed(w, b, E \ {e}, H \ {h}, t)
<1> DEFINE F == E \ {e}
           G == H \ {h}
<1>1. e \in E /\ e.borrowed /\ e \in Lent(E) /\ e.dma = h.dma
  BY DEF EntriesFor, Lent
<1>2. Stamped(F, G, t)
  BY <1>1, StampedRemove DEF Backed
<1>3. Direct(F) = Direct(E) /\ Lent(F) = Lent(E) \ {e}
  BY <1>1 DEF Direct, Lent
<1>4. EntriesBacked(w, b, F)
  BY <1>3, Zenon DEF Backed, EntriesBacked
<1>5. \A g \in G : HoldsLent(g, w) \/ HoldsDirect(g, b, F)
  BY <1>3 DEF Backed, HoldsDirect
<1>6. Counted(w, b, F, G)
  <2>1. ASSUME NEW a \in Covers(w.page_dma)
        PROVE  Cardinality(EntriesFor(F, a)) = Cardinality(HoldersOf(G, a))
    <3>1. /\ Cardinality(EntriesFor(E, a)) = Cardinality(HoldersOf(H, a))
          /\ IsFiniteSet(EntriesFor(E, a)) /\ IsFiniteSet(HoldersOf(H, a))
      BY BackedFinite, Zenon DEF Backed, Counted, HoldsLent
    <3>2. CASE h.dma = a
      <4>1. /\ EntriesFor(F, a) = EntriesFor(E, a) \ {e}
            /\ HoldersOf(G, a) = HoldersOf(H, a) \ {h}
        BY <1>3, <3>2 DEF EntriesFor, HoldersOf
      <4>2. e \in EntriesFor(E, a) /\ h \in HoldersOf(H, a)
        BY <3>2 DEF HoldersOf
      <4>3. Cardinality(EntriesFor(E, a) \ {e}) = Cardinality(EntriesFor(E, a)) - 1
        BY <3>1, <4>2, CountRemove
      <4>4. Cardinality(HoldersOf(H, a) \ {h}) = Cardinality(HoldersOf(H, a)) - 1
        BY <3>1, <4>2, CountRemove
      <4> HIDE DEF F, G
      <4> QED BY <3>1, <4>1, <4>3, <4>4
    <3>3. CASE h.dma # a
      <4>1. EntriesFor(F, a) = EntriesFor(E, a) /\ HoldersOf(G, a) = HoldersOf(H, a)
        BY <1>1, <1>3, <3>3 DEF EntriesFor, HoldersOf
      <4> QED BY <3>1, <4>1
    <3> QED BY <3>2, <3>3
  <2> HIDE DEF F, G
  <2> QED BY <1>3, <2>1 DEF Backed, Counted
<1> HIDE DEF F, G
<1>7. Backed(w, b, F, G, t)
  BY <1>2, <1>4, <1>5, <1>6 DEF Backed
<1> QED BY <1>7 DEF F, G

(* A mapping of its own is given back: it leaves the backend, and no other. *)
LEMMA BackedUndirect ==
  ASSUME NEW w, NEW b, NEW E, NEW H, NEW t, Backed(w, b, E, H, t),
         NEW h \in H, NEW e \in Direct(E), NEW m \in b,
         e.id = h.id, m.id = h.id, e.dma = h.dma
  PROVE  Backed(w, b \ {m}, E \ {e}, H \ {h}, t)
<1> DEFINE c == b \ {m}
           F == E \ {e}
           G == H \ {h}
<1>1. /\ e \in E /\ ~e.borrowed /\ h.dma[1] = h.id /\ (w.mapped => h.id # WindowTag(w))
      /\ \A x, y \in E : x.id = y.id => x = y
      /\ \A x, y \in H : x.id = y.id => x = y
      /\ \A x, y \in b : x.id = y.id => x = y
  BY DEF Direct, Backed, EntriesBacked, Stamped, BackendOK
<1>2. Stamped(F, G, t) /\ BackendOK(c, t)
  BY <1>1, StampedRemove, FS_RemoveElement DEF Backed, BackendOK
<1>3. Direct(F) = Direct(E) \ {e} /\ Lent(F) = Lent(E)
  BY <1>1, Zenon DEF Direct, Lent
<1>4. WindowBacked(w, c)
  BY <1>1 DEF Backed, WindowBacked, WindowMapping
<1>5. EntriesBacked(w, c, F)
  <2>1. ASSUME NEW x \in Direct(E), x # e
        PROVE  \E y \in c : y.id = x.id /\ y.device = x.device /\ y.dma = x.dma
    <3>1. x.id # m.id
      BY <1>1, <2>1 DEF Direct
    <3> QED BY <3>1 DEF Backed, EntriesBacked
  <2> HIDE DEF c, F
  <2> QED BY <1>3, <2>1, Zenon DEF Backed, EntriesBacked
<1>6. ASSUME NEW g \in G PROVE HoldsLent(g, w) \/ HoldsDirect(g, c, F)
  <2>1. g.id # m.id /\ g.id # e.id /\ g \in H
    BY <1>1, Zenon
  <2>2. HoldsDirect(g, b, E) => HoldsDirect(g, c, F)
    <3> HIDE DEF F
    <3> QED BY <1>3, <2>1, Zenon DEF HoldsDirect
  <2> QED BY <2>1, <2>2 DEF Backed
<1>7. Counted(w, c, F, G)
  <2>1. Cardinality(c) = Cardinality(b) - 1 /\ Cardinality(b) \in Nat
    BY BackedFinite, CountRemove
  <2>2. Cardinality(Direct(F)) = Cardinality(Direct(E)) - 1 /\ Cardinality(Direct(E)) \in Nat
    BY <1>3, BackedFinite, CountRemove, Zenon
  <2>3. w.mapped => \A a \in Covers(w.page_dma) : /\ EntriesFor(F, a) = EntriesFor(E, a)
                                                  /\ HoldersOf(G, a) = HoldersOf(H, a)
    <3>1. w.mapped => \A a \in Covers(w.page_dma) : a[1] = WindowTag(w)
      BY Zenon DEF Backed, WindowBacked
    <3> QED BY <1>1, <1>3, <3>1, Zenon DEF EntriesFor, HoldersOf
  <2> HIDE DEF c, F, G
  <2> QED BY <2>1, <2>2, <2>3 DEF Backed, Counted
<1> HIDE DEF c, F, G
<1>8. Backed(w, c, F, G, t)
  BY <1>2, <1>4, <1>5, <1>6, <1>7 DEF Backed
<1> QED BY <1>8 DEF c, F, G

-----------------------------------------------------------------------------
(* A well-formed window: its scope and its mapping are ranges of pages, and  *)
(* page_dma has one address for every mapped page.                           *)
WindowOK(w) ==
  /\ w \in WindowType
  /\ w.active => w.scope_start \in Pages /\ w.scope_start + w.scope_size - 1 <= NPages
  /\ w.mapped => /\ w.mapped_start \in Pages
                 /\ w.mapped_size # 0
                 /\ w.mapped_start + w.mapped_size - 1 <= NPages
                 /\ Len(w.page_dma) = w.mapped_size

(* The inductive invariant: the entries are stamped in the past, so that a   *)
(* new one is new, and the window is well formed.                            *)
IInv ==
  /\ TypeOK
  /\ WindowOK(dma_window)
  /\ IsFiniteSet(dma_mappings)
  /\ \A m \in dma_mappings : m.id \in 0..stamp
  /\ BorrowAccounting

(* The addresses of a new backend mapping. *)
LEMMA SpanType ==
  ASSUME NEW t \in Nat, NEW s \in Pages, NEW o \in Offsets, NEW n \in 1..NPages,
         s + n - 1 <= NPages
  PROVE  Span(t, s, o, n) \in Seq(Addrs) /\ Len(Span(t, s, o, n)) = n
<1>1. \A i \in 1..n : PageDma(t, s, o, s + i - 1) \in Addrs
  BY DmaConstants DEF PageDma, Addrs, Pages, Offsets
<1>2. Span(t, s, o, n) \in [1..n -> Addrs]
  BY <1>1 DEF Span
<1> QED BY <1>2, n \in Nat

(* What the backend unmaps it had. *)
LEMMA BackendUnmapSubset ==
  ASSUME NEW b, NEW d, NEW a
  PROVE  BackendUnmap(b, d, a) \subseteq b
BY DEF BackendUnmap

(* dma_window_release_mapping keeps the window well formed and its borrowers *)
(* and scope as they are.                                                    *)
LEMMA ReleaseMappingOK ==
  ASSUME NEW w, WindowOK(w)
  PROVE  /\ WindowOK(ReleaseMapping(w))
         /\ ReleaseMapping(w).borrowers = w.borrowers
         /\ w.mapped /\ w.borrowers = 0 => ~ReleaseMapping(w).mapped
         /\ ReleaseMapping(w).active = w.active
<1>1. 0 \in 0..NPages /\ <<>> \in Seq(Addrs)
  BY DmaConstants
<1> DEFINE u == [w EXCEPT !.mapped = FALSE, !.mapped_start = 0,
                          !.mapped_size = 0, !.page_dma = <<>>]
<1>2. u \in WindowType
  BY <1>1, Zenon DEF WindowOK, WindowType
<1>3. /\ u.borrowers = w.borrowers /\ u.active = w.active
      /\ u.scope_start = w.scope_start /\ u.scope_size = w.scope_size
      /\ u.mapped = FALSE
  BY DEF WindowOK, WindowType
<1>4. WindowOK(u)
  <2> HIDE DEF u
  <2> QED BY <1>2, <1>3 DEF WindowOK
<1> HIDE DEF u
<1> QED BY <1>3, <1>4 DEF ReleaseMapping, CanRelease, u

(* No window at all is a well-formed window. *)
LEMMA NoWindowOK == WindowOK(NoWindow) /\ NoWindow.borrowers = 0
BY DmaConstants DEF NoWindow, WindowOK, WindowType

(* dma_window_begin_common, entered with a window nobody borrows. *)
LEMMA BeginCommonOK ==
  ASSUME NEW w0, WindowOK(w0), w0.borrowers = 0, NEW b0 \in SUBSET BackendMapping,
         NEW d \in Devices, NEW s \in Pages, NEW n \in 1..NPages,
         s + n - 1 <= NPages, NEW dir \in Directions,
         BeginCommon(w0, b0, d, s, n, dir)
  PROVE  /\ WindowOK(dma_window') /\ dma_window'.borrowers = 0
         /\ backend' \subseteq BackendMapping
<1> DEFINE moved == /\ w0.mapped
                    /\ \/ d # w0.device
                       \/ dir # w0.direction
                       \/ s # w0.mapped_start
           w1 == IF moved THEN ReleaseMapping(w0) ELSE w0
           w2 == IF w1.mapped THEN w1 ELSE NoWindow
<1>1. WindowOK(w1) /\ w1.borrowers = 0
  BY ReleaseMappingOK
<1>2. WindowOK(w2) /\ w2.borrowers = 0
  BY <1>1, NoWindowOK
<1>3. dma_window' = [w2 EXCEPT !.device = d, !.scope_start = s,
                               !.scope_size = n, !.direction = dir,
                               !.active = TRUE]
  BY DEF BeginCommon
<1>4. WindowOK(dma_window') /\ dma_window'.borrowers = 0
  <2> HIDE DEF w2
  <2>1. w2 \in WindowType
    BY <1>2 DEF WindowOK
  <2>2. dma_window' \in WindowType
    <3>1. s \in 0..NPages /\ n \in 0..NPages
      BY DmaConstants DEF Pages
    <3> QED BY <2>1, <1>3, <3>1, Zenon DEF WindowType
  <2>3. /\ dma_window'.scope_start = s /\ dma_window'.scope_size = n
        /\ dma_window'.mapped = w2.mapped
        /\ dma_window'.mapped_start = w2.mapped_start
        /\ dma_window'.mapped_size = w2.mapped_size
        /\ dma_window'.page_dma = w2.page_dma
        /\ dma_window'.borrowers = w2.borrowers
    BY <2>1, <1>3 DEF WindowType
  <2> QED BY <1>2, <2>2, <2>3 DEF WindowOK
<1>5. backend' \subseteq BackendMapping
  BY BackendUnmapSubset DEF BeginCommon
<1> QED BY <1>4, <1>5

-----------------------------------------------------------------------------
(* The part of the invariant that remembering and forgetting entries keeps. *)
EntriesOK ==
  /\ dma_mappings \subseteq Mapping
  /\ IsFiniteSet(dma_mappings)
  /\ stamp \in Nat
  /\ \A m \in dma_mappings : m.id \in 0..stamp

(* remember_dma_mapping_full adds one entry, counted if it is a borrower. *)
LEMMA RememberOK ==
  ASSUME EntriesOK, held \subseteq Handle, NEW d \in Devices, NEW s \in Pages,
         NEW o \in Offsets, NEW dmas \in Seq(Addrs), Len(dmas) # 0,
         NEW borrowed \in BOOLEAN, NEW alloc \in BOOLEAN,
         Remember(d, s, o, dmas, borrowed, alloc), stamp' = stamp + 1
  PROVE  /\ EntriesOK' /\ held' \subseteq Handle
         /\ Cardinality(Borrowed)' =
              IF borrowed THEN Cardinality(Borrowed) + 1 ELSE Cardinality(Borrowed)
<1> DEFINE e == [id |-> stamp + 1, page |-> s, off |-> o, size |-> Len(dmas),
                 dma |-> dmas[1], device |-> d, borrowed |-> borrowed]
           h == [id |-> stamp + 1, device |-> d, page |-> s, off |-> o,
                 dma |-> dmas[1], covers |-> Covers(dmas), alloc |-> alloc]
<1>1. dmas[1] \in Addrs /\ Covers(dmas) \in SUBSET Addrs /\ Len(dmas) \in Nat
  BY CoversType, Zenon
<1>2. e \in Mapping /\ h \in Handle
  BY <1>1 DEF Mapping, Handle, EntriesOK
<1>3. e.id = stamp + 1 /\ e.borrowed = borrowed
  OBVIOUS
<1>4. dma_mappings' = dma_mappings \union {e} /\ held' = held \union {h}
  BY DEF Remember
<1> HIDE DEF e, h
<1>5. e \notin dma_mappings
  BY <1>3 DEF EntriesOK
<1>6. EntriesOK'
  <2>1. IsFiniteSet(dma_mappings')
    BY <1>4, FS_AddElement DEF EntriesOK
  <2>2. \A m \in dma_mappings' : m.id \in 0..stamp'
    BY <1>3, <1>4 DEF EntriesOK
  <2> QED BY <1>2, <1>4, <2>1, <2>2 DEF EntriesOK
<1>7. IsFiniteSet(Borrowed)
  BY FS_Subset DEF Borrowed, EntriesOK
<1>8. Borrowed' = IF borrowed THEN Borrowed \union {e} ELSE Borrowed
  BY <1>3, <1>4 DEF Borrowed
<1>9. e \notin Borrowed
  BY <1>5 DEF Borrowed
<1> QED BY <1>2, <1>4, <1>6, <1>7, <1>8, <1>9, FS_AddElement, Zenon

(* take_dma_mapping forgets one entry, the newest of those that match. *)
LEMMA TakeOK ==
  ASSUME EntriesOK, NEW ms \in SUBSET dma_mappings, ms # {},
         dma_mappings' = dma_mappings \ {Newest(ms)}, UNCHANGED stamp
  PROVE  /\ EntriesOK' /\ Newest(ms) \in dma_mappings
         /\ Cardinality(Borrowed) \in Nat
         /\ Newest(ms).borrowed => /\ Cardinality(Borrowed) # 0
                                   /\ Cardinality(Borrowed)' = Cardinality(Borrowed) - 1
         /\ ~Newest(ms).borrowed => Cardinality(Borrowed)' = Cardinality(Borrowed)
<1> DEFINE e == Newest(ms)
<1>1. e \in ms
  BY NewestIsMember DEF EntriesOK
<1> HIDE DEF e
<1>2. dma_mappings' = dma_mappings \ {e}
  BY DEF e
<1>3. EntriesOK'
  BY <1>2, FS_RemoveElement DEF EntriesOK
<1>4. IsFiniteSet(Borrowed) /\ Cardinality(Borrowed) \in Nat
  BY FS_Subset, FS_CardinalityType DEF Borrowed, EntriesOK
<1>5. CASE e.borrowed
  <2>1. e \in Borrowed
    BY <1>1, <1>5 DEF Borrowed
  <2>2. Borrowed' = Borrowed \ {e}
    BY <1>2 DEF Borrowed
  <2>3. Cardinality(Borrowed \ {e}) = Cardinality(Borrowed) - 1
    BY <1>4, <2>1, FS_RemoveElement, Zenon
  <2>4. Cardinality(Borrowed) # 0
    BY <1>4, <2>1, FS_EmptySet
  <2> QED BY <1>1, <1>3, <1>4, <1>5, <2>2, <2>3, <2>4 DEF e
<1>6. CASE ~e.borrowed
  <2>1. Borrowed' = Borrowed
    BY <1>2, <1>6 DEF Borrowed
  <2> QED BY <1>1, <1>3, <1>4, <1>6, <2>1 DEF e
<1> QED BY <1>5, <1>6

(* A range of pages inside a mapped one, counted from the start of that.     *)
LEMMA IndexInRange ==
  ASSUME NEW first \in Nat, NEW size \in Nat, NEW s \in Nat, NEW n \in Nat,
         s >= first, s + n <= first + size
  PROVE  \A i \in 1..n : s - first + i \in 1..size
OBVIOUS

(* The mapped window lends its addresses, and counts the borrower it        *)
(* remembers.                                                               *)
LEMMA LendOK ==
  ASSUME EntriesOK, held \subseteq Handle, NEW d \in Devices,
         NEW s \in Pages, NEW n \in 1..NPages, NEW remembered \in BOOLEAN,
         NEW w, WindowOK(w), w.active, InMapped(w, s, n),
         w.borrowers = Cardinality(Borrowed),
         Lend(w, d, s, n, remembered), stamp' = stamp + 1
  PROVE  /\ EntriesOK' /\ held' \subseteq Handle /\ WindowOK(dma_window')
         /\ BorrowAccounting'
<1> DEFINE dmas == [i \in 1..n |-> w.page_dma[s - w.mapped_start + i]]
<1>1. w \in WindowType /\ w.mapped /\ w.mapped_start \in Nat /\ w.mapped_size \in Nat
      /\ w.page_dma \in Seq(Addrs) /\ w.borrowers \in Nat
  BY DEF WindowOK, WindowType, InMapped
<1>2. dmas \in Seq(Addrs) /\ Len(dmas) = n
  <2>1. \A i \in 1..n : s - w.mapped_start + i \in 1..Len(w.page_dma)
    <3>1. Len(w.page_dma) = w.mapped_size
      BY <1>1 DEF WindowOK
    <3>2. /\ s >= w.mapped_start /\ s + n <= w.mapped_start + w.mapped_size
          /\ s \in Nat /\ n \in Nat
      BY DmaConstants DEF InMapped, Pages
    <3> QED BY <1>1, <3>1, <3>2, IndexInRange, Zenon
  <2>2. \A i \in 1..n : w.page_dma[s - w.mapped_start + i] \in Addrs
    BY <1>1, <2>1
  <2>3. dmas \in [1..n -> Addrs] /\ n \in Nat
    BY <2>2
  <2> HIDE DEF dmas
  <2> QED BY <2>3
<1>3. CASE remembered
  <2> DEFINE v == [w EXCEPT !.borrowers = @ + 1]
  <2>1. Remember(d, s, 0, dmas, TRUE, FALSE) /\ dma_window' = v
    BY <1>3, Zenon DEF Lend
  <2>2. EntriesOK' /\ held' \subseteq Handle /\ Cardinality(Borrowed)' = Cardinality(Borrowed) + 1
    <3> HIDE DEF dmas
    <3>1. 0 \in Offsets /\ Len(dmas) # 0
      BY <1>2 DEF Offsets
    <3> QED BY <1>2, <2>1, <3>1, RememberOK, Zenon
  <2>3. v \in WindowType
    BY <1>1 DEF WindowType
  <2>4. /\ v.borrowers = w.borrowers + 1 /\ v.active = w.active /\ v.mapped = w.mapped
        /\ v.scope_start = w.scope_start /\ v.scope_size = w.scope_size
        /\ v.mapped_start = w.mapped_start /\ v.mapped_size = w.mapped_size
        /\ v.page_dma = w.page_dma
    BY <1>1, Zenon DEF WindowType
  <2> HIDE DEF v
  <2>5. WindowOK(v)
    BY <2>3, <2>4 DEF WindowOK
  <2> QED BY <1>1, <2>1, <2>2, <2>4, <2>5 DEF BorrowAccounting
<1>4. CASE ~remembered
  <2>1. dma_window' = w /\ UNCHANGED <<dma_mappings, held>>
    BY <1>4 DEF Lend
  <2>2. EntriesOK' /\ Borrowed' = Borrowed
    BY <2>1 DEF EntriesOK, Borrowed
  <2> QED BY <1>1, <2>1, <2>2 DEF BorrowAccounting
<1> QED BY <1>3, <1>4

-----------------------------------------------------------------------------
(* The initial state, with no mapping and no window. *)
LEMMA InitIInv == Init => IInv
<1> SUFFICES ASSUME Init PROVE IInv
  OBVIOUS
<1>1. WindowOK(dma_window) /\ dma_window.borrowers = 0
  BY NoWindowOK DEF Init
<1>2. Borrowed = {} /\ IsFiniteSet(dma_mappings)
  BY FS_EmptySet DEF Init, Borrowed
<1>3. Cardinality(Borrowed) = 0
  BY <1>2, FS_EmptySet
<1>4. TypeOK
  BY <1>1, DmaConstants DEF Init, TypeOK, WindowOK
<1> QED BY <1>1, <1>2, <1>3, <1>4 DEF Init, IInv, BorrowAccounting

(* A step that leaves the entries and the handles alone keeps the invariant *)
(* if it leaves nobody borrowing a window that is well formed.              *)
LEMMA WindowStep ==
  ASSUME IInv, dma_window.borrowers = 0, UNCHANGED <<dma_mappings, held>>,
         stamp' \in stamp..MaxStamp, WindowOK(dma_window'), dma_window'.borrowers = 0,
         backend' \subseteq BackendMapping
  PROVE  IInv'
<1>1. Borrowed' = Borrowed
  BY DEF Borrowed
<1>2. TypeOK'
  BY DmaConstants DEF IInv, TypeOK, WindowOK
<1>3. BorrowAccounting'
  BY <1>1, Zenon DEF IInv, BorrowAccounting
<1>4. \A m \in dma_mappings' : m.id \in 0..stamp'
  BY DmaConstants DEF IInv, TypeOK
<1> QED BY <1>2, <1>3, <1>4 DEF IInv

(* The backend mapping a map call creates is well typed. *)
LEMMA NewBackendMappingType ==
  ASSUME stamp \in Nat, NEW d \in Devices, NEW dmas \in Seq(Addrs), Len(dmas) # 0
  PROVE  NewBackendMapping(d, dmas) \in BackendMapping
<1>1. dmas[1] \in Addrs /\ Covers(dmas) \in SUBSET Addrs
  BY CoversType
<1> QED BY <1>1 DEF NewBackendMapping, BackendMapping

(* A mapping outside the window: remembered, or rolled back. *)
LEMMA MapDirectOK ==
  ASSUME IInv, NEW d \in Devices, NEW s \in Pages, NEW o \in Offsets,
         NEW n \in 1..NPages, s + n - 1 <= NPages, NEW alloc \in BOOLEAN,
         NEW remembered \in BOOLEAN, MapDirect(d, s, o, n, alloc, remembered)
  PROVE  IInv'
<1> DEFINE dmas == Span(stamp + 1, s, o, n)
           added == backend \union {NewBackendMapping(d, dmas)}
<1>1. stamp < MaxStamp /\ stamp' = stamp + 1 /\ dma_window' = dma_window
  BY DEF MapDirect
<1>2. /\ stamp \in Nat /\ held \subseteq Handle /\ EntriesOK
      /\ backend \subseteq BackendMapping
  BY DEF IInv, TypeOK, EntriesOK
<1>3. dmas \in Seq(Addrs) /\ Len(dmas) # 0
  <2>1. stamp + 1 \in Nat
    BY <1>2
  <2> QED BY <2>1, SpanType
<1>4. added \subseteq BackendMapping
  BY <1>2, <1>3, NewBackendMappingType
<1> HIDE DEF dmas, added
<1>5. CASE remembered
  <2>1. backend' = added /\ Remember(d, s, o, dmas, FALSE, alloc)
    BY <1>5, Zenon DEF MapDirect, dmas, added
  <2>2. EntriesOK' /\ held' \subseteq Handle /\ Cardinality(Borrowed)' = Cardinality(Borrowed)
    BY <1>1, <1>2, <1>3, <2>1, RememberOK, Zenon
  <2>3. BorrowAccounting'
    BY <1>1, <2>2 DEF IInv, BorrowAccounting
  <2> QED BY <1>1, <1>2, <1>4, <2>1, <2>2, <2>3, DmaConstants DEF IInv, EntriesOK, TypeOK
<1>6. CASE ~remembered
  <2>1. backend' = BackendUnmap(added, d, dmas[1]) /\ UNCHANGED <<dma_mappings, held>>
    BY <1>6 DEF MapDirect, dmas, added
  <2>2. backend' \subseteq BackendMapping
    BY <1>4, <2>1, BackendUnmapSubset
  <2>3. Borrowed' = Borrowed
    BY <2>1 DEF Borrowed
  <2> QED BY <1>1, <1>2, <2>1, <2>2, <2>3, DmaConstants
          DEF IInv, EntriesOK, TypeOK, BorrowAccounting
<1> QED BY <1>5, <1>6

(* kb_subsystem_dma_unmap: an entry that borrows the window gives it back. *)
LEMMA UnmapOK ==
  ASSUME IInv, NEW h \in held, Unmap(h)
  PROVE  IInv'
<1> DEFINE ms == {m \in dma_mappings : m.device = h.device /\ m.dma = h.dma}
           taken == Newest(ms)
           lent == ms # {} /\ taken.borrowed
<1>1. /\ held' \subseteq Handle /\ stamp' = stamp /\ EntriesOK
      /\ WindowOK(dma_window) /\ BorrowAccounting
  BY DEF Unmap, IInv, TypeOK, EntriesOK
<1>2. backend' \subseteq BackendMapping
  BY BackendUnmapSubset DEF Unmap, IInv, TypeOK
<1>3. /\ dma_mappings' = IF ms = {} THEN dma_mappings ELSE dma_mappings \ {taken}
      /\ dma_window' = IF lent /\ dma_window.borrowers # 0
                       THEN [dma_window EXCEPT !.borrowers = @ - 1]
                       ELSE dma_window
  BY DEF Unmap
<1> HIDE DEF ms
<1>4. CASE lent
  <2>1. ms \in SUBSET dma_mappings /\ ms # {}
    BY <1>4 DEF ms
  <2>2. /\ EntriesOK' /\ Cardinality(Borrowed) \in Nat /\ Cardinality(Borrowed) # 0
        /\ Cardinality(Borrowed)' = Cardinality(Borrowed) - 1
    BY <1>1, <1>3, <1>4, <2>1, TakeOK
  <2> DEFINE v == [dma_window EXCEPT !.borrowers = @ - 1]
  <2>3. dma_window' = v
    BY <1>1, <1>3, <1>4, <2>2 DEF BorrowAccounting
  <2>4. v \in WindowType /\ v.borrowers = Cardinality(Borrowed)'
    <3>1. dma_window.borrowers = Cardinality(Borrowed) /\ dma_window.borrowers - 1 \in Nat
      BY <1>1, <2>2 DEF BorrowAccounting
    <3>2. dma_window \in WindowType
      BY <1>1 DEF WindowOK
    <3> QED BY <2>2, <3>1, <3>2 DEF WindowType
  <2>5. /\ v.active = dma_window.active /\ v.mapped = dma_window.mapped
        /\ v.scope_start = dma_window.scope_start /\ v.scope_size = dma_window.scope_size
        /\ v.mapped_start = dma_window.mapped_start
        /\ v.mapped_size = dma_window.mapped_size /\ v.page_dma = dma_window.page_dma
    BY <1>1 DEF WindowOK, WindowType
  <2> HIDE DEF v
  <2>6. WindowOK(v)
    BY <1>1, <2>4, <2>5 DEF WindowOK
  <2>7. BorrowAccounting'
    BY <1>1, <2>2, <2>3, <2>4, <2>5 DEF BorrowAccounting
  <2> QED BY <1>1, <1>2, <2>2, <2>3, <2>6, <2>7, Zenon DEF IInv, EntriesOK, TypeOK, WindowOK
<1>5. CASE ~lent
  <2>1. dma_window' = dma_window
    BY <1>3, <1>5
  <2>2. EntriesOK' /\ Cardinality(Borrowed)' = Cardinality(Borrowed)
    <3>1. CASE ms = {}
      <4>1. Borrowed' = Borrowed
        BY <1>3, <3>1 DEF Borrowed
      <4> QED BY <1>1, <1>3, <3>1, <4>1 DEF EntriesOK
    <3>2. CASE ms # {}
      <4>1. ms \in SUBSET dma_mappings
        BY DEF ms
      <4> QED BY <1>1, <1>3, <1>5, <3>2, <4>1, TakeOK
    <3> QED BY <3>1, <3>2
  <2> QED BY <1>1, <1>2, <2>1, <2>2 DEF IInv, EntriesOK, TypeOK, BorrowAccounting
<1> QED BY <1>4, <1>5

-----------------------------------------------------------------------------
(* Every mapping of the state is backed. *)
AllBacked == Backed(dma_window, backend, dma_mappings, held, stamp)

(* A window that counts no borrower has none. *)
LEMMA NoBorrower ==
  ASSUME IInv, dma_window.borrowers = 0
  PROVE  Lent(dma_mappings) = {}
<1>1. IsFiniteSet(Borrowed) /\ Cardinality(Borrowed) = 0
  BY FS_Subset DEF IInv, Borrowed, BorrowAccounting
<1> QED BY <1>1, FS_EmptySet DEF Borrowed, Lent

(* dma_window_release_mapping and the window is forgotten. *)
LEMMA ReleasedBacked ==
  ASSUME IInv, AllBacked, dma_window.borrowers = 0, NEW v, v.mapped = FALSE
  PROVE  Backed(v, BackendReleased(dma_window), dma_mappings, held, stamp)
<1>1. Lent(dma_mappings) = {}
  BY NoBorrower
<1>2. CASE dma_window.mapped
  <2>1. BackendReleased(dma_window)
          = BackendUnmap(backend, dma_window.device, dma_window.page_dma[1])
    BY <1>2 DEF BackendReleased, CanRelease
  <2> QED BY <1>1, <1>2, <2>1, BackedDrop, Zenon DEF AllBacked
<1>3. CASE ~dma_window.mapped
  <2>1. BackendReleased(dma_window) = backend /\ v.mapped = dma_window.mapped
    BY <1>3, Zenon DEF BackendReleased, CanRelease, AllBacked, Backed
  <2> QED BY <1>3, <2>1, BackedSameMapping DEF AllBacked
<1> QED BY <1>2, <1>3

(* dma_window_begin_common keeps a mapping that fits and drops any other. *)
LEMMA BeginCommonBacked ==
  ASSUME NEW w0, WindowOK(w0), w0.borrowers = 0, NEW b0, NEW d \in Devices, NEW s \in Pages,
         NEW n \in 1..NPages, NEW dir \in Directions, BeginCommon(w0, b0, d, s, n, dir),
         Backed(w0, b0, dma_mappings, held, stamp), Lent(dma_mappings) = {}
  PROVE  Backed(dma_window', backend', dma_mappings, held, stamp)
<1> DEFINE moved == /\ w0.mapped
                    /\ \/ d # w0.device
                       \/ dir # w0.direction
                       \/ s # w0.mapped_start
           v(w) == [w EXCEPT !.device = d, !.scope_start = s, !.scope_size = n,
                             !.direction = dir, !.active = TRUE]
<1>1. \A w \in WindowType : /\ v(w).mapped = w.mapped /\ v(w).page_dma = w.page_dma
                            /\ v(w).device = d
  BY Zenon DEF WindowType
<1>2. /\ w0 \in WindowType /\ NoWindow \in WindowType /\ NoWindow.mapped = FALSE
      /\ WindowOK(ReleaseMapping(w0))
      /\ w0.mapped => ~ReleaseMapping(w0).mapped
  BY NoWindowOK, ReleaseMappingOK DEF WindowOK, NoWindow
<1>3. CASE moved
  <2>1. dma_window' = v(NoWindow) /\ backend' = BackendUnmap(b0, w0.device, w0.page_dma[1])
    BY <1>2, <1>3, Zenon DEF BeginCommon, CanRelease
  <2>2. dma_window'.mapped = FALSE
    BY <1>1, <1>2, <2>1
  <2> QED BY <1>3, <2>1, <2>2, BackedDrop, Zenon
<1>4. CASE ~moved
  <2>1. backend' = b0 /\ dma_window' = v(IF w0.mapped THEN w0 ELSE NoWindow)
    BY <1>4, Zenon DEF BeginCommon
  <2>2. /\ dma_window'.mapped = w0.mapped
        /\ w0.mapped => dma_window'.device = w0.device /\ dma_window'.page_dma = w0.page_dma
    <3>1. CASE w0.mapped
      BY <1>1, <1>2, <1>4, <2>1, <3>1, Zenon
    <3>2. CASE ~w0.mapped
      <4>1. w0.mapped = FALSE
        BY <3>2 DEF Backed
      <4> QED BY <1>1, <1>2, <2>1, <4>1, Zenon
    <3> QED BY <3>1, <3>2
  <2> QED BY <2>1, <2>2, BackedSameMapping, Zenon
<1> QED BY <1>3, <1>4

(* The window is opened, closed and discarded. *)
LEMMA WindowActionsBacked ==
  ASSUME IInv, AllBacked,
         \/ WindowEnd \/ CachedWindowEnd \/ CachedWindowDiscard
         \/ \E d \in Devices, s \in Pages, n \in 1..NPages, dir \in Directions :
              WindowBegin(d, s, n, dir) \/ CachedWindowBegin(d, s, n, dir)
  PROVE  AllBacked'
<1>1. /\ dma_mappings' = dma_mappings /\ held' = held /\ stamp' = stamp
      /\ NoWindow.mapped = FALSE
  BY DEF WindowEnd, CachedWindowEnd, CachedWindowDiscard, WindowBegin, CachedWindowBegin,
     NoWindow
<1>2. CASE WindowEnd \/ CachedWindowDiscard
  <2>1. /\ dma_window.borrowers = 0 /\ dma_window' = NoWindow
        /\ backend' = BackendReleased(dma_window)
    BY <1>2 DEF WindowEnd, CachedWindowDiscard
  <2> QED BY <1>1, <2>1, ReleasedBacked, Zenon DEF AllBacked
<1>3. CASE CachedWindowEnd
  <2>1. /\ dma_window'.mapped = dma_window.mapped /\ dma_window'.device = dma_window.device
        /\ dma_window'.page_dma = dma_window.page_dma /\ backend' = backend
    BY <1>3 DEF CachedWindowEnd, IInv, TypeOK, WindowType
  <2> QED BY <1>1, <2>1, BackedSameMapping DEF AllBacked
<1>4. ASSUME NEW d \in Devices, NEW s \in Pages, NEW n \in 1..NPages, NEW dir \in Directions,
             WindowBegin(d, s, n, dir) \/ CachedWindowBegin(d, s, n, dir)
      PROVE  AllBacked'
  <2>1. dma_window.borrowers = 0
    BY <1>4 DEF WindowBegin, CachedWindowBegin, IInv, BorrowAccounting
  <2>2. Lent(dma_mappings) = {} /\ WindowOK(dma_window)
    BY <2>1, NoBorrower DEF IInv
  <2>3. CASE WindowBegin(d, s, n, dir) /\ dma_window.mapped
    <3>1. BeginCommon(NoWindow, BackendReleased(dma_window), d, s, n, dir)
      BY <2>3 DEF WindowBegin
    <3>2. Backed(NoWindow, BackendReleased(dma_window), dma_mappings, held, stamp)
      BY <1>1, <2>1, ReleasedBacked, Zenon
    <3> QED BY <1>1, <2>2, <3>1, <3>2, NoWindowOK, BeginCommonBacked DEF AllBacked
  <2>4. CASE CachedWindowBegin(d, s, n, dir) \/ ~dma_window.mapped
    <3>1. BeginCommon(dma_window, backend, d, s, n, dir)
      BY <1>4, <2>4 DEF WindowBegin, CachedWindowBegin
    <3> QED BY <1>1, <2>1, <2>2, <3>1, BeginCommonBacked, Zenon DEF AllBacked
  <2> QED BY <1>4, <2>3, <2>4
<1> QED BY <1>2, <1>3, <1>4

(* Every address of a new backend mapping carries its tag. *)
LEMMA SpanTag ==
  ASSUME NEW t, NEW s, NEW o, NEW n
  PROVE  /\ DOMAIN Span(t, s, o, n) = 1..n
         /\ \A i \in 1..n : Span(t, s, o, n)[i][1] = t
BY DEF Span, PageDma

(* dma_window_map_pages, the last part, for a window w that is mapped. *)
LEMMA LendBacked ==
  ASSUME NEW w, NEW b, NEW t, Backed(w, b, dma_mappings, held, t), WindowOK(w),
         NEW d \in Devices, d = w.device, NEW s \in Pages, NEW n \in 1..NPages,
         InMapped(w, s, n), NEW remembered \in BOOLEAN, Lend(w, d, s, n, remembered),
         stamp \in Nat, stamp + 1 <= t, \A x \in dma_mappings \union held : x.id <= stamp
  PROVE  Backed(dma_window', b, dma_mappings', held', t)
<1> DEFINE dmas == [i \in 1..n |-> w.page_dma[s - w.mapped_start + i]]
           e == [id |-> stamp + 1, page |-> s, off |-> 0, size |-> Len(dmas),
                 dma |-> dmas[1], device |-> d, borrowed |-> TRUE]
           h == [id |-> stamp + 1, device |-> d, page |-> s, off |-> 0,
                 dma |-> dmas[1], covers |-> Covers(dmas), alloc |-> FALSE]
<1>1. /\ w \in WindowType /\ w.mapped /\ w.mapped_start \in Nat /\ w.mapped_size \in Nat
      /\ w.page_dma \in Seq(Addrs) /\ Len(w.page_dma) = w.mapped_size
  BY DEF WindowOK, WindowType, InMapped
<1>2. CASE ~remembered
  <2>1. dma_window' = w /\ UNCHANGED <<dma_mappings, held>>
    BY <1>2 DEF Lend
  <2> QED BY <2>1
<1>3. CASE remembered
  <2>1. \A i \in 1..n : s - w.mapped_start + i \in 1..Len(w.page_dma)
    <3>1. /\ s >= w.mapped_start /\ s + n <= w.mapped_start + w.mapped_size
          /\ s \in Nat /\ n \in Nat
      BY DmaConstants DEF InMapped, Pages
    <3> QED BY <1>1, <3>1, IndexInRange, Zenon
  <2>2. \A i \in 1..n : dmas[i] \in Covers(w.page_dma) /\ dmas[i] \in Addrs
    <3> TAKE i \in 1..n
    <3>1. PICK k \in 1..Len(w.page_dma) : k = s - w.mapped_start + i
      BY <2>1
    <3>2. dmas[i] = w.page_dma[k]
      BY <3>1
    <3> HIDE DEF dmas
    <3> QED BY <1>1, <3>2 DEF Covers
  <2>3. dmas \in Seq(Addrs) /\ Len(dmas) = n /\ n # 0 /\ 1 \in 1..n /\ DOMAIN dmas = 1..n
    <3>1. dmas \in [1..n -> Addrs] /\ n \in Nat
      BY <2>2
    <3> HIDE DEF dmas
    <3> QED BY <3>1
  <2>4. /\ dma_mappings' = dma_mappings \union {e} /\ held' = held \union {h}
        /\ dma_window' = [w EXCEPT !.borrowers = @ + 1]
    BY <1>3 DEF Lend, Remember
  <2>5. /\ dma_window'.mapped = w.mapped /\ dma_window'.device = w.device
        /\ dma_window'.page_dma = w.page_dma
    BY <1>1, <2>4, Zenon DEF WindowType
  <2> HIDE DEF dmas
  <2>6. Covers(dmas) \subseteq Covers(w.page_dma)
    BY <2>2, <2>3, Zenon DEF Covers
  <2>7. e \in Mapping /\ h \in Handle
    <3>1. /\ dmas[1] \in Addrs /\ Covers(dmas) \in SUBSET Addrs /\ Len(dmas) \in Nat
      BY <2>3, CoversType, Zenon
    <3>2. stamp + 1 \in Nat /\ 0 \in Offsets
      BY DEF Offsets
    <3>3. e \in Mapping
      BY <3>1, <3>2, Zenon DEF Mapping
    <3>4. h \in Handle
      BY <3>1, <3>2, Zenon DEF Handle
    <3> QED BY <3>3, <3>4, Zenon
  <2>8. /\ e.id = h.id /\ e.id = stamp + 1 /\ e.borrowed = TRUE /\ h.alloc = FALSE
        /\ e.device = w.device /\ h.device = w.device /\ e.dma = h.dma
        /\ h.dma = dmas[1] /\ h.covers = Covers(dmas)
    BY Zenon
  <2> HIDE DEF e, h
  <2>9. \A x \in dma_mappings \union held : x.id # e.id
    <3>1. \A x \in dma_mappings \union held : x.id \in Nat
      BY Zenon DEF Backed, Stamped, Mapping, Handle
    <3> QED BY <2>8, <3>1
  <2>10. h.dma \in Covers(w.page_dma) /\ h.covers \subseteq Covers(w.page_dma)
    BY <2>2, <2>3, <2>6, <2>8
  <2>11. Backed(w, b, dma_mappings \union {e}, held \union {h}, t)
    BY <1>1, <2>7, <2>8, <2>9, <2>10, BackedLend, Zenon
  <2> QED BY <2>4, <2>5, <2>11, BackedSameMapping, Zenon
<1> QED BY <1>2, <1>3

(* kb_subsystem_dma_map_pages served by the window as it is mapped. *)
LEMMA MapPagesReuseBacked ==
  ASSUME IInv, AllBacked, NEW d \in Devices, NEW s \in Pages, NEW n \in 1..NPages,
         NEW dir \in Directions, NEW remembered \in BOOLEAN,
         MapPagesReuse(d, s, n, dir, remembered)
  PROVE  AllBacked'
<1>1. /\ stamp' = stamp + 1 /\ backend' = backend /\ d = dma_window.device
      /\ InMapped(dma_window, s, n) /\ Lend(dma_window, d, s, n, remembered)
  BY Zenon DEF MapPagesReuse, InWindow
<1>2. stamp \in Nat /\ WindowOK(dma_window) /\ \A x \in dma_mappings \union held : x.id <= stamp
  BY DEF IInv, AllBacked, Backed, BackendOK, Stamped
<1>3. Backed(dma_window, backend, dma_mappings, held, stamp + 1)
  <2>1. stamp + 1 \in Nat /\ stamp <= stamp + 1
    BY <1>2
  <2> QED BY <1>2, <2>1, BackedLater DEF AllBacked
<1>4. stamp + 1 <= stamp + 1
  BY <1>2
<1> QED BY <1>1, <1>2, <1>3, <1>4, LendBacked DEF AllBacked

(* The addresses of a new backend mapping. *)
LEMMA SpanCovers ==
  ASSUME NEW t, NEW s, NEW o, NEW n
  PROVE  \A a \in Covers(Span(t, s, o, n)) : a[1] = t
<1> SUFFICES ASSUME NEW a \in Covers(Span(t, s, o, n)) PROVE a[1] = t
  OBVIOUS
<1>1. PICK i \in DOMAIN Span(t, s, o, n) : a = Span(t, s, o, n)[i]
  BY DEF Covers
<1>2. i \in 1..n
  BY <1>1 DEF Span
<1> QED BY <1>1, <1>2, SpanTag

(* kb_subsystem_dma_map_pages with the window mapped elsewhere: both parts    *)
(* of the invariant.                                                         *)
LEMMA MapPagesRemapOK ==
  ASSUME IInv, AllBacked, NEW d \in Devices, NEW s \in Pages, NEW n \in 1..NPages,
         NEW dir \in Directions, NEW mapped \in BOOLEAN, NEW remembered \in BOOLEAN,
         MapPagesRemap(d, s, n, dir, mapped, remembered)
  PROVE  IInv' /\ AllBacked'
<1> DEFINE remaining == dma_window.scope_start + dma_window.scope_size - s
           size == IF remaining < MaxPages THEN remaining ELSE MaxPages
           dmas == Span(stamp + 1, s, 0, size)
           w0 == ReleaseMapping(dma_window)
           w1 == [w0 EXCEPT !.mapped_start = s, !.mapped_size = size,
                            !.page_dma = dmas, !.mapped = TRUE]
           b0 == BackendReleased(dma_window)
<1>1. /\ dma_window.borrowers = 0 /\ stamp < MaxStamp /\ stamp' = stamp + 1 /\ d = dma_window.device
      /\ n <= MaxPages /\ s >= dma_window.scope_start /\ dma_window.active
      /\ s + n <= dma_window.scope_start + dma_window.scope_size
  BY Zenon DEF MapPagesRemap, InWindow
<1>2. /\ stamp \in Nat /\ WindowOK(dma_window)
      /\ \A x \in dma_mappings \union held : x.id <= stamp
      /\ held \subseteq Handle /\ backend \subseteq BackendMapping /\ EntriesOK
      /\ Cardinality(Borrowed) = 0
  BY <1>1, Zenon DEF IInv, AllBacked, Backed, BackendOK, Stamped, TypeOK, EntriesOK, BorrowAccounting
<1>3. size \in 1..NPages /\ s + size - 1 <= NPages /\ n <= size
  <2>1. /\ dma_window.scope_start \in Nat /\ dma_window.scope_size \in Nat
        /\ dma_window.scope_start + dma_window.scope_size - 1 <= NPages
    BY <1>1, <1>2 DEF WindowOK, WindowType
  <2>2. s \in Nat /\ s >= 1 /\ n \in Nat /\ n >= 1 /\ MaxPages \in Nat /\ MaxPages >= 1
        /\ NPages \in Nat
    BY DmaConstants DEF Pages
  <2> QED BY <1>1, <2>1, <2>2
<1> HIDE DEF remaining, size
<1>4. dmas \in Seq(Addrs) /\ Len(dmas) = size
  <2>1. stamp + 1 \in Nat /\ 0 \in Offsets
    BY <1>2 DEF Offsets
  <2> QED BY <1>3, <2>1, SpanType
<1>5. \A a \in Covers(dmas) : a[1] = stamp + 1
  BY SpanCovers
<1> HIDE DEF dmas
<1>6. /\ WindowOK(w0) /\ w0.mapped = FALSE /\ w0.device = d /\ w0.borrowers = 0 /\ w0.active
  <2>1. w0.mapped = FALSE /\ w0.device = d
    BY <1>1, <1>2 DEF ReleaseMapping, CanRelease, WindowOK, WindowType
  <2> QED BY <1>1, <1>2, <2>1, ReleaseMappingOK
<1>7. Backed(w0, b0, dma_mappings, held, stamp)
  BY <1>1, <1>6, ReleasedBacked, Zenon
<1>8. b0 \subseteq BackendMapping
  BY <1>2, BackendUnmapSubset DEF BackendReleased
<1> HIDE DEF w0, b0
<1>9. CASE mapped
  <2>1. /\ backend' = b0 \union {NewBackendMapping(d, dmas)}
        /\ Lend(w1, d, s, n, remembered)
    BY <1>9 DEF MapPagesRemap, remaining, size, dmas, w0, b0
  <2>2. w1 \in WindowType
    <3>1. s \in 0..NPages /\ size \in 0..NPages
      BY <1>3, DmaConstants DEF Pages
    <3>2. w0 \in WindowType /\ dmas \in Seq(Addrs)
      BY <1>4, <1>6 DEF WindowOK
    <3> QED BY <3>1, <3>2, Zenon DEF WindowType
  <2>3. /\ w1.mapped_start = s /\ w1.mapped_size = size /\ w1.page_dma = dmas
        /\ w1.mapped = TRUE /\ w1.active = w0.active /\ w1.device = d
        /\ w1.borrowers = w0.borrowers
        /\ w1.scope_start = w0.scope_start /\ w1.scope_size = w0.scope_size
    BY <1>6, Zenon DEF WindowOK, WindowType
  <2> HIDE DEF w1
  <2>4. WindowOK(w1) /\ InMapped(w1, s, n)
    <3>1. WindowOK(w1)
      BY <1>3, <1>4, <1>6, <2>2, <2>3 DEF WindowOK
    <3>2. InMapped(w1, s, n)
      BY <1>3, <2>3, DmaConstants DEF InMapped, Pages
    <3> QED BY <3>1, <3>2
  <2>5. Backed(w1, b0 \union {NewBackendMapping(d, dmas)}, dma_mappings, held, stamp + 1)
    <3>1. Len(dmas) # 0 /\ w0.mapped = FALSE
      BY <1>3, <1>4, <1>6
    <3> QED BY <1>4, <1>5, <1>7, <2>3, <3>1, BackedMapWindow, Zenon DEF NewBackendMapping
  <2>6. stamp + 1 <= stamp + 1 /\ d = w1.device
    BY <1>2, <2>3
  <2>7. AllBacked'
    BY <1>1, <1>2, <2>1, <2>4, <2>5, <2>6, LendBacked DEF AllBacked
  <2>8. backend' \subseteq BackendMapping
    BY <1>2, <1>3, <1>4, <1>8, <2>1, NewBackendMappingType
  <2>9. EntriesOK' /\ held' \subseteq Handle /\ WindowOK(dma_window') /\ BorrowAccounting'
    BY <1>1, <1>2, <1>6, <2>1, <2>3, <2>4, LendOK, Zenon
  <2>10. IInv'
    BY <1>1, <1>2, <2>8, <2>9, DmaConstants DEF IInv, EntriesOK, TypeOK, WindowOK
  <2> QED BY <2>7, <2>10
<1>10. CASE ~mapped
  <2>1. backend' = b0 /\ dma_window' = w0 /\ UNCHANGED <<dma_mappings, held>>
    BY <1>10 DEF MapPagesRemap, w0, b0
  <2>2. stamp + 1 \in Nat /\ stamp <= stamp + 1
    BY <1>2
  <2>3. AllBacked'
    BY <1>1, <1>2, <1>7, <2>1, <2>2, BackedLater, Zenon DEF AllBacked
  <2>4. stamp' \in stamp..MaxStamp
    BY <1>1, <1>2, DmaConstants
  <2> QED BY <1>1, <1>6, <1>8, <2>1, <2>3, <2>4, WindowStep
<1> QED BY <1>9, <1>10

(* A mapping of its own: remembered, or rolled back. *)
LEMMA MapDirectBacked ==
  ASSUME IInv, AllBacked, NEW d \in Devices, NEW s \in Pages, NEW o \in Offsets,
         NEW n \in 1..NPages, s + n - 1 <= NPages, NEW alloc \in BOOLEAN,
         NEW remembered \in BOOLEAN, MapDirect(d, s, o, n, alloc, remembered)
  PROVE  AllBacked'
<1> DEFINE dmas == Span(stamp + 1, s, o, n)
           m == NewBackendMapping(d, dmas)
           e == [id |-> stamp + 1, page |-> s, off |-> o, size |-> Len(dmas),
                 dma |-> dmas[1], device |-> d, borrowed |-> FALSE]
           h == [id |-> stamp + 1, device |-> d, page |-> s, off |-> o,
                 dma |-> dmas[1], covers |-> Covers(dmas), alloc |-> alloc]
<1>1. /\ stamp' = stamp + 1 /\ dma_window' = dma_window /\ stamp \in Nat
      /\ backend \subseteq BackendMapping
  BY DEF MapDirect, IInv, TypeOK
<1>2. dmas \in Seq(Addrs) /\ Len(dmas) # 0 /\ dmas[1][1] = stamp + 1
  <2>1. stamp + 1 \in Nat /\ 1 \in 1..n
    BY <1>1
  <2>2. dmas[1][1] = stamp + 1
    BY <2>1, SpanTag
  <2> QED BY <2>1, <2>2, SpanType
<1>3. CASE remembered
  <2>1. /\ backend' = backend \union {m} /\ dma_mappings' = dma_mappings \union {e}
        /\ held' = held \union {h}
    BY <1>3, Zenon DEF MapDirect, Remember
  <2> HIDE DEF dmas
  <2>2. m \in BackendMapping /\ e \in Mapping /\ h \in Handle
    <3>1. /\ dmas[1] \in Addrs /\ Covers(dmas) \in SUBSET Addrs /\ Len(dmas) \in Nat
      BY <1>2, CoversType, Zenon
    <3>2. stamp + 1 \in Nat
      BY <1>1
    <3>3. m \in BackendMapping
      BY <3>1, <3>2, Zenon DEF NewBackendMapping, BackendMapping
    <3>4. e \in Mapping
      BY <3>1, <3>2, Zenon DEF Mapping
    <3>5. h \in Handle
      BY <3>1, <3>2, Zenon DEF Handle
    <3> QED BY <3>3, <3>4, <3>5, Zenon
  <2>3. /\ m.id = stamp + 1 /\ e.id = stamp + 1 /\ h.id = stamp + 1 /\ e.borrowed = FALSE
        /\ m.dma = dmas[1] /\ e.dma = m.dma /\ h.dma = m.dma
        /\ e.device = m.device /\ h.device = m.device /\ h.covers = m.covers
        /\ e.page = h.page /\ e.off = h.off
    BY DEF NewBackendMapping
  <2> HIDE DEF m, e, h
  <2> QED BY <1>1, <1>2, <2>1, <2>2, <2>3, BackedDirect, Zenon DEF AllBacked
<1>4. CASE ~remembered
  <2>1. /\ backend' = BackendUnmap(backend \union {m}, d, dmas[1])
        /\ UNCHANGED <<dma_mappings, held>>
    BY <1>4, Zenon DEF MapDirect
  <2> HIDE DEF dmas
  <2>2. m \in BackendMapping /\ m.device = d /\ m.dma = dmas[1] /\ m.id = stamp + 1
    <3>1. m \in BackendMapping
      BY <1>1, <1>2, NewBackendMappingType, Zenon
    <3> QED BY <3>1, Zenon DEF NewBackendMapping
  <2> HIDE DEF m, e, h
  <2>3. \A x \in backend : x.id \in Nat /\ x.id <= stamp
    BY <1>1, Zenon DEF BackendMapping, AllBacked, Backed, BackendOK
  <2>4. BackendOK(backend \union {m}, stamp + 1) /\ m \notin backend
    <3>1. BackendOK(backend, stamp)
      BY Zenon DEF AllBacked, Backed
    <3>2. m \notin backend /\ \A x \in backend : x.id # m.id /\ x.id <= stamp + 1
      BY <1>1, <2>2, <2>3
    <3>3. IsFiniteSet(backend \union {m})
      BY <3>1, FS_AddElement, Zenon DEF BackendOK
    <3>4. m.dma[1] = m.id /\ m.id <= stamp + 1 /\ stamp + 1 \in Nat
      BY <1>1, <1>2, <2>2
    <3> QED BY <2>2, <3>1, <3>2, <3>3, <3>4, Zenon DEF BackendOK
  <2>5. backend' = (backend \union {m}) \ {m}
    BY <2>1, <2>2, <2>4, BackendUnmapOne
  <2>6. backend' = backend
    BY <2>4, <2>5
  <2>7. stamp + 1 \in Nat /\ stamp <= stamp + 1
    BY <1>1
  <2> QED BY <1>1, <2>1, <2>6, <2>7, BackedLater, Zenon DEF AllBacked
<1> QED BY <1>3, <1>4

(* The entry take_dma_mapping finds for a handle with a mapping of its own.  *)
LEMMA TakenDirect ==
  ASSUME AllBacked, NEW h \in held, HoldsDirect(h, backend, dma_mappings),
         NEW ms \in SUBSET dma_mappings, \A x \in ms : x.dma = h.dma,
         \A x \in dma_mappings :
           (x.device = h.device /\ x.dma = h.dma /\ x.page = h.page /\ x.off = h.off)
             => x \in ms
  PROVE  /\ ms # {} /\ ~Newest(ms).borrowed /\ Newest(ms).device = h.device
         /\ Backed(dma_window, BackendUnmap(backend, h.device, h.dma),
                   dma_mappings \ {Newest(ms)}, held \ {h}, stamp)
<1>1. PICK e \in Direct(dma_mappings) : /\ e.id = h.id /\ e.device = h.device /\ e.dma = h.dma
                                        /\ e.page = h.page /\ e.off = h.off
  BY Zenon DEF HoldsDirect
<1>2. PICK m \in backend : m.id = e.id /\ m.device = e.device /\ m.dma = e.dma
  BY Zenon DEF AllBacked, Backed, EntriesBacked
<1>3. ms = {e}
  <2>1. e \in ms
    BY <1>1 DEF Direct
  <2>2. ASSUME NEW x \in ms PROVE x = e
    <3>1. e.dma[1] = e.id /\ (dma_window.mapped => e.id # WindowTag(dma_window))
      BY Zenon DEF AllBacked, Backed, EntriesBacked
    <3>2. x.dma = e.dma /\ x \in dma_mappings
      BY <1>1
    <3>3. CASE x \in Direct(dma_mappings)
      <4>1. x.dma[1] = x.id
        BY <3>3, Zenon DEF AllBacked, Backed, EntriesBacked
      <4>2. \A e1, e2 \in dma_mappings : e1.id = e2.id => e1 = e2
        BY DEF AllBacked, Backed, Stamped
      <4>3. x.id = e.id /\ e \in dma_mappings
        BY <3>1, <3>2, <4>1, Zenon DEF Direct
      <4> QED BY <3>2, <4>2, <4>3, Zenon
    <3>4. CASE x \in Lent(dma_mappings)
      BY <3>1, <3>2, <3>4, Zenon DEF AllBacked, Backed, EntriesBacked, WindowBacked
    <3> QED BY <3>2, <3>3, <3>4, Zenon DEF Direct, Lent
  <2> QED BY <2>1, <2>2
<1>4. Newest(ms) = e
  <2>1. stamp \in Nat /\ \A x \in ms : x.id \in 0..stamp
    BY DEF AllBacked, Backed, BackendOK, Stamped, Mapping
  <2>2. Newest(ms) \in ms
    BY <1>3, <2>1, NewestIsMember, Zenon
  <2> QED BY <1>3, <2>2, Zenon
<1>5. BackendUnmap(backend, h.device, h.dma) = backend \ {m}
  <2>1. BackendUnmap(backend, m.device, m.dma) = backend \ {m}
    BY BackendUnmapOne, Zenon DEF AllBacked, Backed
  <2> QED BY <1>1, <1>2, <2>1, Zenon
<1>6. Backed(dma_window, backend \ {m}, dma_mappings \ {e}, held \ {h}, stamp)
  BY <1>1, <1>2, BackedUndirect, Zenon DEF AllBacked
<1> QED BY <1>1, <1>3, <1>4, <1>5, <1>6, Zenon DEF Direct

(* kb_subsystem_dma_unmap. *)
LEMMA UnmapBacked ==
  ASSUME IInv, AllBacked, NEW h \in held, Unmap(h)
  PROVE  AllBacked'
<1> DEFINE ms == {m \in dma_mappings : m.device = h.device /\ m.dma = h.dma}
           lent == ms # {} /\ Newest(ms).borrowed
<1>1. /\ dma_mappings' = IF ms = {} THEN dma_mappings ELSE dma_mappings \ {Newest(ms)}
      /\ backend' = IF lent THEN backend ELSE BackendUnmap(backend, h.device, h.dma)
      /\ held' = held \ {h} /\ stamp' = stamp
      /\ dma_window' = IF lent /\ dma_window.borrowers # 0
                       THEN [dma_window EXCEPT !.borrowers = @ - 1]
                       ELSE dma_window
  BY DEF Unmap
<1>2. /\ dma_window'.mapped = dma_window.mapped /\ dma_window'.device = dma_window.device
      /\ dma_window'.page_dma = dma_window.page_dma
  <2> HIDE DEF lent
  <2> QED BY <1>1 DEF IInv, TypeOK, WindowType
<1>3. /\ ms \in SUBSET dma_mappings /\ \A x \in ms : x.dma = h.dma
      /\ \A x \in dma_mappings :
           (x.device = h.device /\ x.dma = h.dma /\ x.page = h.page /\ x.off = h.off)
             => x \in ms
  OBVIOUS
<1> HIDE DEF ms
<1>4. CASE HoldsDirect(h, backend, dma_mappings)
  <2>1. /\ ms # {} /\ ~Newest(ms).borrowed
        /\ Backed(dma_window, BackendUnmap(backend, h.device, h.dma),
                  dma_mappings \ {Newest(ms)}, held \ {h}, stamp)
    BY <1>3, <1>4, TakenDirect, Zenon
  <2>2. /\ backend' = BackendUnmap(backend, h.device, h.dma)
        /\ dma_mappings' = dma_mappings \ {Newest(ms)}
    BY <1>1, <2>1
  <2> QED BY <1>1, <1>2, <2>1, <2>2, BackedSameMapping DEF AllBacked
<1>5. CASE HoldsLent(h, dma_window)
  <2>1. EntriesFor(dma_mappings, h.dma) # {}
    <3>1. /\ Cardinality(EntriesFor(dma_mappings, h.dma)) = Cardinality(HoldersOf(held, h.dma))
          /\ IsFiniteSet(HoldersOf(held, h.dma))
      BY <1>5, BackedFinite, Zenon DEF AllBacked, Backed, Counted, HoldsLent
    <3>2. Cardinality(HoldersOf(held, h.dma)) # 0
      <4>1. h \in HoldersOf(held, h.dma)
        BY DEF HoldersOf
      <4> QED BY <3>1, <4>1, FS_EmptySet
    <3> QED BY <3>1, <3>2, FS_EmptySet
  <2>2. ms = EntriesFor(dma_mappings, h.dma)
    <3>1. ASSUME NEW x \in dma_mappings, x.dma = h.dma
          PROVE  x \in Lent(dma_mappings) /\ x.device = h.device
      <4>1. h.dma[1] = WindowTag(dma_window) /\ dma_window.mapped
        BY <1>5, Zenon DEF HoldsLent, AllBacked, Backed, WindowBacked
      <4>2. x \notin Direct(dma_mappings)
        <5>1. EntriesBacked(dma_window, backend, dma_mappings)
          BY Zenon DEF AllBacked, Backed
        <5> QED BY <3>1, <4>1, <5>1 DEF EntriesBacked
      <4>3. x \in Lent(dma_mappings)
        BY <4>2 DEF Direct, Lent
      <4> QED BY <1>5, <4>3, Zenon DEF AllBacked, Backed, EntriesBacked, HoldsLent
    <3> QED BY <3>1, Zenon DEF ms, EntriesFor, Lent
  <2>3. Newest(ms) \in EntriesFor(dma_mappings, h.dma)
    <3>1. stamp \in Nat /\ \A x \in ms : x.id \in 0..stamp
      BY <1>3 DEF AllBacked, Backed, BackendOK, Stamped, Mapping
    <3> QED BY <2>1, <2>2, <3>1, NewestIsMember, Zenon
  <2>4. ms # {} /\ Newest(ms).borrowed
    BY <2>1, <2>2, <2>3 DEF EntriesFor, Lent
  <2>5. backend' = backend /\ dma_mappings' = dma_mappings \ {Newest(ms)}
    BY <1>1, <2>4
  <2>6. Backed(dma_window, backend, dma_mappings \ {Newest(ms)}, held \ {h}, stamp)
    BY <1>5, <2>3, BackedUnlend DEF AllBacked
  <2>7. Backed(dma_window', backend, dma_mappings \ {Newest(ms)}, held \ {h}, stamp)
    BY <1>2, <2>6, BackedSameMapping, Zenon
  <2> QED BY <1>1, <2>5, <2>7, Zenon DEF AllBacked
<1> QED BY <1>4, <1>5 DEF AllBacked, Backed

(* kb_subsystem_dma_free. *)
LEMMA FreeBacked ==
  ASSUME AllBacked, NEW h \in held, Free(h)
  PROVE  AllBacked'
<1> DEFINE ms == {m \in dma_mappings : m.page = h.page /\ m.off = h.off /\ m.dma = h.dma}
<1>1. /\ held' = held \ {h} /\ dma_window' = dma_window /\ stamp' = stamp /\ h.alloc
      /\ ms # {} => /\ dma_mappings' = dma_mappings \ {Newest(ms)}
                    /\ backend' = BackendUnmap(backend, Newest(ms).device, h.dma)
  BY DEF Free
<1>2. /\ ms \in SUBSET dma_mappings /\ \A x \in ms : x.dma = h.dma
      /\ \A x \in dma_mappings :
           (x.device = h.device /\ x.dma = h.dma /\ x.page = h.page /\ x.off = h.off)
             => x \in ms
  BY Zenon
<1> HIDE DEF ms
<1>3. HoldsDirect(h, backend, dma_mappings)
  BY <1>1, Zenon DEF AllBacked, Backed, HoldsLent
<1>4. /\ ms # {} /\ Newest(ms).device = h.device
      /\ Backed(dma_window, BackendUnmap(backend, h.device, h.dma),
                dma_mappings \ {Newest(ms)}, held \ {h}, stamp)
  BY <1>2, <1>3, TakenDirect
<1> QED BY <1>1, <1>4, Zenon DEF AllBacked

(* Nothing is mapped at first. *)
LEMMA InitBacked == Init => AllBacked
<1> SUFFICES ASSUME Init PROVE AllBacked
  OBVIOUS
<1>1. /\ dma_mappings = {} /\ held = {} /\ backend = {} /\ stamp = 0
      /\ dma_window.mapped = FALSE /\ IsFiniteSet({}) /\ Cardinality({}) = 0
  BY FS_EmptySet DEF Init, NoWindow
<1>2. Direct({}) = {} /\ Lent({}) = {}
  BY Zenon DEF Direct, Lent
<1>3. BackendOK(backend, stamp) /\ Stamped(dma_mappings, held, stamp)
  BY <1>1, Zenon DEF BackendOK, Stamped
<1>4. WindowBacked(dma_window, backend) /\ EntriesBacked(dma_window, backend, dma_mappings)
  BY <1>1, <1>2, Zenon DEF WindowBacked, EntriesBacked
<1>5. Counted(dma_window, backend, dma_mappings, held)
  BY <1>1, <1>2 DEF Counted
<1> QED BY <1>1, <1>3, <1>4, <1>5, Zenon DEF AllBacked, Backed

(* kb_subsystem_dma_free: the entry it takes is not a borrower's. *)
LEMMA FreeOK ==
  ASSUME IInv, AllBacked, NEW h \in held, Free(h)
  PROVE  IInv'
<1> DEFINE ms == {m \in dma_mappings : /\ m.page = h.page /\ m.off = h.off
                                       /\ m.dma = h.dma}
<1>1. /\ held' \subseteq Handle /\ stamp' = stamp /\ EntriesOK
      /\ dma_window' = dma_window /\ h.alloc
  BY DEF Free, IInv, TypeOK, EntriesOK
<1>2. backend' \subseteq BackendMapping
  BY BackendUnmapSubset DEF Free, IInv, TypeOK
<1>3. EntriesOK' /\ Cardinality(Borrowed)' = Cardinality(Borrowed)
  <2>1. CASE ms = {}
    <3>1. dma_mappings' = dma_mappings
      BY <2>1 DEF Free
    <3>2. Borrowed' = Borrowed
      BY <3>1 DEF Borrowed
    <3> QED BY <1>1, <3>1, <3>2, Zenon DEF EntriesOK
  <2>2. CASE ms # {}
    <3>1. dma_mappings' = dma_mappings \ {Newest(ms)}
      BY <2>2 DEF Free
    <3>2. /\ \A x \in ms : x.dma = h.dma
          /\ \A x \in dma_mappings :
               (x.device = h.device /\ x.dma = h.dma /\ x.page = h.page /\ x.off = h.off)
                 => x \in ms
      BY Zenon
    <3>3. HoldsDirect(h, backend, dma_mappings)
      BY <1>1 DEF AllBacked, Backed, HoldsLent
    <3>4. ms \in SUBSET dma_mappings
      OBVIOUS
    <3> HIDE DEF ms
    <3>5. ~Newest(ms).borrowed
      BY <3>2, <3>3, <3>4, TakenDirect, Zenon
    <3> QED BY <1>1, <2>2, <3>1, <3>4, <3>5, TakeOK, Zenon
  <2> QED BY <2>1, <2>2
<1> QED BY <1>1, <1>2, <1>3, Zenon DEF IInv, EntriesOK, TypeOK, BorrowAccounting

-----------------------------------------------------------------------------
(* The window operations: none of them is taken with a borrower, because a  *)
(* borrowed window is active and an end is refused.                         *)
LEMMA WindowActionsOK ==
  ASSUME IInv,
         \/ WindowEnd \/ CachedWindowEnd \/ CachedWindowDiscard
         \/ \E d \in Devices, s \in Pages, n \in 1..NPages, dir \in Directions :
              /\ PageRange(s, n)
              /\ WindowBegin(d, s, n, dir) \/ CachedWindowBegin(d, s, n, dir)
  PROVE  IInv'
<1>1. /\ UNCHANGED <<dma_mappings, held, stamp>> /\ stamp' \in stamp..MaxStamp
      /\ backend \subseteq BackendMapping /\ WindowOK(dma_window) /\ TypeOK
  BY DmaConstants DEF WindowEnd, CachedWindowEnd, CachedWindowDiscard, WindowBegin,
     CachedWindowBegin, IInv, TypeOK
<1>2. dma_window.borrowers = 0
  BY Zenon DEF WindowEnd, CachedWindowEnd, CachedWindowDiscard, WindowBegin,
     CachedWindowBegin, IInv, BorrowAccounting
<1>3. BackendReleased(dma_window) \subseteq BackendMapping
  BY <1>1, BackendUnmapSubset DEF BackendReleased
<1> SUFFICES /\ WindowOK(dma_window') /\ dma_window'.borrowers = 0
             /\ backend' \subseteq BackendMapping
  BY <1>1, <1>2, WindowStep, Zenon
<1>5. CASE WindowEnd \/ CachedWindowDiscard
  BY <1>3, <1>5, NoWindowOK DEF WindowEnd, CachedWindowDiscard
<1>6. CASE CachedWindowEnd
  <2> DEFINE v == [dma_window EXCEPT !.active = FALSE, !.scope_start = 0, !.scope_size = 0]
  <2>1. v \in WindowType
    <3>1. 0 \in 0..NPages
      BY DmaConstants
    <3> QED BY <1>1, <3>1, Zenon DEF TypeOK, WindowType
  <2>2. /\ v.active = FALSE /\ v.mapped = dma_window.mapped
        /\ v.borrowers = dma_window.borrowers
        /\ v.mapped_start = dma_window.mapped_start
        /\ v.mapped_size = dma_window.mapped_size /\ v.page_dma = dma_window.page_dma
    BY <1>1 DEF TypeOK, WindowType
  <2> HIDE DEF v
  <2>3. WindowOK(v)
    BY <1>1, <2>1, <2>2 DEF WindowOK
  <2>4. dma_window' = v /\ backend' = backend
    BY <1>6 DEF CachedWindowEnd, v
  <2> QED BY <1>1, <1>2, <2>2, <2>3, <2>4
<1>7. ASSUME NEW d \in Devices, NEW s \in Pages, NEW n \in 1..NPages, NEW dir \in Directions,
             PageRange(s, n), WindowBegin(d, s, n, dir) \/ CachedWindowBegin(d, s, n, dir)
      PROVE  /\ WindowOK(dma_window') /\ dma_window'.borrowers = 0
             /\ backend' \subseteq BackendMapping
  <2>1. PICK w0 \in {dma_window, NoWindow}, b0 \in SUBSET BackendMapping :
          BeginCommon(w0, b0, d, s, n, dir)
    BY <1>1, <1>3, <1>7 DEF WindowBegin, CachedWindowBegin
  <2>2. WindowOK(w0) /\ w0.borrowers = 0
    BY <1>1, <1>2, NoWindowOK
  <2>3. s + n - 1 <= NPages
    BY <1>7, Zenon DEF PageRange
  <2> QED BY <2>1, <2>2, <2>3, BeginCommonOK, Zenon
<1> QED BY <1>5, <1>6, <1>7

(* kb_subsystem_dma_map_pages served by the window as it is mapped. *)
LEMMA MapPagesReuseOK ==
  ASSUME IInv, NEW d \in Devices, NEW s \in Pages, NEW n \in 1..NPages,
         NEW dir \in Directions, NEW remembered \in BOOLEAN,
         MapPagesReuse(d, s, n, dir, remembered)
  PROVE  IInv'
<1>1. /\ EntriesOK /\ held \subseteq Handle /\ WindowOK(dma_window)
      /\ dma_window.borrowers = Cardinality(Borrowed)
      /\ backend \subseteq BackendMapping /\ stamp \in Nat
  BY DEF IInv, EntriesOK, TypeOK, BorrowAccounting
<1>2. /\ stamp' = stamp + 1 /\ stamp < MaxStamp /\ backend' = backend
      /\ dma_window.active /\ InMapped(dma_window, s, n)
      /\ Lend(dma_window, d, s, n, remembered)
  BY DEF MapPagesReuse, InWindow
<1>3. EntriesOK' /\ held' \subseteq Handle /\ WindowOK(dma_window') /\ BorrowAccounting'
  BY <1>1, <1>2, LendOK, Zenon
<1> QED BY <1>1, <1>2, <1>3, DmaConstants DEF IInv, EntriesOK, TypeOK, WindowOK

(* Every step keeps the invariant, one case for each operation of dma.c. *)
LEMMA NextIInv == IInv /\ AllBacked /\ [Next]_vars => IInv' /\ AllBacked'
<1> SUFFICES ASSUME IInv, AllBacked, [Next]_vars PROVE IInv' /\ AllBacked'
  OBVIOUS
<1>1. CASE UNCHANGED vars
  BY <1>1 DEF vars, AllBacked, IInv, TypeOK, BorrowAccounting, Borrowed
<1>2. CASE \/ WindowEnd \/ CachedWindowEnd \/ CachedWindowDiscard
           \/ \E d \in Devices, s \in Pages, n \in 1..NPages, dir \in Directions :
                /\ PageRange(s, n)
                /\ WindowBegin(d, s, n, dir) \/ CachedWindowBegin(d, s, n, dir)
  BY <1>2, WindowActionsOK, WindowActionsBacked
<1>3. ASSUME NEW h \in held, Unmap(h) \/ Free(h) PROVE IInv' /\ AllBacked'
  BY <1>3, UnmapOK, UnmapBacked, FreeOK, FreeBacked, Zenon
<1>4. ASSUME NEW d \in Devices, NEW s \in Pages, NEW n \in 1..NPages,
             NEW dir \in Directions, NEW remembered \in BOOLEAN,
             \/ MapPagesReuse(d, s, n, dir, remembered)
             \/ \E mapped \in BOOLEAN : MapPagesRemap(d, s, n, dir, mapped, remembered)
      PROVE  IInv' /\ AllBacked'
  BY <1>4, MapPagesReuseOK, MapPagesReuseBacked, MapPagesRemapOK, Zenon
<1>5. ASSUME NEW d \in Devices, NEW s \in Pages, NEW n \in 1..NPages,
             NEW dir \in Directions, NEW remembered \in BOOLEAN, PageRange(s, n),
             NEW o \in Offsets,
             \/ Alloc(d, s, n, remembered) \/ Map(d, s, o, n, remembered)
             \/ MapPagesDirect(d, s, o, n, dir, remembered)
      PROVE  IInv' /\ AllBacked'
  <2>1. 0 \in Offsets /\ s + n - 1 <= NPages
    BY <1>5 DEF Offsets, PageRange
  <2>2. PICK o1 \in Offsets, alloc \in BOOLEAN : MapDirect(d, s, o1, n, alloc, remembered)
    BY <1>5, <2>1, Zenon DEF Alloc, Map, MapPagesDirect
  <2> QED BY <2>1, <2>2, MapDirectOK, MapDirectBacked, Zenon
<1>6. 0 \in Offsets
  BY DEF Offsets
<1> QED BY <1>1, <1>2, <1>3, <1>4, <1>5, <1>6 DEF Next

(* Every state is well typed. *)
THEOREM TypeCorrect == Spec => []TypeOK
<1>1. IInv => TypeOK
  BY Zenon DEF IInv
<1> QED BY <1>1, InitIInv, InitBacked, NextIInv, PTL DEF Spec

(* The window's borrower count is exact in every state, and a borrowed      *)
(* window is active and mapped: dma.c:206-238 can therefore refuse an end   *)
(* and a discard by looking at the count alone.                             *)
THEOREM BorrowersCounted == Spec => []BorrowAccounting
<1>1. IInv => BorrowAccounting
  BY DEF IInv
<1> QED BY <1>1, InitIInv, InitBacked, NextIInv, PTL DEF Spec

(* An address a caller holds stays mapped in the backend for its device      *)
(* through every unmap, free and window operation of dma.c, and the backend  *)
(* holds exactly the window's mapping and one for each entry that does not   *)
(* borrow it: nothing leaks when remember_dma_mapping_full fails.            *)
THEOREM NoMappingLost == Spec => []MappingsHeld
<1>1. AllBacked => MappingsHeld
  <2> SUFFICES ASSUME AllBacked PROVE MappingsHeld
    BY Zenon
  <2>1. ASSUME NEW h \in held
        PROVE  \E m \in backend : m.device = h.device /\ h.covers \subseteq m.covers
    <3>1. CASE HoldsDirect(h, backend, dma_mappings)
      BY <3>1, Zenon DEF HoldsDirect
    <3>2. CASE HoldsLent(h, dma_window)
      BY <3>2, Zenon DEF HoldsLent, AllBacked, Backed, WindowBacked, WindowMapping
    <3> QED BY <3>1, <3>2, Zenon DEF AllBacked, Backed
  <2>2. dma_mappings \ Borrowed = Direct(dma_mappings)
    BY DEF Borrowed, Direct
  <2> QED BY <2>1, <2>2, Zenon DEF MappingsHeld, AllBacked, Backed, Counted
<1> QED BY <1>1, InitIInv, InitBacked, NextIInv, PTL DEF Spec
(* No operation moves or unmaps the window under a request that borrows it. *)
THEOREM WindowNotMoved == Spec => BorrowedWindowFixed
<1> DEFINE Fixed == dma_window.borrowers # 0 /\ dma_window'.borrowers # 0
                      => /\ dma_window'.page_dma = dma_window.page_dma
                         /\ dma_window'.device = dma_window.device
<1>1. IInv /\ [Next]_vars => [Fixed]_vars
  <2> SUFFICES ASSUME IInv, Next PROVE Fixed
    OBVIOUS
  <2>1. CASE \/ WindowEnd \/ CachedWindowEnd \/ CachedWindowDiscard
             \/ \E d \in Devices, s \in Pages, n \in 1..NPages, dir \in Directions :
                  WindowBegin(d, s, n, dir) \/ CachedWindowBegin(d, s, n, dir)
    BY <2>1 DEF WindowEnd, CachedWindowEnd, CachedWindowDiscard, WindowBegin,
       CachedWindowBegin, IInv, BorrowAccounting
  <2>2. ASSUME NEW h \in held, Unmap(h) \/ Free(h) PROVE Fixed
    BY <2>2 DEF Unmap, Free, IInv, TypeOK, WindowType
  <2>3. ASSUME NEW d \in Devices, NEW s \in Pages, NEW n \in 1..NPages,
               NEW dir \in Directions, NEW remembered \in BOOLEAN,
               MapPagesReuse(d, s, n, dir, remembered)
        PROVE  Fixed
    BY <2>3, Zenon DEF MapPagesReuse, Lend, IInv, TypeOK, WindowType
  <2>4. ASSUME NEW d \in Devices, NEW s \in Pages, NEW n \in 1..NPages, NEW o \in Offsets,
               NEW dir \in Directions, NEW remembered \in BOOLEAN,
               \/ \E mapped \in BOOLEAN : MapPagesRemap(d, s, n, dir, mapped, remembered)
               \/ Alloc(d, s, n, remembered) \/ Map(d, s, o, n, remembered)
               \/ MapPagesDirect(d, s, o, n, dir, remembered)
        PROVE  Fixed
    BY <2>4, Zenon DEF MapPagesRemap, Alloc, Map, MapPagesDirect, MapDirect
  <2>5. 0 \in Offsets
    BY DEF Offsets
  <2> HIDE DEF Fixed
  <2> QED BY <2>1, <2>2, <2>3, <2>4, <2>5 DEF Next
<1>2. BorrowedWindowFixed <=> [][Fixed]_vars
  BY DEF BorrowedWindowFixed
<1> HIDE DEF Fixed
<1> QED BY <1>1, <1>2, InitIInv, InitBacked, NextIInv, PTL DEF Spec
=============================================================================
