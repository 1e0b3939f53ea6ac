-------------------------------- MODULE Memory --------------------------------
(***************************************************************************)
(* The allocators modules use: the arena of pages behind alloc_pages       *)
(* (kvm_symbols.c, linux_stubs.c), and kmalloc with its heap of chunks and *)
(* free blocks, slab caches and memory pools above it (linux_memory.c, in  *)
(* the configuration with KOBOX_KMALLOC_ARENA).  Sizes are in units of     *)
(* which PageSize make a page; Overhead is a record with its two guards.   *)
(* The state is one record that the calls transform, as they nest.         *)
(***************************************************************************)
EXTENDS Integers, Sequences, FiniteSets, FiniteSetsExt, SequencesExt

CONSTANTS
  NPages,        \* KB_KVM_PAGE_RECORD_MAX
  MaxOrder,      \* orders from here on are refused
  PageSize, Overhead, ChunkMin,
  DescSize,      \* the descriptor of a cache
  MaxChunks,     \* bound: the host maps no more chunks
  Sizes,         \* sizes asked of kmalloc
  Exact,         \* numbers of pages asked of alloc_pages_exact
  Caches, SlotsPerPage, PoolMin,
  Backends, None

VARIABLES
  mem,     \* pages, arena, chunks, blocks and heap allocations
  held,    \* [at, n, dev] of pages got from alloc_pages_exact, for a device or not
  caches,  \* slab caches: alive, desc, pages, free
  objs,    \* objects of each cache that modules hold
  pool     \* a memory pool on a cache: alive, cache, cur, out

vars == <<mem, held, caches, objs, pool>>

Pages == 0 .. NPages - 1
Unused == -2
Tail0 == -1
Slots == 0 .. SlotsPerPage - 1

\* What the surroundings allow a call: its device context, whether that
\* backend maps the arena, whether the host has memory.
Envs == {e \in [dev : Backends \cup {None}, maps : BOOLEAN, mem : BOOLEAN] :
           e.dev = None => e.maps}

NoCache == [alive |-> FALSE, desc |-> None, pages |-> {}, free |-> <<>>]
NoPool == [alive |-> FALSE, cache |-> None, cur |-> <<>>, out |-> {}]

Init ==
  /\ mem = [pages |-> [p \in Pages |-> Unused], arena |-> None,
            chunks |-> <<>>, blocks |-> <<>>, allocs |-> {}, lost |-> {}]
  /\ held = {}
  /\ caches = [c \in Caches |-> NoCache]
  /\ objs = [c \in Caches |-> {}]
  /\ pool = NoPool

(***************************************************************************)
(* Pages.  Each has a byte: unused, the head of an allocation with its     *)
(* order, or a tail.  The scan skips past the page that ended a run.       *)
(***************************************************************************)
FreeRun(s, c, n) ==
  LET used == {k \in 0 .. n - 1 : s[c + k] # Unused}
  IN  IF used = {} THEN n ELSE Min(used)
Scan(s, n) ==
  LET from[c \in 0 .. NPages] ==
        IF c > NPages - n THEN NPages
        ELSE IF FreeRun(s, c, n) = n THEN c ELSE from[c + FreeRun(s, c, n) + 1]
  IN  from[0]

\* kb_kvm_ensure_dma_arena_mapped: the arena is mapped once, for one backend.
Mapped(m, e) ==
  IF e.dev # None /\ m.arena = None /\ e.maps THEN [m EXCEPT !.arena = e.dev] ELSE m
MapsFor(m, e) == e.dev = None \/ Mapped(m, e).arena = e.dev

Taken(m, at, order) ==
  [at |-> at,
   m |-> IF at = NPages THEN m
         ELSE [m EXCEPT !.pages = [p \in Pages |->
                 CASE p = at -> order
                   [] p \in at + 1 .. at + 2 ^ order - 1 -> Tail0
                   [] OTHER -> @[p]]]]
AllocPages(m, order, e) ==
  IF order >= MaxOrder THEN [at |-> NPages, m |-> m]
  ELSE IF ~MapsFor(m, e) THEN [at |-> NPages, m |-> Mapped(m, e)]
  ELSE Taken(Mapped(m, e), Scan(m.pages, 2 ^ order), order)

OrderFor(n) == Min({k \in 0 .. n : 2 ^ k >= n})
AllocPagesExact(m, n, e) == AllocPages(m, OrderFor(n), e)

ReleasePageIndex(m, at, order) ==
  LET rest == at + 1 .. at + 2 ^ order - 1
  IN  IF m.pages[at] # order \/ ~(rest \subseteq Pages) THEN m
      ELSE IF \E p \in rest : m.pages[p] # Tail0 THEN m
      ELSE [m EXCEPT !.pages = [p \in Pages |-> IF p \in rest \cup {at} THEN Unused ELSE @[p]]]
FreePagesExact(m, at, n) ==
  IF m.pages[at] < 0 \/ n = 0 \/ n > 2 ^ m.pages[at] THEN m
  ELSE ReleasePageIndex(m, at, m.pages[at])

(***************************************************************************)
(* The heap: a block given back is used again whole, the newest first; a   *)
(* chunk is cut from its start, the newest first.                          *)
(***************************************************************************)
FreeFits(m, raw) == {i \in DOMAIN m.blocks : m.blocks[i].size >= raw}
ChunkFits(m, raw) == {i \in DOMAIN m.chunks : raw <= m.chunks[i].cap - m.chunks[i].used}
FromBlock(m, i) == [ok |-> TRUE, b |-> m.blocks[i], m |-> [m EXCEPT !.blocks = RemoveAt(@, i)]]
FromChunk(m, i, raw) ==
  [ok |-> TRUE, b |-> [chunk |-> i, at |-> m.chunks[i].used, size |-> raw],
   m |-> [m EXCEPT !.chunks[i].used = @ + raw]]
NewChunk(raw) == [cap |-> IF raw > ChunkMin THEN raw ELSE ChunkMin, used |-> 0]
HeapAlloc(m, raw, e) ==
  IF FreeFits(m, raw) # {} THEN FromBlock(m, Min(FreeFits(m, raw)))
  ELSE IF ChunkFits(m, raw) # {} THEN FromChunk(m, Max(ChunkFits(m, raw)), raw)
  ELSE IF e.mem /\ Len(m.chunks) < MaxChunks
  THEN FromChunk([m EXCEPT !.chunks = Append(@, NewChunk(raw))], Len(m.chunks) + 1, raw)
  ELSE [ok |-> FALSE, m |-> m]

\* kb_kzalloc, and kb_kmalloc below the size of a page.
Tracked(m, chunk, at, raw, size, who) ==
  LET a == [chunk |-> chunk, at |-> at, raw |-> raw, req |-> size, who |-> who]
  IN  [ok |-> TRUE, a |-> a, m |-> [m EXCEPT !.allocs = @ \cup {a}]]
Recorded(h, size, who) ==
  IF h.ok THEN Tracked(h.m, h.b.chunk, h.b.at, h.b.size, size, who)
  ELSE [ok |-> FALSE, a |-> None, m |-> h.m]
Kzalloc(m, size, who, e) == Recorded(HeapAlloc(m, size + Overhead, e), size, who)

PagesOf(size) == (size + PageSize - 1) \div PageSize
\* From a page on kmalloc takes pages, and the heap when there are none.  If
\* there is no memory for their record, kfree will not know them.
LargeOr(g, size, who, e) ==
  IF g.at = NPages THEN Kzalloc(g.m, size, who, e)
  ELSE IF e.mem THEN Tracked(g.m, 0, g.at, size, size, who)
  ELSE [ok |-> TRUE, a |-> None,
        m |-> [g.m EXCEPT !.lost = @ \cup {[at |-> g.at, n |-> PagesOf(size)]}]]
Kmalloc(m, size, who, e) ==
  IF size < PageSize THEN Kzalloc(m, size, who, e)
  ELSE LargeOr(AllocPagesExact(m, PagesOf(size), e), size, who, e)

Forget(m, a) == [m EXCEPT !.allocs = @ \ {a}]
Kfree(m, a) ==
  IF a.chunk = 0 THEN FreePagesExact(Forget(m, a), a.at, PagesOf(a.raw))
  ELSE [Forget(m, a) EXCEPT
          !.blocks = <<[chunk |-> a.chunk, at |-> a.at, size |-> a.raw]>> \o @]

FreedIf(g, a) == IF g.ok THEN Kfree(g.m, a) ELSE g.m
Krealloc(m, a, size, e) == FreedIf(Kmalloc(m, size, a.who, e), a)

Mine == {a \in mem.allocs : a.who = "module"}

DoKmalloc(size, e) ==
  /\ \/ mem' = Kmalloc(mem, size, "module", e).m
     \/ mem' = Kzalloc(mem, size, "module", e).m
  /\ UNCHANGED <<held, caches, objs, pool>>
DoKfree ==
  /\ \E a \in Mine : mem' = Kfree(mem, a)
  /\ UNCHANGED <<held, caches, objs, pool>>
DoKrealloc(size, e) ==
  /\ \E a \in Mine : mem' = Krealloc(mem, a, size, e)
  /\ UNCHANGED <<held, caches, objs, pool>>

GetPages(n, e) ==
  \E g \in {AllocPagesExact(mem, n, e)} :
      /\ mem' = g.m
      /\ held' = IF g.at = NPages THEN held ELSE held \cup {[at |-> g.at, n |-> n, dev |-> e.dev]}
      /\ UNCHANGED <<caches, objs, pool>>
PutPages ==
  /\ \E h \in held : mem' = FreePagesExact(mem, h.at, h.n) /\ held' = held \ {h}
  /\ UNCHANGED <<caches, objs, pool>>

(***************************************************************************)
(* Slab caches.  A page that is added gives its slots in order.            *)
(***************************************************************************)
AddedPage(g, k, e) ==
  IF g.at = NPages THEN [ok |-> FALSE, m |-> g.m, k |-> k]
  ELSE IF ~e.mem THEN [ok |-> FALSE, m |-> FreePagesExact(g.m, g.at, 1), k |-> k]
  ELSE [ok |-> TRUE, m |-> g.m, x |-> <<g.at, 0>>,
        k |-> [k EXCEPT !.pages = @ \cup {g.at},
                        !.free = [j \in 1 .. SlotsPerPage - 1 |-> <<g.at, j>>]]]
SlabAlloc(m, k, e) ==
  IF k.free # <<>>
  THEN [ok |-> TRUE, m |-> m, x |-> Head(k.free), k |-> [k EXCEPT !.free = Tail(@)]]
  ELSE AddedPage(AllocPagesExact(m, 1, e), k, e)
SlabFree(k, x) == [k EXCEPT !.free = <<x>> \o @]

CacheCreate(c, e) ==
  \E g \in {Kzalloc(mem, DescSize, c, e)} :
      /\ ~caches[c].alive
      /\ \/ /\ mem' = g.m
            /\ caches' = IF g.ok THEN [caches EXCEPT ![c].alive = TRUE, ![c].desc = g.a]
                         ELSE caches
         \/ g.ok /\ mem' = Kfree(g.m, g.a) /\ UNCHANGED caches  \* a slot above a page
      /\ UNCHANGED <<held, objs, pool>>
CacheAlloc(c, e) ==
  /\ caches[c].alive
  /\ \E g \in {SlabAlloc(mem, caches[c], e)} :
      /\ mem' = g.m /\ caches' = [caches EXCEPT ![c] = g.k]
      /\ objs' = IF g.ok THEN [objs EXCEPT ![c] = @ \cup {g.x}] ELSE objs
      /\ UNCHANGED <<held, pool>>
CacheFree(c) ==
  /\ \E x \in objs[c] : /\ objs' = [objs EXCEPT ![c] = @ \ {x}]
                        /\ caches' = [caches EXCEPT ![c] = SlabFree(@, x)]
  /\ UNCHANGED <<mem, held, pool>>
\* A module destroys a cache when all of its objects are back.
CacheDestroy(c) ==
  /\ caches[c].alive /\ objs[c] = {} /\ pool.cache # c
  /\ mem' = Kfree(FoldSet(LAMBDA p, m : FreePagesExact(m, p, 1), mem, caches[c].pages),
                  caches[c].desc)
  /\ caches' = [caches EXCEPT ![c] = NoCache]
  /\ UNCHANGED <<held, objs, pool>>

(***************************************************************************)
(* A memory pool whose elements come from a cache.                         *)
(***************************************************************************)
Give(k, s) == FoldLeft(SlabFree, k, Reverse(s))

AddElement(r, e) ==
  LET g == SlabAlloc(r.m, r.k, e)
  IN  IF g.ok THEN [m |-> g.m, k |-> g.k, cur |-> Append(r.cur, g.x)]
      ELSE [m |-> g.m, k |-> g.k, cur |-> r.cur]
Filled(c, e) ==
  FoldLeft(LAMBDA r, i : IF Len(r.cur) + 1 = i THEN AddElement(r, e) ELSE r,
           [m |-> mem, k |-> caches[c], cur |-> <<>>], [i \in 1 .. PoolMin |-> i])
PoolCreate(c, e) ==
  /\ caches[c].alive /\ ~pool.alive
  /\ \E r \in {Filled(c, e)} :
       /\ mem' = r.m
       /\ IF Len(r.cur) = PoolMin
          THEN /\ pool' = [alive |-> TRUE, cache |-> c, cur |-> r.cur, out |-> {}]
               /\ caches' = [caches EXCEPT ![c] = r.k]
          ELSE /\ caches' = [caches EXCEPT ![c] = Give(r.k, r.cur)]
               /\ UNCHANGED pool
  /\ UNCHANGED <<held, objs>>
\* The cache first, then the reserve.
PoolAlloc(e) ==
  /\ pool.alive
  /\ \E g \in {SlabAlloc(mem, caches[pool.cache], e)} :
      /\ mem' = g.m
      /\ caches' = [caches EXCEPT ![pool.cache] = g.k]
      /\ pool' = CASE g.ok -> [pool EXCEPT !.out = @ \cup {g.x}]
                   [] ~g.ok /\ pool.cur # <<>> ->
                        [pool EXCEPT !.out = @ \cup {Last(pool.cur)}, !.cur = Front(@)]
                   [] OTHER -> pool
      /\ UNCHANGED <<held, objs>>
\* The reserve first, then the cache.
PoolFree ==
  /\ \E x \in pool.out :
       IF Len(pool.cur) < PoolMin
       THEN /\ pool' = [pool EXCEPT !.out = @ \ {x}, !.cur = Append(@, x)]
            /\ UNCHANGED caches
       ELSE /\ caches' = [caches EXCEPT ![pool.cache] = SlabFree(@, x)]
            /\ pool' = [pool EXCEPT !.out = @ \ {x}]
  /\ UNCHANGED <<mem, held, objs>>
PoolDestroy ==
  /\ pool.alive /\ pool.out = {}
  /\ caches' = [caches EXCEPT ![pool.cache] = Give(@, pool.cur)]
  /\ pool' = NoPool
  /\ UNCHANGED <<mem, held, objs>>

HeapNext ==
  \/ \E e \in Envs, size \in Sizes : DoKmalloc(size, e) \/ DoKrealloc(size, e)
  \/ DoKfree
PagesNext == PutPages \/ \E e \in Envs, n \in Exact : GetPages(n, e)
SlabNext ==
  \/ \E c \in Caches, e \in Envs : CacheCreate(c, e) \/ CacheAlloc(c, e) \/ PoolCreate(c, e)
  \/ \E c \in Caches : CacheFree(c) \/ CacheDestroy(c)
  \/ \E e \in Envs : PoolAlloc(e)
  \/ PoolFree \/ PoolDestroy
Next == HeapNext \/ PagesNext \/ SlabNext
Spec == Init /\ [][Next]_vars

-----------------------------------------------------------------------------
(* The types of the variables. *)
TypeOK ==
  /\ mem.pages \in [Pages -> {Unused, Tail0} \cup 0 .. MaxOrder - 1]
  /\ mem.arena \in Backends \cup {None}
  /\ Len(mem.chunks) <= MaxChunks
  /\ \A i \in DOMAIN mem.chunks : mem.chunks[i].used <= mem.chunks[i].cap
  /\ objs \in [Caches -> SUBSET (Pages \X Slots)]
  /\ pool.alive \in BOOLEAN /\ Len(pool.cur) <= PoolMin

\* Who holds pages: modules, large allocations, known or not, and caches.
Owners ==
  {[kind |-> "module", at |-> h.at, n |-> h.n] : h \in held}
  \cup {[kind |-> "lost", at |-> h.at, n |-> h.n] : h \in mem.lost}
  \cup {[kind |-> "large", at |-> a.at, n |-> PagesOf(a.raw)] :
          a \in {b \in mem.allocs : b.chunk = 0}}
  \cup UNION {{[kind |-> c, at |-> p, n |-> 1] : p \in caches[c].pages} : c \in Caches}
Extent(o) == o.at .. o.at + 2 ^ OrderFor(o.n) - 1

(* Every page in use belongs to exactly one holder, under the order it was   *)
(* taken with, and every holder's pages are marked as its own: nothing is    *)
(* handed out twice, and nothing given back stays marked.                    *)
PagesOwned ==
  /\ \A o \in Owners : /\ mem.pages[o.at] = OrderFor(o.n)
                       /\ \A p \in Extent(o) \ {o.at} : mem.pages[p] = Tail0
  /\ \A p \in Pages :
       Cardinality({o \in Owners : p \in Extent(o)}) = IF mem.pages[p] = Unused THEN 0 ELSE 1

(* The skipping scan finds the lowest run of unused pages, if there is one.  *)
ScanExact ==
  \A order \in 0 .. MaxOrder - 1 :
    LET n == 2 ^ order
        fits == {c \in 0 .. NPages - n : FreeRun(mem.pages, c, n) = n}
    IN  Scan(mem.pages, n) = IF fits = {} THEN NPages ELSE Min(fits)

(* The part of a chunk that was cut is tiled by live allocations and free    *)
(* blocks: none overlap, and no unit is lost however often blocks of         *)
(* different sizes are used again.                                           *)
HeapTiled ==
  \A i \in DOMAIN mem.chunks :
    LET live(u) == {a \in mem.allocs : a.chunk = i /\ u \in a.at .. a.at + a.raw - 1}
        free(u) == {j \in DOMAIN mem.blocks :
                      LET b == mem.blocks[j] IN b.chunk = i /\ u \in b.at .. b.at + b.size - 1}
    IN  \A u \in 0 .. mem.chunks[i].cap - 1 :
          Cardinality(live(u)) + Cardinality(free(u)) =
            IF u < mem.chunks[i].used THEN 1 ELSE 0

(* Each slot of each page of a cache is free once, or is in one place.       *)
SlotsOwned ==
  \A c \in Caches :
    LET k == caches[c]
        mine == pool.cache = c
        reserve == IF mine THEN ToSet(pool.cur) ELSE {}
        out == IF mine THEN pool.out ELSE {}
        sets == <<ToSet(k.free), objs[c], reserve, out>>
    IN  /\ IsInjective(k.free) /\ IsInjective(pool.cur)
        /\ UNION ToSet(sets) = k.pages \X Slots
        /\ \A i, j \in DOMAIN sets : i < j => sets[i] \cap sets[j] = {}

(* A pool can serve PoolMin elements at any time: what is in the reserve and *)
(* what is out make up the minimum, so an allocation fails only when that    *)
(* many are out.                                                             *)
PoolKeeps == pool.alive => Len(pool.cur) + Cardinality(pool.out) >= PoolMin

(* Pages taken for a device lie in an arena that is mapped for that device,  *)
(* whatever contexts later allocations run in: the device addresses that     *)
(* modules computed from them stay good.                                     *)
ArenaFixed == \A h \in held : h.dev # None => mem.arena = h.dev
=============================================================================
