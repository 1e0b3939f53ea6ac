-------------------------- MODULE DeferredWorkProofs --------------------------
(***************************************************************************)
(* Proofs about DeferredWork, for any work, tasklets, timers, workqueues,   *)
(* limits and bounds.                                                       *)
(***************************************************************************)
EXTENDS DeferredWork, FiniteSetTheorems, WellFoundedInduction, TLAPS

-----------------------------------------------------------------------------
(* The inductive invariant.                                                 *)

(* What is assumed of the constants. *)
Bounds ==
  /\ NoQueue \notin Queues
  /\ DrainLimit \in Nat /\ MaxDepth \in Nat /\ MaxCtx \in Nat
  /\ MaxSeq \in Nat /\ MaxNow \in Nat

(* A list whose items were numbered up to n: work is work, only work is on  *)
(* a workqueue, and neither an object nor a number is there twice.          *)
ListOK(d, n) ==
  /\ d \in Seq(Item)
  /\ \A i \in DOMAIN d :
       /\ d[i].kind = "work" => d[i].object \in Works
       /\ d[i].wq # NoQueue => d[i].kind = "work"
       /\ d[i].seq \in 1..n
  /\ \A i, j \in DOMAIN d :
       \/ d[i].kind = d[j].kind /\ d[i].object = d[j].object
       \/ d[i].seq = d[j].seq
       => i = j

(* The marks of the objects, by the set D of items on the list. *)
MarksOK(D, p, s) ==
  /\ \A w \in p : \E e \in D : e.kind = "work" /\ e.object = w
  /\ \A e \in D : e.kind = "tasklet" /\ e.object \in Tasklets => e.object \in s

(* The frames of loops, which draining_deferred_depth counts. *)
Loops(s) == {i \in DOMAIN s : s[i].t \in {"drain", "flush"}}

(* The numbers of the items in D that a flush of wq up to through may take. *)
Left(D, wq, through) ==
  {k \in 1..through : \E e \in D : e.seq = k /\ e.kind = "work" /\ e.wq = wq}

(* A flush has run and may still run no more than its quota. *)
FlushOK(f, D, n) ==
  /\ f.through <= n
  /\ f.n + Cardinality(Left(D, f.wq, f.through)) <= f.quota
FlushesOK(s, D, n) == \A i \in DOMAIN s : s[i].t = "flush" => FlushOK(s[i], D, n)

(* The workqueue list l, the records' lives f and the destroy calls of the  *)
(* stack s: the record being destroyed is on the list, after its cursor.    *)
CursorOK(l, wq, cursor) ==
  \E k \in DOMAIN l : l[k] = wq /\ cursor = IF k = 1 THEN NoQueue ELSE l[k - 1]
QueuesOK(l, f, s) ==
  /\ \A i, j \in DOMAIN l : l[i] = l[j] => i = j
  /\ \A i \in DOMAIN l : f[l[i]] # "new"
  /\ \A q \in Queues : f[q] \in {"open", "closing"} => q \in Elements(l)
  /\ \A i \in DOMAIN s : s[i].t = "destroy" =>
       s[i].wq \in Queues /\ f[s[i].wq] = "closing" /\ CursorOK(l, s[i].wq, s[i].cursor)
  /\ \A i, j \in DOMAIN s : s[i].t = "destroy" /\ s[j].t = "destroy" => i = j
GoneEmpty(D, f) == \A e \in D : e.wq # NoQueue => f[e.wq] # "gone"

WInv ==
  /\ TypeOK
  /\ ListOK(deferred, deferred_sequence)
  /\ MarksOK(Elements(deferred), pending, sched)
  /\ NoReentry
  /\ depth = Cardinality(Loops(stack))
  /\ FlushesOK(stack, Elements(deferred), deferred_sequence)
  /\ ~NestedWqOps => QueuesOK(workqueues, life, stack) /\ GoneEmpty(Elements(deferred), life)

-----------------------------------------------------------------------------
(* The list of items, and what is on it as a set.                           *)

LEMMA IntervalEnd == \A a, b \in Nat : 1..a = 1..b => a = b
<1> SUFFICES ASSUME NEW a \in Nat, NEW b \in Nat, 1..a = 1..b, a # b PROVE FALSE
  OBVIOUS
<1>1. CASE a < b
  BY <1>1, b \in 1..b
<1>2. CASE b < a
  BY <1>2, a \in 1..a
<1> QED BY <1>1, <1>2

LEMMA RemovedIs ==
  ASSUME NEW S, NEW d \in Seq(S), NEW i \in DOMAIN d
  PROVE  /\ RemoveAt(d, i) \in Seq(S)
         /\ Len(RemoveAt(d, i)) = Len(d) - 1
         /\ \A j \in DOMAIN RemoveAt(d, i) :
              \E k \in DOMAIN d : k # i /\ RemoveAt(d, i)[j] = d[k]
                                  /\ k = IF j < i THEN j ELSE j + 1
         /\ \A k \in DOMAIN d : k # i =>
              \E j \in DOMAIN RemoveAt(d, i) : RemoveAt(d, i)[j] = d[k]
<1> DEFINE n == Len(d)
           r == RemoveAt(d, i)
<1>1. n \in Nat /\ DOMAIN d = 1..n /\ i \in 1..n /\ n - 1 \in Nat
  OBVIOUS
<1>2. r = [j \in 1..(n - 1) |-> IF j < i THEN d[j] ELSE d[j + 1]]
  BY DEF RemoveAt
<1>3. \A j \in 1..(n - 1) : (IF j < i THEN d[j] ELSE d[j + 1]) \in S
  BY <1>1
<1>4. r \in Seq(S) /\ Len(r) = n - 1 /\ DOMAIN r = 1..(n - 1)
  <2> HIDE DEF r
  <2>1. r \in [1..(n - 1) -> S]
    BY <1>2, <1>3
  <2>2. r \in Seq(S)
    BY <2>1, <1>1
  <2>3. DOMAIN r = 1..(n - 1) /\ DOMAIN r = 1..Len(r) /\ Len(r) \in Nat
    BY <2>1, <2>2
  <2>4. Len(r) = n - 1
    BY <2>3, <1>1, IntervalEnd, Zenon
  <2> QED BY <2>2, <2>3, <2>4
<1>5. ASSUME NEW j \in DOMAIN r
      PROVE \E k \in DOMAIN d : k # i /\ r[j] = d[k] /\ k = IF j < i THEN j ELSE j + 1
  <2> DEFINE k == IF j < i THEN j ELSE j + 1
  <2>1. k \in DOMAIN d /\ k # i /\ r[j] = d[k]
    BY <1>1, <1>2, <1>4
  <2> QED BY <2>1
<1>6. ASSUME NEW k \in DOMAIN d, k # i
      PROVE \E j \in DOMAIN r : r[j] = d[k]
  <2> DEFINE j == IF k < i THEN k ELSE k - 1
  <2>1. j \in DOMAIN r /\ r[j] = d[k]
    BY <1>1, <1>2, <1>4, <1>6
  <2> QED BY <2>1
<1> QED BY <1>4, <1>5, <1>6

LEMMA PrependIs ==
  ASSUME NEW S, NEW d \in Seq(S), NEW e
  PROVE  /\ Len(Prepend(e, d)) = Len(d) + 1
         /\ Prepend(e, d)[1] = e
         /\ \A j \in 2..(Len(d) + 1) : Prepend(e, d)[j] = d[j - 1]
         /\ e \in S => Prepend(e, d) \in Seq(S)
<1> DEFINE n == Len(d)
           r == Prepend(e, d)
<1>1. n \in Nat /\ DOMAIN d = 1..n
  OBVIOUS
<1>2. r = [j \in 1..(n + 1) |-> IF j = 1 THEN e ELSE d[j - 1]]
  BY DEF Prepend
<1>3. e \in S => \A j \in 1..(n + 1) : (IF j = 1 THEN e ELSE d[j - 1]) \in S
  BY <1>1
<1> HIDE DEF r
<1>4. e \in S => r \in [1..(n + 1) -> S]
  BY <1>2, <1>3
<1>5. e \in S => r \in Seq(S)
  BY <1>4, <1>1
<1>6. Len(r) = n + 1
  BY <1>2, <1>1
<1> QED BY <1>1, <1>2, <1>5, <1>6 DEF r

(* Taking an item off the list. *)
LEMMA Removed ==
  ASSUME NEW d, NEW n \in Nat, ListOK(d, n), NEW i \in DOMAIN d
  PROVE  /\ ListOK(RemoveAt(d, i), n)
         /\ Elements(RemoveAt(d, i)) = Elements(d) \ {d[i]}
<1> DEFINE r == RemoveAt(d, i)
<1>1. d \in Seq(Item)
  BY DEF ListOK
<1>2. /\ r \in Seq(Item) /\ Len(r) = Len(d) - 1
      /\ \A j \in DOMAIN r : \E k \in DOMAIN d :
           k # i /\ r[j] = d[k] /\ k = IF j < i THEN j ELSE j + 1
      /\ \A k \in DOMAIN d : k # i => \E j \in DOMAIN r : r[j] = d[k]
  BY <1>1, RemovedIs
<1> HIDE DEF r
<1>3. DOMAIN r \subseteq Nat
  BY <1>2
<1>4. ListOK(r, n)
  <2>1. \A j \in DOMAIN r : /\ r[j].kind = "work" => r[j].object \in Works
                            /\ r[j].wq # NoQueue => r[j].kind = "work"
                            /\ r[j].seq \in 1..n
    BY <1>2 DEF ListOK
  <2>2. ASSUME NEW j \in DOMAIN r, NEW k \in DOMAIN r,
               \/ r[j].kind = r[k].kind /\ r[j].object = r[k].object
               \/ r[j].seq = r[k].seq
        PROVE j = k
    <3>1. PICK u \in DOMAIN d : r[j] = d[u] /\ u = IF j < i THEN j ELSE j + 1
      BY <1>2
    <3>2. PICK v \in DOMAIN d : r[k] = d[v] /\ v = IF k < i THEN k ELSE k + 1
      BY <1>2
    <3>3. u = v
      BY <2>2, <3>1, <3>2 DEF ListOK
    <3> QED BY <3>1, <3>2, <3>3, <1>1, <1>3
  <2> QED BY <1>2, <2>1, <2>2 DEF ListOK
<1>5. Elements(r) = Elements(d) \ {d[i]}
  <2>1. \A k \in DOMAIN d : d[k] = d[i] => k = i
    BY DEF ListOK
  <2>2. Elements(r) \subseteq Elements(d) \ {d[i]}
    BY <1>2, <2>1 DEF Elements
  <2>3. ASSUME NEW e \in Elements(d), e # d[i] PROVE e \in Elements(r)
    BY <1>2, <2>3 DEF Elements
  <2> QED BY <2>2, <2>3
<1> QED BY <1>4, <1>5 DEF r

(* Putting it back at the head. *)
LEMMA PutBack ==
  ASSUME NEW d, NEW n \in Nat, ListOK(d, n), NEW i \in DOMAIN d
  PROVE  /\ ListOK(Prepend(d[i], RemoveAt(d, i)), n)
         /\ Elements(Prepend(d[i], RemoveAt(d, i))) = Elements(d)
<1> DEFINE r == RemoveAt(d, i)
           p == Prepend(d[i], r)
<1>1. d \in Seq(Item) /\ d[i] \in Item
  BY DEF ListOK
<1>2. ListOK(r, n) /\ Elements(r) = Elements(d) \ {d[i]}
  BY Removed
<1>3. \A j \in DOMAIN r : \E k \in DOMAIN d : k # i /\ r[j] = d[k]
  BY <1>1, RemovedIs
<1>4. r \in Seq(Item)
  BY <1>2 DEF ListOK
<1> HIDE DEF r
<1>5. /\ p \in Seq(Item) /\ Len(p) = Len(r) + 1 /\ p[1] = d[i]
      /\ \A j \in 2..(Len(r) + 1) : p[j] = r[j - 1]
  <2>1. PICK e \in Item : e = d[i]
    BY <1>1
  <2>2. Len(Prepend(e, r)) = Len(r) + 1
    BY <1>4, PrependIs
  <2>3. Prepend(e, r)[1] = e
    BY <1>4, PrependIs
  <2>4. Prepend(e, r) \in Seq(Item)
    BY <1>4, e \in Item, PrependIs
  <2>5. ASSUME NEW j \in 2..(Len(r) + 1) PROVE Prepend(e, r)[j] = r[j - 1]
    BY <1>4 DEF Prepend
  <2> QED BY <2>1, <2>2, <2>3, <2>4, <2>5
<1> HIDE DEF p
<1>6. DOMAIN r = 1..Len(r) /\ DOMAIN p = 1..(Len(r) + 1) /\ Len(r) \in Nat
  BY <1>4, <1>5
<1>7. \A j \in DOMAIN p : j = 1 \/ (j - 1 \in DOMAIN r /\ p[j] = r[j - 1])
  BY <1>5, <1>6
<1>8. \A j \in DOMAIN r : ~(r[j].kind = d[i].kind /\ r[j].object = d[i].object)
                          /\ r[j].seq # d[i].seq
  BY <1>3 DEF ListOK
<1>9. ListOK(p, n)
  <2>1. \A j \in DOMAIN p : /\ p[j].kind = "work" => p[j].object \in Works
                            /\ p[j].wq # NoQueue => p[j].kind = "work"
                            /\ p[j].seq \in 1..n
    <3> SUFFICES ASSUME NEW j \in DOMAIN p
                 PROVE  /\ p[j].kind = "work" => p[j].object \in Works
                        /\ p[j].wq # NoQueue => p[j].kind = "work"
                        /\ p[j].seq \in 1..n
      OBVIOUS
    <3>1. CASE j = 1
      BY <3>1, <1>5 DEF ListOK
    <3>2. CASE j # 1
      BY <3>2, <1>2, <1>7 DEF ListOK
    <3> QED BY <3>1, <3>2
  <2>2. ASSUME NEW j \in DOMAIN p, NEW k \in DOMAIN p,
               \/ p[j].kind = p[k].kind /\ p[j].object = p[k].object
               \/ p[j].seq = p[k].seq
        PROVE j = k
    <3>1. CASE j = 1 /\ k = 1
      BY <3>1
    <3>2. CASE j = 1 /\ k # 1
      BY <3>2, <2>2, <1>5, <1>7, <1>8
    <3>3. CASE j # 1 /\ k = 1
      BY <3>3, <2>2, <1>5, <1>7, <1>8
    <3>4. CASE j # 1 /\ k # 1
      <4>1. j - 1 \in DOMAIN r /\ k - 1 \in DOMAIN r /\ p[j] = r[j - 1] /\ p[k] = r[k - 1]
        BY <3>4, <1>7
      <4>2. j - 1 = k - 1
        BY <4>1, <1>2, <2>2 DEF ListOK
      <4> QED BY <4>2, <1>6
    <3> QED BY <3>1, <3>2, <3>3, <3>4
  <2> QED BY <1>5, <2>1, <2>2 DEF ListOK
<1>10. Elements(p) = Elements(r) \union {d[i]}
  <2>1. ASSUME NEW j \in DOMAIN r PROVE j + 1 \in DOMAIN p /\ p[j + 1] = r[j]
    <3>1. j + 1 \in 2..(Len(r) + 1) /\ (j + 1) - 1 = j
      BY <1>6
    <3> QED BY <3>1, <1>5, <1>6
  <2>2. 1 \in DOMAIN p
    BY <1>6
  <2>3. Elements(p) \subseteq Elements(r) \union {d[i]}
    BY <1>5, <1>7 DEF Elements
  <2>4. Elements(r) \subseteq Elements(p)
    BY <2>1 DEF Elements
  <2>5. d[i] \in Elements(p)
    BY <1>5, <2>2 DEF Elements
  <2> QED BY <2>3, <2>4, <2>5
<1>11. d[i] \in Elements(d)
  BY DEF Elements
<1> QED BY <1>2, <1>9, <1>10, <1>11 DEF r, p

(* A set of places has a first one. *)
LEMMA FirstIn ==
  ASSUME NEW I, I \subseteq Nat, I # {}
  PROVE  First(I) \in I
<1>1. PICK t \in I : \A u \in I : ~ (<<u, t>> \in OpToRel(<, Nat))
  BY NatLessThanWellFounded, WFMin, Zenon
<1>2. \A u \in I : ~ (u < t)
  BY <1>1, Zenon DEF OpToRel
<1>3. \A u \in I : t <= u
  BY <1>2
<1> QED BY <1>3, Zenon DEF First

(* An item queued at the end. *)
LEMMA Added ==
  ASSUME NEW d, NEW n \in Nat, ListOK(d, n), NEW e \in Item,
         e.seq = n + 1, e.kind = "work" => e.object \in Works,
         e.wq # NoQueue => e.kind = "work", ~Queued(d, e.kind, e.object)
  PROVE  /\ ListOK(Append(d, e), n + 1)
         /\ Elements(Append(d, e)) = Elements(d) \union {e}
<1> DEFINE a == Append(d, e)
<1>1. d \in Seq(Item) /\ Len(d) \in Nat /\ DOMAIN d = 1..Len(d)
  BY DEF ListOK
<1>2. /\ a \in Seq(Item) /\ DOMAIN a = 1..(Len(d) + 1)
      /\ a[Len(d) + 1] = e /\ \A i \in DOMAIN d : a[i] = d[i]
  BY <1>1
<1> HIDE DEF a
<1>3. \A i \in DOMAIN a : i \in DOMAIN d \/ i = Len(d) + 1
  BY <1>1, <1>2
<1>4. \A i \in DOMAIN d : ~(d[i].kind = e.kind /\ d[i].object = e.object)
  BY DEF Queued, Where
<1>5. \A i \in DOMAIN d : d[i].seq \in 1..n
  BY DEF ListOK
<1>6. \A i \in DOMAIN a : /\ a[i].kind = "work" => a[i].object \in Works
                          /\ a[i].wq # NoQueue => a[i].kind = "work"
                          /\ a[i].seq \in 1..(n + 1)
  <2> SUFFICES ASSUME NEW i \in DOMAIN a
               PROVE /\ a[i].kind = "work" => a[i].object \in Works
                     /\ a[i].wq # NoQueue => a[i].kind = "work"
                     /\ a[i].seq \in 1..(n + 1)
    OBVIOUS
  <2>1. CASE i \in DOMAIN d
    BY <1>2, <1>5, <2>1 DEF ListOK
  <2>2. CASE i = Len(d) + 1
    BY <1>2, <2>2
  <2> QED BY <1>3, <2>1, <2>2
<1>7. ASSUME NEW i \in DOMAIN a, NEW j \in DOMAIN a,
             \/ a[i].kind = a[j].kind /\ a[i].object = a[j].object
             \/ a[i].seq = a[j].seq
      PROVE i = j
  <2>1. CASE i \in DOMAIN d /\ j \in DOMAIN d
    BY <1>2, <1>7, <2>1, Zenon DEF ListOK
  <2>2. CASE i \in DOMAIN d /\ j = Len(d) + 1
    BY <1>2, <1>4, <1>5, <1>7, <2>2
  <2>3. CASE i = Len(d) + 1 /\ j \in DOMAIN d
    BY <1>2, <1>4, <1>5, <1>7, <2>3
  <2> QED BY <1>3, <2>1, <2>2, <2>3
<1>8. ListOK(a, n + 1)
  BY <1>2, <1>6, <1>7 DEF ListOK
<1>9. Elements(a) = Elements(d) \union {e}
  <2>1. Len(d) + 1 \in DOMAIN a /\ DOMAIN d \subseteq DOMAIN a
    BY <1>1, <1>2
  <2>2. Elements(a) \subseteq Elements(d) \union {e}
    BY <1>2, <1>3 DEF Elements
  <2>3. Elements(d) \subseteq Elements(a)
    BY <1>2, <2>1 DEF Elements
  <2>4. e \in Elements(a)
    BY <1>2, <2>1 DEF Elements
  <2> QED BY <2>2, <2>3, <2>4
<1> QED BY <1>8, <1>9 DEF a

(* The items of the list other than that of one object. *)
Others(D, kind, object) == {e \in D : ~(e.kind = kind /\ e.object = object)}

LEMMA WithoutOK ==
  ASSUME NEW d, NEW n \in Nat, ListOK(d, n), NEW kind, NEW object
  PROVE  /\ ListOK(Without(d, kind, object), n)
         /\ Elements(Without(d, kind, object)) = Others(Elements(d), kind, object)
         /\ ~Queued(Without(d, kind, object), kind, object)
<1> DEFINE I == Where(d, kind, object)
           r == Without(d, kind, object)
<1>1. I \subseteq DOMAIN d /\ DOMAIN d \subseteq Nat
  BY DEF Where, ListOK
<1>2. CASE I = {}
  <2>1. r = d
    BY <1>2 DEF Without, Queued
  <2>2. \A i \in DOMAIN d : ~(d[i].kind = kind /\ d[i].object = object)
    BY <1>2 DEF Where
  <2>3. Elements(d) = Others(Elements(d), kind, object)
    BY <2>2 DEF Elements, Others
  <2> QED BY <1>2, <2>1, <2>3 DEF Queued
<1>3. CASE I # {}
  <2> DEFINE i == First(I)
  <2>1. i \in I
    BY <1>1, <1>3, FirstIn
  <2>2. i \in DOMAIN d /\ d[i].kind = kind /\ d[i].object = object
    BY <2>1 DEF Where
  <2>3. r = RemoveAt(d, i)
    BY <1>3 DEF Without, Queued
  <2> HIDE DEF i, r
  <2>4. ListOK(r, n) /\ Elements(r) = Elements(d) \ {d[i]}
    BY <2>2, <2>3, Removed
  <2>5. Elements(d) \ {d[i]} = Others(Elements(d), kind, object)
    <3>1. \A j \in DOMAIN d : d[j].kind = kind /\ d[j].object = object => d[j] = d[i]
      BY <2>2 DEF ListOK
    <3>2. \A e \in Elements(d) : e = d[i] <=> (e.kind = kind /\ e.object = object)
      BY <2>2, <3>1 DEF Elements
    <3> QED BY <3>2 DEF Others
  <2>6. ~Queued(r, kind, object)
    <3>1. \A j \in DOMAIN r : r[j] \in Elements(r)
      BY DEF Elements
    <3> QED BY <2>4, <2>5, <3>1 DEF Others, Queued, Where
  <2> QED BY <2>4, <2>5, <2>6 DEF r
<1> QED BY <1>2, <1>3

(* Whether an object is queued, by the set of items. *)
LEMMA QueuedIs ==
  ASSUME NEW d, NEW kind, NEW object
  PROVE  Queued(d, kind, object)
           <=> \E e \in Elements(d) : e.kind = kind /\ e.object = object
BY DEF Queued, Where, Elements

(* Two items that differ in their time at most, and a set D2 of items that  *)
(* came of those of D, or were numbered after n.                            *)
Same(e, f) ==
  e.kind = f.kind /\ e.object = f.object /\ e.wq = f.wq /\ e.seq = f.seq
Came(D2, D, n) == \A e \in D2 : (\E f \in D : Same(e, f)) \/ e.seq > n

(* A timer gets a new time. *)
LEMMA Retimed ==
  ASSUME NEW d, NEW n \in Nat, ListOK(d, n), NEW i \in DOMAIN d, NEW due \in Nat
  PROVE  LET r == [d EXCEPT ![i].due = due] IN
         /\ ListOK(r, n)
         /\ \A e \in Elements(r) : \E f \in Elements(d) : Same(e, f)
         /\ \A f \in Elements(d) : \E e \in Elements(r) : Same(e, f)
<1> DEFINE r == [d EXCEPT ![i].due = due]
<1>1. d \in Seq(Item) /\ d[i] \in Item
  BY DEF ListOK
<1>2. [d[i] EXCEPT !.due = due] \in Item /\ Same([d[i] EXCEPT !.due = due], d[i])
  BY <1>1, Zenon DEF Item, Same
<1>3. r \in Seq(Item) /\ DOMAIN r = DOMAIN d
  BY <1>1, <1>2
<1>4. \A j \in DOMAIN d : Same(r[j], d[j])
  BY <1>1, <1>2 DEF Same
<1> HIDE DEF r
<1>5. ListOK(r, n)
  BY <1>3, <1>4 DEF ListOK, Same
<1>6. \A e \in Elements(r) : \E f \in Elements(d) : Same(e, f)
  BY <1>3, <1>4 DEF Elements
<1>7. \A f \in Elements(d) : \E e \in Elements(r) : Same(e, f)
  BY <1>3, <1>4 DEF Elements
<1> QED BY <1>5, <1>6, <1>7, Zenon DEF r

-----------------------------------------------------------------------------
(* The stack.                                                               *)

LEMMA LoopsFinite ==
  ASSUME NEW s \in Seq(Frame)
  PROVE  IsFiniteSet(Loops(s)) /\ Cardinality(Loops(s)) \in Nat
<1>1. Len(s) \in Nat /\ DOMAIN s = 1..Len(s)
  OBVIOUS
<1>2. IsFiniteSet(1..Len(s))
  BY <1>1, FS_Interval
<1>3. Loops(s) \in SUBSET (1..Len(s))
  BY <1>1 DEF Loops
<1> QED BY <1>2, <1>3, FS_Subset, FS_CardinalityType

LEMMA Pushed ==
  ASSUME NEW s \in Seq(Frame), NEW f \in Frame
  PROVE  /\ Append(s, f) \in Seq(Frame)
         /\ Len(Append(s, f)) = Len(s) + 1 /\ Append(s, f)[Len(s) + 1] = f
         /\ \A i \in DOMAIN s : i \in DOMAIN Append(s, f) /\ Append(s, f)[i] = s[i]
         /\ \A i \in DOMAIN Append(s, f) : i \in DOMAIN s \/ i = Len(s) + 1
         /\ Cardinality(Loops(Append(s, f))) =
              IF f.t \in {"drain", "flush"} THEN Cardinality(Loops(s)) + 1
                                            ELSE Cardinality(Loops(s))
<1> DEFINE a == Append(s, f)
<1>1. /\ a \in Seq(Frame) /\ Len(a) = Len(s) + 1 /\ a[Len(s) + 1] = f
      /\ \A i \in DOMAIN s : i \in DOMAIN a /\ a[i] = s[i]
      /\ \A i \in DOMAIN a : i \in DOMAIN s \/ i = Len(s) + 1
      /\ Len(s) + 1 \in DOMAIN a /\ Len(s) + 1 \notin DOMAIN s
  OBVIOUS
<1> HIDE DEF a
<1>2. Len(s) + 1 \notin Loops(s)
  BY <1>1 DEF Loops
<1>3. CASE f.t \in {"drain", "flush"}
  <2>1. Loops(a) = Loops(s) \union {Len(s) + 1}
    BY <1>1, <1>3 DEF Loops
  <2>2. Cardinality(Loops(a)) = Cardinality(Loops(s)) + 1
    BY <1>2, <2>1, LoopsFinite, FS_AddElement, Zenon
  <2> QED BY <1>1, <1>3, <2>2, Zenon DEF a
<1>4. CASE f.t \notin {"drain", "flush"}
  <2>1. Loops(a) = Loops(s)
    BY <1>1, <1>4 DEF Loops
  <2> QED BY <1>1, <1>4, <2>1 DEF a
<1> QED BY <1>3, <1>4

LEMMA Popped ==
  ASSUME NEW s \in Seq(Frame), s # <<>>
  PROVE  /\ Len(s) \in DOMAIN s
         /\ Pop(s) \in Seq(Frame)
         /\ \A i \in DOMAIN Pop(s) : i \in DOMAIN s /\ Pop(s)[i] = s[i] /\ i # Len(s)
         /\ Cardinality(Loops(s)) =
              IF s[Len(s)].t \in {"drain", "flush"} THEN Cardinality(Loops(Pop(s))) + 1
                                                    ELSE Cardinality(Loops(Pop(s)))
<1> DEFINE p == Pop(s)
<1>1. Len(s) \in Nat \ {0} /\ DOMAIN s = 1..Len(s)
  OBVIOUS
<1>2. p \in Seq(Frame) /\ Len(p) = Len(s) - 1 /\ DOMAIN p = 1..(Len(s) - 1)
  BY <1>1 DEF Pop
<1>3. \A i \in DOMAIN p : i \in DOMAIN s /\ p[i] = s[i] /\ i # Len(s)
  BY <1>1, <1>2 DEF Pop
<1> HIDE DEF p
<1>4. Len(s) \notin Loops(p) /\ \A i \in DOMAIN s : i # Len(s) => i \in DOMAIN p
  BY <1>1, <1>2 DEF Loops
<1>5. CASE s[Len(s)].t \in {"drain", "flush"}
  <2>1. Loops(s) = Loops(p) \union {Len(s)}
    BY <1>1, <1>3, <1>4, <1>5 DEF Loops
  <2>2. IsFiniteSet(Loops(p))
    BY <1>2, LoopsFinite
  <2>3. Cardinality(Loops(s)) = Cardinality(Loops(p)) + 1
    BY <1>4, <2>1, <2>2, FS_AddElement, Zenon
  <2> QED BY <1>1, <1>2, <1>3, <1>5, <2>3 DEF p
<1>6. CASE s[Len(s)].t \notin {"drain", "flush"}
  <2>1. Loops(s) = Loops(p)
    BY <1>1, <1>3, <1>4, <1>6, Zenon DEF Loops
  <2> QED BY <1>1, <1>2, <1>3, <1>6, <2>1 DEF p
<1> QED BY <1>5, <1>6

LEMMA CountedIs ==
  ASSUME stack \in Seq(Frame), stack # <<>>
  PROVE  /\ Counted \in Seq(Frame) /\ DOMAIN Counted = DOMAIN stack
         /\ \A i \in DOMAIN stack : i # Len(stack) => Counted[i] = stack[i]
         /\ Counted[Len(stack)] = [Top EXCEPT !.n = Top.n + 1]
         /\ Cardinality(Loops(Counted)) = Cardinality(Loops(stack))
<1>1. Len(stack) \in DOMAIN stack /\ Top \in Frame
  BY DEF Top
<1>2. [Top EXCEPT !.n = Top.n + 1] \in Frame
  <2>1. Top.n + 1 \in Nat
    BY <1>1 DEF Frame
  <2> HIDE DEF Top
  <2>2. \A f \in Frame, k \in Nat : [f EXCEPT !.n = k] \in Frame
    BY Zenon DEF Frame
  <2> QED BY <1>1, <2>1, <2>2
<1>3. Counted = [stack EXCEPT ![Len(stack)] = [Top EXCEPT !.n = Top.n + 1]]
  BY <1>1 DEF Counted, Top
<1>4. /\ Counted \in Seq(Frame) /\ DOMAIN Counted = DOMAIN stack
      /\ \A i \in DOMAIN stack : i # Len(stack) => Counted[i] = stack[i]
      /\ Counted[Len(stack)] = [Top EXCEPT !.n = Top.n + 1]
  BY <1>1, <1>2, <1>3
<1>5. \A i \in DOMAIN stack : Counted[i].t = stack[i].t
  <2>1. [Top EXCEPT !.n = Top.n + 1].t = Top.t
    BY <1>1 DEF Frame
  <2> QED BY <1>1, <1>4, <2>1, Zenon DEF Top
<1>6. Loops(Counted) = Loops(stack)
  BY <1>4, <1>5, Zenon DEF Loops
<1> QED BY <1>4, <1>6

(* What a flush may still take is finite, and only shrinks as items go and  *)
(* later ones come.                                                         *)
LEMMA LeftFinite ==
  ASSUME NEW D, NEW wq, NEW through \in Nat
  PROVE  IsFiniteSet(Left(D, wq, through)) /\ Cardinality(Left(D, wq, through)) \in Nat
<1>1. IsFiniteSet(1..through)
  BY FS_Interval
<1>2. Left(D, wq, through) \in SUBSET (1..through)
  BY Zenon DEF Left
<1> QED BY <1>1, <1>2, FS_Subset, FS_CardinalityType, Zenon

LEMMA FlushKept ==
  ASSUME NEW f \in Frame, NEW n \in Nat, NEW m \in Nat, NEW D, NEW D2,
         FlushOK(f, D, n), Came(D2, D, n), n <= m, \A e \in D2 : e.seq \in Nat
  PROVE  FlushOK(f, D2, m)
<1>1. f.through \in Nat /\ f.n \in Nat /\ f.quota \in Nat /\ f.through <= n
  BY DEF Frame, FlushOK
<1>2. Left(D2, f.wq, f.through) \subseteq Left(D, f.wq, f.through)
  <2> SUFFICES ASSUME NEW k \in 1..f.through, NEW e \in D2,
                      e.seq = k, e.kind = "work", e.wq = f.wq
               PROVE  \E g \in D : g.seq = k /\ g.kind = "work" /\ g.wq = f.wq
    BY DEF Left
  <2>1. ~(e.seq > n)
    BY <1>1
  <2> QED BY <2>1, Zenon DEF Came, Same
<1>3. Cardinality(Left(D2, f.wq, f.through)) <= Cardinality(Left(D, f.wq, f.through))
  BY <1>1, <1>2, LeftFinite, FS_Subset, Zenon
<1> QED BY <1>1, <1>3, LeftFinite DEF FlushOK

(* A flush that takes an item of its batch. *)
LEMMA FlushTakes ==
  ASSUME NEW f \in Frame, NEW n \in Nat, NEW D, NEW e \in D,
         FlushOK(f, D, n), e.seq \in 1..n, e.kind = "work", e.wq = f.wq,
         e.seq <= f.through, \A g \in D : g.seq = e.seq => g = e
  PROVE  FlushOK([f EXCEPT !.n = f.n + 1], D \ {e}, n)
<1>1. f.through \in Nat /\ f.n \in Nat /\ f.quota \in Nat /\ f.through <= n
  BY DEF Frame, FlushOK
<1> DEFINE L == Left(D, f.wq, f.through)
           M == Left(D \ {e}, f.wq, f.through)
<1>2. e.seq \in L
  BY <1>1 DEF Left
<1>3. M \subseteq L \ {e.seq}
  BY Zenon DEF Left
<1>4. IsFiniteSet(L) /\ Cardinality(L) \in Nat /\ Cardinality(M) \in Nat
  BY <1>1, LeftFinite, Zenon
<1>5. f.n + Cardinality(L) <= f.quota
  BY Zenon DEF FlushOK
<1> HIDE DEF L, M
<1>6. IsFiniteSet(L \ {e.seq}) /\ Cardinality(L \ {e.seq}) = Cardinality(L) - 1
  BY <1>2, <1>4, FS_RemoveElement, Zenon
<1>7. Cardinality(M) <= Cardinality(L \ {e.seq})
  BY <1>3, <1>6, FS_Subset
<1>8. f.n + 1 + Cardinality(M) <= f.quota
  BY <1>1, <1>4, <1>5, <1>6, <1>7
<1> DEFINE g == [f EXCEPT !.n = f.n + 1]
<1>9. g.through = f.through /\ g.n = f.n + 1 /\ g.quota = f.quota /\ g.wq = f.wq
  BY DEF Frame
<1> HIDE DEF g
<1>10. FlushOK(g, D \ {e}, n)
  BY <1>1, <1>8, <1>9 DEF FlushOK, M
<1> QED BY <1>10 DEF g

(* A flush that begins. *)
LEMMA FlushBegins ==
  ASSUME TypeOK, ListOK(deferred, deferred_sequence), NEW wq \in Queues \union {NoQueue}
  PROVE  /\ FlushFrame(wq) \in Frame /\ FlushFrame(wq).t = "flush"
         /\ FlushOK(FlushFrame(wq), Elements(deferred), deferred_sequence)
<1> DEFINE f == FlushFrame(wq)
           n == deferred_sequence
           S == OnQueue(wq)
           T == Left(Elements(deferred), wq, n)
<1>1. n \in Nat /\ Len(deferred) \in Nat /\ DOMAIN deferred = 1..Len(deferred)
  BY DEF TypeOK
<1>2. S \in SUBSET (1..Len(deferred))
  BY <1>1 DEF OnQueue
<1>3. IsFiniteSet(S) /\ Cardinality(S) \in Nat
  <2> HIDE DEF S
  <2>1. IsFiniteSet(1..Len(deferred))
    BY <1>1, FS_Interval
  <2> QED BY <1>2, <2>1, FS_Subset, FS_CardinalityType, Zenon
<1>4. /\ f \in Frame /\ f.t = "flush" /\ f.wq = wq /\ f.through = n
      /\ f.n = 0 /\ f.quota = Cardinality(S)
  BY <1>1, <1>3, Zenon DEF FlushFrame, CallFrame, Frame
<1>5. Cardinality(T) <= Cardinality(S)
  <2> DEFINE h == [i \in S |-> deferred[i].seq]
  <2>1. \A i \in S : deferred[i].seq \in T
    BY <1>1 DEF OnQueue, Left, Elements, ListOK
  <2>2. \A k \in T : \E i \in S : deferred[i].seq = k
    BY DEF OnQueue, Left, Elements
  <2>3. h \in Surjection(S, T)
    BY <2>1, <2>2 DEF Surjection
  <2> HIDE DEF h, S, T
  <2> QED BY <1>3, <2>3, FS_Surjection
<1>6. Cardinality(T) \in Nat
  BY <1>1, LeftFinite, Zenon
<1> HIDE DEF f
<1>7. FlushOK(f, Elements(deferred), n)
  BY <1>1, <1>3, <1>4, <1>5, <1>6 DEF FlushOK
<1> QED BY <1>4, <1>7 DEF f

(* The destroy calls of stack s2 are those of stack s. *)
NoNewDestroy(s2, s) ==
  \A i \in DOMAIN s2 : s2[i].t = "destroy" =>
    /\ i \in DOMAIN s /\ s[i].t = "destroy"
    /\ s2[i].wq = s[i].wq /\ s2[i].cursor = s[i].cursor
LEMMA QueuesKept ==
  ASSUME NEW l, NEW f, NEW s, NEW s2, QueuesOK(l, f, s), NoNewDestroy(s2, s)
  PROVE  QueuesOK(l, f, s2)
BY DEF QueuesOK, NoNewDestroy

-----------------------------------------------------------------------------
(* The calls that change the list and its marks only.                       *)

LEMMA InitWInv == ASSUME Bounds PROVE Init => WInv
<1> SUFFICES ASSUME Init PROVE WInv
  OBVIOUS
<1>1. TypeOK
  BY DEF Init, TypeOK, Bounds
<1>2. ListOK(deferred, deferred_sequence) /\ Elements(deferred) = {}
  BY DEF Init, ListOK, Elements
<1>3. NoReentry
  BY DEF Init, NoReentry
<1>4. depth = Cardinality(Loops(stack))
  <2>1. Loops(stack) = {}
    BY DEF Init, Loops
  <2> QED BY <2>1, FS_EmptySet, Zenon DEF Init
<1>5. FlushesOK(stack, Elements(deferred), deferred_sequence)
  BY DEF Init, FlushesOK
<1>6. QueuesOK(workqueues, life, stack)
  BY DEF Init, QueuesOK
<1>7. MarksOK(Elements(deferred), pending, sched) /\ GoneEmpty(Elements(deferred), life)
  BY <1>2 DEF Init, MarksOK, GoneEmpty
<1> QED BY <1>1, <1>2, <1>3, <1>4, <1>5, <1>6, <1>7, Zenon DEF WInv

(* Each item on the list came of one that was there, or is newly numbered   *)
(* and was queued on an open workqueue.                                     *)
CameOrOpen(D2, D) == \A e \in D2 : (\E f \in D : Same(e, f)) \/ Open(e.wq)

LEMMA FlushesKept ==
  ASSUME WInv, ListOK(deferred', deferred_sequence'),
         Came(Elements(deferred'), Elements(deferred), deferred_sequence),
         deferred_sequence' \in Nat, deferred_sequence <= deferred_sequence'
  PROVE  FlushesOK(stack, Elements(deferred'), deferred_sequence')
<1>1. deferred_sequence \in Nat /\ stack \in Seq(Frame)
  BY DEF WInv, TypeOK
<1>2. \A e \in Elements(deferred') : e.seq \in Nat
  BY DEF ListOK, Elements
<1>3. FlushesOK(stack, Elements(deferred), deferred_sequence)
  BY DEF WInv
<1> SUFFICES ASSUME NEW i \in DOMAIN stack, stack[i].t = "flush"
             PROVE  FlushOK(stack[i], Elements(deferred'), deferred_sequence')
  BY DEF FlushesOK
<1>4. stack[i] \in Frame /\ FlushOK(stack[i], Elements(deferred), deferred_sequence)
  BY <1>1, <1>3 DEF FlushesOK
<1> QED BY <1>1, <1>2, <1>4, FlushKept

LEMMA GoneKept ==
  ASSUME WInv, ~NestedWqOps, CameOrOpen(Elements(deferred'), Elements(deferred)),
         life' = life
  PROVE  GoneEmpty(Elements(deferred'), life')
<1>1. GoneEmpty(Elements(deferred), life)
  BY Zenon DEF WInv
<1> QED BY <1>1, Zenon DEF GoneEmpty, CameOrOpen, Same, Open

LEMMA ListStep ==
  ASSUME WInv, UNCHANGED <<queues, running, usable, now>>,
         deferred_sequence' \in 0..MaxSeq, deferred_sequence <= deferred_sequence',
         pending' \subseteq Works, sched' \subseteq Tasklets,
         ListOK(deferred', deferred_sequence'),
         MarksOK(Elements(deferred'), pending', sched'),
         Came(Elements(deferred'), Elements(deferred), deferred_sequence),
         CameOrOpen(Elements(deferred'), Elements(deferred))
  PROVE  WInv'
<1>1. TypeOK'
  BY DEF WInv, TypeOK, ListOK, queues, running
<1>2. FlushesOK(stack, Elements(deferred'), deferred_sequence')
  BY FlushesKept
<1>3. ~NestedWqOps => GoneEmpty(Elements(deferred'), life')
  BY GoneKept, Zenon DEF queues
<1>4. NoReentry'
  BY Zenon DEF WInv, NoReentry, running
<1> QED BY <1>1, <1>2, <1>3, <1>4, Zenon DEF WInv, queues, running

(* queue_deferred *)
LEMMA QueueDeferredOK ==
  ASSUME deferred_sequence \in Nat, NEW d, ListOK(d, deferred_sequence),
         NEW kind \in Kinds, NEW object \in Objects, NEW wq \in Queues \union {NoQueue},
         NEW due \in Nat, NEW ok, kind = "work" => object \in Works,
         wq # NoQueue => kind = "work", QueueDeferred(d, kind, object, wq, due, ok)
  PROVE  /\ ListOK(deferred', deferred_sequence')
         /\ deferred_sequence' \in {deferred_sequence, deferred_sequence + 1}
         /\ Accepted(d, kind, object, ok) =>
              \E e : /\ Elements(deferred') = Elements(d) \union {e}
                     /\ e.kind = kind /\ e.object = object /\ e.wq = wq
                     /\ e.seq = deferred_sequence + 1
         /\ ~Accepted(d, kind, object, ok) => deferred' = d
<1> DEFINE e == [kind |-> kind, object |-> object, wq |-> wq,
                 seq |-> deferred_sequence + 1, due |-> due]
<1>1. CASE Accepted(d, kind, object, ok)
  <2>1. e \in Item /\ e.kind = kind /\ e.object = object /\ e.wq = wq
        /\ e.seq = deferred_sequence + 1
    BY DEF Item
  <2>2. deferred' = Append(d, e) /\ deferred_sequence' = deferred_sequence + 1
    BY <1>1, Zenon DEF QueueDeferred
  <2>3. ~Queued(d, kind, object)
    BY <1>1, Zenon DEF Accepted
  <2> HIDE DEF e
  <2>4. /\ ListOK(Append(d, e), deferred_sequence + 1)
        /\ Elements(Append(d, e)) = Elements(d) \union {e}
    BY <2>1, <2>3, Added, Zenon
  <2> QED BY <1>1, <2>1, <2>2, <2>4, Zenon
<1>2. CASE ~Accepted(d, kind, object, ok)
  BY <1>2, Zenon DEF QueueDeferred
<1> QED BY <1>1, <1>2, Zenon

(* kb_queue_work_on and its kin, entered with list d and pending bits p. *)
LEMMA QueueOnOK ==
  ASSUME Bounds, WInv, NEW d, NEW p, ListOK(d, deferred_sequence),
         Elements(d) \subseteq Elements(deferred), p \subseteq Works,
         MarksOK(Elements(d), p, sched),
         NEW wq \in Queues \union {NoQueue}, NEW w \in Works, NEW due \in Nat, NEW ok,
         deferred_sequence < MaxSeq, QueueOn(d, p, wq, w, due, ok),
         UNCHANGED <<sched, queues, running, usable, now>>
  PROVE  WInv'
<1>1. deferred_sequence \in Nat /\ MaxSeq \in Nat /\ sched \subseteq Tasklets
  BY DEF WInv, TypeOK, Bounds
<1>2. Open(wq)
  BY Zenon DEF QueueOn
<1>3. \A e \in Elements(d) : Same(e, e) /\ e \in Elements(deferred)
  BY Zenon DEF Same
<1>4. CASE deferred' = d /\ UNCHANGED deferred_sequence
           /\ (pending' = p \/ pending' = p \ {w})
  <2>1. MarksOK(Elements(d), pending', sched) /\ pending' \subseteq Works
    BY <1>4, Zenon DEF MarksOK
  <2>2. Came(Elements(deferred'), Elements(deferred), deferred_sequence)
    BY <1>3, <1>4, Zenon DEF Came
  <2>3. CameOrOpen(Elements(deferred'), Elements(deferred))
    BY <1>3, <1>4, Zenon DEF CameOrOpen
  <2> QED BY <1>1, <1>4, <2>1, <2>2, <2>3, ListStep
<1>5. CASE /\ QueueDeferred(d, "work", w, wq, due, ok)
           /\ pending' = IF Accepted(d, "work", w, ok) THEN p \union {w} ELSE p \ {w}
  <2>1. "work" \in Kinds /\ w \in Objects
    BY Zenon DEF Kinds, Objects
  <2>2. /\ ListOK(deferred', deferred_sequence')
        /\ deferred_sequence' \in {deferred_sequence, deferred_sequence + 1}
        /\ Accepted(d, "work", w, ok) =>
             \E e : /\ Elements(deferred') = Elements(d) \union {e}
                    /\ e.kind = "work" /\ e.object = w /\ e.wq = wq
                    /\ e.seq = deferred_sequence + 1
        /\ ~Accepted(d, "work", w, ok) => deferred' = d
    BY <1>1, <1>5, <2>1, QueueDeferredOK, Zenon
  <2>3. CASE ~Accepted(d, "work", w, ok)
    <3>1. deferred' = d /\ pending' = p \ {w}
      BY <1>5, <2>2, <2>3, Zenon
    <3>2. UNCHANGED deferred_sequence
      BY <1>5, <2>3, Zenon DEF QueueDeferred
    <3> QED BY <1>4, <3>1, <3>2, Zenon
  <2>4. CASE Accepted(d, "work", w, ok)
    <3>1. PICK e : /\ Elements(deferred') = Elements(d) \union {e}
                   /\ e.kind = "work" /\ e.object = w /\ e.wq = wq
                   /\ e.seq = deferred_sequence + 1
      BY <2>2, <2>4, Zenon
    <3>2. pending' = p \union {w}
      BY <1>5, <2>4, Zenon
    <3>3. MarksOK(Elements(deferred'), pending', sched) /\ pending' \subseteq Works
      BY <3>1, <3>2, Zenon DEF MarksOK
    <3>4. Came(Elements(deferred'), Elements(deferred), deferred_sequence)
      BY <1>1, <1>3, <3>1 DEF Came
    <3>5. CameOrOpen(Elements(deferred'), Elements(deferred))
      BY <1>2, <1>3, <3>1, Zenon DEF CameOrOpen
    <3>6. deferred_sequence' \in 0..MaxSeq /\ deferred_sequence <= deferred_sequence'
      BY <1>1, <2>2
    <3> QED BY <1>1, <2>2, <3>3, <3>4, <3>5, <3>6, ListStep, Zenon
  <2> QED BY <2>3, <2>4, Zenon
<1> QED BY <1>4, <1>5, Zenon DEF QueueOn

LEMMA QueueWorkOK ==
  ASSUME Bounds, WInv, NEW wq \in Queues \union {NoQueue}, NEW w \in Works, NEW ok,
         \/ QueueWork(wq, w, ok)
         \/ \E delay \in 0..MaxNow : /\ DueAfter(delay) <= MaxNow
                                     /\ \/ QueueDelayedWork(wq, w, delay, ok)
                                        \/ ModDelayedWork(wq, w, delay, ok)
  PROVE  WInv'
<1>1. /\ ListOK(deferred, deferred_sequence) /\ deferred_sequence \in Nat
      /\ MarksOK(Elements(deferred), pending, sched) /\ pending \subseteq Works
      /\ now \in Nat
  BY DEF WInv, TypeOK
<1>2. CASE QueueWork(wq, w, ok)
  BY <1>1, <1>2, QueueOnOK, Zenon DEF QueueWork
<1>3. ASSUME NEW delay \in 0..MaxNow,
             \/ QueueDelayedWork(wq, w, delay, ok) \/ ModDelayedWork(wq, w, delay, ok)
      PROVE WInv'
  <2>1. DueAfter(delay) \in Nat
    BY <1>1 DEF DueAfter, Bounds
  <2>2. CASE QueueDelayedWork(wq, w, delay, ok)
    BY <1>1, <2>1, <2>2, QueueOnOK, Zenon DEF QueueDelayedWork
  <2>3. CASE ModDelayedWork(wq, w, delay, ok)
    <3> DEFINE d == Without(deferred, "work", w)
               p == pending \ {w}
    <3>1. ListOK(d, deferred_sequence)
          /\ Elements(d) = Others(Elements(deferred), "work", w)
      BY <1>1, WithoutOK, Zenon
    <3>2. QueueOn(d, p, wq, w, DueAfter(delay), ok) /\ deferred_sequence < MaxSeq
          /\ UNCHANGED <<sched, queues, running, usable, now>>
      BY <2>3, Zenon DEF ModDelayedWork
    <3> HIDE DEF d
    <3>3. Elements(d) \subseteq Elements(deferred) /\ p \subseteq Works
          /\ MarksOK(Elements(d), p, sched)
      BY <1>1, <3>1, Zenon DEF Others, MarksOK
    <3> QED BY <2>1, <3>1, <3>2, <3>3, QueueOnOK, Zenon
  <2> QED BY <1>3, <2>2, <2>3, Zenon
<1> QED BY <1>2, <1>3, Zenon

(* Items that only went. *)
LEMMA FewerStep ==
  ASSUME WInv, UNCHANGED <<queues, running, usable, now, deferred_sequence>>,
         pending' \subseteq Works, sched' \subseteq Tasklets,
         ListOK(deferred', deferred_sequence),
         Elements(deferred') \subseteq Elements(deferred),
         MarksOK(Elements(deferred'), pending', sched')
  PROVE  WInv'
<1>1. deferred_sequence \in 0..MaxSeq /\ deferred_sequence \in Nat
  BY DEF WInv, TypeOK
<1>2. \A e \in Elements(deferred') : e \in Elements(deferred) /\ Same(e, e)
  BY Zenon DEF Same
<1>3. Came(Elements(deferred'), Elements(deferred), deferred_sequence)
  BY <1>2, Zenon DEF Came
<1>4. CameOrOpen(Elements(deferred'), Elements(deferred))
  BY <1>2, Zenon DEF CameOrOpen
<1> QED BY <1>1, <1>3, <1>4, ListStep

LEMMA CancelOK ==
  ASSUME WInv, \/ \E w \in Works : CancelWork(w)
               \/ \E m \in Timers : TimerDelete(m)
  PROVE  WInv'
<1>1. /\ ListOK(deferred, deferred_sequence) /\ deferred_sequence \in Nat
      /\ MarksOK(Elements(deferred), pending, sched)
      /\ pending \subseteq Works /\ sched \subseteq Tasklets
  BY DEF WInv, TypeOK
<1>2. ASSUME NEW w \in Works, CancelWork(w) PROVE WInv'
  <2>1. /\ deferred' = Without(deferred, "work", w) /\ pending' = pending \ {w}
        /\ UNCHANGED <<deferred_sequence, sched, queues, running, usable, now>>
    BY <1>2, Zenon DEF CancelWork
  <2>2. ListOK(deferred', deferred_sequence)
        /\ Elements(deferred') = Others(Elements(deferred), "work", w)
    BY <1>1, <2>1, WithoutOK, Zenon
  <2>3. MarksOK(Elements(deferred'), pending', sched')
    BY <1>1, <2>1, <2>2, Zenon DEF MarksOK, Others
  <2>4. Elements(deferred') \subseteq Elements(deferred)
    BY <2>2, Zenon DEF Others
  <2> QED BY <1>1, <2>1, <2>2, <2>3, <2>4, FewerStep, Zenon
<1>3. ASSUME NEW m \in Timers, TimerDelete(m) PROVE WInv'
  <2>1. /\ deferred' = Without(deferred, "timer", m)
        /\ UNCHANGED <<deferred_sequence, pending, sched, queues, running, usable, now>>
    BY <1>3, Zenon DEF TimerDelete
  <2>2. ListOK(deferred', deferred_sequence)
        /\ Elements(deferred') = Others(Elements(deferred), "timer", m)
    BY <1>1, <2>1, WithoutOK, Zenon
  <2>3. MarksOK(Elements(deferred'), pending', sched')
    BY <1>1, <2>1, <2>2, Zenon DEF MarksOK, Others
  <2>4. Elements(deferred') \subseteq Elements(deferred)
    BY <2>2, Zenon DEF Others
  <2> QED BY <1>1, <2>1, <2>2, <2>3, <2>4, FewerStep, Zenon
<1> QED BY <1>2, <1>3, Zenon

(* A tasklet or a timer is queued on no workqueue. *)
LEMMA QueueOtherOK ==
  ASSUME Bounds, WInv, NEW kind \in {"tasklet", "timer"}, NEW object \in Objects,
         NEW due \in Nat, NEW ok, deferred_sequence < MaxSeq,
         QueueDeferred(deferred, kind, object, NoQueue, due, ok),
         sched' \subseteq Tasklets, sched \subseteq sched',
         kind = "tasklet" => object \in sched',
         UNCHANGED <<pending, queues, running, usable, now>>
  PROVE  WInv'
<1>1. /\ ListOK(deferred, deferred_sequence) /\ deferred_sequence \in Nat
      /\ MarksOK(Elements(deferred), pending, sched)
      /\ pending \subseteq Works /\ MaxSeq \in Nat
  BY DEF WInv, TypeOK, Bounds
<1>2. kind \in Kinds /\ kind # "work"
  BY Zenon DEF Kinds
<1>3. /\ ListOK(deferred', deferred_sequence')
      /\ deferred_sequence' \in {deferred_sequence, deferred_sequence + 1}
      /\ Accepted(deferred, kind, object, ok) =>
           \E e : /\ Elements(deferred') = Elements(deferred) \union {e}
                  /\ e.kind = kind /\ e.object = object /\ e.wq = NoQueue
                  /\ e.seq = deferred_sequence + 1
      /\ ~Accepted(deferred, kind, object, ok) => deferred' = deferred
  BY <1>1, <1>2, QueueDeferredOK, Zenon
<1>4. deferred_sequence' \in 0..MaxSeq /\ deferred_sequence <= deferred_sequence'
  BY <1>1, <1>3
<1>5. \A e \in Elements(deferred) : Same(e, e)
  BY Zenon DEF Same
<1>6. CASE Accepted(deferred, kind, object, ok)
  <2>1. PICK e : /\ Elements(deferred') = Elements(deferred) \union {e}
                 /\ e.kind = kind /\ e.object = object /\ e.wq = NoQueue
                 /\ e.seq = deferred_sequence + 1
    BY <1>3, <1>6, Zenon
  <2>2. MarksOK(Elements(deferred'), pending', sched')
    BY <1>1, <2>1, Zenon DEF MarksOK
  <2>3. Came(Elements(deferred'), Elements(deferred), deferred_sequence)
    BY <1>1, <1>5, <2>1 DEF Came
  <2>4. CameOrOpen(Elements(deferred'), Elements(deferred))
    BY <1>5, <2>1, Zenon DEF CameOrOpen, Open
  <2> QED BY <1>1, <1>3, <1>4, <2>2, <2>3, <2>4, ListStep, Zenon
<1>7. CASE ~Accepted(deferred, kind, object, ok)
  <2>1. deferred' = deferred
    BY <1>3, <1>7, Zenon
  <2>2. MarksOK(Elements(deferred'), pending', sched')
    BY <1>1, <2>1, Zenon DEF MarksOK
  <2>3. Came(Elements(deferred'), Elements(deferred), deferred_sequence)
    BY <1>5, <2>1, Zenon DEF Came
  <2>4. CameOrOpen(Elements(deferred'), Elements(deferred))
    BY <1>5, <2>1, Zenon DEF CameOrOpen
  <2> QED BY <1>1, <1>3, <1>4, <2>2, <2>3, <2>4, ListStep
<1> QED BY <1>6, <1>7, Zenon

LEMMA TaskletScheduleOK ==
  ASSUME Bounds, WInv, NEW k \in Tasklets, NEW ok, TaskletSchedule(k, ok)
  PROVE  WInv'
<1>1. sched \subseteq Tasklets
  BY Zenon DEF WInv, TypeOK
<1>2. k \in Objects /\ sched' = sched \union {k}
  BY DEF Objects, TaskletSchedule
<1> QED BY <1>1, <1>2, QueueOtherOK, Zenon DEF TaskletSchedule

LEMMA TimerOK ==
  ASSUME Bounds, WInv, NEW m \in Timers, NEW expires \in 0..MaxNow, NEW ok,
         ModTimer(m, expires, ok) \/ AddTimer(m, expires, ok)
  PROVE  WInv'
<1>1. /\ ListOK(deferred, deferred_sequence) /\ deferred_sequence \in Nat
      /\ MarksOK(Elements(deferred), pending, sched)
      /\ pending \subseteq Works /\ sched \subseteq Tasklets
      /\ deferred_sequence \in 0..MaxSeq
  BY DEF WInv, TypeOK
<1>2. m \in Objects /\ expires \in Nat
  BY DEF Objects, Bounds
<1>3. CASE /\ deferred_sequence < MaxSeq
           /\ QueueDeferred(deferred, "timer", m, NoQueue, expires, ok)
           /\ UNCHANGED <<pending, sched, queues, running, usable, now>>
  BY <1>1, <1>2, <1>3, QueueOtherOK, Zenon
<1>4. CASE ModTimer(m, expires, ok) /\ Queued(deferred, "timer", m)
  <2> DEFINE I == Where(deferred, "timer", m)
             i == First(I)
  <2>1. I # {} /\ I \subseteq DOMAIN deferred /\ DOMAIN deferred \subseteq Nat
    BY <1>1, <1>4 DEF Queued, Where, ListOK
  <2>2. i \in DOMAIN deferred
    BY <2>1, FirstIn, Zenon
  <2>3. /\ deferred' = [deferred EXCEPT ![i].due = expires]
        /\ UNCHANGED <<deferred_sequence, pending, sched, queues, running, usable, now>>
    BY <1>4, Zenon DEF ModTimer
  <2> HIDE DEF i
  <2>4. /\ ListOK(deferred', deferred_sequence)
        /\ \A e \in Elements(deferred') : \E f \in Elements(deferred) : Same(e, f)
        /\ \A f \in Elements(deferred) : \E e \in Elements(deferred') : Same(e, f)
    BY <1>1, <1>2, <2>2, <2>3, Retimed, Zenon
  <2>5. MarksOK(Elements(deferred'), pending', sched')
    <3>1. ASSUME NEW w \in pending
          PROVE  \E e \in Elements(deferred') : e.kind = "work" /\ e.object = w
      <4>1. PICK f \in Elements(deferred) : f.kind = "work" /\ f.object = w
        BY <1>1, Zenon DEF MarksOK
      <4> QED BY <2>4, <4>1 DEF Same
    <3>2. ASSUME NEW e \in Elements(deferred'), e.kind = "tasklet", e.object \in Tasklets
          PROVE  e.object \in sched
      BY <1>1, <2>4, <3>2 DEF MarksOK, Same
    <3> QED BY <2>3, <3>1, <3>2, Zenon DEF MarksOK
  <2>6. Came(Elements(deferred'), Elements(deferred), deferred_sequence)
    BY <2>4, Zenon DEF Came
  <2>7. CameOrOpen(Elements(deferred'), Elements(deferred))
    BY <2>4, Zenon DEF CameOrOpen
  <2> QED BY <1>1, <2>3, <2>4, <2>5, <2>6, <2>7, ListStep
<1> QED BY <1>3, <1>4, Zenon DEF ModTimer, AddTimer

-----------------------------------------------------------------------------
(* The loops.                                                               *)

LEMMA CallFrameIs ==
  ASSUME NEW t \in Kinds \union {"drain", "flush", "destroy"}
  PROVE  CallFrame(t) \in Frame /\ CallFrame(t).t = t
BY Zenon DEF CallFrame, Frame

(* A callback's frame is no loop, flush or destroy call. *)
LEMMA CallPushed ==
  ASSUME NEW s \in Seq(Frame), NEW t \in Kinds, NEW D, NEW n, FlushesOK(s, D, n),
         NEW s0, NoNewDestroy(s, s0)
  PROVE  LET a == Append(s, CallFrame(t)) IN
         /\ a \in Seq(Frame) /\ Cardinality(Loops(a)) = Cardinality(Loops(s))
         /\ FlushesOK(a, D, n) /\ NoNewDestroy(a, s0)
<1> DEFINE f == CallFrame(t)
           a == Append(s, f)
<1>1. f \in Frame /\ f.t \notin {"drain", "flush", "destroy"}
  BY CallFrameIs, Zenon DEF Kinds
<1> HIDE DEF f
<1>2. /\ a \in Seq(Frame) /\ Len(a) = Len(s) + 1 /\ a[Len(s) + 1] = f
      /\ \A i \in DOMAIN s : i \in DOMAIN a /\ a[i] = s[i]
      /\ \A i \in DOMAIN a : i \in DOMAIN s \/ i = Len(s) + 1
      /\ Cardinality(Loops(a)) = Cardinality(Loops(s))
  BY <1>1, Pushed, Zenon
<1> HIDE DEF a
<1>3. \A i \in DOMAIN a : a[i].t \in {"flush", "destroy"} => i \in DOMAIN s /\ a[i] = s[i]
  BY <1>1, <1>2, Zenon
<1>4. FlushesOK(a, D, n)
  BY <1>3, Zenon DEF FlushesOK
<1>5. NoNewDestroy(a, s0)
  BY <1>3, Zenon DEF NoNewDestroy
<1> QED BY <1>2, <1>4, <1>5, Zenon DEF a, f

(* What every step of a loop, a flush or a callback leaves alone. *)
LEMMA EngineStepOK ==
  ASSUME WInv, UNCHANGED <<deferred_sequence, queues, usable, now>>,
         pending' \subseteq Works, sched' \subseteq Tasklets,
         ListOK(deferred', deferred_sequence),
         Elements(deferred') \subseteq Elements(deferred),
         MarksOK(Elements(deferred'), pending', sched'),
         active' \in Seq(Works), NoReentry', poisoned' \in [1..MaxCtx -> BOOLEAN],
         stack' \in Seq(Frame), NoNewDestroy(stack', stack),
         depth' = Cardinality(Loops(stack')), depth' <= MaxDepth,
         FlushesOK(stack', Elements(deferred'), deferred_sequence), MaxDepth \in Nat
  PROVE  WInv'
<1>1. depth' \in 0..MaxDepth
  BY LoopsFinite
<1>2. TypeOK'
  BY <1>1, Zenon DEF WInv, TypeOK, ListOK, queues
<1>3. ASSUME ~NestedWqOps
      PROVE QueuesOK(workqueues', life', stack') /\ GoneEmpty(Elements(deferred'), life')
  BY <1>3, QueuesKept, Zenon DEF WInv, queues, GoneEmpty
<1> QED BY <1>2, <1>3, Zenon DEF WInv

(* The facts about the state that the lemmas below use. *)
LEMMA WInvFacts ==
  ASSUME Bounds, WInv
  PROVE  /\ ListOK(deferred, deferred_sequence) /\ deferred_sequence \in Nat
         /\ MarksOK(Elements(deferred), pending, sched)
         /\ pending \subseteq Works /\ sched \subseteq Tasklets
         /\ active \in Seq(Works) /\ NoReentry /\ poisoned \in [1..MaxCtx -> BOOLEAN]
         /\ stack \in Seq(Frame) /\ depth = Cardinality(Loops(stack))
         /\ depth \in Nat /\ depth <= MaxDepth /\ MaxDepth \in Nat
         /\ FlushesOK(stack, Elements(deferred), deferred_sequence)
         /\ \A e \in Elements(deferred) : e.seq \in Nat
         /\ DOMAIN deferred \subseteq Nat /\ DOMAIN stack \subseteq Nat
<1>1. TypeOK /\ ListOK(deferred, deferred_sequence)
  BY Zenon DEF WInv
<1>2. \A e \in Elements(deferred) : e.seq \in Nat
  BY <1>1 DEF ListOK, Elements
<1>3. /\ deferred_sequence \in Nat /\ depth \in Nat /\ depth <= MaxDepth /\ MaxDepth \in Nat
      /\ DOMAIN deferred \subseteq Nat /\ DOMAIN stack \subseteq Nat
  BY <1>1 DEF TypeOK, Bounds
<1> QED BY <1>1, <1>2, <1>3, Zenon DEF WInv, TypeOK

(* run_work *)
LEMMA RunWorkOK ==
  ASSUME Bounds, WInv, NEW i \in DOMAIN deferred, deferred[i].kind = "work", NEW out,
         NEW below \in Seq(Frame), NEW broken \in Seq(Frame),
         RunWork(i, out, below, broken),
         UNCHANGED <<deferred_sequence, sched, queues, usable, now>>,
         NoNewDestroy(below, stack), NoNewDestroy(broken, stack),
         FlushesOK(below, Elements(deferred) \ {deferred[i]}, deferred_sequence),
         FlushesOK(broken, Elements(deferred), deferred_sequence),
         depth' <= MaxDepth,
         depth' = Cardinality(Loops(IF out \in {"retry", "poison"} THEN broken ELSE below))
  PROVE  WInv'
<1> DEFINE item == deferred[i]
           w == item.object
           D == Elements(deferred)
<1>1. /\ ListOK(deferred, deferred_sequence) /\ deferred_sequence \in Nat
      /\ MarksOK(D, pending, sched)
      /\ pending \subseteq Works /\ sched \subseteq Tasklets
      /\ active \in Seq(Works) /\ NoReentry /\ poisoned \in [1..MaxCtx -> BOOLEAN]
      /\ MaxDepth \in Nat
  BY WInvFacts, Zenon
<1>2. w \in Works /\ item \in D
  BY <1>1 DEF ListOK, Elements
<1>3. ListOK(RemoveAt(deferred, i), deferred_sequence)
      /\ Elements(RemoveAt(deferred, i)) = D \ {item}
  BY <1>1, Removed, Zenon
<1>4. MarksOK(D \ {item}, pending \ {w}, sched)
  BY <1>1, Zenon DEF MarksOK
<1>5. CASE /\ out \in {"retry", "poison"}
           /\ deferred' = Prepend(item, RemoveAt(deferred, i))
           /\ poisoned' = IF out = "poison"
                          THEN [poisoned EXCEPT ![Len(active) + 1] = TRUE]
                          ELSE poisoned
           /\ stack' = broken
           /\ UNCHANGED <<pending, active>>
  <2>1. ListOK(deferred', deferred_sequence) /\ Elements(deferred') = D
    BY <1>1, <1>5, PutBack, Zenon
  <2>2. poisoned' \in [1..MaxCtx -> BOOLEAN]
    BY <1>1, <1>5, Zenon
  <2>3. NoReentry'
    BY <1>1, <1>5 DEF NoReentry
  <2> HIDE DEF D, item
  <2> QED BY <1>1, <1>5, <2>1, <2>2, <2>3, EngineStepOK, Zenon DEF D
<1>6. CASE /\ out = "quiet"
           /\ deferred' = RemoveAt(deferred, i)
           /\ pending' = pending \ {w}
           /\ stack' = below
           /\ UNCHANGED <<active, poisoned>>
  <2>1. NoReentry'
    BY <1>1, <1>6, Zenon DEF NoReentry
  <2>2. MarksOK(Elements(deferred'), pending', sched')
    BY <1>3, <1>4, <1>6, Zenon
  <2> QED BY <1>1, <1>3, <1>6, <2>1, <2>2, EngineStepOK, Zenon
<1>7. CASE /\ out = "run" /\ out \in Outcomes(w)
           /\ deferred' = RemoveAt(deferred, i)
           /\ pending' = pending \ {w}
           /\ active' = Append(active, w)
           /\ stack' = Append(below, CallFrame("work"))
           /\ UNCHANGED poisoned
  <2>1. ~WorkIsActive(w)
    BY <1>7, Zenon DEF Outcomes
  <2>2. active' \in Seq(Works) /\ NoReentry'
    BY <1>1, <1>2, <1>7, <2>1 DEF NoReentry, WorkIsActive
  <2>3. "work" \in Kinds
    BY Zenon DEF Kinds
  <2>4. /\ stack' \in Seq(Frame) /\ Cardinality(Loops(stack')) = Cardinality(Loops(below))
        /\ FlushesOK(stack', D \ {item}, deferred_sequence) /\ NoNewDestroy(stack', stack)
    BY <1>7, <2>3, CallPushed
  <2>5. MarksOK(Elements(deferred'), pending', sched')
    BY <1>3, <1>4, <1>7, Zenon
  <2> QED BY <1>1, <1>3, <1>7, <2>2, <2>4, <2>5, EngineStepOK, Zenon
<1> QED BY <1>5, <1>6, <1>7, Zenon DEF RunWork

LEMMA FlushesFewer ==
  ASSUME NEW s \in Seq(Frame), NEW n \in Nat, NEW D, NEW D2 \in SUBSET D,
         FlushesOK(s, D, n), \A e \in D : e.seq \in Nat
  PROVE  FlushesOK(s, D2, n)
<1>1. Came(D2, D, n)
  BY Zenon DEF Came, Same
<1> SUFFICES ASSUME NEW i \in DOMAIN s, s[i].t = "flush" PROVE FlushOK(s[i], D2, n)
  BY Zenon DEF FlushesOK
<1>2. s[i] \in Frame /\ FlushOK(s[i], D, n)
  BY DEF FlushesOK
<1> QED BY <1>1, <1>2, FlushKept

(* A loop on top of the stack that has taken an item, other than a flush,   *)
(* and one that ends.                                                       *)
LEMMA LoopCounted ==
  ASSUME Bounds, WInv, stack # <<>>, Top.t # "flush", NEW D \in SUBSET Elements(deferred)
  PROVE  /\ Counted \in Seq(Frame) /\ NoNewDestroy(Counted, stack)
         /\ Cardinality(Loops(Counted)) = depth
         /\ FlushesOK(Counted, D, deferred_sequence)
<1>1. /\ stack \in Seq(Frame) /\ deferred_sequence \in Nat /\ depth = Cardinality(Loops(stack))
      /\ FlushesOK(stack, D, deferred_sequence)
  BY WInvFacts, FlushesFewer
<1>2. Len(stack) \in DOMAIN stack /\ Top \in Frame
  BY <1>1 DEF Top
<1>3. /\ Counted \in Seq(Frame) /\ DOMAIN Counted = DOMAIN stack
      /\ \A i \in DOMAIN stack : i # Len(stack) => Counted[i] = stack[i]
      /\ Counted[Len(stack)] = [Top EXCEPT !.n = Top.n + 1]
      /\ Cardinality(Loops(Counted)) = Cardinality(Loops(stack))
  BY <1>1, CountedIs
<1>4. LET f == [Top EXCEPT !.n = Top.n + 1] IN
      f.t = Top.t /\ f.wq = Top.wq /\ f.cursor = Top.cursor
  BY <1>2 DEF Frame
<1>5. Top = stack[Len(stack)]
  BY DEF Top
<1>6. NoNewDestroy(Counted, stack)
  BY <1>2, <1>3, <1>4, <1>5, Zenon DEF NoNewDestroy
<1>7. FlushesOK(Counted, D, deferred_sequence)
  BY <1>1, <1>2, <1>3, <1>4, Zenon DEF FlushesOK
<1> QED BY <1>1, <1>3, <1>6, <1>7

LEMMA LoopEnded ==
  ASSUME Bounds, WInv, stack # <<>>
  PROVE  /\ Pop(stack) \in Seq(Frame) /\ NoNewDestroy(Pop(stack), stack)
         /\ FlushesOK(Pop(stack), Elements(deferred), deferred_sequence)
         /\ Cardinality(Loops(Pop(stack))) \in Nat
         /\ depth = IF Top.t \in {"drain", "flush"} THEN Cardinality(Loops(Pop(stack))) + 1
                                                    ELSE Cardinality(Loops(Pop(stack)))
<1>1. /\ stack \in Seq(Frame) /\ depth = Cardinality(Loops(stack))
      /\ FlushesOK(stack, Elements(deferred), deferred_sequence)
  BY WInvFacts, Zenon
<1>2. /\ Pop(stack) \in Seq(Frame)
      /\ \A i \in DOMAIN Pop(stack) : i \in DOMAIN stack /\ Pop(stack)[i] = stack[i]
      /\ Cardinality(Loops(stack)) =
           IF stack[Len(stack)].t \in {"drain", "flush"}
           THEN Cardinality(Loops(Pop(stack))) + 1 ELSE Cardinality(Loops(Pop(stack)))
  BY <1>1, Popped, Zenon
<1>3. NoNewDestroy(Pop(stack), stack)
  BY <1>2, Zenon DEF NoNewDestroy
<1>4. FlushesOK(Pop(stack), Elements(deferred), deferred_sequence)
  BY <1>1, <1>2, Zenon DEF FlushesOK
<1>5. Cardinality(Loops(Pop(stack))) \in Nat
  BY <1>2, LoopsFinite, Zenon
<1> QED BY <1>1, <1>2, <1>3, <1>4, <1>5 DEF Top

LEMMA DrainStepOK ==
  ASSUME Bounds, WInv, NEW out \in Anything, NEW called \in BOOLEAN, DrainStep(out, called)
  PROVE  WInv'
<1> DEFINE I == Due(Top.all)
           i == First(I)
           D == Elements(deferred)
<1>1. stack # <<>> /\ Top.t = "drain" /\ I # {}
  BY Zenon DEF DrainStep, Looping
<1>2. i \in I /\ I \subseteq DOMAIN deferred
  BY <1>1, WInvFacts, FirstIn, Zenon DEF Due
<1>3. i \in DOMAIN deferred /\ deferred[i] \in D /\ deferred[i].kind \in Kinds
  <2>1. deferred \in Seq(Item)
    BY WInvFacts, Zenon DEF ListOK
  <2> HIDE DEF i
  <2>2. i \in DOMAIN deferred
    BY <1>2, Zenon
  <2>3. deferred[i] \in Item
    BY <2>1, <2>2
  <2> QED BY <2>2, <2>3, Zenon DEF Elements, Item
<1>4. /\ Counted \in Seq(Frame) /\ NoNewDestroy(Counted, stack)
      /\ Cardinality(Loops(Counted)) = depth
      /\ FlushesOK(Counted, D \ {deferred[i]}, deferred_sequence)
  BY <1>1, LoopCounted, Zenon
<1>5. /\ Pop(stack) \in Seq(Frame) /\ NoNewDestroy(Pop(stack), stack)
      /\ FlushesOK(Pop(stack), D, deferred_sequence)
      /\ Cardinality(Loops(Pop(stack))) \in Nat
      /\ depth = Cardinality(Loops(Pop(stack))) + 1
  BY <1>1, LoopEnded, Zenon
<1>6. UNCHANGED <<deferred_sequence, queues, usable, now>>
  BY Zenon DEF DrainStep
<1>7. depth \in Nat /\ depth <= MaxDepth /\ MaxDepth \in Nat
  BY WInvFacts, Zenon
<1>8. CASE deferred[i].kind = "work"
  <2>1. RunWork(i, out, Counted, Pop(stack)) /\ depth' = DepthAfter(out) /\ UNCHANGED sched
    BY <1>8, Zenon DEF DrainStep
  <2> HIDE DEF i, D
  <2>2. /\ depth' = Cardinality(Loops(IF out \in {"retry", "poison"} THEN Pop(stack)
                                                                     ELSE Counted))
        /\ depth' <= MaxDepth
    BY <1>4, <1>5, <1>7, <2>1 DEF DepthAfter
  <2> QED BY <1>3, <1>4, <1>5, <1>6, <1>8, <2>1, <2>2, RunWorkOK, Zenon DEF D
<1>9. CASE deferred[i].kind # "work"
  <2>1. RunCallback(i, called)
    BY <1>9, Zenon DEF DrainStep
  <2> HIDE DEF i
  <2>2. ListOK(deferred', deferred_sequence) /\ Elements(deferred') = D \ {deferred[i]}
    BY <1>3, <2>1, WInvFacts, Removed, Zenon DEF RunCallback
  <2>3. /\ UNCHANGED <<pending, active, poisoned, depth>>
        /\ sched' = IF deferred[i].kind = "tasklet" THEN sched \ {deferred[i].object}
                                                    ELSE sched
        /\ stack' = IF called THEN Append(Counted, CallFrame(deferred[i].kind)) ELSE Counted
    BY <2>1, Zenon DEF RunCallback
  <2>4. /\ stack' \in Seq(Frame) /\ NoNewDestroy(stack', stack)
        /\ Cardinality(Loops(stack')) = depth
        /\ FlushesOK(stack', Elements(deferred'), deferred_sequence)
    <3>1. CASE called
      BY <1>3, <1>4, <2>2, <2>3, <3>1, CallPushed, Zenon
    <3>2. CASE ~called
      BY <1>4, <2>2, <2>3, <3>2, Zenon
    <3> QED BY <3>1, <3>2, Zenon
  <2>5. \A e \in D : e.kind = deferred[i].kind /\ e.object = deferred[i].object => e = deferred[i]
    BY <1>3, WInvFacts, Zenon DEF ListOK, Elements
  <2>6. MarksOK(Elements(deferred'), pending', sched')
    <3>1. MarksOK(D, pending, sched)
      BY WInvFacts, Zenon
    <3>2. \A e \in D \ {deferred[i]} : e.kind = "tasklet" /\ e.object \in Tasklets
                                       => e.object \in sched'
      BY <2>3, <2>5, <3>1, Zenon DEF MarksOK
    <3>3. \A w \in pending : \E e \in D \ {deferred[i]} : e.kind = "work" /\ e.object = w
      BY <1>9, <3>1, Zenon DEF MarksOK
    <3> QED BY <2>2, <2>3, <3>2, <3>3 DEF MarksOK
  <2>7. pending' \subseteq Works /\ sched' \subseteq Tasklets /\ active' \in Seq(Works)
        /\ NoReentry' /\ poisoned' \in [1..MaxCtx -> BOOLEAN]
    BY <2>3, WInvFacts, Zenon DEF NoReentry
  <2>8. Elements(deferred') \subseteq Elements(deferred)
    BY <2>2, Zenon
  <2> QED BY <1>6, <1>7, <2>2, <2>3, <2>4, <2>6, <2>7, <2>8, EngineStepOK, Zenon
<1> QED BY <1>8, <1>9, Zenon

LEMMA FlushStepOK ==
  ASSUME Bounds, WInv, NEW out \in Anything, FlushStep(out)
  PROVE  WInv'
<1> DEFINE I == Batch(Top.wq, Top.through)
           i == First(I)
           D == Elements(deferred)
           e == deferred[i]
<1>1. stack # <<>> /\ Top.t = "flush" /\ I # {}
  BY Zenon DEF FlushStep, Looping
<1>2. i \in I /\ I \subseteq DOMAIN deferred
  BY <1>1, WInvFacts, FirstIn, Zenon DEF Batch, OnQueue
<1>3. i \in DOMAIN deferred /\ e.kind = "work" /\ e.wq = Top.wq /\ e.seq <= Top.through
  BY <1>2, Zenon DEF Batch, OnQueue
<1>4. /\ RunWork(i, out, Counted, Pop(stack)) /\ depth' = DepthAfter(out)
      /\ UNCHANGED <<deferred_sequence, sched, queues, usable, now>>
  BY Zenon DEF FlushStep
<1> HIDE DEF i
<1>5. /\ stack \in Seq(Frame) /\ deferred_sequence \in Nat /\ depth = Cardinality(Loops(stack))
      /\ FlushesOK(stack, D, deferred_sequence) /\ depth <= MaxDepth /\ MaxDepth \in Nat
  BY WInvFacts, Zenon
<1>6. e \in D /\ e.seq \in 1..deferred_sequence /\ \A g \in D : g.seq = e.seq => g = e
  BY <1>3, WInvFacts, Zenon DEF Elements, ListOK
<1>7. Len(stack) \in DOMAIN stack /\ Top \in Frame /\ Top = stack[Len(stack)]
  BY <1>1, <1>5 DEF Top
<1> DEFINE f == [Top EXCEPT !.n = Top.n + 1]
<1>8. FlushOK(f, D \ {e}, deferred_sequence)
  <2>1. FlushOK(Top, D, deferred_sequence)
    BY <1>1, <1>5, <1>7, Zenon DEF FlushesOK
  <2> HIDE DEF D, e, f
  <2> QED BY <1>3, <1>5, <1>6, <1>7, <2>1, FlushTakes, Zenon DEF f
<1>9. /\ Counted \in Seq(Frame) /\ DOMAIN Counted = DOMAIN stack
      /\ \A j \in DOMAIN stack : j # Len(stack) => Counted[j] = stack[j]
      /\ Counted[Len(stack)] = f
      /\ Cardinality(Loops(Counted)) = Cardinality(Loops(stack))
  BY <1>1, <1>5, CountedIs, Zenon
<1>10. FlushesOK(Counted, D \ {e}, deferred_sequence)
  <2>1. FlushesOK(stack, D \ {e}, deferred_sequence)
    BY <1>5, WInvFacts, FlushesFewer
  <2> QED BY <1>8, <1>9, <2>1, Zenon DEF FlushesOK
<1>11. NoNewDestroy(Counted, stack)
  <2>1. f.t = "flush"
    BY <1>1, <1>7 DEF Frame
  <2> QED BY <1>9, <2>1, Zenon DEF NoNewDestroy
<1>12. /\ Pop(stack) \in Seq(Frame) /\ NoNewDestroy(Pop(stack), stack)
       /\ FlushesOK(Pop(stack), D, deferred_sequence)
       /\ Cardinality(Loops(Pop(stack))) \in Nat
       /\ depth = Cardinality(Loops(Pop(stack))) + 1
  BY <1>1, LoopEnded
<1> HIDE DEF D, e, f
<1>13. /\ depth' = Cardinality(Loops(IF out \in {"retry", "poison"} THEN Pop(stack)
                                                                    ELSE Counted))
       /\ depth' <= MaxDepth
  BY <1>4, <1>5, <1>9, <1>12 DEF DepthAfter
<1> QED BY <1>3, <1>4, <1>9, <1>10, <1>11, <1>12, <1>13, RunWorkOK, Zenon DEF D, e

LEMMA FlushWorkOK ==
  ASSUME Bounds, WInv, NEW w \in Works, NEW require_due \in BOOLEAN, NEW out \in Anything,
         FlushWork(w, require_due, out)
  PROVE  WInv'
<1> DEFINE I == {i \in Where(deferred, "work", w) : require_due => deferred[i].due <= now}
           i == First(I)
           D == Elements(deferred)
<1>1. /\ I # {} /\ RunWork(i, out, stack, stack)
      /\ UNCHANGED <<deferred_sequence, sched, queues, depth, usable, now>>
  BY Zenon DEF FlushWork
<1>2. i \in I /\ I \subseteq DOMAIN deferred
  BY <1>1, WInvFacts, FirstIn, Zenon DEF Where
<1>3. i \in DOMAIN deferred /\ deferred[i].kind = "work"
  BY <1>2, Zenon DEF Where
<1> HIDE DEF i
<1>4. /\ stack \in Seq(Frame) /\ deferred_sequence \in Nat /\ depth = Cardinality(Loops(stack))
      /\ FlushesOK(stack, D, deferred_sequence) /\ depth <= MaxDepth
  BY WInvFacts, Zenon
<1>5. NoNewDestroy(stack, stack)
  BY Zenon DEF NoNewDestroy
<1>6. FlushesOK(stack, D \ {deferred[i]}, deferred_sequence)
  BY <1>4, WInvFacts, FlushesFewer, Zenon
<1> QED BY <1>1, <1>3, <1>4, <1>5, <1>6, RunWorkOK, Zenon

(* The loops and calls that begin and end. *)
LEMMA StackStep ==
  ASSUME Bounds, WInv, UNCHANGED <<lists, queues, usable, now>>,
         active' \in Seq(Works), NoReentry', poisoned' \in [1..MaxCtx -> BOOLEAN],
         stack' \in Seq(Frame), NoNewDestroy(stack', stack),
         depth' = Cardinality(Loops(stack')), depth' <= MaxDepth,
         FlushesOK(stack', Elements(deferred), deferred_sequence)
  PROVE  WInv'
BY WInvFacts, EngineStepOK, Zenon DEF lists

LEMMA LoopBegun ==
  ASSUME Bounds, WInv, depth < MaxDepth, NEW f \in Frame, f.t \in {"drain", "flush"},
         f.t = "flush" => FlushOK(f, Elements(deferred), deferred_sequence)
  PROVE  /\ Append(stack, f) \in Seq(Frame) /\ NoNewDestroy(Append(stack, f), stack)
         /\ Cardinality(Loops(Append(stack, f))) = depth + 1
         /\ FlushesOK(Append(stack, f), Elements(deferred), deferred_sequence)
<1> DEFINE a == Append(stack, f)
<1>1. /\ stack \in Seq(Frame) /\ depth = Cardinality(Loops(stack))
      /\ FlushesOK(stack, Elements(deferred), deferred_sequence)
  BY WInvFacts, Zenon
<1>2. /\ a \in Seq(Frame) /\ Len(a) = Len(stack) + 1 /\ a[Len(stack) + 1] = f
      /\ \A i \in DOMAIN a : i \in DOMAIN stack \/ i = Len(stack) + 1
      /\ \A i \in DOMAIN stack : i \in DOMAIN a /\ a[i] = stack[i]
      /\ Cardinality(Loops(a)) = Cardinality(Loops(stack)) + 1
  BY <1>1, Pushed, Zenon
<1> HIDE DEF a
<1>3. NoNewDestroy(a, stack)
  BY <1>2, Zenon DEF NoNewDestroy
<1>4. FlushesOK(a, Elements(deferred), deferred_sequence)
  BY <1>1, <1>2 DEF FlushesOK
<1> QED BY <1>1, <1>2, <1>3, <1>4, Zenon DEF a

LEMMA LoopsOK ==
  ASSUME Bounds, WInv,
         \/ \E all \in BOOLEAN : RunDeferred(all)
         \/ \E wq \in Queues \union {NoQueue} : FlushWorkqueue(wq)
         \/ DrainEnd
         \/ FlushEnd
         \/ \E dirty \in BOOLEAN : Return(dirty)
  PROVE  WInv'
<1>1. depth \in Nat /\ depth <= MaxDepth /\ MaxDepth \in Nat /\ active \in Seq(Works)
      /\ NoReentry /\ poisoned \in [1..MaxCtx -> BOOLEAN]
  BY WInvFacts
<1>2. UNCHANGED active => NoReentry'
  BY <1>1 DEF NoReentry
<1>3. ASSUME NEW all \in BOOLEAN, RunDeferred(all) PROVE WInv'
  <2> DEFINE f == [CallFrame("drain") EXCEPT !.all = all]
  <2>1. f \in Frame /\ f.t = "drain"
    BY DEF CallFrame, Frame
  <2>2. /\ depth < MaxDepth /\ depth' = depth + 1 /\ stack' = Append(stack, f)
        /\ UNCHANGED <<lists, queues, active, poisoned, usable, now>>
    BY <1>3, Zenon DEF RunDeferred
  <2> HIDE DEF f
  <2> QED BY <1>1, <1>2, <2>1, <2>2, LoopBegun, StackStep
<1>4. ASSUME NEW wq \in Queues \union {NoQueue}, FlushWorkqueue(wq) PROVE WInv'
  <2>1. /\ FlushFrame(wq) \in Frame /\ FlushFrame(wq).t = "flush"
        /\ FlushOK(FlushFrame(wq), Elements(deferred), deferred_sequence)
    BY FlushBegins DEF WInv
  <2>2. /\ depth < MaxDepth /\ depth' = depth + 1 /\ stack' = Append(stack, FlushFrame(wq))
        /\ UNCHANGED <<lists, queues, active, poisoned, usable, now>>
    BY <1>4 DEF FlushWorkqueue
  <2> QED BY <1>1, <1>2, <2>1, <2>2, LoopBegun, StackStep
<1>5. CASE DrainEnd \/ FlushEnd
  <2>1. /\ stack # <<>> /\ Top.t \in {"drain", "flush"}
        /\ depth' = depth - 1 /\ stack' = Pop(stack)
        /\ UNCHANGED <<lists, queues, active, poisoned, usable, now>>
    BY <1>5 DEF DrainEnd, FlushEnd, Looping
  <2>2. /\ Pop(stack) \in Seq(Frame) /\ NoNewDestroy(Pop(stack), stack)
        /\ FlushesOK(Pop(stack), Elements(deferred), deferred_sequence)
        /\ Cardinality(Loops(Pop(stack))) \in Nat
        /\ depth = Cardinality(Loops(Pop(stack))) + 1
    BY <2>1, LoopEnded
  <2> QED BY <1>1, <1>2, <2>1, <2>2, StackStep
<1>6. ASSUME NEW dirty \in BOOLEAN, Return(dirty) PROVE WInv'
  <2>1. /\ stack # <<>> /\ Top.t \in Kinds /\ stack' = Pop(stack)
        /\ active' = IF Top.t = "work" THEN Pop(active) ELSE active
        /\ poisoned' = IF dirty THEN [poisoned EXCEPT ![Len(active)] = TRUE] ELSE poisoned
        /\ UNCHANGED <<lists, queues, depth, usable, now>>
    BY <1>6 DEF Return
  <2>2. Top.t \notin {"drain", "flush"}
    BY <2>1 DEF Kinds
  <2>3. /\ Pop(stack) \in Seq(Frame) /\ NoNewDestroy(Pop(stack), stack)
        /\ FlushesOK(Pop(stack), Elements(deferred), deferred_sequence)
        /\ depth = Cardinality(Loops(Pop(stack)))
    BY <2>1, <2>2, LoopEnded
  <2>4. Pop(active) \in Seq(Works) /\ DOMAIN Pop(active) \subseteq DOMAIN active
        /\ \A i \in DOMAIN Pop(active) : Pop(active)[i] = active[i]
    BY <1>1 DEF Pop
  <2>5. active' \in Seq(Works) /\ NoReentry'
    BY <1>1, <1>2, <2>1, <2>4 DEF NoReentry
  <2>6. poisoned' \in [1..MaxCtx -> BOOLEAN]
    BY <1>1, <2>1, Zenon
  <2> QED BY <1>1, <2>1, <2>3, <2>5, <2>6, StackStep, Zenon
<1> QED BY <1>3, <1>4, <1>5, <1>6, Zenon

-----------------------------------------------------------------------------
(* The workqueues.                                                          *)

(* What a call that changes the workqueues leaves alone. *)
LEMMA QueueStep ==
  ASSUME Bounds, WInv, UNCHANGED <<lists, active, poisoned, usable, now>>,
         workqueues' \in Seq(Queues), destroying' \subseteq Queues,
         life' \in [Queues -> {"new", "open", "closing", "kept", "gone"}],
         stack' \in Seq(Frame), depth' = Cardinality(Loops(stack')), depth' <= MaxDepth,
         FlushesOK(stack', Elements(deferred), deferred_sequence),
         ~NestedWqOps => /\ QueuesOK(workqueues', life', stack')
                         /\ GoneEmpty(Elements(deferred), life')
  PROVE  WInv'
<1>1. depth' \in 0..MaxDepth
  BY LoopsFinite DEF Bounds
<1>2. TypeOK'
  BY <1>1 DEF WInv, TypeOK, lists
<1>3. NoReentry'
  BY DEF WInv, NoReentry
<1> QED BY <1>2, <1>3 DEF WInv, lists

LEMMA ItemQueue ==
  ASSUME WInv
  PROVE  \A e \in Elements(deferred) :
           e.wq \in Queues \union {NoQueue} /\ (e.wq # NoQueue => e.kind = "work")
<1>1. ListOK(deferred, deferred_sequence)
  BY Zenon DEF WInv
<1>2. \A i \in DOMAIN deferred : deferred[i] \in Item
  BY <1>1 DEF ListOK
<1>3. \A e \in Elements(deferred) : e \in Item /\ (e.wq # NoQueue => e.kind = "work")
  BY <1>1, <1>2, Zenon DEF ListOK, Elements
<1> QED BY <1>3, Zenon DEF Item

LEMMA AllocOK ==
  ASSUME Bounds, WInv, NEW wq \in Queues, AllocWorkqueue(wq)
  PROVE  WInv'
<1> DEFINE l == workqueues
           p == Prepend(wq, l)
<1>1. /\ l \in Seq(Queues) /\ destroying \subseteq Queues /\ depth <= MaxDepth
      /\ life \in [Queues -> {"new", "open", "closing", "kept", "gone"}]
      /\ stack \in Seq(Frame) /\ depth = Cardinality(Loops(stack))
      /\ FlushesOK(stack, Elements(deferred), deferred_sequence)
  BY WInvFacts DEF WInv, TypeOK
<1>2. /\ life[wq] = "new" /\ life' = [life EXCEPT ![wq] = "open"] /\ workqueues' = p
      /\ UNCHANGED <<lists, destroying, running, usable, now>> /\ (InDestroy => NestedWqOps)
  BY DEF AllocWorkqueue
<1>3. p \in Seq(Queues) /\ Len(p) = Len(l) + 1 /\ p[1] = wq
  BY <1>1 DEF Prepend
<1>4. ASSUME NEW j \in DOMAIN p PROVE j = 1 \/ (j - 1 \in DOMAIN l /\ p[j] = l[j - 1])
  BY <1>1, <1>3 DEF Prepend
<1>5. ASSUME NEW j \in DOMAIN l PROVE j + 1 \in DOMAIN p /\ p[j + 1] = l[j]
  BY <1>1, <1>3 DEF Prepend
<1>6. DOMAIN p \subseteq Nat /\ DOMAIN l \subseteq Nat /\ 1 \in DOMAIN p
  BY <1>1, <1>3
<1> HIDE DEF p
<1>7. life' \in [Queues -> {"new", "open", "closing", "kept", "gone"}]
  BY <1>1, <1>2
<1>8. ASSUME ~NestedWqOps
      PROVE  QueuesOK(p, life', stack') /\ GoneEmpty(Elements(deferred), life')
  <2>1. QueuesOK(l, life, stack) /\ GoneEmpty(Elements(deferred), life)
    BY <1>8 DEF WInv
  <2>2. \A i \in DOMAIN stack : stack[i].t # "destroy"
    BY <1>2, <1>8, Zenon DEF InDestroy
  <2>3. \A i \in DOMAIN l : l[i] \in Queues /\ l[i] # wq
    BY <1>1, <1>2, <2>1 DEF QueuesOK
  <2>4. ASSUME NEW i \in DOMAIN p, NEW j \in DOMAIN p, p[i] = p[j] PROVE i = j
    <3>1. CASE i = 1 \/ j = 1
      BY <1>3, <1>4, <2>3, <2>4, <3>1, Zenon
    <3>2. CASE i # 1 /\ j # 1
      <4>1. i - 1 \in DOMAIN l /\ j - 1 \in DOMAIN l /\ l[i - 1] = l[j - 1]
        BY <1>4, <2>4, <3>2, Zenon
      <4>2. i - 1 = j - 1
        BY <2>1, <4>1, Zenon DEF QueuesOK
      <4> QED BY <1>6, <4>2
    <3> QED BY <3>1, <3>2
  <2>5. \A i \in DOMAIN p : life'[p[i]] # "new"
    BY <1>1, <1>2, <1>3, <1>4, <2>1, <2>3, Zenon DEF QueuesOK
  <2>6. \A q \in Queues : life'[q] \in {"open", "closing"} => q \in Elements(p)
    <3>1. wq \in Elements(p)
      BY <1>3, <1>6 DEF Elements
    <3>2. Elements(l) \subseteq Elements(p)
      BY <1>5, Zenon DEF Elements
    <3> QED BY <1>1, <1>2, <2>1, <3>1, <3>2, Zenon DEF QueuesOK
  <2>7. QueuesOK(p, life', stack')
    BY <1>2, <2>2, <2>4, <2>5, <2>6, Zenon DEF QueuesOK, running
  <2>8. GoneEmpty(Elements(deferred), life')
    <3> QED BY <1>1, <1>2, <2>1, ItemQueue DEF GoneEmpty
  <2> QED BY <2>7, <2>8
<1> QED BY <1>1, <1>2, <1>3, <1>7, <1>8, QueueStep, Zenon DEF running

(* The record of a workqueue is found in the list. *)
LEMMA PlaceIs ==
  ASSUME workqueues \in Seq(Queues), NEW wq \in Elements(workqueues)
  PROVE  Place(wq) \in DOMAIN workqueues /\ workqueues[Place(wq)] = wq
BY DEF Elements, Place

LEMMA PushKeeps ==
  ASSUME NEW s \in Seq(Frame), NEW f \in Frame, NEW D, NEW n, FlushesOK(s, D, n),
         f.t = "flush" => FlushOK(f, D, n)
  PROVE  FlushesOK(Append(s, f), D, n)
<1> DEFINE a == Append(s, f)
<1>1. /\ a[Len(s) + 1] = f
      /\ \A i \in DOMAIN s : a[i] = s[i]
      /\ \A i \in DOMAIN a : i \in DOMAIN s \/ i = Len(s) + 1
  BY Pushed, Zenon
<1> HIDE DEF a
<1>2. FlushesOK(a, D, n)
  BY <1>1 DEF FlushesOK
<1> QED BY <1>2, Zenon DEF a

LEMMA DestroyOK ==
  ASSUME Bounds, WInv, NEW wq \in Queues, DestroyWorkqueue(wq)
  PROVE  WInv'
<1> DEFINE l == workqueues
           D == Elements(deferred)
           n == deferred_sequence
           before == IF Place(wq) = 1 THEN NoQueue ELSE l[Place(wq) - 1]
           df == [CallFrame("destroy") EXCEPT !.wq = wq, !.cursor = before]
           called == Append(stack, df)
           ff == FlushFrame(wq)
<1>1. /\ l \in Seq(Queues) /\ destroying \subseteq Queues
      /\ depth \in Nat /\ depth <= MaxDepth /\ MaxDepth \in Nat
      /\ life \in [Queues -> {"new", "open", "closing", "kept", "gone"}]
      /\ stack \in Seq(Frame) /\ depth = Cardinality(Loops(stack))
      /\ FlushesOK(stack, D, n)
  BY WInvFacts DEF WInv, TypeOK
<1>2. /\ life[wq] = "open" /\ (InDestroy => NestedWqOps)
      /\ UNCHANGED <<lists, workqueues, active, poisoned, usable, now>>
  BY DEF DestroyWorkqueue
<1>3. CASE wq \notin Elements(l)
  <2>1. life' = [life EXCEPT ![wq] = "gone"] /\ UNCHANGED <<destroying, stack, depth>>
    BY <1>3, Zenon DEF DestroyWorkqueue
  <2>2. NestedWqOps
    BY <1>2, <1>3, Zenon DEF WInv, QueuesOK
  <2>3. life' \in [Queues -> {"new", "open", "closing", "kept", "gone"}]
    BY <1>1, <2>1, Zenon
  <2> QED BY <1>1, <1>2, <2>1, <2>2, <2>3, QueueStep, Zenon
<1>4. CASE wq \in Elements(l)
  <2>1. /\ life' = [life EXCEPT ![wq] = "closing"] /\ destroying' = destroying \union {wq}
        /\ \/ depth < MaxDepth /\ stack' = Append(called, ff) /\ depth' = depth + 1
           \/ stack' = called /\ UNCHANGED depth
    BY <1>4 DEF DestroyWorkqueue
  <2>2. Place(wq) \in DOMAIN l /\ l[Place(wq)] = wq
    BY <1>1, <1>4, PlaceIs
  <2>3. before \in Queues \union {NoQueue}
    BY <1>1, <2>2
  <2>4. /\ df \in Frame /\ df.t = "destroy" /\ df.wq = wq /\ df.cursor = before
        /\ df.t \notin {"drain", "flush"}
    <3> HIDE DEF before
    <3> QED BY <2>3, Zenon DEF CallFrame, Frame
  <2>5. CursorOK(l, wq, before)
    BY <2>2 DEF CursorOK
  <2> HIDE DEF df, before
  <2>6. ff \in Frame /\ ff.t = "flush" /\ FlushOK(ff, D, n)
    BY FlushBegins DEF WInv
  <2> HIDE DEF ff
  <2>7. /\ called \in Seq(Frame) /\ Len(called) = Len(stack) + 1
        /\ called[Len(stack) + 1] = df
        /\ \A i \in DOMAIN stack : i \in DOMAIN called /\ called[i] = stack[i]
        /\ \A i \in DOMAIN called : i \in DOMAIN stack \/ i = Len(stack) + 1
        /\ Cardinality(Loops(called)) = depth
    BY <1>1, <2>4, Pushed, Zenon
  <2>8. FlushesOK(called, D, n)
    BY <1>1, <2>4, PushKeeps, Zenon
  <2> HIDE DEF called
  <2>9. /\ Append(called, ff) \in Seq(Frame) /\ Append(called, ff)[Len(called) + 1] = ff
        /\ \A i \in DOMAIN called : Append(called, ff)[i] = called[i]
        /\ \A i \in DOMAIN Append(called, ff) : i \in DOMAIN called \/ i = Len(called) + 1
        /\ Cardinality(Loops(Append(called, ff))) = depth + 1
    BY <2>6, <2>7, Pushed, Zenon
  <2>10. FlushesOK(Append(called, ff), D, n)
    BY <2>6, <2>7, <2>8, PushKeeps
  <2>11. /\ stack' \in Seq(Frame) /\ FlushesOK(stack', D, n) /\ depth' <= MaxDepth
         /\ depth' = Cardinality(Loops(stack'))
    <3>1. CASE stack' = called /\ UNCHANGED depth
      BY <1>1, <2>7, <2>8, <3>1, Zenon
    <3>2. CASE depth < MaxDepth /\ stack' = Append(called, ff) /\ depth' = depth + 1
      <4>1. depth \in Nat /\ MaxDepth \in Nat
        BY <1>1, Zenon
      <4>2. depth' <= MaxDepth
        BY <3>2, <4>1
      <4> QED BY <2>9, <2>10, <3>2, <4>2, Zenon
    <3> QED BY <2>1, <3>1, <3>2, Zenon
  <2>12. NoNewDestroy(stack', called)
    <3>1. CASE stack' = called
      BY <3>1, Zenon DEF NoNewDestroy
    <3>2. CASE stack' = Append(called, ff)
      BY <2>6, <2>9, <3>2, Zenon DEF NoNewDestroy
    <3> QED BY <2>1, <3>1, <3>2, Zenon
  <2>13. ASSUME ~NestedWqOps
         PROVE  QueuesOK(l, life', stack') /\ GoneEmpty(D, life')
    <3>1. QueuesOK(l, life, stack) /\ GoneEmpty(D, life)
      BY <2>13 DEF WInv
    <3>2. \A i \in DOMAIN stack : stack[i].t # "destroy"
      BY <1>2, <2>13 DEF InDestroy
    <3>3. \A i \in DOMAIN called : called[i].t = "destroy" => i = Len(stack) + 1
      BY <2>7, <3>2
    <3>4. life'[wq] = "closing" /\ \A q \in Queues : q # wq => life'[q] = life[q]
      BY <1>1, <2>1
    <3>5. \A i \in DOMAIN l : l[i] \in Queues
      BY <1>1
    <3>6. QueuesOK(l, life', called)
      BY <1>4, <2>4, <2>5, <2>7, <3>1, <3>3, <3>4, <3>5, Zenon DEF QueuesOK
    <3>7. QueuesOK(l, life', stack')
      BY <2>12, <3>6, QueuesKept
    <3>8. GoneEmpty(D, life')
      BY <3>1, <3>4, ItemQueue DEF GoneEmpty
    <3> QED BY <3>7, <3>8
  <2>14. life' \in [Queues -> {"new", "open", "closing", "kept", "gone"}]
         /\ destroying' \subseteq Queues
    BY <1>1, <2>1
  <2> QED BY <1>1, <1>2, <2>11, <2>13, <2>14, QueueStep, Zenon
<1> QED BY <1>3, <1>4, Zenon

(* The list without the record a destroy call unlinks. *)
LEMMA UnlinkedType ==
  ASSUME workqueues \in Seq(Queues), NEW wq, NEW cursor
  PROVE  Unlinked(wq, cursor) \in Seq(Queues)
<1> DEFINE l == workqueues
           after == IF wq \in Elements(l) THEN SubSeq(l, Place(wq) + 1, Len(l)) ELSE <<>>
<1>1. after \in Seq(Queues)
  <2>1. CASE wq \in Elements(l)
    <3>1. Place(wq) \in 1..Len(l) /\ Len(l) \in Nat
      BY <2>1, PlaceIs
    <3> QED BY <2>1, <3>1
  <2>2. CASE wq \notin Elements(l)
    BY <2>2
  <2> QED BY <2>1, <2>2
<1>2. cursor \in Elements(l) => SubSeq(l, 1, Place(cursor)) \in Seq(Queues)
  BY PlaceIs
<1> HIDE DEF after
<1>3. cursor \in Elements(l) => SubSeq(l, 1, Place(cursor)) \o after \in Seq(Queues)
  BY <1>1, <1>2
<1> QED BY <1>1, <1>3 DEF Unlinked, after

LEMMA Spliced ==
  ASSUME NEW l \in Seq(Queues), NEW k \in DOMAIN l
  PROVE  LET a == SubSeq(l, 1, k - 1)
             b == SubSeq(l, k + 1, Len(l))
             n == Len(l) - 1
         IN  /\ Len(a \o b) = n /\ a \o b \in Seq(Queues)
             /\ \A j \in 1..n : (a \o b)[j] = l[IF j < k THEN j ELSE j + 1]
             /\ k = 1 => a \o b = b
<1> DEFINE n == Len(l)
           a == SubSeq(l, 1, k - 1)
           b == SubSeq(l, k + 1, n)
           r == a \o b
<1>1. n \in Nat /\ DOMAIN l = 1..n /\ k \in 1..n
  OBVIOUS
<1>2. /\ a \in Seq(Queues) /\ Len(a) = k - 1
      /\ \A j \in 1..(k - 1) : a[j] = l[j]
  BY <1>1
<1>3. /\ b \in Seq(Queues) /\ Len(b) = n - k
      /\ \A j \in 1..(n - k) : b[j] = l[k + j]
  BY <1>1
<1>4. k = 1 => a = <<>>
  BY <1>2
<1> HIDE DEF a, b, n
<1>0. n \in Nat /\ k \in 1..n /\ Len(a) = k - 1 /\ Len(b) = n - k
  BY <1>1, <1>2, <1>3, Zenon
<1>5. r \in Seq(Queues) /\ Len(r) = n - 1
  <2>1. a \o b \in Seq(Queues) /\ Len(a \o b) = Len(a) + Len(b)
    <3>1. a \in Seq(Queues) /\ b \in Seq(Queues)
      BY <1>2, <1>3
    <3> QED BY <3>1
  <2>2. Len(a) + Len(b) = n - 1
    BY <1>1, <1>2, <1>3
  <2> QED BY <2>1, <2>2
<1>6. ASSUME NEW j \in 1..(n - 1) PROVE r[j] = l[IF j < k THEN j ELSE j + 1]
  <2>1. CASE j < k
    <3>1. r[j] = a[j]
      BY <1>1, <1>2, <1>3, <2>1
    <3> QED BY <1>1, <1>2, <2>1, <3>1
  <2>2. CASE ~(j < k)
    <3>1. j \in (Len(a) + 1)..(Len(a) + Len(b)) /\ j - (k - 1) \in 1..(n - k)
      BY <1>0, <2>2
    <3>2. r[j] = b[j - Len(a)]
      <4>1. a \in Seq(Queues) /\ b \in Seq(Queues)
        BY <1>2, <1>3, Zenon
      <4>2. j \in (Len(a) + 1)..(Len(a) + Len(b))
        BY <3>1, Zenon
      <4> QED BY <4>1, <4>2
    <3>3. k + (j - (k - 1)) = j + 1
      BY <1>1
    <3> QED BY <1>2, <1>3, <2>2, <3>1, <3>2, <3>3, Zenon
  <2> QED BY <2>1, <2>2, Zenon
<1>7. k = 1 => r = b
  BY <1>3, <1>4
<1> QED BY <1>5, <1>6, <1>7, Zenon DEF a, b, n

LEMMA UnlinkedIs ==
  ASSUME Bounds, workqueues \in Seq(Queues), NEW k \in DOMAIN workqueues,
         \A i, j \in DOMAIN workqueues : workqueues[i] = workqueues[j] => i = j,
         NEW cursor, cursor = IF k = 1 THEN NoQueue ELSE workqueues[k - 1]
  PROVE  Unlinked(workqueues[k], cursor) =
           SubSeq(workqueues, 1, k - 1) \o SubSeq(workqueues, k + 1, Len(workqueues))
<1> DEFINE l == workqueues
           wq == l[k]
<1>1. Len(l) \in Nat /\ DOMAIN l = 1..Len(l) /\ k \in 1..Len(l)
  OBVIOUS
<1>2. wq \in Elements(l) /\ Place(wq) = k
  BY DEF Elements, Place
<1>3. CASE k = 1
  <2>1. Unlinked(wq, cursor) = SubSeq(l, k + 1, Len(l))
    BY <1>2, <1>3 DEF Unlinked
  <2> QED BY <1>3, <2>1, Spliced, Zenon
<1>4. CASE k # 1
  <2>1. k - 1 \in DOMAIN l /\ cursor = l[k - 1]
    BY <1>1, <1>4
  <2>2. cursor \in Queues /\ cursor # NoQueue
    BY <2>1 DEF Bounds
  <2>3. cursor \in Elements(l) /\ Place(cursor) = k - 1
    BY <2>1 DEF Elements, Place
  <2> QED BY <1>2, <2>2, <2>3, Zenon DEF Unlinked
<1> QED BY <1>3, <1>4, Zenon

LEMMA DestroyFinishOK ==
  ASSUME Bounds, WInv, DestroyFinish
  PROVE  WInv'
<1> DEFINE l == workqueues
           D == Elements(deferred)
           wq == Top.wq
           u == Unlinked(wq, Top.cursor)
<1>1. /\ l \in Seq(Queues) /\ destroying \subseteq Queues
      /\ life \in [Queues -> {"new", "open", "closing", "kept", "gone"}]
      /\ stack \in Seq(Frame) /\ depth \in Nat /\ depth <= MaxDepth
  BY WInvFacts DEF WInv, TypeOK
<1>2. /\ stack # <<>> /\ Top.t = "destroy" /\ destroying' = destroying \ {wq}
      /\ stack' = Pop(stack) /\ UNCHANGED <<lists, active, poisoned, depth, usable, now>>
      /\ \/ OnQueue(wq) # {} /\ life' = [life EXCEPT ![wq] = "kept"] /\ workqueues' = l
         \/ OnQueue(wq) = {} /\ life' = [life EXCEPT ![wq] = "gone"] /\ workqueues' = u
  BY DEF DestroyFinish, Looping
<1>3. /\ Pop(stack) \in Seq(Frame) /\ NoNewDestroy(Pop(stack), stack)
      /\ FlushesOK(Pop(stack), D, deferred_sequence) /\ depth = Cardinality(Loops(Pop(stack)))
  BY <1>2, LoopEnded
<1>4. u \in Seq(Queues)
  BY <1>1, UnlinkedType
<1>5. /\ life' \in [Queues -> {"new", "open", "closing", "kept", "gone"}]
      /\ destroying' \subseteq Queues /\ workqueues' \in Seq(Queues)
  <2> HIDE DEF wq, u
  <2> QED BY <1>1, <1>2, <1>4, Zenon
<1>6. ASSUME ~NestedWqOps
      PROVE  QueuesOK(workqueues', life', stack') /\ GoneEmpty(D, life')
  <2>1. QueuesOK(l, life, stack) /\ GoneEmpty(D, life)
    BY <1>6 DEF WInv
  <2>2. Len(stack) \in DOMAIN stack /\ Top = stack[Len(stack)]
    BY <1>1, <1>2 DEF Top
  <2>3. wq \in Queues /\ life[wq] = "closing" /\ CursorOK(l, wq, Top.cursor)
    BY <1>2, <2>1, <2>2 DEF QueuesOK
  <2>4. PICK k \in DOMAIN l : l[k] = wq /\ Top.cursor = IF k = 1 THEN NoQueue ELSE l[k - 1]
    BY <2>3, Zenon DEF CursorOK
  <2>5. \A i \in DOMAIN Pop(stack) : Pop(stack)[i].t # "destroy"
    <3>1. \A i \in DOMAIN Pop(stack) : i \in DOMAIN stack /\ Pop(stack)[i] = stack[i] /\ i # Len(stack)
      BY <1>1, <1>2, Popped
    <3> QED BY <1>2, <2>1, <2>2, <3>1, Zenon DEF QueuesOK
  <2>6. \A q \in Queues : q # wq => life'[q] = life[q]
    BY <1>1, <1>2, Zenon
  <2>7. life'[wq] \in {"kept", "gone"} /\ (life'[wq] = "gone" => OnQueue(wq) = {})
    BY <1>1, <1>2, <2>3, Zenon
  <2>8. GoneEmpty(D, life')
    <3> SUFFICES ASSUME NEW e \in D, e.wq # NoQueue PROVE life'[e.wq] # "gone"
      BY DEF GoneEmpty
    <3>1. e.wq \in Queues /\ e.kind = "work"
      BY ItemQueue, Zenon
    <3>2. CASE e.wq # wq
      BY <2>1, <2>6, <3>1, <3>2 DEF GoneEmpty
    <3>3. CASE e.wq = wq
      <4>1. OnQueue(wq) # {}
        BY <3>1, <3>3 DEF OnQueue, Elements
      <4> QED BY <2>7, <3>3, <4>1
    <3> QED BY <3>2, <3>3
  <2>9. \A i \in DOMAIN l : l[i] \in Queues
    BY <1>1
  <2>10. CASE workqueues' = l
    BY <1>2, <2>1, <2>5, <2>6, <2>7, <2>8, <2>9, <2>10, Zenon DEF QueuesOK
  <2>11. CASE workqueues' = u
    <3> DEFINE n == Len(l) - 1
    <3>1. \A i, j \in DOMAIN l : l[i] = l[j] => i = j
      BY <2>1, Zenon DEF QueuesOK
    <3>2. /\ DOMAIN u = 1..n
          /\ \A j \in 1..n : u[j] = l[IF j < k THEN j ELSE j + 1]
      <4> DEFINE r == SubSeq(l, 1, k - 1) \o SubSeq(l, k + 1, Len(l))
      <4>1. u = r
        BY <1>1, <2>4, <3>1, UnlinkedIs, Zenon
      <4>2. /\ Len(r) = n /\ r \in Seq(Queues)
            /\ \A j \in 1..n : r[j] = l[IF j < k THEN j ELSE j + 1]
        BY <1>1, Spliced, Zenon
      <4>3. DOMAIN r = 1..n
        <5> HIDE DEF r
        <5> QED BY <4>2
      <4> QED BY <4>1, <4>2, <4>3, Zenon
    <3> HIDE DEF u, wq
    <3>3. Len(l) \in Nat /\ DOMAIN l = 1..Len(l) /\ k \in 1..Len(l) /\ n \in Nat
      BY <1>1
    <3>4. ASSUME NEW j \in DOMAIN u
          PROVE  LET m == IF j < k THEN j ELSE j + 1
                 IN  m \in DOMAIN l /\ m # k /\ u[j] = l[m]
      BY <3>2, <3>3
    <3>5. ASSUME NEW i \in DOMAIN u, NEW j \in DOMAIN u, u[i] = u[j] PROVE i = j
      <4> DEFINE a == IF i < k THEN i ELSE i + 1
                 b == IF j < k THEN j ELSE j + 1
      <4>1. a \in DOMAIN l /\ b \in DOMAIN l /\ l[a] = l[b]
        BY <3>4, <3>5
      <4>2. a = b
        BY <3>1, <4>1, Zenon
      <4> QED BY <3>2, <3>3, <4>2
    <3>6. \A j \in DOMAIN u : u[j] \in Queues /\ u[j] # wq /\ life[u[j]] # "new"
      <4> TAKE j \in DOMAIN u
      <4>1. PICK m \in DOMAIN l : m # k /\ u[j] = l[m]
        BY <3>4, Zenon
      <4> QED BY <2>1, <2>4, <2>9, <3>1, <4>1, Zenon DEF QueuesOK
    <3>7. ASSUME NEW q \in Elements(l), q # wq PROVE q \in Elements(u)
      <4>1. PICK m \in DOMAIN l : l[m] = q /\ m # k
        BY <2>4, <3>7 DEF Elements
      <4> DEFINE j == IF m < k THEN m ELSE m - 1
      <4>2. j \in 1..n /\ (IF j < k THEN j ELSE j + 1) = m
        BY <3>3, <4>1
      <4>3. u[j] = q
        BY <3>2, <4>1, <4>2, Zenon
      <4> QED BY <3>2, <4>2, <4>3, Zenon DEF Elements
    <3>8. \A q \in Queues : life'[q] \in {"open", "closing"} => q \in Elements(u)
      BY <2>1, <2>6, <2>7, <3>7, Zenon DEF QueuesOK
    <3>9. \A i \in DOMAIN u : life'[u[i]] # "new"
      BY <2>6, <3>6
    <3> QED BY <1>2, <2>5, <2>8, <2>11, <3>5, <3>8, <3>9, Zenon DEF QueuesOK
  <2> QED BY <1>2, <2>10, <2>11
<1> QED BY <1>1, <1>2, <1>3, <1>5, <1>6, QueueStep, Zenon

-----------------------------------------------------------------------------
LEMMA NextWInv == ASSUME Bounds PROVE WInv /\ [Next]_vars => WInv'
<1> SUFFICES ASSUME WInv, [Next]_vars PROVE WInv'
  BY Zenon
<1>1. CASE DriverCall
  <2>1. ASSUME NEW w \in Works, NEW wq \in Queues \union {NoQueue}, NEW ok \in BOOLEAN,
               \/ QueueWork(wq, w, ok)
               \/ \E delay \in 0..MaxNow : /\ DueAfter(delay) <= MaxNow
                                           /\ \/ QueueDelayedWork(wq, w, delay, ok)
                                              \/ ModDelayedWork(wq, w, delay, ok)
        PROVE WInv'
    BY <2>1, QueueWorkOK
  <2>2. ASSUME NEW w \in Works, CancelWork(w) PROVE WInv'
    BY <2>2, CancelOK, Zenon
  <2>3. ASSUME NEW w \in Works, LoseFunction(w) PROVE WInv'
    <3>1. usable' = usable \ {w} /\ UNCHANGED <<lists, queues, running, now>>
      BY <2>3, Zenon DEF LoseFunction
    <3>2. TypeOK' /\ NoReentry'
      BY <3>1 DEF WInv, TypeOK, NoReentry, lists, queues, running
    <3> QED BY <3>1, <3>2 DEF WInv, lists, queues, running
  <2>4. ASSUME NEW w \in Works, NEW require_due \in BOOLEAN, NEW out \in Anything,
               FlushWork(w, require_due, out)
        PROVE WInv'
    BY <2>4, FlushWorkOK
  <2>5. ASSUME NEW k \in Tasklets, NEW ok \in BOOLEAN, TaskletSchedule(k, ok) PROVE WInv'
    BY <2>5, TaskletScheduleOK
  <2>6. ASSUME NEW m \in Timers, NEW expires \in 0..MaxNow, NEW ok \in BOOLEAN,
               ModTimer(m, expires, ok) \/ AddTimer(m, expires, ok)
        PROVE WInv'
    BY <2>6, TimerOK
  <2>7. ASSUME NEW m \in Timers, TimerDelete(m) PROVE WInv'
    BY <2>7, CancelOK
  <2>8. ASSUME NEW all \in BOOLEAN, RunDeferred(all) PROVE WInv'
    BY <2>8, LoopsOK
  <2>9. ASSUME NEW wq \in Queues \union {NoQueue}, FlushWorkqueue(wq) PROVE WInv'
    BY <2>9, LoopsOK
  <2>10. ASSUME NEW wq \in Queues, AllocWorkqueue(wq) \/ DestroyWorkqueue(wq) PROVE WInv'
    BY <2>10, AllocOK, DestroyOK
  <2> QED BY <1>1, <2>1, <2>2, <2>3, <2>4, <2>5, <2>6, <2>7, <2>8, <2>9, <2>10, Zenon
          DEF DriverCall
<1>2. CASE EngineStep
  BY <1>2, DrainStepOK, FlushStepOK, LoopsOK, DestroyFinishOK, Zenon DEF EngineStep
<1>3. CASE \E dirty \in BOOLEAN : Return(dirty)
  BY <1>3, LoopsOK, Zenon
<1>4. CASE Tick
  <2>1. now' \in 0..MaxNow /\ UNCHANGED <<lists, queues, running, usable>>
    BY <1>4 DEF Tick, WInv, TypeOK, Bounds
  <2>2. TypeOK' /\ NoReentry'
    BY <2>1, Zenon DEF WInv, TypeOK, NoReentry, lists, queues, running
  <2> QED BY <2>1, <2>2, Zenon DEF WInv, lists, queues, running
<1>5. CASE UNCHANGED vars
  <2>1. TypeOK' /\ NoReentry'
    BY <1>5 DEF WInv, TypeOK, NoReentry, vars, lists, queues, running
  <2> QED BY <1>5, <2>1, Zenon DEF WInv, vars, lists, queues, running
<1> QED BY <1>1, <1>2, <1>3, <1>4, <1>5 DEF Next

LEMMA WInvSafe == ASSUME Bounds PROVE WInv => TypeOK /\ WorkSafe
<1> SUFFICES ASSUME WInv PROVE TypeOK /\ WorkSafe
  BY Zenon
<1>1. UniqueQueued
  BY Zenon DEF WInv, ListOK, UniqueQueued
<1>2. PendingIsQueued
  BY QueuedIs DEF WInv, MarksOK, PendingIsQueued
<1>3. TaskletMarked
  BY QueuedIs, Zenon DEF WInv, MarksOK, TaskletMarked
<1>4. FlushBounded
  <2> SUFFICES ASSUME NEW i \in DOMAIN stack, stack[i].t = "flush"
               PROVE  stack[i].n <= stack[i].quota
    BY Zenon DEF FlushBounded
  <2>1. stack[i] \in Frame /\ FlushOK(stack[i], Elements(deferred), deferred_sequence)
    <3>1. stack \in Seq(Frame) /\ FlushesOK(stack, Elements(deferred), deferred_sequence)
      BY Zenon DEF WInv, TypeOK
    <3>2. stack[i] \in Frame
      BY <3>1
    <3> QED BY <3>1, <3>2, Zenon DEF FlushesOK
  <2>2. stack[i].n \in Nat /\ stack[i].through \in Nat /\ stack[i].quota \in Nat
    BY <2>1 DEF Frame
  <2>3. Cardinality(Left(Elements(deferred), stack[i].wq, stack[i].through)) \in Nat
    BY <2>2, LeftFinite
  <2> DEFINE c == Cardinality(Left(Elements(deferred), stack[i].wq, stack[i].through))
  <2>4. stack[i].n + c <= stack[i].quota
    BY <2>1, Zenon DEF FlushOK
  <2> HIDE DEF c
  <2>5. c \in Nat
    BY <2>3 DEF c
  <2> QED BY <2>2, <2>4, <2>5
<1>5. ~NestedWqOps => DestroyDrains
  BY Zenon DEF WInv, GoneEmpty, Elements, DestroyDrains
<1> QED BY <1>1, <1>2, <1>3, <1>4, <1>5, Zenon DEF WorkSafe, WInv

(* The deferred-work engine keeps its promises for any number of objects,   *)
(* workqueues and nested loops: an object is queued once, a pending bit     *)
(* stands for a queued item and a queued tasklet is marked, no work         *)
(* callback is entered again while it runs, kb_flush_workqueue runs no more *)
(* items than its queue held, and, if callbacks leave the list of           *)
(* workqueues alone, a destroyed one has no work left.                      *)
THEOREM WorkKept == ASSUME Bounds PROVE Spec => [](TypeOK /\ WorkSafe)
<1>1. Init => WInv
  BY InitWInv
<1>2. WInv /\ [Next]_vars => WInv'
  BY NextWInv
<1>3. WInv => TypeOK /\ WorkSafe
  BY WInvSafe
<1> QED BY <1>1, <1>2, <1>3, PTL DEF Spec
=============================================================================
