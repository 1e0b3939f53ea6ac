-------------------------------- MODULE RwSem --------------------------------
(***************************************************************************)
(* Read-write semaphores (linux_netdev.c: kb_down_read ... kb_up_write): a *)
(* word that holds the number of readers, the writer's bit and the bit a   *)
(* waiting writer sets to keep new readers out.  There is no queue: a      *)
(* thread that cannot have the semaphore yields and tries again.           *)
(***************************************************************************)
EXTENDS Naturals, FiniteSets, FiniteSetTheorems, TLAPS

CONSTANT Threads

VARIABLES
  readers,  \* the reader count of the word
  writer,   \* RWSEM_WRITER_LOCKED
  waiters,  \* RWSEM_FLAG_WAITERS
  at        \* what each thread is doing

vars == <<readers, writer, waiters, at>>

Doing(what) == {t \in Threads : at[t] = what}
Goes(t, what) == at' = [at EXCEPT ![t] = what]

Init ==
  /\ readers = 0 /\ writer = FALSE /\ waiters = FALSE
  /\ at = [t \in Threads |-> "out"]

-----------------------------------------------------------------------------
\* The compare-and-exchange of a reader, and of a writer (whose word has no
\* other bit left in it).
TakeRead ==
  /\ ~writer /\ ~waiters
  /\ readers' = readers + 1
  /\ UNCHANGED <<writer, waiters>>

TakeWriteOverReaders ==
  /\ ~writer
  /\ writer' = TRUE /\ waiters' = FALSE
  /\ UNCHANGED readers
TakeWrite ==
  /\ readers = 0 /\ ~writer
  /\ writer' = TRUE /\ waiters' = FALSE
  /\ UNCHANGED readers

\* One turn of the loop of kb_down_read, the first and the later ones.
DownRead(t) ==
  /\ at[t] \in {"out", "to read"}
  /\ \/ TakeRead /\ Goes(t, "reads")
     \/ /\ writer \/ waiters
        /\ Goes(t, "to read")
        /\ UNCHANGED <<readers, writer, waiters>>

DownReadTrylock(t) ==
  /\ at[t] = "out"
  /\ TakeRead /\ Goes(t, "reads")

UpRead(t) ==
  /\ at[t] = "reads"
  /\ readers' = IF readers > 0 THEN readers - 1 ELSE readers
  /\ Goes(t, "out")
  /\ UNCHANGED <<writer, waiters>>

\* One turn of the loop of kb_down_write.
DownWrite(t) ==
  /\ at[t] \in {"out", "to write"}
  /\ \/ TakeWrite /\ Goes(t, "writes")
     \/ /\ readers > 0 \/ writer
        /\ waiters' = TRUE
        /\ Goes(t, "to write")
        /\ UNCHANGED <<readers, writer>>

DownWriteTrylock(t) ==
  /\ at[t] = "out"
  /\ ~waiters
  /\ TakeWrite /\ Goes(t, "writes")

DowngradeWrite(t) ==
  /\ at[t] = "writes"
  /\ readers' = 1 /\ writer' = FALSE
  /\ Goes(t, "reads")
  /\ UNCHANGED waiters

UpWrite(t) ==
  /\ at[t] = "writes"
  /\ writer' = FALSE
  /\ Goes(t, "out")
  /\ UNCHANGED <<readers, waiters>>

Next ==
  \E t \in Threads :
    \/ DownRead(t) \/ DownReadTrylock(t) \/ UpRead(t)
    \/ DownWrite(t) \/ DownWriteTrylock(t) \/ DowngradeWrite(t) \/ UpWrite(t)

(* A thread in the loop has its turns, and one that holds the semaphore     *)
(* gives it back.                                                           *)
Turn(t) ==
  \/ at[t] = "to read" /\ DownRead(t)
  \/ at[t] = "to write" /\ DownWrite(t)
  \/ UpRead(t) \/ UpWrite(t)

Spec == Init /\ [][Next]_vars

-----------------------------------------------------------------------------
(* The types of the variables. *)
TypeOK ==
  /\ readers \in Nat /\ writer \in BOOLEAN /\ waiters \in BOOLEAN
  /\ at \in [Threads -> {"out", "to read", "reads", "to write", "writes"}]

(* A writer excludes readers and other writers, and the word says so.       *)
Exclusive ==
  /\ readers = Cardinality(Doing("reads"))
  /\ writer <=> Doing("writes") # {}
  /\ \A t, u \in Doing("writes") : t = u
  /\ Doing("writes") # {} => Doing("reads") = {}

(* The bit that keeps readers out never outlives the writers it was set     *)
(* for: somebody who will clear it is still trying.                         *)
FlagMeant == waiters => Doing("to write") # {}

(* What the semaphore promises its threads.                                 *)
LocksSafe == Exclusive /\ FlagMeant

(***************************************************************************)
(* The semaphore excludes and its waiters bit is never left behind, for    *)
(* every finite number of threads.  The two are inductive together: a      *)
(* writer clears the bit only when it takes the semaphore, so the next one *)
(* to find it taken has to set it again.                                   *)
(***************************************************************************)
IInv == TypeOK /\ Exclusive /\ FlagMeant

(* The threads doing something are finitely many. *)
LEMMA DoingFinite ==
  ASSUME IsFiniteSet(Threads), NEW what
  PROVE  IsFiniteSet(Doing(what))
<1>1. Doing(what) \subseteq Threads
  BY DEF Doing
<1> QED BY <1>1, FS_Subset

(* A reader more, and a reader less. *)
LEMMA Counts ==
  ASSUME IsFiniteSet(Threads), NEW t \in Threads
  PROVE  LET d == Doing("reads") IN
         /\ Cardinality(d) \in Nat
         /\ t \notin d => Cardinality(d \cup {t}) = Cardinality(d) + 1
         /\ t \in d => Cardinality(d \ {t}) = Cardinality(d) - 1 /\ Cardinality(d) > 0
         /\ t \notin d => d \ {t} = d
         /\ Cardinality(d) = 0 <=> d = {}
         /\ Cardinality({t}) = 1
<1> DEFINE d == Doing("reads")
<1>1. IsFiniteSet(d)
  BY DoingFinite
<1>2. Cardinality(d) \in Nat /\ (Cardinality(d) = 0 <=> d = {})
  BY <1>1, FS_CardinalityType, FS_EmptySet
<1>3. t \notin d => Cardinality(d \cup {t}) = Cardinality(d) + 1
  BY <1>1, FS_AddElement
<1>4. t \in d => Cardinality(d \ {t}) = Cardinality(d) - 1
  BY <1>1, FS_RemoveElement, Zenon
<1>5. Cardinality({t}) = 1
  BY FS_Singleton, Zenon
<1>6. t \in d => Cardinality(d) > 0
  BY <1>2
<1> QED BY <1>2, <1>3, <1>4, <1>5, <1>6

(* Nobody holds or waits at first. *)
LEMMA InitOK == ASSUME IsFiniteSet(Threads) PROVE Init => IInv
<1> SUFFICES ASSUME Init PROVE IInv
  OBVIOUS
<1>1. \A what : what # "out" => Doing(what) = {}
  BY DEF Init, Doing
<1>2. Cardinality({}) = 0
  BY FS_EmptySet
<1>3. TypeOK
  BY Zenon DEF Init, TypeOK
<1>4. Exclusive
  BY <1>1, <1>2 DEF Init, Exclusive
<1>5. FlagMeant
  BY DEF Init, FlagMeant
<1> QED BY <1>3, <1>4, <1>5 DEF IInv

(* Every step keeps the invariant. *)
LEMMA StepOK ==
  ASSUME IsFiniteSet(Threads), IInv, [Next]_vars
  PROVE  IInv'
<1> USE DEF IInv
<1>1. CASE UNCHANGED vars
  BY <1>1 DEF vars, TypeOK, Exclusive, FlagMeant, Doing
<1>2. ASSUME NEW t \in Threads, TakeRead, Goes(t, "reads"), at[t] \in {"out", "to read"}
      PROVE  IInv'
  <2>1. t \notin Doing("reads") /\ t \notin Doing("writes") /\ t \notin Doing("to write")
    BY <1>2 DEF Doing
  <2>2. /\ Doing("reads")' = Doing("reads") \cup {t}
        /\ Doing("writes")' = Doing("writes")
        /\ Doing("to write")' = Doing("to write")
        /\ at' \in [Threads -> {"out", "to read", "reads", "to write", "writes"}]
    BY <1>2, <2>1 DEF TypeOK, Goes, Doing
  <2>3. readers' = Cardinality(Doing("reads")')
    BY <1>2, <2>1, <2>2, Counts DEF Exclusive, TakeRead
  <2>4. Doing("writes") = {}
    BY <1>2 DEF Exclusive, TakeRead
  <2>0. readers \in Nat /\ readers' = readers + 1
    BY <1>2 DEF TypeOK, TakeRead
  <2>5. TypeOK'
    <3>1. readers' \in Nat
      BY <2>0
    <3>2. UNCHANGED <<writer, waiters>>
      BY <1>2 DEF TakeRead
    <3> QED BY <2>2, <3>1, <3>2 DEF TypeOK
  <2>6. Exclusive'
    BY <1>2, <2>2, <2>3, <2>4 DEF Exclusive, TakeRead
  <2>7. FlagMeant'
    BY <1>2, <2>2 DEF FlagMeant, TakeRead
  <2> QED BY <2>5, <2>6, <2>7
<1>3. ASSUME NEW t \in Threads, TakeWrite, Goes(t, "writes"), at[t] \in {"out", "to write"}
      PROVE  IInv'
  <2>1. t \notin Doing("reads")
    BY <1>3 DEF Doing
  <2>2. /\ Doing("reads")' = Doing("reads")
        /\ Doing("writes")' = Doing("writes") \cup {t}
        /\ at' \in [Threads -> {"out", "to read", "reads", "to write", "writes"}]
    BY <1>3, <2>1 DEF TypeOK, Goes, Doing
  <2>3. Doing("writes") = {} /\ Doing("reads") = {}
    BY <1>3, Counts DEF Exclusive, TakeWrite
  <2> QED BY <1>3, <2>2, <2>3 DEF TypeOK, Exclusive, FlagMeant, TakeWrite
<1>4. ASSUME NEW t \in Threads, at[t] \in {"out", "to read"}, Goes(t, "to read"),
             UNCHANGED <<readers, writer, waiters>>
      PROVE  IInv'
  <2>1. t \notin Doing("reads") /\ t \notin Doing("writes") /\ t \notin Doing("to write")
    BY <1>4 DEF Doing
  <2>2. /\ Doing("reads")' = Doing("reads")
        /\ Doing("writes")' = Doing("writes")
        /\ Doing("to write")' = Doing("to write")
        /\ at' \in [Threads -> {"out", "to read", "reads", "to write", "writes"}]
    BY <1>4, <2>1 DEF TypeOK, Goes, Doing
  <2> QED BY <1>4, <2>2 DEF TypeOK, Exclusive, FlagMeant
<1>5. ASSUME NEW t \in Threads, UpRead(t)
      PROVE  IInv'
  <2>1. t \in Doing("reads") /\ t \notin Doing("writes") /\ t \notin Doing("to write")
    BY <1>5 DEF Doing, UpRead
  <2>2. /\ Doing("reads")' = Doing("reads") \ {t}
        /\ Doing("writes")' = Doing("writes")
        /\ Doing("to write")' = Doing("to write")
        /\ at' \in [Threads -> {"out", "to read", "reads", "to write", "writes"}]
    BY <1>5, <2>1 DEF TypeOK, UpRead, Goes, Doing
  <2>0. /\ Cardinality(Doing("reads") \ {t}) = Cardinality(Doing("reads")) - 1
        /\ Cardinality(Doing("reads")) \in Nat /\ Cardinality(Doing("reads")) > 0
    BY <2>1, Counts
  <2>3. readers' = Cardinality(Doing("reads")') /\ readers' \in Nat
    <3>1. readers = Cardinality(Doing("reads"))
      BY DEF Exclusive
    <3>2. readers' = IF readers > 0 THEN readers - 1 ELSE readers
      BY <1>5 DEF UpRead
    <3>3. readers' = readers - 1 /\ readers' \in Nat
      BY <3>1, <3>2, <2>0
    <3>4. Cardinality(Doing("reads")') = Cardinality(Doing("reads") \ {t})
      BY <2>2
    <3> QED BY <3>1, <3>3, <3>4, <2>0
  <2> QED BY <1>5, <2>1, <2>2, <2>3 DEF TypeOK, Exclusive, FlagMeant, UpRead
<1>6. ASSUME NEW t \in Threads, at[t] \in {"out", "to write"}, Goes(t, "to write"),
             waiters' = TRUE, UNCHANGED <<readers, writer>>
      PROVE  IInv'
  <2>1. t \notin Doing("reads") /\ t \notin Doing("writes")
    BY <1>6 DEF Doing
  <2>2. /\ Doing("reads")' = Doing("reads")
        /\ Doing("writes")' = Doing("writes")
        /\ Doing("to write")' = Doing("to write") \cup {t}
        /\ at' \in [Threads -> {"out", "to read", "reads", "to write", "writes"}]
    BY <1>6, <2>1 DEF TypeOK, Goes, Doing
  <2> QED BY <1>6, <2>2 DEF TypeOK, Exclusive, FlagMeant
<1>7. ASSUME NEW t \in Threads, DowngradeWrite(t)
      PROVE  IInv'
  <2>1. t \in Doing("writes") /\ t \notin Doing("to write")
    BY <1>7 DEF Doing, DowngradeWrite
  <2>2. Doing("reads") = {} /\ Doing("writes") = {t}
    BY <2>1 DEF Exclusive
  <2>3. /\ Doing("reads")' = {t}
        /\ Doing("writes")' = {}
        /\ Doing("to write")' = Doing("to write")
        /\ at' \in [Threads -> {"out", "to read", "reads", "to write", "writes"}]
    BY <1>7, <2>1, <2>2 DEF TypeOK, DowngradeWrite, Goes, Doing
  <2>4. readers' = Cardinality(Doing("reads")')
    BY <1>7, <2>3, FS_Singleton DEF DowngradeWrite
  <2>5. TypeOK'
    BY <1>7, <2>3 DEF TypeOK, DowngradeWrite
  <2>6. Exclusive'
    BY <1>7, <2>3, <2>4 DEF Exclusive, DowngradeWrite
  <2>7. FlagMeant'
    BY <1>7, <2>3 DEF FlagMeant, DowngradeWrite
  <2> QED BY <2>5, <2>6, <2>7
<1>8. ASSUME NEW t \in Threads, UpWrite(t)
      PROVE  IInv'
  <2>1. t \in Doing("writes") /\ t \notin Doing("to write") /\ t \notin Doing("reads")
    BY <1>8 DEF Doing, UpWrite
  <2>2. Doing("writes") = {t}
    BY <2>1 DEF Exclusive
  <2>3. /\ Doing("reads")' = Doing("reads")
        /\ Doing("writes")' = {}
        /\ Doing("to write")' = Doing("to write")
        /\ at' \in [Threads -> {"out", "to read", "reads", "to write", "writes"}]
    BY <1>8, <2>1, <2>2 DEF TypeOK, UpWrite, Goes, Doing
  <2> QED BY <1>8, <2>3 DEF TypeOK, Exclusive, FlagMeant, UpWrite
<1>9. ASSUME Next PROVE IInv'
  <2>1. PICK t \in Threads :
          \/ DownRead(t) \/ DownReadTrylock(t) \/ UpRead(t)
          \/ DownWrite(t) \/ DownWriteTrylock(t) \/ DowngradeWrite(t) \/ UpWrite(t)
    BY <1>9 DEF Next
  <2>2. CASE DownRead(t) \/ DownReadTrylock(t)
    BY <2>2, <1>2, <1>4 DEF DownRead, DownReadTrylock
  <2>3. CASE DownWrite(t) \/ DownWriteTrylock(t)
    BY <2>3, <1>3, <1>6 DEF DownWrite, DownWriteTrylock
  <2> QED BY <2>1, <2>2, <2>3, <1>5, <1>7, <1>8
<1> QED BY <1>1, <1>9

-----------------------------------------------------------------------------
(* However many threads take the semaphore, in whatever order they try,     *)
(* give it back or downgrade it: a writer is alone, the word counts the     *)
(* readers, and the bit that keeps readers out (kb_rwsem_flag_waiters) is   *)
(* set only while a writer is trying.                                       *)
THEOREM SemaphoreExcludes ==
  ASSUME IsFiniteSet(Threads)
  PROVE  Spec => []LocksSafe
<1>1. Init => IInv
  BY InitOK
<1>2. IInv /\ [Next]_vars => IInv'
  BY StepOK
<1>3. IInv => LocksSafe
  BY DEF IInv, LocksSafe
<1> QED BY <1>1, <1>2, <1>3, PTL DEF Spec
=============================================================================
