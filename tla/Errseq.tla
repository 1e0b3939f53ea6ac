------------------------------- MODULE Errseq -------------------------------
(***************************************************************************)
(* Writeback error sequences of fs.c: the 32-bit value in a mapping holds  *)
(* an error number, a SEEN bit and a counter; each open file keeps the     *)
(* value it saw last.  A value is the record of its three fields; the      *)
(* counter has CtrMod values.  The files finish_open opens (RawFiles) copy *)
(* the mapping's value; a module that keeps a cursor of its own starts     *)
(* from errseq_sample.                                                     *)
(***************************************************************************)
EXTENDS Naturals, TLAPS

CONSTANTS
    Files,    \* holders of a value: files, and cursors of modules
    RawFiles, \* the files, opened by kb_fs_subsystem_finish_open
    Errors,   \* error numbers, 1 .. 4095
    CtrMod,   \* 2^19 in the code
    MaxSets   \* bound: errors recorded

ASSUME ErrorsAssumption == Errors \subseteq Nat \ {0}
ASSUME BoundAssumption == CtrMod \in Nat /\ MaxSets \in Nat /\ MaxSets < CtrMod

VARIABLES
    seq,    \* the mapping's value
    since,  \* [Files -> the value last seen]
    open,
    ret,    \* [Files -> result of the last check]
    sets,
    news    \* open files with an error recorded since they last looked

vars == <<seq, since, open, ret, sets, news>>

Zero == [err |-> 0, seen |-> FALSE, ctr |-> 0]

Init ==
    /\ seq = Zero /\ since = [f \in Files |-> Zero] /\ open = {}
    /\ ret = [f \in Files |-> 0] /\ sets = 0 /\ news = {}

\* errseq_set: the error replaces the old one; the counter only moves on if
\* somebody saw the old value.
ReplacedUnmasked(e) == [err |-> e + 4096, seen |-> FALSE, ctr |-> seq.ctr]
ReplacedOnlyNew(e) ==
    IF e = seq.err THEN seq
    ELSE [err |-> e, seen |-> FALSE,
          ctr |-> IF seq.seen THEN (seq.ctr + 1) % CtrMod ELSE seq.ctr]
ReplacedNoCount(e) == [err |-> e, seen |-> FALSE, ctr |-> seq.ctr]
Replaced(e) ==
    [err |-> e, seen |-> FALSE,
     ctr |-> IF seq.seen THEN (seq.ctr + 1) % CtrMod ELSE seq.ctr]

SetWbErr(e) ==
    /\ sets < MaxSets /\ sets' = sets + 1
    /\ seq' = Replaced(e) /\ news' = open
    /\ UNCHANGED <<since, open, ret>>

\* errseq_sample: an unseen error counts as news for the new file.
Sample == IF seq.seen THEN seq ELSE Zero

Open(f) ==
    /\ f \notin open /\ open' = open \cup {f}
    /\ since' = [since EXCEPT ![f] = IF f \in RawFiles THEN seq ELSE Sample]
    /\ UNCHANGED <<seq, ret, sets, news>>

Close(f) ==
    /\ f \in open /\ open' = open \ {f} /\ news' = news \ {f}
    /\ UNCHANGED <<seq, since, ret, sets>>

\* file_check_and_advance_wb_err, with errseq_check and
\* errseq_check_and_advance.
Seen(v) == [v EXCEPT !.seen = TRUE]
AdvancedNot(f) == since
Advanced(f) == [since EXCEPT ![f] = Seen(seq)]
CheckAndAdvance(f) ==
    /\ f \in open /\ news' = news \ {f}
    /\ IF seq = since[f]
       THEN ret' = [ret EXCEPT ![f] = 0] /\ UNCHANGED <<seq, since>>
       ELSE /\ seq' = Seen(seq)
            /\ since' = Advanced(f)
            /\ ret' = [ret EXCEPT ![f] = seq.err]
    /\ UNCHANGED <<open, sets>>

Next ==
    \/ \E e \in Errors : SetWbErr(e)
    \/ \E f \in Files : Open(f) \/ Close(f) \/ CheckAndAdvance(f)

Spec == Init /\ [][Next]_vars

-----------------------------------------------------------------------------
Values == [err : Errors \cup {0}, seen : BOOLEAN, ctr : Nat]

\* Types.
TypeOK ==
    /\ seq \in Values /\ since \in [Files -> Values]
    /\ open \in SUBSET Files /\ ret \in [Files -> Errors \cup {0}]
    /\ sets \in Nat

\* A holder's value was seen and is no newer than the mapping's, which it
\* equals when it is as new; or it is an unseen value a file copied.
InOrder(f) ==
    \/ since[f] = Zero
    \/ /\ since[f].seen /\ since[f].err /= 0
       /\ since[f].ctr <= seq.ctr
       /\ since[f].ctr = seq.ctr => since[f] = seq
    \/ /\ f \in RawFiles /\ ~since[f].seen /\ since[f].err /= 0
       /\ since[f].ctr <= seq.ctr /\ seq.err /= 0

\* What makes the comparison of two values mean "nothing new": the values
\* holders keep are in order with the mapping's, and the counter, which moves
\* only past values that were seen, does not come round.
SeenInOrder ==
    /\ seq.ctr < CtrMod /\ sets <= MaxSets
    /\ seq.ctr <= sets /\ (seq.err /= 0 => seq.ctr < sets)
    /\ seq.err = 0 => seq = Zero
    /\ \A f \in Files : InOrder(f)

\* A failure recorded while a holder has its cursor open is found by its next
\* check: the values differ.  The one exception is a file that copied, when
\* finish_open opened it, the very value the mapping has now and that nobody
\* has been told of (file_check_and_advance_wb_err).
NewsDiffers == \A f \in news : since[f] /= seq \/ (f \in RawFiles /\ ~seq.seen)

\* The holders owed a report, and the failure each copied untold, while nobody
\* has been told of it.
Owed == {f \in open : since[f] /= seq}
BlindTo(f) ==
    IF f \in open /\ ~seq.seen /\ ~since[f].seen /\ since[f].ctr = seq.ctr
    THEN since[f].err ELSE 0
Blind == [f \in Files |-> BlindTo(f)]

\* The errseq values implement the reporting of WbErrors: once to each holder,
\* with the blindness of files that copied an untold failure.
Abs == INSTANCE WbErrors WITH
    NoError <- 0, latest <- seq.err, told <- seq.seen, owed <- Owed, blind <- Blind,
    open <- open, ret <- ret
ReportedOnce == Abs!ASpec

-----------------------------------------------------------------------------
\* Proofs, for any holders, files among them, errors and counter width, as long
\* as fewer errors are recorded than the counter has values.  SeenInOrder is
\* inductive.
IInv == TypeOK /\ SeenInOrder

LEMMA ZeroIsValue == Zero \in Values
  BY DEF Zero, Values

LEMMA InitInv == Init => IInv
  BY ZeroIsValue, BoundAssumption DEF Init, IInv, TypeOK, SeenInOrder, InOrder, Zero

\* What recording an error does to the mapping's value.
LEMMA SetFacts ==
  ASSUME IInv, NEW e \in Errors, SetWbErr(e)
  PROVE  /\ e \in Nat /\ e /= 0
         /\ seq'.err = e /\ seq'.seen = FALSE /\ seq' \in Values
         /\ seq'.ctr = IF seq.seen THEN seq.ctr + 1 ELSE seq.ctr
         /\ since' = since /\ open' = open /\ ret' = ret
         /\ sets' = sets + 1 /\ sets < MaxSets /\ (seq.seen => seq.ctr < sets)
<1> USE DEF IInv
<1>1. e \in Nat /\ e /= 0
  BY ErrorsAssumption
<1>2. /\ seq'.err = e /\ seq'.seen = FALSE
      /\ seq'.ctr = (IF seq.seen THEN (seq.ctr + 1) % CtrMod ELSE seq.ctr)
      /\ seq' = [err |-> e, seen |-> FALSE, ctr |-> seq'.ctr]
      /\ since' = since /\ open' = open /\ ret' = ret
  BY DEF SetWbErr, Replaced
<1>3. /\ seq.ctr \in Nat /\ seq.seen \in BOOLEAN /\ sets \in Nat
      /\ seq.ctr < CtrMod /\ seq.ctr <= sets /\ (seq.seen => seq.ctr < sets)
      /\ sets < MaxSets /\ sets' = sets + 1
  BY DEF TypeOK, Values, SeenInOrder, SetWbErr, Zero
<1>4. seq'.ctr = IF seq.seen THEN seq.ctr + 1 ELSE seq.ctr
  <2>1. CASE seq.seen
    <3>1. seq.ctr + 1 \in 0 .. CtrMod - 1
      BY <1>3, <2>1, BoundAssumption
    <3>2. (seq.ctr + 1) % CtrMod = seq.ctr + 1
      BY <3>1, <1>3, BoundAssumption
    <3> QED BY <3>2, <1>2, <2>1
  <2>2. CASE ~seq.seen
    BY <1>2, <2>2
  <2> QED BY <2>1, <2>2
<1>5. seq'.ctr \in Nat
  BY <1>3, <1>4
<1>6. seq' \in Values
  BY <1>2, <1>5, Zenon DEF Values
<1> QED BY <1>1, <1>2, <1>3, <1>4, <1>6

\* Recording an error: the new value is unseen, so it equals no value that was
\* seen.
LEMMA SetInv == ASSUME IInv, NEW e \in Errors, SetWbErr(e) PROVE IInv'
<1> USE DEF IInv
<1>1. /\ e \in Nat /\ e /= 0
      /\ seq'.err = e /\ seq'.seen = FALSE /\ seq' \in Values
      /\ seq'.ctr = IF seq.seen THEN seq.ctr + 1 ELSE seq.ctr
      /\ since' = since /\ open' = open /\ ret' = ret
      /\ sets' = sets + 1 /\ sets < MaxSets /\ (seq.seen => seq.ctr < sets)
  BY SetFacts
<1>2. /\ seq.ctr \in Nat /\ seq.seen \in BOOLEAN /\ sets \in Nat
      /\ seq.ctr <= sets /\ \A f \in Files : since[f].ctr \in Nat
  BY DEF TypeOK, Values, SeenInOrder
<1>3. TypeOK'
  BY <1>1, <1>2 DEF TypeOK
<1>4. seq'.ctr < sets' /\ seq'.ctr <= sets' /\ seq'.ctr < CtrMod /\ sets' <= MaxSets
  BY <1>1, <1>2, BoundAssumption
<1>5. ASSUME NEW f \in Files PROVE InOrder(f)'
  <2>1. InOrder(f)
    BY DEF SeenInOrder
  <2>2. seq.ctr <= seq'.ctr
    BY <1>1, <1>2
  <2>3. CASE since[f] = Zero
    BY <2>3, <1>1 DEF InOrder
  <2>4. CASE /\ since[f].seen /\ since[f].err /= 0 /\ since[f].ctr <= seq.ctr
             /\ since[f].ctr = seq.ctr => since[f] = seq
    <3>1. CASE seq.seen
      BY <3>1, <2>4, <1>1, <1>2 DEF InOrder
    <3>2. CASE ~seq.seen
      <4>1. since[f].ctr /= seq.ctr
        BY <3>2, <2>4
      <4> QED BY <4>1, <3>2, <2>4, <1>1, <1>2 DEF InOrder
    <3> QED BY <3>1, <3>2
  <2>5. CASE /\ f \in RawFiles /\ ~since[f].seen /\ since[f].err /= 0
             /\ since[f].ctr <= seq.ctr /\ seq.err /= 0
    <3>1. since[f].ctr <= seq'.ctr
      BY <2>5, <2>2, <1>1, <1>2
    <3> QED BY <3>1, <2>5, <1>1 DEF InOrder
  <2> QED BY <2>1, <2>3, <2>4, <2>5 DEF InOrder
<1>6. SeenInOrder'
  BY <1>1, <1>4, <1>5 DEF SeenInOrder
<1> QED BY <1>3, <1>6

LEMMA OpenInv == ASSUME IInv, NEW f \in Files, Open(f) PROVE IInv'
<1> USE DEF IInv
<1> DEFINE start == IF f \in RawFiles THEN seq ELSE Sample
<1>1. seq' = seq /\ sets' = sets /\ ret' = ret
      /\ since' = [since EXCEPT ![f] = start] /\ open' = open \cup {f}
  BY DEF Open
<1>2. start \in Values
  BY ZeroIsValue DEF Sample, TypeOK
<1>3. since'[f] = start /\ \A g \in Files : g /= f => since'[g] = since[g]
  BY <1>1 DEF TypeOK
<1> HIDE DEF start
<1>4. TypeOK'
  BY <1>1, <1>2 DEF TypeOK
<1>5. InOrder(f)'
  <2>1. CASE seq.seen
    <3>1. start = seq
      BY <2>1 DEF Sample, start
    <3>2. seq.err /= 0
      BY <2>1 DEF SeenInOrder, Zero
    <3>3. seq.ctr <= seq.ctr
      BY DEF TypeOK, Values
    <3> QED BY <1>1, <1>3, <2>1, <3>1, <3>2, <3>3 DEF InOrder
  <2>2. CASE ~seq.seen /\ f \notin RawFiles
    <3>1. start = Zero
      BY <2>2 DEF Sample, start
    <3> QED BY <1>3, <3>1 DEF InOrder
  <2>3. CASE ~seq.seen /\ f \in RawFiles
    <3>1. start = seq
      BY <2>3 DEF start
    <3>2. seq.ctr <= seq.ctr
      BY DEF TypeOK, Values
    <3>3. seq = Zero \/ seq.err /= 0
      BY DEF SeenInOrder
    <3> QED BY <1>1, <1>3, <2>3, <3>1, <3>2, <3>3 DEF InOrder
  <2> QED BY <2>1, <2>2, <2>3
<1>6. ASSUME NEW g \in Files, g /= f PROVE InOrder(g)'
  <2>1. since'[g] = since[g] /\ InOrder(g)
    BY <1>3, <1>6 DEF SeenInOrder
  <2> QED BY <2>1, <1>1 DEF InOrder
<1>7. SeenInOrder'
  BY <1>1, <1>5, <1>6 DEF SeenInOrder
<1> QED BY <1>4, <1>7

\* What a check does to the mapping's value and the file's, when they differ.
LEMMA AdvanceFacts ==
  ASSUME IInv, NEW f \in Files, CheckAndAdvance(f), seq /= since[f]
  PROVE  /\ seq.err /= 0
         /\ seq' = Seen(seq) /\ seq' \in Values
         /\ seq'.seen /\ seq'.err = seq.err /\ seq'.ctr = seq.ctr
         /\ since' = [since EXCEPT ![f] = seq'] /\ ret' = [ret EXCEPT ![f] = seq.err]
         /\ open' = open /\ sets' = sets
         /\ seq.ctr < sets
<1> USE DEF IInv
<1>1. seq' = Seen(seq) /\ since' = [since EXCEPT ![f] = seq'] /\ open' = open /\ sets' = sets
      /\ ret' = [ret EXCEPT ![f] = seq.err]
  BY DEF CheckAndAdvance, Advanced
<1>2. seq \in Values
  BY DEF TypeOK
<1>3. seq' \in Values /\ seq'.seen /\ seq'.err = seq.err /\ seq'.ctr = seq.ctr
  BY <1>1, <1>2, Zenon DEF Seen, Values
<1>4. seq.err /= 0
  <2>1. SUFFICES ASSUME seq.err = 0 PROVE FALSE
    OBVIOUS
  <2>2. seq = Zero
    BY <2>1 DEF SeenInOrder
  <2>3. since[f] /= Zero /\ InOrder(f)
    BY <2>2 DEF SeenInOrder
  <2>4. since[f].seen /\ since[f].ctr <= seq.ctr /\ (since[f].ctr = seq.ctr => since[f] = seq)
    BY <2>1, <2>3 DEF InOrder
  <2>5. seq.ctr = 0 /\ since[f].ctr \in Nat
    BY <2>2 DEF Zero, TypeOK, Values
  <2>6. since[f].ctr = seq.ctr
    BY <2>4, <2>5
  <2> QED BY <2>4, <2>6
<1>5. seq.ctr < sets
  BY <1>4 DEF SeenInOrder
<1> QED BY <1>1, <1>3, <1>4, <1>5

LEMMA CheckInv == ASSUME IInv, NEW f \in Files, CheckAndAdvance(f) PROVE IInv'
<1> USE DEF IInv
<1>1. CASE seq = since[f]
  <2>1. /\ seq' = seq /\ since' = since /\ sets' = sets /\ open' = open
        /\ ret' = [ret EXCEPT ![f] = 0]
    BY <1>1 DEF CheckAndAdvance
  <2>2. TypeOK'
    BY <2>1 DEF TypeOK
  <2>3. SeenInOrder'
    BY <2>1 DEF SeenInOrder, InOrder
  <2> QED BY <2>2, <2>3
<1>2. CASE seq /= since[f]
  <2>1. /\ seq.err /= 0 /\ seq' \in Values
        /\ seq'.seen /\ seq'.err = seq.err /\ seq'.ctr = seq.ctr
        /\ since' = [since EXCEPT ![f] = seq'] /\ ret' = [ret EXCEPT ![f] = seq.err]
        /\ open' = open /\ sets' = sets /\ seq.ctr < sets
    BY <1>2, AdvanceFacts
  <2>2. seq.err \in Errors \cup {0}
    BY DEF TypeOK, Values
  <2>3. TypeOK'
    BY <2>1, <2>2 DEF TypeOK
  <2>4. seq.ctr \in Nat /\ \A g \in Files : since[g].ctr \in Nat
    BY DEF TypeOK, Values
  <2>5. InOrder(f)'
    <3>1. since'[f] = seq'
      BY <2>1 DEF TypeOK
    <3> QED BY <3>1, <2>1, <2>4 DEF InOrder
  <2>6. ASSUME NEW g \in Files, g /= f PROVE InOrder(g)'
    <3>1. since'[g] = since[g] /\ InOrder(g)
      BY <2>1, <2>6 DEF TypeOK, SeenInOrder
    <3>2. CASE since[g].seen /\ since[g].ctr = seq.ctr /\ since[g] = seq
      <4>1. seq' = seq
        BY <3>2, <1>2, AdvanceFacts DEF Seen, TypeOK, Values
      <4> QED BY <3>1, <4>1 DEF InOrder
    <3>3. CASE ~(since[g].seen /\ since[g].ctr = seq.ctr /\ since[g] = seq)
      BY <3>1, <3>3, <2>1 DEF InOrder
    <3> QED BY <3>2, <3>3
  <2>7. SeenInOrder'
    BY <2>1, <2>5, <2>6 DEF SeenInOrder
  <2> QED BY <2>3, <2>7
<1> QED BY <1>1, <1>2

LEMMA NextInv == IInv /\ [Next]_vars => IInv'
<1> SUFFICES ASSUME IInv, [Next]_vars PROVE IInv'
  OBVIOUS
<1>1. ASSUME NEW e \in Errors, SetWbErr(e) PROVE IInv'
  BY <1>1, SetInv
<1>2. ASSUME NEW f \in Files, Open(f) PROVE IInv'
  BY <1>2, OpenInv
<1>3. ASSUME NEW f \in Files, Close(f) PROVE IInv'
  BY <1>3 DEF Close, IInv, TypeOK, SeenInOrder, InOrder
<1>4. ASSUME NEW f \in Files, CheckAndAdvance(f) PROVE IInv'
  BY <1>4, CheckInv
<1>5. CASE UNCHANGED vars
  BY <1>5 DEF vars, IInv, TypeOK, SeenInOrder, InOrder
<1> QED BY <1>1, <1>2, <1>3, <1>4, <1>5 DEF Next

\* Every reachable state is well typed and the values holders keep are in order
\* with the mapping's.
THEOREM ValuesInOrder == Spec => [](TypeOK /\ SeenInOrder)
<1>1. Init => IInv
  BY InitInv
<1>2. IInv /\ [Next]_vars => IInv'
  BY NextInv
<1> QED BY <1>1, <1>2, PTL DEF Spec, IInv

LEMMA InitAbs == Init => Abs!AInit
  BY DEF Init, Zero, Owed, Blind, BlindTo, Abs!AInit

LEMMA SetAbs == ASSUME IInv, NEW e \in Errors, SetWbErr(e) PROVE Abs!Record(e)
<1>1. /\ e \in Nat /\ e /= 0
      /\ seq'.err = e /\ seq'.seen = FALSE /\ seq' \in Values
      /\ seq'.ctr = IF seq.seen THEN seq.ctr + 1 ELSE seq.ctr
      /\ since' = since /\ open' = open /\ ret' = ret
  BY SetFacts
<1>2. seq \in Values /\ open \subseteq Files /\ \A f \in Files : since[f] \in Values /\ InOrder(f)
  BY DEF IInv, TypeOK, SeenInOrder
<1>3. ASSUME NEW f \in Files PROVE BlindTo(f)' = BlindTo(f)
  <2>1. CASE seq.seen
    <3>1. since[f].ctr <= seq.ctr /\ seq.ctr \in Nat /\ since[f].ctr \in Nat
      BY <1>2 DEF InOrder, Zero, Values
    <3>2. since'[f].ctr /= seq'.ctr
      BY <3>1, <2>1, <1>1
    <3> QED BY <3>2, <2>1 DEF BlindTo
  <2>2. CASE ~seq.seen
    BY <2>2, <1>1 DEF BlindTo
  <2> QED BY <2>1, <2>2
<1>4. ASSUME NEW f \in open PROVE since[f] = seq' <=> BlindTo(f) = e
  <2>0. f \in Files
    BY <1>2
  <2>1. ASSUME since[f] = seq' PROVE BlindTo(f) = e
    <3>1. ~since[f].seen /\ since[f].err = e /\ since[f].ctr = seq'.ctr
      BY <2>1, <1>1
    <3>2. since[f].ctr <= seq.ctr
      BY <2>0, <3>1, <1>1, <1>2 DEF InOrder, Zero
    <3>3. seq.ctr \in Nat /\ ~seq.seen
      BY <3>1, <3>2, <1>1, <1>2 DEF Values
    <3> QED BY <3>1, <3>3, <1>1 DEF BlindTo
  <2>2. ASSUME BlindTo(f) = e PROVE since[f] = seq'
    <3>1. ~seq.seen /\ ~since[f].seen /\ since[f].ctr = seq.ctr /\ since[f].err = e
      BY <2>2, <1>1 DEF BlindTo
    <3>2. seq'.ctr = since[f].ctr /\ since[f] \in Values /\ since[f].seen = FALSE
      BY <2>0, <3>1, <1>1, <1>2 DEF Values
    <3> QED BY <3>1, <3>2, <1>1 DEF Values
  <2> QED BY <2>1, <2>2
<1>5. Owed' = {f \in open : Blind[f] /= e}
  BY <1>1, <1>2, <1>4 DEF Owed, Blind
<1>6. Blind' = Blind
  BY <1>3 DEF Blind
<1> QED BY <1>1, <1>5, <1>6 DEF Abs!Record

LEMMA OpenAbs == ASSUME IInv, NEW f \in Files, Open(f) PROVE Abs!Opened(f)
<1>1. /\ seq' = seq /\ ret' = ret /\ f \notin open /\ open' = open \cup {f}
      /\ since' = [since EXCEPT ![f] = IF f \in RawFiles THEN seq ELSE Sample]
  BY DEF Open
<1>2. /\ since'[f] = IF f \in RawFiles THEN seq ELSE Sample
      /\ \A g \in Files : g /= f => since'[g] = since[g]
      /\ open \subseteq Files
  BY <1>1 DEF IInv, TypeOK
<1>3. ASSUME NEW g \in Files, g /= f PROVE BlindTo(g)' = BlindTo(g)
  BY <1>1, <1>2, <1>3 DEF BlindTo
<1>4. BlindTo(f) = 0
  BY <1>1 DEF BlindTo
<1>5. CASE f \in RawFiles
  <2>1. BlindTo(f)' = IF seq.seen THEN 0 ELSE seq.err
    BY <1>1, <1>2, <1>5 DEF BlindTo
  <2>2. Blind' = [Blind EXCEPT ![f] = IF seq.seen THEN 0 ELSE seq.err]
    BY <2>1, <1>3 DEF Blind
  <2>3. Owed' = Owed
    BY <1>1, <1>2, <1>5 DEF Owed
  <2> QED BY <1>1, <1>5, <2>2, <2>3 DEF Abs!Opened, Abs!Untold
<1>6. CASE f \notin RawFiles
  <2>1. Sample /= seq <=> (seq.err /= 0 /\ ~seq.seen)
    <3>1. CASE seq.seen
      BY <3>1 DEF Sample
    <3>2. CASE ~seq.seen
      <4>1. Sample = Zero
        BY <3>2 DEF Sample
      <4>2. seq.err = 0 <=> seq = Zero
        BY DEF IInv, SeenInOrder, Zero
      <4> QED BY <4>1, <4>2, <3>2
    <3> QED BY <3>1, <3>2
  <2>2. BlindTo(f)' = 0
    <3>1. CASE seq.seen
      BY <3>1, <1>1 DEF BlindTo
    <3>2. CASE ~seq.seen
      <4>1. since'[f].err = 0
        BY <3>2, <1>2, <1>6 DEF Sample, Zero
      <4> QED BY <4>1 DEF BlindTo
    <3> QED BY <3>1, <3>2
  <2>3. Blind' = Blind
    BY <2>2, <1>3, <1>4 DEF Blind
  <2>4. Owed' = IF (IF seq.seen THEN 0 ELSE seq.err) /= 0 THEN Owed \cup {f} ELSE Owed
    BY <1>1, <1>2, <1>6, <2>1 DEF Owed
  <2> QED BY <1>1, <1>6, <2>3, <2>4 DEF Abs!Opened, Abs!Untold
<1> QED BY <1>5, <1>6

LEMMA CloseAbs == ASSUME IInv, NEW f \in Files, Close(f) PROVE Abs!Closed(f)
<1>1. f \in open /\ open' = open \ {f} /\ seq' = seq /\ since' = since /\ ret' = ret
  BY DEF Close
<1>2. Owed' = Owed \ {f}
  BY <1>1 DEF Owed
<1>3. ASSUME NEW g \in Files PROVE BlindTo(g)' = IF g = f THEN 0 ELSE BlindTo(g)
  BY <1>1 DEF BlindTo
<1>4. Blind' = [Blind EXCEPT ![f] = 0]
  BY <1>3 DEF Blind
<1> QED BY <1>1, <1>2, <1>4 DEF Abs!Closed

LEMMA CheckAbs == ASSUME IInv, NEW f \in Files, CheckAndAdvance(f) PROVE Abs!Told(f)
<1>1. f \in open /\ open' = open
  BY DEF CheckAndAdvance
<1>2. CASE seq = since[f]
  <2>1. seq' = seq /\ since' = since /\ ret' = [ret EXCEPT ![f] = 0]
    BY <1>2 DEF CheckAndAdvance
  <2>2. f \notin Owed /\ Owed' = Owed /\ Blind' = Blind
    BY <2>1, <1>1, <1>2 DEF Owed, Blind, BlindTo
  <2> QED BY <1>1, <2>1, <2>2 DEF Abs!Told
<1>3. CASE seq /= since[f]
  <2>1. /\ seq.err /= 0 /\ seq'.seen = TRUE /\ seq'.err = seq.err /\ seq'.ctr = seq.ctr
        /\ since' = [since EXCEPT ![f] = seq'] /\ ret' = [ret EXCEPT ![f] = seq.err]
        /\ seq' = Seen(seq) /\ seq' \in Values
    BY <1>3, AdvanceFacts DEF Seen, IInv, TypeOK, Values
  <2>2. f \in Owed
    BY <1>1, <1>3 DEF Owed
  <2>3. since'[f] = seq' /\ \A g \in Files : g /= f => since'[g] = since[g]
    BY <2>1 DEF IInv, TypeOK
  <2>4. ASSUME NEW g \in open, g /= f
        PROVE  since'[g] /= seq' <=> (since[g] /= seq \/ BlindTo(g) /= 0)
    <3>1. g \in Files /\ since'[g] = since[g] /\ InOrder(g)
      BY <2>3, <2>4 DEF IInv, TypeOK, SeenInOrder
    <3>2. CASE seq.seen
      <4>1. seq' = seq
        BY <3>2, <2>1 DEF Seen, IInv, TypeOK, Values
      <4>2. BlindTo(g) = 0
        BY <3>2 DEF BlindTo
      <4> QED BY <3>1, <4>1, <4>2
    <3>3. CASE ~seq.seen
      <4>1. since[g] /= seq'
        <5>1. SUFFICES ASSUME since[g] = seq' PROVE FALSE
          OBVIOUS
        <5>2. since[g].seen /\ since[g].ctr = seq.ctr /\ since[g].err /= 0
          BY <5>1, <2>1
        <5>3. since[g] = seq
          BY <5>2, <3>1 DEF InOrder, Zero
        <5> QED BY <5>2, <5>3, <3>3
      <4>2. since[g] = seq => BlindTo(g) /= 0
        BY <2>1, <2>4, <3>3 DEF BlindTo
      <4> QED BY <3>1, <4>1, <4>2
    <3> QED BY <3>2, <3>3
  <2>5. open \subseteq Files
    BY DEF IInv, TypeOK
  <2>6. Owed' = {g \in open : g \in Owed \/ Blind[g] /= 0} \ {f}
    BY <1>1, <2>3, <2>4, <2>5 DEF Owed, Blind
  <2>7. Blind' = [g \in Files |-> 0]
    BY <2>1 DEF Blind, BlindTo
  <2> QED BY <1>1, <2>1, <2>2, <2>6, <2>7 DEF Abs!Told
<1> QED BY <1>2, <1>3

LEMMA StepAbs == IInv /\ [Next]_vars => [Abs!ANext]_(Abs!avars)
<1> SUFFICES ASSUME IInv, [Next]_vars PROVE [Abs!ANext]_(Abs!avars)
  OBVIOUS
<1>1. ASSUME NEW e \in Errors, SetWbErr(e) PROVE Abs!ANext
  BY <1>1, SetAbs DEF Abs!ANext
<1>2. ASSUME NEW f \in Files, Open(f) PROVE Abs!ANext
  BY <1>2, OpenAbs DEF Abs!ANext
<1>3. ASSUME NEW f \in Files, Close(f) PROVE Abs!ANext
  BY <1>3, CloseAbs DEF Abs!ANext
<1>4. ASSUME NEW f \in Files, CheckAndAdvance(f) PROVE Abs!ANext
  BY <1>4, CheckAbs DEF Abs!ANext
<1>5. CASE UNCHANGED vars
  BY <1>5 DEF vars, Abs!avars, Owed, Blind, BlindTo
<1> QED BY <1>1, <1>2, <1>3, <1>4, <1>5 DEF Next

\* The error sequences of fs.c report every writeback failure once to each
\* holder, but for the blindness of files that copied an untold failure: Errseq
\* implements WbErrors, whichever holders are files.
THEOREM ReportsOnce == Spec => ReportedOnce
<1>1. Init => Abs!AInit
  BY InitAbs
<1>2. IInv /\ [Next]_vars => [Abs!ANext]_(Abs!avars)
  BY StepAbs
<1>3. Spec => []IInv
  BY ValuesInOrder, PTL DEF IInv
<1> QED BY <1>1, <1>2, <1>3, PTL DEF Spec, ReportedOnce, Abs!ASpec

\* Every failure recorded while a holder has its cursor open is news that its
\* next check finds, unless the holder is a file that copied that same value
\* and nobody has been told of it (file_check_and_advance_wb_err).
THEOREM NewsFound == Spec => []NewsDiffers
<1> DEFINE Found(f) == since[f] /= seq \/ (f \in RawFiles /\ ~seq.seen)
           NInv == news \subseteq open /\ \A f \in news : Found(f)
<1>1. Init => NInv
  BY DEF Init
<1>2. IInv /\ NInv /\ [Next]_vars => NInv'
  <2> SUFFICES ASSUME IInv, NInv, [Next]_vars PROVE NInv'
    OBVIOUS
  <2>0. open \subseteq Files /\ \A f \in Files : InOrder(f)
    BY DEF IInv, TypeOK, SeenInOrder
  <2>1. ASSUME NEW e \in Errors, SetWbErr(e) PROVE NInv'
    <3>1. news' = open /\ open' = open /\ since' = since /\ seq'.err /= 0 /\ ~seq'.seen
      BY <2>1, SetFacts DEF SetWbErr
    <3>2. ASSUME NEW f \in open PROVE Found(f)'
      <4>1. InOrder(f)
        BY <2>0
      <4>2. CASE f \in RawFiles
        BY <3>1, <4>2
      <4>3. CASE f \notin RawFiles
        BY <3>1, <4>1, <4>3 DEF InOrder, Zero
      <4> QED BY <4>2, <4>3
    <3> QED BY <3>1, <3>2
  <2>2. ASSUME NEW f \in Files, Open(f) PROVE NInv'
    <3>1. f \notin news /\ news' = news /\ seq' = seq /\ open \subseteq open'
      BY <2>2 DEF Open
    <3>2. ASSUME NEW g \in news PROVE since'[g] = since[g]
      BY <2>2, <3>1, <2>0 DEF Open, IInv, TypeOK
    <3> QED BY <3>1, <3>2
  <2>3. ASSUME NEW f \in Files, Close(f) PROVE NInv'
    BY <2>3 DEF Close
  <2>4. ASSUME NEW f \in Files, CheckAndAdvance(f) PROVE NInv'
    <3>1. news' = news \ {f} /\ open' = open
      BY <2>4 DEF CheckAndAdvance
    <3>2. CASE seq = since[f]
      BY <2>4, <3>1, <3>2 DEF CheckAndAdvance
    <3>3. CASE seq /= since[f]
      <4>1. seq'.seen /\ seq'.err = seq.err /\ seq'.ctr = seq.ctr /\ seq.err /= 0
            /\ since' = [since EXCEPT ![f] = seq']
        BY <2>4, <3>3, AdvanceFacts
      <4>2. ASSUME NEW g \in news, g /= f PROVE since'[g] /= seq'
        <5>1. since'[g] = since[g] /\ InOrder(g) /\ Found(g)
          BY <4>1, <4>2, <2>0 DEF IInv, TypeOK
        <5>2. SUFFICES ASSUME since[g] = seq' PROVE FALSE
          BY <5>1
        <5>3. since[g].seen /\ since[g].ctr = seq.ctr /\ since[g].err /= 0
          BY <5>2, <4>1
        <5>4. since[g] = seq
          BY <5>3, <5>1 DEF InOrder, Zero
        <5> QED BY <5>1, <5>3, <5>4
      <4> QED BY <3>1, <4>2
    <3> QED BY <3>2, <3>3
  <2>5. CASE UNCHANGED vars
    BY <2>5 DEF vars
  <2> QED BY <2>1, <2>2, <2>3, <2>4, <2>5 DEF Next
<1>3. NInv => NewsDiffers
  BY DEF NewsDiffers
<1>4. Spec => []IInv
  BY ValuesInOrder, PTL DEF IInv
<1> QED BY <1>1, <1>2, <1>3, <1>4, PTL DEF Spec
=============================================================================
