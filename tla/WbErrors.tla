------------------------------ MODULE WbErrors ------------------------------
(***************************************************************************)
(* What writeback error reporting promises.  A failure recorded in a       *)
(* mapping is reported exactly once to every holder of a cursor open at    *)
(* the time.  A failure nobody was told of yet is also reported to a new   *)
(* holder that samples the sequence; a file that copies it (RawFiles) is   *)
(* told only when somebody else is, and until then it is blind to that     *)
(* error number: it does not notice when the same failure happens again.   *)
(***************************************************************************)
CONSTANTS Files, RawFiles, Errors, NoError

VARIABLES
    latest,  \* the last failure recorded, or NoError
    told,    \* somebody was told of it
    owed,    \* the open files that are still to be told
    blind,   \* [Files -> the failure it copied untold, or NoError]
    open,    \* open files
    ret      \* [Files -> result of the last check]

avars == <<latest, told, owed, blind, open, ret>>

Untold == IF told THEN NoError ELSE latest

AInit ==
    /\ latest = NoError /\ told = FALSE /\ owed = {} /\ open = {}
    /\ blind = [f \in Files |-> NoError] /\ ret = [f \in Files |-> NoError]

Record(e) ==
    /\ latest' = e /\ told' = FALSE /\ owed' = {f \in open : blind[f] /= e}
    /\ UNCHANGED <<blind, open, ret>>

Opened(f) ==
    /\ f \notin open /\ open' = open \cup {f}
    /\ IF f \in RawFiles
       THEN blind' = [blind EXCEPT ![f] = Untold] /\ UNCHANGED owed
       ELSE owed' = (IF Untold /= NoError THEN owed \cup {f} ELSE owed) /\ UNCHANGED blind
    /\ UNCHANGED <<latest, told, ret>>

Closed(f) ==
    /\ f \in open /\ open' = open \ {f} /\ owed' = owed \ {f}
    /\ blind' = [blind EXCEPT ![f] = NoError]
    /\ UNCHANGED <<latest, told, ret>>

\* A check.  The first one that tells of the latest failure ends all
\* blindness: those who copied it are now owed it.
Told(f) ==
    /\ f \in open
    /\ IF f \in owed
       THEN /\ ret' = [ret EXCEPT ![f] = latest] /\ told' = TRUE
            /\ owed' = {g \in open : g \in owed \/ blind[g] /= NoError} \ {f}
            /\ blind' = [g \in Files |-> NoError]
       ELSE ret' = [ret EXCEPT ![f] = NoError] /\ UNCHANGED <<told, owed, blind>>
    /\ UNCHANGED <<latest, open>>

ANext ==
    \/ \E e \in Errors : Record(e)
    \/ \E f \in Files : Opened(f) \/ Closed(f) \/ Told(f)

ASpec == AInit /\ [][ANext]_avars
=============================================================================
