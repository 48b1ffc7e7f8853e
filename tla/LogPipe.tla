-------------------------------- MODULE LogPipe --------------------------------
(***************************************************************************)
(* What an asynchronous log promises: what it has accepted - a text, or an *)
(* order to its writer - is handled once, after everything accepted before *)
(* it, and a text is written; the texts of one caller come in the order of *)
(* its calls.  At most Room messages wait.                                 *)
(***************************************************************************)
EXTENDS Naturals, Sequences, SequencesExt

CONSTANTS Callers, Room

VARIABLES
    pending,    \* messages accepted and not handled, oldest first
    written     \* the texts written, in order

Init == pending = <<>> /\ written = <<>>

IsText(m) == m.type = "log"

\* A text is its caller and the number of the call.
Newer(m, n) == IsText(n) /\ m.by = n.by => m.n > n.n

Accept ==
    /\ Len(pending) < Room
    /\ pending' # <<>>
    /\ pending' = Append(pending, Last(pending'))
    /\ IsText(Last(pending')) =>
         /\ Last(pending').by \in Callers
         /\ \A n \in ToSet(pending) \union ToSet(written) : Newer(Last(pending'), n)
    /\ UNCHANGED written

Handle ==
    /\ pending # <<>>
    /\ pending' = Tail(pending)
    /\ written' = IF IsText(Head(pending)) THEN Append(written, Head(pending)) ELSE written

Next == Accept \/ Handle

Spec == Init /\ [][Next]_<<pending, written>>
===============================================================================
