------------------------------ MODULE SessionLog ------------------------------
(***************************************************************************)
(* What flow decoding promises, whatever tables and queues it keeps: the   *)
(* packets of a key are grouped into sessions, one at a time; a session is *)
(* written once and whole, when a SYN starts the next one, with the packet *)
(* after its second FIN, when it has lasted the timeout, or at the end.    *)
(***************************************************************************)
EXTENDS Naturals, Sequences

CONSTANTS
    Keys,       \* what the decoder takes for a conversation
    Ids,        \* the five-tuples of packets
    Times,      \* readings of the clock
    Timeout,    \* a session that has lasted so long may be ended
    Width       \* the packet counters count modulo this

VARIABLES
    open,       \* key -> the session that is open
    log,        \* key -> the sessions written, in order, each with its end
    ended       \* everything has been written

Init ==
    /\ open = <<>>
    /\ log = [k \in Keys |-> <<>>]
    /\ ended = FALSE

Plus(n) == (n + 1) % Width

\* A session with one more packet, of either side.
Grown(s) == {[s EXCEPT !.there = Plus(@)], [s EXCEPT !.back = Plus(@)]}

\* The packet may be a FIN.
MaybeFin(s) == {s, [s EXCEPT !.fins = @ + 1]}

\* A session of one packet, whose sender is the first address of its id.
First(id, t) ==
    [id |-> id, begin |-> t, there |-> Plus(0), back |-> 0, fins |-> 0]

With(k, s) == [j \in DOMAIN open \union {k} |-> IF j = k THEN s ELSE open[j]]
Without(k) == [j \in DOMAIN open \ {k} |-> open[j]]
Write(k, s, t) == log' = [log EXCEPT ![k] = Append(@, [session |-> s, end |-> t])]

Open(k) ==
    /\ k \notin DOMAIN open
    /\ \E id \in Ids, t \in Times :
         \E s \in MaybeFin(First(id, t)) : open' = With(k, s)
    /\ UNCHANGED log

Continue(k) ==
    /\ k \in DOMAIN open
    /\ open[k].fins < 2
    /\ \E s \in Grown(open[k]) :
         \E r \in MaybeFin(s) : open' = With(k, r)
    /\ UNCHANGED log

Restart(k) ==
    /\ k \in DOMAIN open
    /\ \E id \in Ids, t \in Times :
         /\ \E s \in MaybeFin(First(id, t)) : open' = With(k, s)
         /\ Write(k, open[k], t)

Finish(k) ==
    /\ k \in DOMAIN open
    /\ open[k].fins = 2
    /\ \E s \in Grown(open[k]), t \in Times : Write(k, s, t)
    /\ open' = Without(k)

Expire(k) ==
    /\ k \in DOMAIN open
    /\ \E t \in Times :
         /\ open[k].begin + Timeout <= t
         /\ Write(k, open[k], t)
    /\ open' = Without(k)

End ==
    /\ \E t \in Times :
         log' = [k \in Keys |->
                   IF k \in DOMAIN open
                   THEN Append(log[k], [session |-> open[k], end |-> t])
                   ELSE log[k]]
    /\ open' = <<>>
    /\ ended' = TRUE

Next ==
    /\ ~ ended
    /\ \/ /\ \E k \in Keys :
               Open(k) \/ Continue(k) \/ Restart(k) \/ Finish(k) \/ Expire(k)
          /\ UNCHANGED ended
       \/ End

vars == <<open, log, ended>>

Spec == Init /\ [][Next]_vars
===============================================================================
