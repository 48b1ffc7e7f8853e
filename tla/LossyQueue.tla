------------------------------ MODULE LossyQueue ------------------------------
(***************************************************************************)
(* What the path from the NIC to the decoder promises, whatever threads    *)
(* and rings it is made of: packets 1, 2, 3, ... are offered in order,     *)
(* some of the newest may be lost, and the others are delivered once each  *)
(* and in the order they were offered.                                     *)
(***************************************************************************)
EXTENDS Naturals, Sequences

VARIABLES
    queue,      \* packets offered and neither lost nor delivered
    delivered,  \* packets delivered, in order
    offered     \* the number of packets offered

Init ==
    /\ queue = <<>>
    /\ delivered = <<>>
    /\ offered = 0

\* Packets arrive behind those that wait.
Offer ==
    /\ offered' \in Nat
    /\ offered' > offered
    /\ queue' = queue \o [i \in 1 .. offered' - offered |-> offered + i]
    /\ UNCHANGED delivered

\* The newest packets are lost.
Lose ==
    /\ \E n \in 0 .. Len(queue) - 1 : queue' = SubSeq(queue, 1, n)
    /\ UNCHANGED <<delivered, offered>>

\* The oldest packets are delivered.
Deliver ==
    /\ \E n \in 1 .. Len(queue) :
         /\ delivered' = delivered \o SubSeq(queue, 1, n)
         /\ queue' = SubSeq(queue, n + 1, Len(queue))
    /\ UNCHANGED offered

Next == Offer \/ Lose \/ Deliver

vars == <<queue, delivered, offered>>

Spec == Init /\ [][Next]_vars
===============================================================================
