-------------------------------- MODULE MCQcap --------------------------------
(* An instance of Qcap for TLC.                                            *)
EXTENDS Qcap

A == {0}
B == {1}

Tcp(src, dst, flags) ==
    [ etherType |-> "ipv4", protocol |-> "tcp", srcIp |-> src, dstIp |-> dst,
      srcPort |-> {4}, dstPort |-> {4}, flags |-> flags, ipPackLen |-> 41 ]

Syn == Tcp(A, B, {"SYN"})
FinOf(src, dst) == Tcp(src, dst, {"FIN"})
Datagram == [Tcp(A, B, {}) EXCEPT !.protocol = "udp"]

MCPackets == {Syn, FinOf(A, B), FinOf(B, A), Datagram}

\* A connection that the packet after its FINs closes, and one that is opened
\* again.
MCTraffic ==
    { <<Syn, FinOf(A, B), FinOf(B, A), FinOf(A, B)>>, <<Syn, Datagram, FinOf(A, B), Syn>> }
===============================================================================
