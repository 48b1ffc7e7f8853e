----------------------------- MODULE MCFlowTable -----------------------------
(* Instances of FlowTable for TLC: small sets of frames.                   *)
EXTENDS FlowTable

\* Four hosts, as one-bit addresses and as addresses that share bits.
A == {0}
B == {1}
C == {0, 2}
D == {1, 2}

Tcp(src, dst, sport, dport, flags) ==
    [ etherType |-> "ipv4", protocol |-> "tcp", srcIp |-> src, dstIp |-> dst,
      srcPort |-> sport, dstPort |-> dport, flags |-> flags, ipPackLen |-> 41 ]

Udp(src, dst, sport, dport) ==
    [ etherType |-> "ipv4", protocol |-> "udp", srcIp |-> src, dstIp |-> dst,
      srcPort |-> sport, dstPort |-> dport, flags |-> {}, ipPackLen |-> 30 ]

NotIp ==
    [ etherType |-> "other", protocol |-> "other", srcIp |-> {}, dstIp |-> {},
      srcPort |-> {}, dstPort |-> {}, flags |-> {}, ipPackLen |-> 0 ]

\* One TCP connection, both directions, and a UDP packet of the same hosts.
OneConnection ==
    { Tcp(A, B, {4}, {5}, {"SYN"}),
      Tcp(B, A, {5}, {4}, {}),
      Tcp(A, B, {4}, {5}, {"FIN"}),
      Tcp(B, A, {5}, {4}, {"FIN"}),
      Udp(A, B, {6}, {7}) }

\* Two keys of different hosts whose XOR is the same.
CollidingHosts == { Udp(A, B, {6}, {7}), Udp(C, D, {6}, {7}), NotIp }

\* The connection, and a packet of other hosts that meets its UDP flow.
OneConnectionAndOthers == OneConnection \union (CollidingHosts \ {NotIp})

\* A connection closed by both sides.
Closing ==
    { Tcp(A, B, {4}, {5}, {}), Tcp(A, B, {4}, {5}, {"FIN"}),
      Tcp(B, A, {5}, {4}, {"FIN"}) }
===============================================================================
