------------------------------- MODULE FlowKeys -------------------------------
(***************************************************************************)
(* How the decode thread turns a captured frame into a flow key            *)
(* (Decode::RecognizeProto and RecognizeFlow in decode.cpp, struct FlowKey *)
(* in flow.h).  There are no variables here: the functions are pure.       *)
(*                                                                         *)
(* A machine word is the SET OF THE POSITIONS OF ITS ONE BITS.  The C      *)
(* operator ^ is then the symmetric difference of two sets, a 16 bit port  *)
(* promoted to 32 bits is the same set, and the value 0 is {}.             *)
(***************************************************************************)
EXTENDS Naturals, Sequences, FiniteSetsExt

Word == SUBSET (0 .. 31)
Port == SUBSET (0 .. 15)

\* Protocol numbers of protocol.h: 4, 6, 17 and 97.
Q_IP      == {2}
Q_TCP     == {1, 2}
Q_UDP     == {0, 4}
Q_ETHERIP == {0, 5, 6}

Protocols == {Q_IP, Q_TCP, Q_UDP, Q_ETHERIP}

ETHER_HEADER_LEN == 14

\* The number of uint16_t values.
UINT16 == 65536

(***************************************************************************)
(* What the headers of a captured frame say.  Header fields that lie       *)
(* beyond the layers the decoder recognises are not looked at.             *)
(***************************************************************************)
Frame ==
    [ etherType : {"ipv4", "other"},
      protocol  : {"tcp", "udp", "other"},
      srcIp     : Word,
      dstIp     : Word,
      srcPort   : Port,
      dstPort   : Port,
      flags     : SUBSET {"SYN", "FIN"},
      ipPackLen : 0 .. (UINT16 - 1) ]

FlowKey ==
    [ m_ip1 : Word, m_ip2 : Word, m_port1 : Port, m_port2 : Port,
      m_proto : Protocols ]

-------------------------------------------------------------------------------
(* The ProtoList of a frame: one node per layer the decoder recognises.    *)
RecognizeProto(f) ==
    IF f.etherType # "ipv4" THEN <<Q_ETHERIP>>
    ELSE CASE f.protocol = "tcp"   -> <<Q_ETHERIP, Q_IP, Q_TCP>>
           [] f.protocol = "udp"   -> <<Q_ETHERIP, Q_IP, Q_UDP>>
           [] f.protocol = "other" -> <<Q_ETHERIP, Q_IP>>

Recognized(f, proto) ==
    \E i \in DOMAIN RecognizeProto(f) : RecognizeProto(f)[i] = proto

HasPorts(f) == Recognized(f, Q_TCP) \/ Recognized(f, Q_UDP)

(***************************************************************************)
(* The FlowKey that RecognizeFlow fills in.  A field whose layer is not    *)
(* there keeps the 0 of the constructor; m_proto is the last layer's.      *)
(***************************************************************************)
KeyOf(f) ==
    [ m_ip1   |-> IF Recognized(f, Q_IP) THEN f.srcIp ELSE {},
      m_ip2   |-> IF Recognized(f, Q_IP) THEN f.dstIp ELSE {},
      m_port1 |-> IF HasPorts(f) THEN f.srcPort ELSE {},
      m_port2 |-> IF HasPorts(f) THEN f.dstPort ELSE {},
      m_proto |-> RecognizeProto(f)[Len(RecognizeProto(f))] ]

\* The per-frame part of the FlowContext that RecognizeFlow fills in.
CurBytes(f) == IF Recognized(f, Q_IP) THEN f.ipPackLen + ETHER_HEADER_LEN ELSE 0
IsSyn(f)    == Recognized(f, Q_TCP) /\ "SYN" \in f.flags
IsFin(f)    == Recognized(f, Q_TCP) /\ "FIN" \in f.flags

\* A hash that a missing term makes depend on the direction of the frame.
OneSidedHash(k) ==
    SymDiff(SymDiff(k.m_ip1, k.m_port1), k.m_proto)

\* FlowKey::GetHash.
GetHash(k) ==
    SymDiff(SymDiff(SymDiff(SymDiff(k.m_ip1, k.m_ip2), k.m_port1), k.m_port2),
            k.m_proto)

(***************************************************************************)
(* FlowKeyFunc and FlowKeyEqualFunc both look at GetHash only, so a key of *)
(* the unordered_maps stands for every key with its hash: the maps are     *)
(* modelled as functions from hashes.                                      *)
(***************************************************************************)
HashOf(f) == GetHash(KeyOf(f))

\* The same key seen from the other end of the conversation.
Reversed(k) == [k EXCEPT !.m_ip1 = k.m_ip2, !.m_ip2 = k.m_ip1,
                         !.m_port1 = k.m_port2, !.m_port2 = k.m_port1]

\* Two keys are the five-tuples of one conversation, in either direction.
SameConversation(k1, k2) == k1 = k2 \/ k1 = Reversed(k2)
===============================================================================
