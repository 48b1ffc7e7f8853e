---------------------------- MODULE FlowTable_proofs ----------------------------
(***************************************************************************)
(* Theorems about FlowTable, for any set of frames, timeout, counter width *)
(* and length of run; and, at the end, about its expiry queue alone, for   *)
(* any keys, capacity and times (FlowCacheSpec).                           *)
(***************************************************************************)
EXTENDS FlowTable, FlowCacheSpec, Lemmas

-------------------------------------------------------------------------------
(* Frames and keys.                                                        *)

LEMMA FrameFacts ==
    ASSUME NEW f \in Packets
    PROVE  /\ KeyOf(f) \in FlowKey
           /\ GetHash(KeyOf(f)) = HashOf(f)
           /\ HashOf(f) \in Hashes
           /\ KeyOf(f).m_ip1 \in Senders
           /\ CurBytes(f) \in Nat
           /\ IsSyn(f) \in BOOLEAN
           /\ IsFin(f) \in BOOLEAN
<1>1. f \in Frame
  BY FlowTableAssumption
<1>2. RecognizeProto(f)[Len(RecognizeProto(f))] \in Protocols
  <2>1. /\ Q_ETHERIP \in Protocols /\ Q_IP \in Protocols
        /\ Q_TCP \in Protocols /\ Q_UDP \in Protocols
    BY DEF Protocols
  <2>2. CASE f.etherType # "ipv4"
    <3>1. RecognizeProto(f) = <<Q_ETHERIP>>
      BY <2>2 DEF RecognizeProto
    <3> QED BY <2>1, <3>1
  <2>3. CASE f.etherType = "ipv4" /\ f.protocol = "tcp"
    <3>1. RecognizeProto(f) = <<Q_ETHERIP, Q_IP, Q_TCP>>
      BY <2>3 DEF RecognizeProto
    <3> QED BY <2>1, <3>1
  <2>4. CASE f.etherType = "ipv4" /\ f.protocol = "udp"
    <3>1. RecognizeProto(f) = <<Q_ETHERIP, Q_IP, Q_UDP>>
      BY <2>4 DEF RecognizeProto
    <3> QED BY <2>1, <3>1
  <2>5. CASE f.etherType = "ipv4" /\ f.protocol = "other"
    <3>1. RecognizeProto(f) = <<Q_ETHERIP, Q_IP>>
      BY <2>5 DEF RecognizeProto
    <3> QED BY <2>1, <3>1
  <2>6. f.protocol \in {"tcp", "udp", "other"}
    BY <1>1 DEF Frame
  <2> QED BY <2>2, <2>3, <2>4, <2>5, <2>6
<1>3. KeyOf(f) \in FlowKey
  <2>1. /\ f.srcIp \in Word /\ f.dstIp \in Word
        /\ f.srcPort \in Port /\ f.dstPort \in Port
        /\ {} \in Word /\ {} \in Port
    BY <1>1 DEF Frame, Word, Port
  <2> QED BY <1>2, <2>1 DEF KeyOf, FlowKey
<1>4. CurBytes(f) \in Nat
  <2>1. f.ipPackLen \in Nat
    BY <1>1 DEF Frame
  <2> QED BY <2>1 DEF CurBytes, ETHER_HEADER_LEN
<1>5. IsSyn(f) \in BOOLEAN /\ IsFin(f) \in BOOLEAN
  BY DEF IsSyn, IsFin
<1> QED BY <1>3, <1>4, <1>5 DEF HashOf, Hashes, Senders

\* XOR does not tell the two ends of a conversation apart.
LEMMA HashSymmetric ==
    ASSUME NEW k \in FlowKey
    PROVE  GetHash(Reversed(k)) = GetHash(k)
BY DEF GetHash, Reversed, FlowKey, SymDiff

-------------------------------------------------------------------------------
(* Contexts.                                                               *)

\* A context whose two FINs are not in the past.
FinsPending(ctx) ==
    /\ ctx.m_FINCount <= 2
    /\ ctx.m_FINCount = 2 => ctx.m_lastIsFIN

LEMMA AddType ==
    ASSUME NEW n \in Nat, NEW m \in Nat
    PROVE  Add(n, m) \in 0 .. (UINT32 - 1)
BY FlowTableAssumption DEF Add

LEMMA NewContextFacts ==
    ASSUME NEW k \in FlowKey, NEW t \in Nat
    PROVE  /\ NewContext(k, t) \in FlowContext
           /\ NewContext(k, t).id = k
           /\ NewContext(k, t).m_flowBeginTime = t
           /\ NewContext(k, t).m_FINCount = 0
<1>1. 0 \in 0 .. (UINT32 - 1) /\ 0 \in 0 .. (UINT8 - 1)
  BY FlowTableAssumption DEF UINT8
<1> QED BY <1>1 DEF NewContext, FlowContext

LEMMA CountPacketFacts ==
    ASSUME NEW ctx \in FlowContext, NEW f \in Packets
    PROVE  /\ CountPacket(ctx, f) \in FlowContext
           /\ CountPacket(ctx, f).id = ctx.id
           /\ CountPacket(ctx, f).m_flowBeginTime = ctx.m_flowBeginTime
           /\ CountPacket(ctx, f).m_FINCount = ctx.m_FINCount
           /\ CountPacket(ctx, f).m_lastIsFIN = ctx.m_lastIsFIN
<1>1. /\ Add(ctx.m_ip1To2Pkts, 1) \in 0 .. (UINT32 - 1)
      /\ Add(ctx.m_ip2To1Pkts, 1) \in 0 .. (UINT32 - 1)
      /\ Add(ctx.m_ip1To2TotalBytes, CurBytes(f)) \in 0 .. (UINT32 - 1)
      /\ Add(ctx.m_ip2To1TotalBytes, CurBytes(f)) \in 0 .. (UINT32 - 1)
  <2>1. /\ ctx.m_ip1To2Pkts \in Nat /\ ctx.m_ip2To1Pkts \in Nat
        /\ ctx.m_ip1To2TotalBytes \in Nat /\ ctx.m_ip2To1TotalBytes \in Nat
    BY FlowTableAssumption DEF FlowContext
  <2> QED BY <2>1, AddType, FrameFacts
<1> QED BY <1>1, FrameFacts DEF CountPacket, FlowContext

LEMMA NoteFinFacts ==
    ASSUME NEW ctx \in FlowContext, NEW f \in Packets
    PROVE  /\ NoteFin(ctx, f) \in FlowContext
           /\ NoteFin(ctx, f).id = ctx.id
           /\ NoteFin(ctx, f).m_flowBeginTime = ctx.m_flowBeginTime
           /\ FinsPending(ctx) /\ ~ Finished(ctx) => FinsPending(NoteFin(ctx, f))
<1> DEFINE c == (ctx.m_FINCount + IF IsFin(f) THEN 1 ELSE 0) % UINT8
<1>1. ctx.m_FINCount \in 0 .. (UINT8 - 1) /\ ctx.m_lastIsFIN \in BOOLEAN
  BY DEF FlowContext
<1>2. c \in 0 .. (UINT8 - 1)
  BY <1>1 DEF UINT8
<1>3. FinsPending(ctx) /\ ~ Finished(ctx) => c <= 2 /\ (c = 2 => IsFin(f))
  BY <1>1 DEF FinsPending, Finished, UINT8
<1>4. NoteFin(ctx, f) = [ctx EXCEPT !.m_FINCount = c, !.m_lastIsFIN = IsFin(f)]
  BY DEF NoteFin
<1> HIDE DEF c
<1> QED BY <1>2, <1>3, <1>4, FrameFacts DEF FlowContext, FinsPending

LEMMA FirstContextFacts ==
    ASSUME NEW f \in Packets, now \in Nat
    PROVE  /\ FirstContext(f) \in FlowContext
           /\ FirstContext(f).id = KeyOf(f)
           /\ FirstContext(f).m_flowBeginTime = now
           /\ FinsPending(FirstContext(f))
<1> DEFINE a == NewContext(KeyOf(f), now)
           b == CountPacket(a, f)
<1>1. a \in FlowContext /\ a.id = KeyOf(f) /\ a.m_flowBeginTime = now /\ a.m_FINCount = 0
  BY FrameFacts, NewContextFacts
<1> HIDE DEF a
<1>2. /\ b \in FlowContext /\ b.id = KeyOf(f) /\ b.m_flowBeginTime = now
      /\ b.m_FINCount = 0
  BY <1>1, CountPacketFacts
<1> HIDE DEF b
<1>3. FinsPending(b) /\ ~ Finished(b)
  BY <1>2 DEF FinsPending, Finished
<1>4. /\ NoteFin(b, f) \in FlowContext
      /\ NoteFin(b, f).id = KeyOf(f)
      /\ NoteFin(b, f).m_flowBeginTime = now
      /\ FinsPending(NoteFin(b, f))
  BY <1>2, <1>3, NoteFinFacts
<1> QED BY <1>4 DEF FirstContext, a, b
-------------------------------------------------------------------------------
(* Tables and queues, as the handlers change them.                         *)

\* A flow is keyed by the hash of its own key, which is that of a packet.
GoodFlow(h, ctx) ==
    /\ ctx \in FlowContext
    /\ FinsPending(ctx)
    /\ \E f \in Packets : ctx.id = KeyOf(f) /\ h = HashOf(f)

GoodTable(t) ==
    /\ t = [h \in DOMAIN t |-> t[h]]
    /\ DOMAIN t \subseteq Hashes
    /\ \A h \in DOMAIN t : GoodFlow(h, t[h])

\* The queue has one node per flow of the table, with the flow's expiry time.
GoodQueue(t, c) ==
    /\ CacheType(Hashes, c)
    /\ CacheConsistent(c)
    /\ Keyed(c) = DOMAIN t
    /\ \A x \in Nodes(c) : x.expire = t[x.key].m_flowBeginTime + FlowOutTime

\* With a monotone clock the queue is in the order of the expiry times.
GoodOrder(c, time) ==
    ~ ClockMayStepBack =>
        /\ Sorted(c)
        /\ \A x \in Nodes(c) : x.expire <= time + FlowOutTime

With(t, h, ctx) == [g \in DOMAIN t \union {h} |-> IF g = h THEN ctx ELSE t[g]]
Without(t, h)   == [g \in DOMAIN t \ {h} |-> t[g]]

LEMMA EmptyGood ==
    ASSUME NEW time \in Nat
    PROVE  /\ GoodTable(<<>>)
           /\ GoodQueue(<<>>, EmptyCache)
           /\ GoodOrder(EmptyCache, time)
<1>1. DOMAIN <<>> = {} /\ <<>> = [h \in {} |-> <<>>[h]]
  OBVIOUS
<1> QED BY <1>1, EmptyCacheProperties DEF GoodTable, GoodQueue, GoodOrder

LEMMA WithGood ==
    ASSUME NEW t, GoodTable(t), NEW h \in Hashes, NEW ctx, GoodFlow(h, ctx)
    PROVE  GoodTable(With(t, h, ctx))
BY DEF GoodTable, With

LEMMA WithoutGood ==
    ASSUME NEW t, GoodTable(t), NEW h
    PROVE  GoodTable(Without(t, h))
BY DEF GoodTable, Without

\* The key of a node is a key of the map.
LEMMA NodeKeys ==
    ASSUME NEW K, NEW c, CacheType(K, c), CacheConsistent(c), NEW x \in Nodes(c)
    PROVE  x.key \in Keyed(c) /\ x.expire \in Nat
<1>1. PICK i \in 1 .. Len(c.m_cacheList) : x = c.m_cacheList[i]
  BY DEF Nodes
<1>2. x \in Node(K)
  BY <1>1, ElementOfSeq DEF CacheType
<1> QED BY <1>1, <1>2 DEF CacheConsistent, Node

LEMMA InsertGood ==
    ASSUME NEW t, NEW c, GoodQueue(t, c), NEW time \in Nat, GoodOrder(c, time),
           NEW h \in Hashes \ DOMAIN t,
           NEW ctx, ctx.m_flowBeginTime = time
    PROVE  /\ GoodQueue(With(t, h, ctx), Insert(c, h, time + FlowOutTime))
           /\ GoodOrder(Insert(c, h, time + FlowOutTime), time)
<1> DEFINE e == time + FlowOutTime
           d == Insert(c, h, e)
           n == NewNode(c.m_cacheList, h, e)
<1>1. e \in Nat
  BY FlowTableAssumption
<1>2. CacheType(Hashes, c) /\ CacheConsistent(c) /\ ~ Count(c, h)
  BY DEF GoodQueue, Count
<1> HIDE DEF e
<1>3. /\ CacheType(Hashes, d)
      /\ CacheConsistent(d)
      /\ Keyed(d) = Keyed(c) \union {h}
      /\ Nodes(d) = Nodes(c) \union {n}
      /\ Sorted(c) /\ (\A x \in Nodes(c) : x.expire <= e) => Sorted(d)
  BY <1>1, <1>2, InsertProperties
<1>4. n.key = h /\ n.expire = e
  BY DEF NewNode
<1> HIDE DEF d, n
<1>5. ASSUME NEW x \in Nodes(d)
      PROVE  x.expire = With(t, h, ctx)[x.key].m_flowBeginTime + FlowOutTime
  <2>1. CASE x = n
    BY <2>1, <1>4 DEF With, e
  <2>2. CASE x \in Nodes(c)
    <3>1. x.key \in DOMAIN t
      BY <2>2, <1>2, NodeKeys DEF GoodQueue
    <3>2. With(t, h, ctx)[x.key] = t[x.key]
      BY <3>1 DEF With
    <3> QED BY <3>2, <2>2 DEF GoodQueue
  <2> QED BY <1>3, <2>1, <2>2
<1>6. Keyed(d) = DOMAIN With(t, h, ctx)
  BY <1>3 DEF GoodQueue, With
<1>7. GoodQueue(With(t, h, ctx), d)
  BY <1>3, <1>5, <1>6 DEF GoodQueue
<1>8. GoodOrder(d, time)
  <2>1. e <= e
    BY <1>1
  <2> QED BY <2>1, <1>3, <1>4 DEF GoodOrder, e
<1> QED BY <1>7, <1>8 DEF d, e

LEMMA DeleteGood ==
    ASSUME NEW t, NEW c, GoodQueue(t, c), NEW time, GoodOrder(c, time),
           NEW h \in DOMAIN t
    PROVE  /\ GoodQueue(Without(t, h), Delete(c, h))
           /\ GoodOrder(Delete(c, h), time)
<1> DEFINE d == Delete(c, h)
<1>1. CacheType(Hashes, c) /\ CacheConsistent(c) /\ Count(c, h)
  BY DEF GoodQueue, Count
<1>2. /\ CacheType(Hashes, d)
      /\ CacheConsistent(d)
      /\ Keyed(d) = Keyed(c) \ {h}
      /\ Nodes(d) = {x \in Nodes(c) : x.key # h}
      /\ Sorted(c) => Sorted(d)
  BY <1>1, DeleteProperties
<1> HIDE DEF d
<1>3. ASSUME NEW x \in Nodes(d)
      PROVE  x.expire = Without(t, h)[x.key].m_flowBeginTime + FlowOutTime
  <2>1. x \in Nodes(c) /\ x.key \in DOMAIN t \ {h}
    BY <1>1, <1>2, NodeKeys DEF GoodQueue
  <2>2. Without(t, h)[x.key] = t[x.key]
    BY <2>1 DEF Without
  <2> QED BY <2>1, <2>2 DEF GoodQueue
<1>4. Keyed(d) = DOMAIN Without(t, h)
  BY <1>2 DEF GoodQueue, Without
<1>5. GoodQueue(Without(t, h), d)
  BY <1>2, <1>3, <1>4 DEF GoodQueue
<1>6. GoodOrder(d, time)
  BY <1>2 DEF GoodOrder
<1> QED BY <1>5, <1>6 DEF d

\* A packet counted in a flow leaves the flow's expiry time alone.
LEMMA RecountGood ==
    ASSUME NEW t, NEW c, GoodQueue(t, c), NEW h \in DOMAIN t, NEW ctx,
           ctx.m_flowBeginTime = t[h].m_flowBeginTime
    PROVE  GoodQueue(With(t, h, ctx), c)
<1>1. ASSUME NEW x \in Nodes(c)
      PROVE  x.expire = With(t, h, ctx)[x.key].m_flowBeginTime + FlowOutTime
  <2>1. x.key \in DOMAIN t
    BY NodeKeys DEF GoodQueue
  <2>2. With(t, h, ctx)[x.key].m_flowBeginTime = t[x.key].m_flowBeginTime
    BY <2>1 DEF With
  <2> QED BY <2>2 DEF GoodQueue
<1>2. DOMAIN With(t, h, ctx) = DOMAIN t
  BY DEF With
<1> QED BY <1>1, <1>2 DEF GoodQueue

\* If the oldest flow of an ordered queue has not expired, none has.
LEMMA NoneExpired ==
    ASSUME NEW c, CacheType(Hashes, c), CacheConsistent(c), Sorted(c),
           NEW time \in Nat, ~ GetExpired(c, time), NEW x \in Nodes(c)
    PROVE  x.expire > time
<1>1. PICK i \in 1 .. Len(c.m_cacheList) : x = c.m_cacheList[i]
  BY DEF Nodes
<1>2. x.key \in Keyed(c) /\ x.expire \in Nat
  BY NodeKeys
<1>3. /\ 1 \in 1 .. Len(c.m_cacheList)
      /\ Head(c.m_cacheList) = c.m_cacheList[1]
  BY <1>2, OldestInMap
<1>4. c.m_cacheList[1].expire \in Nat
  BY <1>3, NodeKeys DEF Nodes
<1>5. c.m_cacheList[1].expire <= x.expire
  <2>1. 1 <= i
    OBVIOUS
  <2> QED BY <2>1, <1>1, <1>3 DEF Sorted
<1>6. ~ (c.m_cacheList[1].expire <= time)
  BY <1>2, <1>3 DEF GetExpired
<1> QED BY <1>2, <1>4, <1>5, <1>6

-------------------------------------------------------------------------------
(***************************************************************************)
(* The inductive invariant.  TypeOK is not inductive: that a node of the   *)
(* queue has a flow, and a flow a node, is what makes the sweep and the    *)
(* SYN that reopens a flow preserve it.  What is left of TypeOK when the   *)
(* table and the queue are taken care of is Types.                         *)
(***************************************************************************)
Types ==
    /\ pc \in {"loop", "parse", "sweep", "clear", "exited", "aborted"}
    /\ todo \in Seq(Packets)
    /\ pc = "parse" => todo # <<>>
    /\ now \in Nat
    /\ packetLog \in [Hashes -> Seq(FlowRecord)]
    /\ swept \in Nat
    /\ handled \in [Hashes \X Senders -> [pkts : Nat, bytes : Nat]]
    /\ finNoted \in {"none", "inTable", "erased"}

QueueOK ==
    /\ CacheType(Hashes, m_flowCache)
    /\ Running => GoodQueue(m_flowTable, m_flowCache)
    /\ Running => GoodOrder(m_flowCache, now)

NoneLeftBehind == ~ ClockMayStepBack => NoExpiredFlowAfterSweep

IInv == Types /\ GoodTable(m_flowTable) /\ QueueOK /\ NoneLeftBehind

LEMMA IInvTypeOK ==
    ASSUME IInv
    PROVE  TypeOK
<1>1. m_flowTable \in [DOMAIN m_flowTable -> FlowContext]
  BY DEF IInv, GoodTable, GoodFlow
<1>2. DOMAIN m_flowTable \subseteq Hashes
  BY DEF IInv, GoodTable
<1> QED BY <1>1, <1>2 DEF IInv, Types, QueueOK, CacheType, TypeOK

LEMMA InitIInv ==
    ASSUME Init
    PROVE  IInv
<1>1. Types
  BY DEF Init, Types
<1>2. /\ GoodTable(m_flowTable)
      /\ GoodQueue(m_flowTable, m_flowCache)
      /\ GoodOrder(m_flowCache, now)
  <2>1. now \in Nat /\ m_flowTable = <<>> /\ m_flowCache = EmptyCache
    BY DEF Init
  <2> QED BY <2>1, EmptyGood
<1>3. NoneLeftBehind
  BY DEF Init, NoneLeftBehind, NoExpiredFlowAfterSweep
<1> QED BY <1>1, <1>2, <1>3 DEF IInv, QueueOK, GoodQueue

\* A record written for a flow keeps the type of the log.
LEMMA LogType ==
    ASSUME Types, NEW h \in Hashes, NEW ctx \in FlowContext, NEW end \in Nat,
           packetLog' = [packetLog EXCEPT ![h] = Append(@, [ctx |-> ctx, end |-> end])]
    PROVE  packetLog' \in [Hashes -> Seq(FlowRecord)]
<1>1. [ctx |-> ctx, end |-> end] \in FlowRecord
  BY DEF FlowRecord
<1>2. packetLog[h] \in Seq(FlowRecord)
  BY DEF Types
<1>3. Append(packetLog[h], [ctx |-> ctx, end |-> end]) \in Seq(FlowRecord)
  BY <1>1, <1>2, AppendProperties
<1> QED BY <1>3 DEF Types

LEMMA DequeueStep ==
    ASSUME IInv, Dequeue
    PROVE  IInv'
<1> USE DEF IInv
<1>1. PICK batch \in BoundedSeq(Packets, MaxBatch) : batch # <<>> /\ todo' = batch
  BY DEF Dequeue
<1>2. batch \in Seq(Packets)
  BY <1>1, FlowTableAssumption DEF BoundedSeq, SeqOf
<1>3. Types'
  BY <1>1, <1>2 DEF Dequeue, Types
<1>4. QueueOK'
  BY DEF Dequeue, QueueOK, Running, GoodQueue, GoodOrder
<1>5. GoodTable(m_flowTable)' /\ NoneLeftBehind'
  BY DEF Dequeue, GoodTable, NoneLeftBehind, NoExpiredFlowAfterSweep
<1> QED BY <1>3, <1>4, <1>5

\* What the branches of InsertFlowTable have in common.
LEMMA NextPacketTypes ==
    ASSUME Types, todo # <<>>, NEW f \in Packets, NextPacket(f),
           packetLog' \in [Hashes -> Seq(FlowRecord)],
           finNoted' \in {"inTable", "erased"}
    PROVE  Types' /\ Running /\ now' = now /\ pc' # "loop"
<1>1. Tail(todo) \in Seq(Packets)
  BY HeadTailProperties DEF Types
<1>2. handled' \in [Hashes \X Senders -> [pkts : Nat, bytes : Nat]]
  <2> DEFINE k == <<HashOf(f), KeyOf(f).m_ip1>>
             n == [pkts |-> handled[k].pkts + 1, bytes |-> handled[k].bytes + CurBytes(f)]
  <2>1. k \in Hashes \X Senders
    BY FrameFacts
  <2>2. handled[k] \in [pkts : Nat, bytes : Nat]
    BY <2>1 DEF Types
  <2>3. n \in [pkts : Nat, bytes : Nat]
    <3>1. CurBytes(f) \in Nat
      BY FrameFacts
    <3> HIDE DEF k
    <3>2. handled[k].pkts + 1 \in Nat /\ handled[k].bytes + CurBytes(f) \in Nat
      BY <2>2, <3>1
    <3> QED BY <3>2
  <2>4. handled' = [handled EXCEPT ![k] = n]
    BY DEF NextPacket
  <2> HIDE DEF k, n
  <2> QED BY <2>3, <2>4 DEF Types
<1> QED BY <1>1, <1>2 DEF NextPacket, Types, Running

LEMMA OpenFlowStep ==
    ASSUME IInv, todo # <<>>, NEW f \in Packets, OpenFlow(f)
    PROVE  IInv'
<1> DEFINE h == HashOf(f)
           ctx == FirstContext(f)
<1>1. h \in Hashes /\ h \notin DOMAIN m_flowTable /\ NextPacket(f)
  BY FrameFacts DEF OpenFlow, Opens
<1>2. /\ ctx \in FlowContext /\ ctx.id = KeyOf(f)
      /\ ctx.m_flowBeginTime = now /\ FinsPending(ctx)
  BY FirstContextFacts DEF IInv, Types
<1>3. /\ m_flowTable' = With(m_flowTable, h, ctx)
      /\ m_flowCache' = Insert(m_flowCache, h, now + FlowOutTime)
  BY DEF OpenFlow, WithFlow, With, Expiry
<1>4. Types' /\ Running /\ now' = now /\ pc' # "loop"
  <2>1. packetLog' \in [Hashes -> Seq(FlowRecord)] /\ finNoted' \in {"inTable", "erased"}
    BY DEF OpenFlow, IInv, Types
  <2> QED BY <1>1, <2>1, NextPacketTypes DEF IInv
<1>5. GoodFlow(h, ctx)
  BY <1>2 DEF GoodFlow
<1> HIDE DEF h, ctx
<1>6. GoodTable(m_flowTable')
  BY <1>1, <1>3, <1>5, WithGood DEF IInv
<1>7. /\ GoodQueue(m_flowTable, m_flowCache)
      /\ GoodOrder(m_flowCache, now)
      /\ now \in Nat
  BY <1>4 DEF IInv, QueueOK, Types
<1>8. GoodQueue(m_flowTable', m_flowCache') /\ GoodOrder(m_flowCache', now)
  BY <1>1, <1>2, <1>3, <1>7, InsertGood
<1>9. QueueOK'
  BY <1>4, <1>8 DEF QueueOK, GoodQueue
<1>10. NoneLeftBehind'
  BY <1>4 DEF NoneLeftBehind, NoExpiredFlowAfterSweep
<1> QED BY <1>4, <1>6, <1>9, <1>10 DEF IInv

\* Replacing a flow is erasing it and opening another under its key.
LEMMA ReplaceIsReopen ==
    ASSUME NEW t, NEW h, NEW ctx
    PROVE  With(Without(t, h), h, ctx) = With(t, h, ctx)
<1>1. DOMAIN With(Without(t, h), h, ctx) = DOMAIN With(t, h, ctx)
  BY DEF With, Without
<1>2. ASSUME NEW g \in DOMAIN With(t, h, ctx)
      PROVE  With(Without(t, h), h, ctx)[g] = With(t, h, ctx)[g]
  BY DEF With, Without
<1> QED BY <1>1, <1>2 DEF With

LEMMA ReopenFlowStep ==
    ASSUME IInv, todo # <<>>, NEW f \in Packets, ReopenFlow(f)
    PROVE  IInv'
<1> DEFINE h == HashOf(f)
           ctx == FirstContext(f)
           t == Without(m_flowTable, h)
           c == Delete(m_flowCache, h)
<1>1. h \in Hashes /\ h \in DOMAIN m_flowTable /\ NextPacket(f)
  BY FrameFacts DEF ReopenFlow, Reopens
<1>2. /\ ctx \in FlowContext /\ ctx.id = KeyOf(f)
      /\ ctx.m_flowBeginTime = now /\ FinsPending(ctx)
  BY FirstContextFacts DEF IInv, Types
<1>3. m_flowTable' = With(m_flowTable, h, ctx)
  BY DEF ReopenFlow, WithFlow, With
<1>4. m_flowCache' = Insert(c, h, now + FlowOutTime)
  BY DEF ReopenFlow, Expiry
<1>5. packetLog' \in [Hashes -> Seq(FlowRecord)]
  <2>1. m_flowTable[h] \in FlowContext /\ now \in Nat
    BY <1>1 DEF IInv, GoodTable, GoodFlow, Types
  <2>2. packetLog' = [packetLog EXCEPT ![h] =
                        Append(@, [ctx |-> m_flowTable[h], end |-> now])]
    BY DEF ReopenFlow, Logged
  <2> HIDE DEF h
  <2> QED BY <1>1, <2>1, <2>2, LogType DEF IInv
<1>6. Types' /\ Running /\ now' = now /\ pc' # "loop"
  <2>1. finNoted' \in {"inTable", "erased"}
    BY DEF ReopenFlow
  <2> QED BY <1>1, <1>5, <2>1, NextPacketTypes DEF IInv
<1>7. GoodFlow(h, ctx)
  BY <1>2 DEF GoodFlow
<1> HIDE DEF h, ctx
<1>8. GoodTable(m_flowTable')
  BY <1>1, <1>3, <1>7, WithGood DEF IInv
<1>9. /\ GoodQueue(m_flowTable, m_flowCache)
      /\ GoodOrder(m_flowCache, now)
      /\ now \in Nat
  BY <1>6 DEF IInv, QueueOK, Types
<1>10. GoodQueue(t, c) /\ GoodOrder(c, now)
  BY <1>1, <1>9, DeleteGood
<1>11. h \notin DOMAIN t
  BY DEF Without
<1>12. m_flowTable' = With(t, h, ctx)
  BY <1>3, ReplaceIsReopen
<1> HIDE DEF t, c
<1>13. GoodQueue(m_flowTable', m_flowCache') /\ GoodOrder(m_flowCache', now)
  BY <1>1, <1>2, <1>4, <1>9, <1>10, <1>11, <1>12, InsertGood
<1>14. QueueOK'
  BY <1>6, <1>13 DEF QueueOK, GoodQueue
<1>15. NoneLeftBehind'
  BY <1>6 DEF NoneLeftBehind, NoExpiredFlowAfterSweep
<1> QED BY <1>6, <1>8, <1>14, <1>15 DEF IInv

LEMMA CountInFlowStep ==
    ASSUME IInv, todo # <<>>, NEW f \in Packets, CountInFlow(f)
    PROVE  IInv'
<1> DEFINE h == HashOf(f)
           old == m_flowTable[h]
           cnt == CountPacket(old, f)
           ctx == NoteFin(cnt, f)
<1>1. /\ h \in Hashes /\ h \in DOMAIN m_flowTable /\ NextPacket(f)
      /\ ~ Finished(old)
  BY FrameFacts DEF CountInFlow, Continues
<1>2. GoodFlow(h, old)
  BY <1>1 DEF IInv, GoodTable
<1>3. m_flowTable' = [m_flowTable EXCEPT ![h] = ctx]
  BY DEF CountInFlow
<1>4. Types' /\ Running /\ now' = now /\ pc' # "loop"
  <2>1. packetLog' \in [Hashes -> Seq(FlowRecord)] /\ finNoted' \in {"inTable", "erased"}
    BY DEF CountInFlow, IInv, Types
  <2> QED BY <1>1, <2>1, NextPacketTypes DEF IInv
<1> HIDE DEF h
<1>5. m_flowTable' = With(m_flowTable, h, ctx)
  <2> HIDE DEF ctx
  <2>1. m_flowTable = [g \in DOMAIN m_flowTable |-> m_flowTable[g]]
    BY DEF IInv, GoodTable
  <2>2. DOMAIN m_flowTable \union {h} = DOMAIN m_flowTable
    BY <1>1
  <2> QED BY <1>3, <2>1, <2>2 DEF With
<1>6. /\ cnt \in FlowContext /\ cnt.id = old.id
      /\ cnt.m_flowBeginTime = old.m_flowBeginTime
      /\ cnt.m_FINCount = old.m_FINCount /\ cnt.m_lastIsFIN = old.m_lastIsFIN
  BY <1>2, CountPacketFacts DEF GoodFlow
<1>7. FinsPending(cnt) /\ ~ Finished(cnt)
  BY <1>1, <1>2, <1>6 DEF GoodFlow, FinsPending, Finished
<1> HIDE DEF old, cnt
<1>8. /\ ctx \in FlowContext /\ ctx.id = cnt.id
      /\ ctx.m_flowBeginTime = cnt.m_flowBeginTime /\ FinsPending(ctx)
  BY <1>6, <1>7, NoteFinFacts
<1> HIDE DEF ctx
<1>9. GoodFlow(h, ctx)
  BY <1>2, <1>6, <1>8 DEF GoodFlow
<1>10. GoodTable(m_flowTable')
  BY <1>1, <1>5, <1>9, WithGood DEF IInv
<1>11. GoodQueue(m_flowTable', m_flowCache)
  <2>1. GoodQueue(m_flowTable, m_flowCache)
    BY <1>4 DEF IInv, QueueOK
  <2>2. ctx.m_flowBeginTime = m_flowTable[h].m_flowBeginTime
    BY <1>6, <1>8 DEF old
  <2> QED BY <1>1, <1>5, <2>1, <2>2, RecountGood
<1>12. QueueOK'
  BY <1>4, <1>11 DEF IInv, QueueOK, GoodQueue, CountInFlow
<1>13. NoneLeftBehind'
  BY <1>4 DEF NoneLeftBehind, NoExpiredFlowAfterSweep
<1> QED BY <1>4, <1>10, <1>12, <1>13 DEF IInv

LEMMA FinishFlowStep ==
    ASSUME IInv, todo # <<>>, NEW f \in Packets, FinishFlow(f)
    PROVE  IInv'
<1> DEFINE h == HashOf(f)
           ctx == CountPacket(m_flowTable[h], f)
<1>1. h \in Hashes /\ h \in DOMAIN m_flowTable /\ NextPacket(f)
  BY FrameFacts DEF FinishFlow, Closes
<1>2. ctx \in FlowContext /\ now \in Nat
  BY <1>1, CountPacketFacts DEF IInv, GoodTable, GoodFlow, Types
<1>3. /\ m_flowTable' = Without(m_flowTable, h)
      /\ m_flowCache' = Delete(m_flowCache, h)
  BY DEF FinishFlow, WithoutFlows, Without
<1>4. packetLog' = [packetLog EXCEPT ![h] = Append(@, [ctx |-> ctx, end |-> now])]
  BY DEF FinishFlow, Logged
<1>5. finNoted' \in {"inTable", "erased"}
  BY DEF FinishFlow
<1> HIDE DEF h, ctx
<1>6. packetLog' \in [Hashes -> Seq(FlowRecord)]
  BY <1>1, <1>2, <1>4, LogType DEF IInv
<1>7. Types' /\ Running /\ now' = now /\ pc' # "loop"
  BY <1>1, <1>5, <1>6, NextPacketTypes DEF IInv
<1>8. GoodTable(m_flowTable')
  BY <1>3, WithoutGood DEF IInv
<1>9. GoodQueue(m_flowTable', m_flowCache') /\ GoodOrder(m_flowCache', now)
  <2>1. GoodQueue(m_flowTable, m_flowCache) /\ GoodOrder(m_flowCache, now)
    BY <1>7 DEF IInv, QueueOK
  <2> QED BY <1>1, <1>3, <2>1, DeleteGood
<1>10. QueueOK'
  BY <1>7, <1>9 DEF QueueOK, GoodQueue
<1>11. NoneLeftBehind'
  BY <1>7 DEF NoneLeftBehind, NoExpiredFlowAfterSweep
<1> QED BY <1>7, <1>8, <1>10, <1>11 DEF IInv

LEMMA ClearOldestStep ==
    ASSUME IInv, ClearOldest
    PROVE  IInv'
<1> DEFINE h == Oldest
<1>1. h \in DOMAIN m_flowTable /\ pc = "clear" /\ Running
  BY DEF ClearOldest, AssertionsHold, Clearing, Running
<1>2. h \in Hashes /\ m_flowTable[h] \in FlowContext /\ swept \in Nat
  BY <1>1 DEF IInv, GoodTable, GoodFlow, Types
<1>3. /\ m_flowTable' = Without(m_flowTable, h)
      /\ m_flowCache' = Delete(m_flowCache, h)
      /\ packetLog' = [packetLog EXCEPT ![h] =
                         Append(@, [ctx |-> m_flowTable[h], end |-> swept])]
  BY DEF ClearOldest, WithoutFlows, Without
<1> HIDE DEF h
<1>4. Types'
  <2>1. packetLog' \in [Hashes -> Seq(FlowRecord)]
    BY <1>2, <1>3, LogType DEF IInv
  <2> QED BY <2>1, <1>1 DEF ClearOldest, IInv, Types
<1>5. GoodTable(m_flowTable')
  BY <1>3, WithoutGood DEF IInv
<1>6. GoodQueue(m_flowTable', m_flowCache') /\ GoodOrder(m_flowCache', now)
  <2>1. GoodQueue(m_flowTable, m_flowCache) /\ GoodOrder(m_flowCache, now)
    BY <1>1 DEF IInv, QueueOK
  <2> QED BY <1>1, <1>3, <2>1, DeleteGood
<1>7. QueueOK'
  BY <1>6 DEF QueueOK, GoodQueue, ClearOldest
<1>8. NoneLeftBehind'
  BY <1>1 DEF ClearOldest, NoneLeftBehind, NoExpiredFlowAfterSweep
<1> QED BY <1>4, <1>5, <1>7, <1>8 DEF IInv

(***************************************************************************)
(* When the loop of ClearExpiredFlow ends, the oldest flow has not expired *)
(* and, in an ordered queue, neither has any other.                        *)
(***************************************************************************)
LEMMA ClearEndsStep ==
    ASSUME IInv, ClearEnds
    PROVE  IInv'
<1>1. Types'
  BY DEF ClearEnds, IInv, Types
<1>2. GoodTable(m_flowTable)'
  BY DEF ClearEnds, IInv, GoodTable
<1>3. /\ GoodQueue(m_flowTable, m_flowCache) /\ GoodOrder(m_flowCache, now)
      /\ swept \in Nat /\ ~ GetExpired(m_flowCache, swept)
  BY DEF ClearEnds, IInv, QueueOK, Running, Types
<1>4. QueueOK'
  BY <1>3 DEF ClearEnds, QueueOK, GoodQueue, GoodOrder
<1>5. ASSUME ~ ClockMayStepBack, NEW h \in DOMAIN m_flowTable
      PROVE  m_flowTable[h].m_flowBeginTime + FlowOutTime > swept
  <2>1. PICK x \in Nodes(m_flowCache) : x.key = h
    BY <1>3 DEF GoodQueue, CacheConsistent, Nodes
  <2>2. x.expire > swept
    BY <1>3, <1>5, NoneExpired DEF GoodQueue, GoodOrder
  <2> QED BY <1>3, <2>1, <2>2 DEF GoodQueue
<1>6. NoneLeftBehind'
  BY <1>5 DEF ClearEnds, NoneLeftBehind, NoExpiredFlowAfterSweep
<1> QED BY <1>1, <1>2, <1>4, <1>6 DEF IInv

LEMMA ClearExpiredFlowStep ==
    ASSUME IInv, ClearExpiredFlow
    PROVE  IInv'
<1>1. Types'
  BY DEF ClearExpiredFlow, IInv, Types
<1>2. GoodTable(m_flowTable)' /\ NoneLeftBehind'
  BY DEF ClearExpiredFlow, IInv, GoodTable, NoneLeftBehind, NoExpiredFlowAfterSweep
<1>3. QueueOK'
  BY DEF ClearExpiredFlow, IInv, QueueOK, Running, GoodQueue, GoodOrder
<1> QED BY <1>1, <1>2, <1>3 DEF IInv

LEMMA AssertFailsStep ==
    ASSUME IInv, AssertFails
    PROVE  IInv'
<1>1. Types'
  BY DEF AssertFails, IInv, Types
<1>2. GoodTable(m_flowTable)' /\ NoneLeftBehind'
  BY DEF AssertFails, IInv, GoodTable, NoneLeftBehind, NoExpiredFlowAfterSweep
<1>3. QueueOK'
  BY DEF AssertFails, IInv, QueueOK, Running
<1> QED BY <1>1, <1>2, <1>3 DEF IInv

LEMMA DumpAllFlowStep ==
    ASSUME IInv, DumpAllFlow
    PROVE  IInv'
<1>1. ASSUME NEW h \in Hashes
      PROVE  (IF h \in DOMAIN m_flowTable
              THEN Append(packetLog[h], [ctx |-> m_flowTable[h], end |-> now])
              ELSE packetLog[h]) \in Seq(FlowRecord)
  <2>1. packetLog[h] \in Seq(FlowRecord) /\ now \in Nat
    BY DEF IInv, Types
  <2>2. CASE h \in DOMAIN m_flowTable
    <3>1. [ctx |-> m_flowTable[h], end |-> now] \in FlowRecord
      BY <2>1, <2>2 DEF IInv, GoodTable, GoodFlow, FlowRecord
    <3> QED BY <2>1, <2>2, <3>1, AppendProperties
  <2> QED BY <2>1, <2>2
<1>2. Types'
  BY <1>1 DEF DumpAllFlow, IInv, Types
<1>3. GoodTable(m_flowTable')
  <2>1. m_flowTable' = <<>> /\ now \in Nat
    BY DEF DumpAllFlow, IInv, Types
  <2> QED BY <2>1, EmptyGood
<1>4. QueueOK' /\ NoneLeftBehind'
  BY DEF DumpAllFlow, IInv, QueueOK, Running, NoneLeftBehind, NoExpiredFlowAfterSweep
<1> QED BY <1>2, <1>3, <1>4 DEF IInv

LEMMA AdvanceClockStep ==
    ASSUME IInv, AdvanceClock
    PROVE  IInv'
<1>1. now' \in Nat /\ now \in Nat /\ (~ ClockMayStepBack => now' > now)
  BY FlowTableAssumption DEF AdvanceClock, IInv, Types
<1>2. Types'
  BY <1>1 DEF AdvanceClock, IInv, Types
<1>3. GoodTable(m_flowTable)' /\ NoneLeftBehind'
  BY DEF AdvanceClock, IInv, GoodTable, NoneLeftBehind, NoExpiredFlowAfterSweep
<1>4. GoodQueue(m_flowTable, m_flowCache) /\ GoodOrder(m_flowCache, now)
  BY DEF AdvanceClock, IInv, QueueOK, Running
<1>5. GoodOrder(m_flowCache, now')
  <2>1. SUFFICES ASSUME ~ ClockMayStepBack, NEW x \in Nodes(m_flowCache)
                 PROVE  x.expire <= now' + FlowOutTime
    BY <1>4 DEF GoodOrder
  <2>2. x.expire \in Nat
    BY <1>4, NodeKeys DEF GoodQueue
  <2>3. x.expire <= now + FlowOutTime
    BY <1>4, <2>1 DEF GoodOrder
  <2> QED BY <1>1, <2>1, <2>2, <2>3, FlowTableAssumption
<1>6. QueueOK'
  BY <1>4, <1>5 DEF AdvanceClock, QueueOK, Running, GoodQueue
<1> QED BY <1>2, <1>3, <1>6 DEF IInv

-------------------------------------------------------------------------------
LEMMA NextIInv ==
    ASSUME IInv, [Next]_vars
    PROVE  IInv'
<1>1. CASE Dequeue
  BY <1>1, DequeueStep
<1>2. CASE InsertFlowTable
  <2>1. todo # <<>> /\ Head(todo) \in Packets
    <3>1. todo # <<>> /\ todo \in Seq(Packets)
      BY <1>2 DEF InsertFlowTable, IInv, Types
    <3> QED BY <3>1, HeadTailProperties
  <2>2. CASE OpenFlow(Head(todo))
    BY <2>1, <2>2, OpenFlowStep
  <2>3. CASE ReopenFlow(Head(todo))
    BY <2>1, <2>3, ReopenFlowStep
  <2>4. CASE CountInFlow(Head(todo))
    BY <2>1, <2>4, CountInFlowStep
  <2>5. CASE FinishFlow(Head(todo))
    BY <2>1, <2>5, FinishFlowStep
  <2> QED BY <1>2, <2>2, <2>3, <2>4, <2>5 DEF InsertFlowTable
<1>3. CASE AssertFails
  BY <1>3, AssertFailsStep
<1>4. CASE ClearExpiredFlow
  BY <1>4, ClearExpiredFlowStep
<1>5. CASE ClearOldest
  BY <1>5, ClearOldestStep
<1>6. CASE ClearEnds
  BY <1>6, ClearEndsStep
<1>7. CASE DumpAllFlow
  BY <1>7, DumpAllFlowStep
<1>8. CASE AdvanceClock
  BY <1>8, AdvanceClockStep
<1>9. CASE UNCHANGED vars
  BY <1>9 DEF vars, IInv, Types, GoodTable, QueueOK, Running, GoodQueue, GoodOrder,
     NoneLeftBehind, NoExpiredFlowAfterSweep
<1> QED BY <1>1, <1>2, <1>3, <1>4, <1>5, <1>6, <1>7, <1>8, <1>9 DEF Next

(* The invariant holds of every state of every behaviour of the thread.    *)
THEOREM SpecIInv == Spec => []IInv
<1>1. Init => IInv
  BY InitIInv
<1>2. IInv /\ [Next]_vars => IInv'
  BY NextIInv
<1> QED BY <1>1, <1>2, PTL DEF Spec

(* The variables keep their types: the counters stay within a uint32_t,    *)
(* the FIN count within a uint8_t.                                         *)
THEOREM TypeCorrect == Spec => []TypeOK
<1>1. IInv => TypeOK
  BY IInvTypeOK
<1> QED BY <1>1, SpecIInv, PTL

(* However packets, sweeps and clock steps follow one another, the flow    *)
(* table and the expiry queue describe the same flows (InsertFlow,         *)
(* EraseFlow, and the erase-and-insert of a SYN in InsertFlowTable).       *)
THEOREM TableAndQueueAgree == Spec => []TableMatchesCache
<1>1. ASSUME IInv, Running
      PROVE  TableMatchesCache
  <2>1. GoodQueue(m_flowTable, m_flowCache)
    BY <1>1 DEF IInv, QueueOK
  <2>2. ASSUME NEW i \in 1 .. Len(m_flowCache.m_cacheList)
        PROVE  m_flowCache.m_cacheList[i].expire =
                 m_flowTable[m_flowCache.m_cacheList[i].key].m_flowBeginTime + FlowOutTime
    BY <2>1 DEF GoodQueue, Nodes
  <2> QED BY <2>1, <2>2 DEF GoodQueue, TableMatchesCache
<1>2. IInv => TableMatchesCache
  BY <1>1 DEF TableMatchesCache
<1> QED BY <1>2, SpecIInv, PTL

(* FlowKey::GetHash is symmetric and a flow sits at the hash of its key,   *)
(* so the two directions of a conversation cannot be two flows.            *)
THEOREM OneFlowPerConversation == Spec => []ConversationNotSplit
<1>1. ASSUME IInv
      PROVE  ConversationNotSplit
  <2> SUFFICES ASSUME NEW g \in DOMAIN m_flowTable, NEW h \in DOMAIN m_flowTable,
                      SameConversation(m_flowTable[g].id, m_flowTable[h].id)
               PROVE  g = h
    BY DEF ConversationNotSplit
  <2>1. GoodFlow(g, m_flowTable[g]) /\ GoodFlow(h, m_flowTable[h])
    BY <1>1 DEF IInv, GoodTable
  <2>2. /\ m_flowTable[g].id \in FlowKey /\ g = GetHash(m_flowTable[g].id)
        /\ m_flowTable[h].id \in FlowKey /\ h = GetHash(m_flowTable[h].id)
    BY <2>1, FrameFacts DEF GoodFlow
  <2> QED BY <2>2, HashSymmetric DEF SameConversation
<1> QED BY <1>1, SpecIInv, PTL

(* The FIN test of InsertFlowTable, made before the FIN is counted, still  *)
(* ends every flow with the packet after its second FIN.                   *)
THEOREM FlowsEndAfterTwoFins == Spec => []TwoFinsClose
<1>1. IInv => TwoFinsClose
  BY DEF IInv, GoodTable, GoodFlow, FinsPending, TwoFinsClose
<1> QED BY <1>1, SpecIInv, PTL

(* The loop of ClearExpiredFlow looks at the front of the queue only.  If  *)
(* the clock is monotone the queue is ordered, and that is enough.         *)
THEOREM SweepLeavesNoneExpired ==
    ASSUME ~ ClockMayStepBack
    PROVE  Spec => []NoExpiredFlowAfterSweep
<1>1. IInv => NoExpiredFlowAfterSweep
  BY DEF IInv, NoneLeftBehind
<1> QED BY <1>1, SpecIInv, PTL

-------------------------------------------------------------------------------
(* Packets with the same hash come from the same two hosts.                *)
KeysDoNotCollide ==
    \A f, g \in Packets :
        HashOf(f) = HashOf(g) => KeyOf(f).m_ip1 \in {KeyOf(g).m_ip1, KeyOf(g).m_ip2}

LEMMA NoCollisionNoFailure ==
    ASSUME KeysDoNotCollide, IInv, pc \in {"parse", "clear"}
    PROVE  AssertionsHold
<1>1. GoodQueue(m_flowTable, m_flowCache)
  BY DEF IInv, QueueOK, Running
<1>2. CASE pc = "parse"
  <2> DEFINE f == Head(todo)
             h == HashOf(f)
  <2>1. f \in Packets
    <3>1. todo # <<>> /\ todo \in Seq(Packets)
      BY <1>2 DEF IInv, Types
    <3> QED BY <3>1, HeadTailProperties
  <2>2. h \in DOMAIN m_flowTable <=> Count(m_flowCache, h)
    BY <1>1 DEF GoodQueue, Count
  <2>3. ASSUME h \in DOMAIN m_flowTable
        PROVE  DirectionKnown(m_flowTable[h], f)
    <3>1. PICK g \in Packets : m_flowTable[h].id = KeyOf(g) /\ h = HashOf(g)
      BY <2>3 DEF IInv, GoodTable, GoodFlow
    <3> QED BY <2>1, <3>1 DEF KeysDoNotCollide, DirectionKnown
  <2>4. InsertAssertionsHold(f)
    BY <2>2, <2>3 DEF InsertAssertionsHold, Opens, Reopens, Continues, Closes
  <2> QED BY <1>2, <2>4 DEF AssertionsHold, Clearing
<1>3. CASE pc = "clear"
  <2>1. Clearing => Oldest \in Keyed(m_flowCache)
    BY <1>1, OldestInMap DEF Clearing, GetExpired, Oldest, GoodQueue
  <2> QED BY <1>1, <1>3, <2>1 DEF AssertionsHold, GoodQueue, Count
<1> QED BY <1>2, <1>3

(* No assertion of decode.cpp or flowCache.h fails as long as packets with *)
(* one hash come from the same two hosts.  The assertions on the table and *)
(* its queue need nothing of the kind; that on the sender does, and the    *)
(* counterexample of MCFlowAssert shows why.                               *)
THEOREM AssertionsNeverFail ==
    ASSUME KeysDoNotCollide
    PROVE  Spec => []NoAbort
<1>1. Init => NoAbort
  BY DEF Init, NoAbort
<1>2. ASSUME IInv, NoAbort, [Next]_vars
      PROVE  NoAbort'
  <2>1. ~ AssertFails
    BY <1>2, NoCollisionNoFailure DEF AssertFails
  <2>2. CASE Dequeue
    BY <2>2 DEF Dequeue, NoAbort
  <2>3. CASE InsertFlowTable
    BY <2>3 DEF InsertFlowTable, OpenFlow, ReopenFlow, CountInFlow, FinishFlow,
       NextPacket, NoAbort
  <2>4. CASE ClearExpiredFlow \/ ClearEnds \/ DumpAllFlow
    BY <2>4 DEF ClearExpiredFlow, ClearEnds, DumpAllFlow, NoAbort
  <2>5. CASE ClearOldest
    BY <1>2, <2>5 DEF ClearOldest, NoAbort
  <2>6. CASE AdvanceClock \/ UNCHANGED vars
    BY <1>2, <2>6 DEF AdvanceClock, vars, NoAbort
  <2> QED BY <1>2, <2>1, <2>2, <2>3, <2>4, <2>5, <2>6 DEF Next
<1> QED BY <1>1, <1>2, SpecIInv, PTL DEF Spec

-------------------------------------------------------------------------------
(* The records of a key, in a process whose clock is never set back.       *)

LogOrdered(records, time) ==
    /\ \A i \in 1 .. Len(records) :
         /\ records[i].ctx.m_flowBeginTime <= records[i].end
         /\ records[i].end <= time
    /\ \A i, j \in 1 .. Len(records) :
         i < j => records[i].end <= records[j].ctx.m_flowBeginTime

\* A flow that begins at time b may follow the records.
EndedBy(records, b) == \A i \in 1 .. Len(records) : records[i].end <= b

TimesOrdered ==
    /\ swept <= now
    /\ \A h \in Hashes : LogOrdered(packetLog[h], now)
    /\ \A h \in DOMAIN m_flowTable :
         /\ EndedBy(packetLog[h], m_flowTable[h].m_flowBeginTime)
         /\ m_flowTable[h].m_flowBeginTime <= now

LEMMA EndsInNat ==
    ASSUME NEW records \in Seq(FlowRecord), NEW i \in 1 .. Len(records)
    PROVE  records[i].end \in Nat
<1>1. records[i] \in FlowRecord
  BY ElementOfSeq
<1> QED BY <1>1 DEF FlowRecord

LEMMA AppendOrdered ==
    ASSUME NEW records \in Seq(FlowRecord), NEW time \in Nat, LogOrdered(records, time),
           NEW ctx \in FlowContext, NEW end \in Nat,
           EndedBy(records, ctx.m_flowBeginTime),
           ctx.m_flowBeginTime <= end, end <= time
    PROVE  /\ LogOrdered(Append(records, [ctx |-> ctx, end |-> end]), time)
           /\ EndedBy(Append(records, [ctx |-> ctx, end |-> end]), end)
<1> DEFINE r == [ctx |-> ctx, end |-> end]
           l == Append(records, r)
           n == Len(records)
<1>1. /\ n \in Nat /\ Len(l) = n + 1
      /\ \A i \in 1 .. n : l[i] = records[i]
      /\ l[n + 1] = r
  BY AppendProperties, LenProperties
<1>2. /\ r.ctx.m_flowBeginTime = ctx.m_flowBeginTime /\ r.end = end
      /\ ctx.m_flowBeginTime \in Nat
  BY DEF FlowContext
<1>3. \A i \in 1 .. n : records[i].end \in Nat
  BY EndsInNat
<1> HIDE DEF r, l, n
<1>4. \A i \in 1 .. Len(l) : i \in 1 .. n \/ i = n + 1
  BY <1>1
<1>5. \A i \in 1 .. n :
        /\ records[i].ctx.m_flowBeginTime <= records[i].end
        /\ records[i].end <= time /\ records[i].end <= ctx.m_flowBeginTime
        /\ records[i].end <= end
  BY <1>2, <1>3 DEF LogOrdered, EndedBy, n
<1>6. \A i \in 1 .. Len(l) :
        l[i].ctx.m_flowBeginTime <= l[i].end /\ l[i].end <= time /\ l[i].end <= end
  BY <1>1, <1>2, <1>4, <1>5
<1>7. \A i, j \in 1 .. Len(l) : i < j => l[i].end <= l[j].ctx.m_flowBeginTime
  <2> SUFFICES ASSUME NEW i \in 1 .. Len(l), NEW j \in 1 .. Len(l), i < j
               PROVE  l[i].end <= l[j].ctx.m_flowBeginTime
    OBVIOUS
  <2>1. i \in 1 .. n
    BY <1>1
  <2>2. CASE j \in 1 .. n
    BY <1>1, <2>1, <2>2 DEF LogOrdered, n
  <2>3. CASE j = n + 1
    BY <1>1, <1>2, <1>5, <2>1, <2>3
  <2> QED BY <1>4, <2>2, <2>3
<1> QED BY <1>6, <1>7 DEF LogOrdered, EndedBy, l, r

\* A flow written keeps the records of its key in order, and the others'.
LEMMA WriteOrdered ==
    ASSUME IInv, TimesOrdered, NEW h \in DOMAIN m_flowTable,
           NEW ctx \in FlowContext, NEW end \in Nat,
           ctx.m_flowBeginTime = m_flowTable[h].m_flowBeginTime,
           ctx.m_flowBeginTime <= end, end <= now,
           packetLog' = [packetLog EXCEPT ![h] = Append(@, [ctx |-> ctx, end |-> end])]
    PROVE  /\ \A g \in Hashes : LogOrdered(packetLog'[g], now)
           /\ \A g \in Hashes \ {h} : packetLog'[g] = packetLog[g]
           /\ EndedBy(packetLog'[h], end)
<1>1. /\ h \in Hashes /\ packetLog \in [Hashes -> Seq(FlowRecord)] /\ now \in Nat
  BY DEF IInv, GoodTable, Types
<1>2. \A g \in Hashes \ {h} : packetLog'[g] = packetLog[g]
  BY <1>1
<1>3. packetLog'[h] = Append(packetLog[h], [ctx |-> ctx, end |-> end])
  BY <1>1
<1>4. LogOrdered(packetLog'[h], now) /\ EndedBy(packetLog'[h], end)
  <2>1. /\ packetLog[h] \in Seq(FlowRecord)
        /\ LogOrdered(packetLog[h], now)
        /\ EndedBy(packetLog[h], ctx.m_flowBeginTime)
    BY <1>1 DEF TimesOrdered
  <2> QED BY <1>1, <1>3, <2>1, AppendOrdered
<1>5. ASSUME NEW g \in Hashes PROVE LogOrdered(packetLog'[g], now)
  BY <1>2, <1>4 DEF TimesOrdered
<1> QED BY <1>2, <1>4, <1>5

LEMMA InsertOrdered ==
    ASSUME IInv, TimesOrdered, InsertFlowTable
    PROVE  TimesOrdered'
<1> DEFINE f == Head(todo)
           h == HashOf(f)
           old == m_flowTable[h]
<1>1. f \in Packets /\ h \in Hashes
  BY HeadTailProperties, FrameFacts DEF InsertFlowTable, IInv, Types
<1>2. now' = now /\ swept' = swept /\ now \in Nat /\ now <= now
  BY DEF InsertFlowTable, OpenFlow, ReopenFlow, CountInFlow, FinishFlow, NextPacket,
         IInv, Types
<1>3. h \in DOMAIN m_flowTable =>
        old \in FlowContext /\ old.m_flowBeginTime <= now
  BY DEF IInv, GoodTable, GoodFlow, TimesOrdered
<1>4. FirstContext(f).m_flowBeginTime = now
  BY <1>1, <1>2, FirstContextFacts
<1>5. CASE OpenFlow(f)
  <2>1. m_flowTable' = With(m_flowTable, h, FirstContext(f)) /\ packetLog' = packetLog
    BY <1>5 DEF OpenFlow, WithFlow, With
  <2> HIDE DEF h
  <2>2. EndedBy(packetLog[h], now)
    BY <1>1 DEF TimesOrdered, LogOrdered, EndedBy
  <2> QED BY <1>2, <1>4, <2>1, <2>2 DEF TimesOrdered, With
<1>6. CASE ReopenFlow(f)
  <2>1. /\ h \in DOMAIN m_flowTable
        /\ m_flowTable' = With(m_flowTable, h, FirstContext(f))
        /\ packetLog' = [packetLog EXCEPT ![h] = Append(@, [ctx |-> old, end |-> now])]
    BY <1>6 DEF ReopenFlow, Reopens, WithFlow, With, Logged
  <2>2. /\ \A g \in Hashes : LogOrdered(packetLog'[g], now)
        /\ \A g \in Hashes \ {h} : packetLog'[g] = packetLog[g]
        /\ EndedBy(packetLog'[h], now)
    BY <1>2, <1>3, <2>1, WriteOrdered
  <2>3. DOMAIN m_flowTable \subseteq Hashes
    BY DEF IInv, GoodTable
  <2> HIDE DEF h
  <2> QED BY <1>2, <1>4, <2>1, <2>2, <2>3 DEF TimesOrdered, With
<1>7. CASE CountInFlow(f)
  <2> DEFINE cnt == CountPacket(old, f)
             ctx == NoteFin(cnt, f)
  <2>1. h \in DOMAIN m_flowTable /\ m_flowTable' = [m_flowTable EXCEPT ![h] = ctx]
        /\ packetLog' = packetLog
    BY <1>7 DEF CountInFlow, Continues
  <2>2. cnt \in FlowContext /\ cnt.m_flowBeginTime = old.m_flowBeginTime
    BY <1>1, <1>3, <2>1, CountPacketFacts
  <2> HIDE DEF cnt
  <2>3. ctx.m_flowBeginTime = old.m_flowBeginTime
    BY <1>1, <2>2, NoteFinFacts
  <2> HIDE DEF ctx, h
  <2>4. \A g \in DOMAIN m_flowTable :
          m_flowTable'[g].m_flowBeginTime = m_flowTable[g].m_flowBeginTime
    BY <2>1, <2>3
  <2> QED BY <1>2, <2>1, <2>4 DEF TimesOrdered
<1>8. CASE FinishFlow(f)
  <2> DEFINE ctx == CountPacket(old, f)
  <2>1. /\ h \in DOMAIN m_flowTable
        /\ m_flowTable' = Without(m_flowTable, h)
        /\ packetLog' = [packetLog EXCEPT ![h] = Append(@, [ctx |-> ctx, end |-> now])]
    BY <1>8 DEF FinishFlow, Closes, WithoutFlows, Without, Logged
  <2>2. ctx \in FlowContext /\ ctx.m_flowBeginTime = old.m_flowBeginTime
    BY <1>1, <1>3, <2>1, CountPacketFacts
  <2> HIDE DEF ctx
  <2>3. /\ \A g \in Hashes : LogOrdered(packetLog'[g], now)
        /\ \A g \in Hashes \ {h} : packetLog'[g] = packetLog[g]
    BY <1>2, <1>3, <2>1, <2>2, WriteOrdered
  <2>4. DOMAIN m_flowTable \subseteq Hashes
    BY DEF IInv, GoodTable
  <2> HIDE DEF h
  <2> QED BY <1>2, <2>1, <2>3, <2>4 DEF TimesOrdered, Without
<1> QED BY <1>5, <1>6, <1>7, <1>8 DEF InsertFlowTable

\* The flow at the head of the queue began before the time of the sweep.
LEMMA OldestExpired ==
    ASSUME IInv, ClearOldest
    PROVE  m_flowTable[Oldest].m_flowBeginTime + FlowOutTime <= swept
<1> DEFINE c == m_flowCache
<1>1. GoodQueue(m_flowTable, c) /\ GetExpired(c, swept)
  BY DEF ClearOldest, Clearing, Running, IInv, QueueOK
<1>2. /\ 1 \in 1 .. Len(c.m_cacheList)
      /\ Head(c.m_cacheList) = c.m_cacheList[1]
  BY <1>1, OldestInMap DEF GoodQueue, GetExpired
<1>3. c.m_cacheList[1] \in Nodes(c)
  BY <1>2 DEF Nodes
<1> QED BY <1>1, <1>2, <1>3 DEF GoodQueue, GetExpired, Oldest

LEMMA ClearOldestOrdered ==
    ASSUME IInv, TimesOrdered, ClearOldest
    PROVE  TimesOrdered'
<1> DEFINE h == Oldest
           ctx == m_flowTable[h]
<1>1. /\ h \in DOMAIN m_flowTable
      /\ m_flowTable' = Without(m_flowTable, h)
      /\ packetLog' = [packetLog EXCEPT ![h] = Append(@, [ctx |-> ctx, end |-> swept])]
      /\ now' = now /\ swept' = swept
  BY DEF ClearOldest, AssertionsHold, WithoutFlows, Without
<1>2. /\ ctx \in FlowContext /\ swept \in Nat /\ now \in Nat /\ swept <= now
      /\ DOMAIN m_flowTable \subseteq Hashes
  BY <1>1 DEF IInv, GoodTable, GoodFlow, Types, TimesOrdered
<1>3. ctx.m_flowBeginTime <= swept
  <2>1. ctx.m_flowBeginTime \in Nat
    BY <1>2 DEF FlowContext
  <2> QED BY <1>2, <2>1, OldestExpired, FlowTableAssumption
<1>4. /\ \A g \in Hashes : LogOrdered(packetLog'[g], now)
      /\ \A g \in Hashes \ {h} : packetLog'[g] = packetLog[g]
  <2> HIDE DEF h
  <2> QED BY <1>1, <1>2, <1>3, WriteOrdered
<1> HIDE DEF h, ctx
<1> QED BY <1>1, <1>2, <1>4 DEF TimesOrdered, Without

LEMMA DumpOrdered ==
    ASSUME IInv, TimesOrdered, DumpAllFlow
    PROVE  TimesOrdered'
<1>1. now \in Nat /\ packetLog \in [Hashes -> Seq(FlowRecord)] /\ now <= now
  BY DEF IInv, Types
<1>2. ASSUME NEW h \in Hashes
      PROVE  LogOrdered(packetLog'[h], now)
  <2>1. CASE h \in DOMAIN m_flowTable
    <3>1. packetLog'[h] = Append(packetLog[h], [ctx |-> m_flowTable[h], end |-> now])
      BY <2>1 DEF DumpAllFlow
    <3>2. /\ m_flowTable[h] \in FlowContext
          /\ m_flowTable[h].m_flowBeginTime <= now
          /\ LogOrdered(packetLog[h], now)
          /\ EndedBy(packetLog[h], m_flowTable[h].m_flowBeginTime)
          /\ packetLog[h] \in Seq(FlowRecord)
      BY <1>1, <2>1 DEF IInv, GoodTable, GoodFlow, TimesOrdered
    <3> QED BY <1>1, <3>1, <3>2, AppendOrdered
  <2>2. CASE h \notin DOMAIN m_flowTable
    BY <2>2 DEF DumpAllFlow, TimesOrdered
  <2> QED BY <2>1, <2>2
<1>3. m_flowTable' = <<>> /\ now' = now /\ swept' = swept
  BY DEF DumpAllFlow
<1> QED BY <1>2, <1>3 DEF TimesOrdered

LEMMA ClockOrdered ==
    ASSUME ~ ClockMayStepBack, IInv, TimesOrdered, AdvanceClock
    PROVE  TimesOrdered'
<1>1. /\ now' \in Nat /\ now \in Nat /\ now <= now' /\ swept \in Nat
      /\ UNCHANGED <<swept, packetLog, m_flowTable>>
  BY FlowTableAssumption DEF AdvanceClock, IInv, Types
<1>2. ASSUME NEW h \in Hashes
      PROVE  LogOrdered(packetLog[h], now')
  <2>1. \A i \in 1 .. Len(packetLog[h]) : packetLog[h][i].end \in Nat
    <3>1. packetLog[h] \in Seq(FlowRecord)
      BY DEF IInv, Types
    <3> QED BY <3>1, EndsInNat
  <2> QED BY <1>1, <2>1 DEF TimesOrdered, LogOrdered
<1>3. ASSUME NEW h \in DOMAIN m_flowTable
      PROVE  m_flowTable[h].m_flowBeginTime <= now'
  <2>1. m_flowTable[h].m_flowBeginTime \in Nat
    BY DEF IInv, GoodTable, GoodFlow, FlowContext
  <2> QED BY <1>1, <2>1 DEF TimesOrdered
<1>4. swept <= now'
  BY <1>1 DEF TimesOrdered
<1> QED BY <1>1, <1>2, <1>3, <1>4 DEF TimesOrdered

(* Whatever ends a flow (a SYN, two FINs, the timeout, the end of the      *)
(* thread), the records of a key are in the order of their times and do    *)
(* not overlap, if the clock is never set back.                            *)
THEOREM RecordsFollowOneAnother ==
    ASSUME ~ ClockMayStepBack
    PROVE  Spec => []RecordsOrdered
<1>1. Init => TimesOrdered
  BY DEF Init, TimesOrdered, LogOrdered
<1>2. ASSUME IInv, TimesOrdered, [Next]_vars
      PROVE  TimesOrdered'
  <2>1. CASE InsertFlowTable
    BY <1>2, <2>1, InsertOrdered
  <2>2. CASE ClearOldest
    BY <1>2, <2>2, ClearOldestOrdered
  <2>3. CASE DumpAllFlow
    BY <1>2, <2>3, DumpOrdered
  <2>4. CASE AdvanceClock
    BY <1>2, <2>4, ClockOrdered
  <2>5. CASE ClearExpiredFlow
    <3>1. swept' = now /\ now' = now /\ now <= now
          /\ UNCHANGED <<packetLog, m_flowTable>>
      BY <1>2, <2>5 DEF ClearExpiredFlow, IInv, Types
    <3> QED BY <1>2, <3>1 DEF TimesOrdered
  <2>6. CASE Dequeue \/ AssertFails \/ ClearEnds \/ UNCHANGED vars
    BY <1>2, <2>6 DEF Dequeue, AssertFails, ClearEnds, vars, TimesOrdered
  <2> QED BY <1>2, <2>1, <2>2, <2>3, <2>4, <2>5, <2>6 DEF Next
<1>3. IInv /\ TimesOrdered => RecordsOrdered
  BY DEF TimesOrdered, LogOrdered, EndedBy, RecordsOrdered
<1> QED BY <1>1, <1>2, <1>3, SpecIInv, PTL DEF Spec

-------------------------------------------------------------------------------
(* FlowTable implements SessionLog.                                        *)

OpenSessions(t) == [h \in DOMAIN t |-> SessionOf(t[h])]

LEMMA SessionClosed ==
    ASSUME NEW t, NEW h
    PROVE  OpenSessions(Without(t, h)) =
             [j \in DOMAIN OpenSessions(t) \ {h} |-> OpenSessions(t)[j]]
BY DEF OpenSessions, Without

LEMMA SessionsWith ==
    ASSUME NEW h, NEW s
    PROVE  Sessions!With(h, s) =
             [j \in DOMAIN OpenSessions(m_flowTable) \union {h} |->
                IF j = h THEN s ELSE OpenSessions(m_flowTable)[j]]
BY DEF OpenSessions, Sessions!With

LEMMA OpenedIsWith ==
    ASSUME NEW h, NEW ctx
    PROVE  OpenSessions(With(m_flowTable, h, ctx)) = Sessions!With(h, SessionOf(ctx))
<1> DEFINE s == SessionOf(ctx)
           t == With(m_flowTable, h, ctx)
<1>1. OpenSessions(t) = [j \in DOMAIN OpenSessions(m_flowTable) \union {h} |->
                           IF j = h THEN s ELSE OpenSessions(m_flowTable)[j]]
  BY DEF OpenSessions, With
<1> HIDE DEF s, t
<1>2. Sessions!With(h, s) = [j \in DOMAIN OpenSessions(m_flowTable) \union {h} |->
                               IF j = h THEN s ELSE OpenSessions(m_flowTable)[j]]
  BY SessionsWith
<1> QED BY <1>1, <1>2 DEF s, t

LEMMA SessionsWithout ==
    ASSUME NEW h
    PROVE  Sessions!Without(h) =
             [j \in DOMAIN OpenSessions(m_flowTable) \ {h} |->
                OpenSessions(m_flowTable)[j]]
BY DEF OpenSessions, Sessions!Without

\* A record more is a session more.
LEMMA SessionWritten ==
    ASSUME NEW log \in Seq(FlowRecord), NEW ctx, NEW end,
           [ctx |-> ctx, end |-> end] \in FlowRecord
    PROVE  SessionsOf(Append(log, [ctx |-> ctx, end |-> end])) =
             Append(SessionsOf(log), [session |-> SessionOf(ctx), end |-> end])
<1> DEFINE r == [ctx |-> ctx, end |-> end]
           l == Append(log, r)
<1>1. /\ Len(l) = Len(log) + 1
      /\ \A i \in 1 .. Len(log) : l[i] = log[i]
      /\ l[Len(log) + 1] = r
      /\ Len(log) \in Nat
  BY AppendProperties, LenProperties
<1>2. r.ctx = ctx /\ r.end = end
  OBVIOUS
<1> HIDE DEF l, r
<1> DEFINE s == SessionsOf(log)
           n == [session |-> SessionOf(ctx), end |-> end]
<1>3. DOMAIN s = 1 .. Len(log) /\ Len(s) = Len(log)
  BY <1>1 DEF SessionsOf
<1>4. Append(s, n) = [i \in 1 .. Len(s) + 1 |-> IF i = Len(s) + 1 THEN n ELSE s[i]]
  BY <1>3
<1>5. SessionsOf(l) = [i \in 1 .. Len(log) + 1 |->
                         IF i = Len(log) + 1 THEN n ELSE s[i]]
  BY <1>1, <1>2 DEF SessionsOf
<1> QED BY <1>3, <1>4, <1>5 DEF l, r, s, n

LEMMA CountedIsGrown ==
    ASSUME NEW ctx \in FlowContext, NEW f
    PROVE  SessionOf(CountPacket(ctx, f)) \in Sessions!Grown(SessionOf(ctx))
<1>1. CASE ctx.id.m_ip1 = KeyOf(f).m_ip1
  <2>1. SessionOf(CountPacket(ctx, f)) =
          [SessionOf(ctx) EXCEPT !.there = Sessions!Plus(@)]
    BY <1>1 DEF CountPacket, SessionOf, Sessions!Plus, Add, FlowContext
  <2> QED BY <2>1 DEF Sessions!Grown
<1>2. CASE ctx.id.m_ip1 # KeyOf(f).m_ip1
  <2>1. SessionOf(CountPacket(ctx, f)) =
          [SessionOf(ctx) EXCEPT !.back = Sessions!Plus(@)]
    BY <1>2 DEF CountPacket, SessionOf, Sessions!Plus, Add, FlowContext
  <2> QED BY <2>1 DEF Sessions!Grown
<1> QED BY <1>1, <1>2

LEMMA NotedIsMaybeFin ==
    ASSUME NEW ctx \in FlowContext, ctx.m_FINCount < 2, NEW f
    PROVE  SessionOf(NoteFin(ctx, f)) \in Sessions!MaybeFin(SessionOf(ctx))
<1>1. ctx.m_FINCount \in Nat
  BY DEF FlowContext, UINT8
<1>2. CASE IsFin(f)
  <2>1. (ctx.m_FINCount + 1) % UINT8 = ctx.m_FINCount + 1
    BY <1>1 DEF UINT8
  <2>2. SessionOf(NoteFin(ctx, f)) = [SessionOf(ctx) EXCEPT !.fins = @ + 1]
    BY <1>2, <2>1 DEF NoteFin, SessionOf, FlowContext
  <2> QED BY <2>2 DEF Sessions!MaybeFin
<1>3. CASE ~ IsFin(f)
  <2>1. (ctx.m_FINCount + 0) % UINT8 = ctx.m_FINCount
    BY <1>1 DEF UINT8
  <2>2. SessionOf(NoteFin(ctx, f)) = SessionOf(ctx)
    BY <1>3, <2>1 DEF NoteFin, SessionOf, FlowContext
  <2> QED BY <2>2 DEF Sessions!MaybeFin
<1> QED BY <1>2, <1>3

LEMMA OpenedIsFirst ==
    ASSUME NEW f \in Packets, now \in Nat
    PROVE  SessionOf(FirstContext(f)) \in
             Sessions!MaybeFin(Sessions!First(KeyOf(f), now))
<1> DEFINE a == NewContext(KeyOf(f), now)
           b == CountPacket(a, f)
<1>1. a \in FlowContext /\ a.m_FINCount = 0
  BY FrameFacts, NewContextFacts
<1>2. b \in FlowContext /\ b.m_FINCount = 0
  BY <1>1, CountPacketFacts
<1>3. SessionOf(b) = Sessions!First(KeyOf(f), now)
  BY DEF NewContext, CountPacket, SessionOf, Add, Sessions!First, Sessions!Plus
<1> HIDE DEF b
<1>4. SessionOf(NoteFin(b, f)) \in Sessions!MaybeFin(SessionOf(b))
  BY <1>2, NotedIsMaybeFin
<1> QED BY <1>3, <1>4 DEF FirstContext, b

LEMMA RecordIsSession ==
    ASSUME Types, NEW h \in Hashes, NEW ctx \in FlowContext, NEW end \in Nat,
           packetLog' = [packetLog EXCEPT ![h] =
                           Append(@, [ctx |-> ctx, end |-> end])]
    PROVE  Sessions!Write(h, SessionOf(ctx), end)
<1> DEFINE r == [ctx |-> ctx, end |-> end]
           n == [session |-> SessionOf(ctx), end |-> end]
           L == [k \in Hashes |-> SessionsOf(packetLog[k])]
<1>1. packetLog \in [Hashes -> Seq(FlowRecord)] /\ r \in FlowRecord
  BY DEF Types, FlowRecord
<1>2. SessionsOf(packetLog'[h]) = Append(SessionsOf(packetLog[h]), n)
  <2>1. packetLog'[h] = Append(packetLog[h], r)
    BY <1>1
  <2> QED BY <1>1, <2>1, SessionWritten
<1>3. ASSUME NEW k \in Hashes \ {h} PROVE packetLog'[k] = packetLog[k]
  BY <1>1
<1> HIDE DEF r, n
<1>4. [k \in Hashes |-> SessionsOf(packetLog'[k])] =
        [L EXCEPT ![h] = Append(@, n)]
  <2>1. [L EXCEPT ![h] = Append(@, n)] =
          [k \in Hashes |-> IF k = h THEN Append(SessionsOf(packetLog[h]), n)
                                     ELSE SessionsOf(packetLog[k])]
    OBVIOUS
  <2>2. ASSUME NEW k \in Hashes
        PROVE  SessionsOf(packetLog'[k]) =
                 (IF k = h THEN Append(SessionsOf(packetLog[h]), n)
                           ELSE SessionsOf(packetLog[k]))
    <3>1. CASE k = h
      BY <1>2, <3>1
    <3>2. CASE k # h
      <4>1. packetLog'[k] = packetLog[k]
        BY <1>3, <3>2
      <4> QED BY <3>2, <4>1 DEF SessionsOf
    <3> QED BY <3>1, <3>2
  <2> QED BY <2>1, <2>2
<1> QED BY <1>4 DEF Sessions!Write, n

\* The clock is in its range.
InTime == now \in 0 .. MaxTime /\ swept \in 0 .. MaxTime

LEMMA StaysInTime == InTime /\ [Next]_vars => InTime'
<1> SUFFICES ASSUME InTime, [Next]_vars PROVE InTime'
  OBVIOUS
<1>1. ASSUME NEW f, OpenFlow(f) \/ ReopenFlow(f) \/ CountInFlow(f) \/ FinishFlow(f)
      PROVE InTime'
  BY <1>1 DEF OpenFlow, ReopenFlow, CountInFlow, FinishFlow, NextPacket, InTime
<1>2. CASE Dequeue
  BY <1>2 DEF Dequeue, InTime
<1>3. CASE AssertFails \/ ClearExpiredFlow \/ ClearOldest \/ ClearEnds \/ DumpAllFlow
  BY <1>3 DEF AssertFails, ClearExpiredFlow, ClearOldest, ClearEnds, DumpAllFlow, InTime
<1>4. CASE AdvanceClock
  BY <1>4, FlowTableAssumption DEF AdvanceClock, InTime
<1>5. CASE UNCHANGED vars
  BY <1>5 DEF vars, InTime
<1> QED BY <1>1, <1>2, <1>3, <1>4, <1>5 DEF Next, InsertFlowTable

-------------------------------------------------------------------------------
(* Each step of the thread is a step of SessionLog, or changes nothing.    *)

Step == Sessions!Next \/ UNCHANGED Sessions!vars

LEMMA OpenFlowIsOpen ==
    ASSUME IInv, InTime, NEW f \in Packets, OpenFlow(f)
    PROVE  Sessions!Next
<1> DEFINE h == HashOf(f)
           s == SessionOf(FirstContext(f))
<1>1. h \in Hashes /\ h \notin DOMAIN m_flowTable /\ NextPacket(f)
  BY FrameFacts DEF OpenFlow, Opens
<1>2. m_flowTable' = With(m_flowTable, h, FirstContext(f)) /\ packetLog' = packetLog
  BY DEF OpenFlow, WithFlow, With
<1>3. s \in Sessions!MaybeFin(Sessions!First(KeyOf(f), now))
  BY OpenedIsFirst DEF IInv, Types
<1> HIDE DEF h, s
<1>4. OpenSessions(m_flowTable') = Sessions!With(h, s)
  BY <1>2, OpenedIsWith DEF s
<1>5. Sessions!Open(h)
  BY <1>1, <1>2, <1>3, <1>4 DEF Sessions!Open, OpenSessions, InTime
<1>6. pc # "exited" /\ pc' # "exited"
  BY <1>1 DEF NextPacket
<1> QED BY <1>1, <1>5, <1>6 DEF Sessions!Next

LEMMA ReopenFlowIsRestart ==
    ASSUME IInv, InTime, NEW f \in Packets, ReopenFlow(f)
    PROVE  Sessions!Next
<1> DEFINE h == HashOf(f)
           s == SessionOf(FirstContext(f))
<1>1. h \in Hashes /\ h \in DOMAIN m_flowTable /\ NextPacket(f)
  BY FrameFacts DEF ReopenFlow, Reopens
<1>2. m_flowTable' = With(m_flowTable, h, FirstContext(f))
  BY DEF ReopenFlow, WithFlow, With
<1>3. packetLog' = [packetLog EXCEPT ![h] =
                      Append(@, [ctx |-> m_flowTable[h], end |-> now])]
  BY DEF ReopenFlow, Logged
<1>4. s \in Sessions!MaybeFin(Sessions!First(KeyOf(f), now))
  BY OpenedIsFirst DEF IInv, Types
<1> HIDE DEF h, s
<1>5. OpenSessions(m_flowTable') = Sessions!With(h, s)
  BY <1>2, OpenedIsWith DEF s
<1>6. Sessions!Write(h, SessionOf(m_flowTable[h]), now)
  <2>1. m_flowTable[h] \in FlowContext /\ now \in Nat
    BY <1>1 DEF IInv, GoodTable, GoodFlow, Types
  <2> QED BY <1>1, <1>3, <2>1, RecordIsSession DEF IInv
<1>7. Sessions!Restart(h)
  BY <1>1, <1>4, <1>5, <1>6 DEF Sessions!Restart, OpenSessions, InTime
<1>8. pc # "exited" /\ pc' # "exited"
  BY <1>1 DEF NextPacket
<1> QED BY <1>1, <1>7, <1>8 DEF Sessions!Next

LEMMA CountInFlowIsContinue ==
    ASSUME IInv, NEW f \in Packets, CountInFlow(f)
    PROVE  Sessions!Next
<1> DEFINE h == HashOf(f)
           old == m_flowTable[h]
           cnt == CountPacket(old, f)
           ctx == NoteFin(cnt, f)
<1>1. /\ h \in Hashes /\ h \in DOMAIN m_flowTable /\ NextPacket(f)
      /\ ~ Finished(old)
  BY FrameFacts DEF CountInFlow, Continues
<1>2. GoodFlow(h, old)
  BY <1>1 DEF IInv, GoodTable
<1>3. m_flowTable' = [m_flowTable EXCEPT ![h] = ctx] /\ packetLog' = packetLog
  BY DEF CountInFlow
<1> HIDE DEF h
<1>4. m_flowTable' = With(m_flowTable, h, ctx)
  <2> HIDE DEF ctx
  <2>1. m_flowTable = [g \in DOMAIN m_flowTable |-> m_flowTable[g]]
    BY DEF IInv, GoodTable
  <2>2. DOMAIN m_flowTable \union {h} = DOMAIN m_flowTable
    BY <1>1
  <2> QED BY <1>3, <2>1, <2>2 DEF With
<1>5. old \in FlowContext /\ old.m_FINCount < 2
  <2>1. old \in FlowContext /\ old.m_FINCount \in Nat
    BY <1>2 DEF GoodFlow, FlowContext, UINT8
  <2> QED BY <1>1, <1>2, <2>1 DEF GoodFlow, FinsPending, Finished
<1>6. cnt \in FlowContext /\ cnt.m_FINCount < 2
  BY <1>5, CountPacketFacts
<1>7. SessionOf(cnt) \in Sessions!Grown(SessionOf(old))
  BY <1>5, CountedIsGrown
<1> HIDE DEF old, cnt
<1>8. SessionOf(ctx) \in Sessions!MaybeFin(SessionOf(cnt))
  BY <1>6, NotedIsMaybeFin
<1> HIDE DEF ctx
<1>9. OpenSessions(m_flowTable') = Sessions!With(h, SessionOf(ctx))
  BY <1>4, OpenedIsWith
<1>10. Sessions!Continue(h)
  <2>1. OpenSessions(m_flowTable)[h] = SessionOf(old)
    BY <1>1 DEF OpenSessions, old
  <2>2. SessionOf(old).fins < 2
    BY <1>5 DEF SessionOf
  <2> QED BY <1>1, <1>3, <1>7, <1>8, <1>9, <2>1, <2>2
       DEF Sessions!Continue, OpenSessions
<1>11. pc # "exited" /\ pc' # "exited"
  BY <1>1 DEF NextPacket
<1> QED BY <1>1, <1>10, <1>11 DEF Sessions!Next

LEMMA FinishFlowIsFinish ==
    ASSUME IInv, InTime, NEW f \in Packets, FinishFlow(f)
    PROVE  Sessions!Next
<1> DEFINE h == HashOf(f)
           old == m_flowTable[h]
           ctx == CountPacket(old, f)
<1>1. /\ h \in Hashes /\ h \in DOMAIN m_flowTable /\ NextPacket(f)
      /\ Finished(old)
  BY FrameFacts DEF FinishFlow, Closes
<1>2. m_flowTable' = Without(m_flowTable, h)
  BY DEF FinishFlow, WithoutFlows, Without
<1>3. packetLog' = [packetLog EXCEPT ![h] = Append(@, [ctx |-> ctx, end |-> now])]
  BY DEF FinishFlow, Logged
<1>4. old \in FlowContext /\ now \in Nat
  BY <1>1 DEF IInv, GoodTable, GoodFlow, Types
<1>5. ctx \in FlowContext /\ SessionOf(ctx) \in Sessions!Grown(SessionOf(old))
  BY <1>4, CountPacketFacts, CountedIsGrown
<1> HIDE DEF h, ctx
<1>6. Sessions!Write(h, SessionOf(ctx), now)
  BY <1>1, <1>3, <1>4, <1>5, RecordIsSession DEF IInv
<1>7. OpenSessions(m_flowTable') = Sessions!Without(h)
  BY <1>2, SessionClosed, SessionsWithout
<1>8. OpenSessions(m_flowTable)[h] = SessionOf(old) /\ SessionOf(old).fins = 2
  BY <1>1 DEF OpenSessions, SessionOf, Finished
<1>9. Sessions!Finish(h)
  BY <1>1, <1>5, <1>6, <1>7, <1>8 DEF Sessions!Finish, OpenSessions, InTime
<1>10. pc # "exited" /\ pc' # "exited"
  BY <1>1 DEF NextPacket
<1> QED BY <1>1, <1>9, <1>10 DEF Sessions!Next

\* The node at the head of the queue says when its flow began.
LEMMA ClearOldestIsExpire ==
    ASSUME IInv, InTime, ClearOldest
    PROVE  Sessions!Next
<1> DEFINE h == Oldest
<1>1. h \in DOMAIN m_flowTable /\ pc = "clear" /\ Running /\ Clearing
  BY DEF ClearOldest, AssertionsHold, Clearing, Running
<1>2. h \in Hashes /\ m_flowTable[h] \in FlowContext /\ swept \in Nat
  BY <1>1 DEF IInv, GoodTable, GoodFlow, Types
<1>3. /\ m_flowTable' = Without(m_flowTable, h)
      /\ packetLog' = [packetLog EXCEPT ![h] =
                         Append(@, [ctx |-> m_flowTable[h], end |-> swept])]
  BY DEF ClearOldest, WithoutFlows, Without
<1>4. m_flowTable[h].m_flowBeginTime + FlowOutTime <= swept
  BY OldestExpired
<1> HIDE DEF h
<1>5. Sessions!Write(h, SessionOf(m_flowTable[h]), swept)
  BY <1>2, <1>3, RecordIsSession DEF IInv
<1>6. OpenSessions(m_flowTable') = Sessions!Without(h)
  BY <1>3, SessionClosed, SessionsWithout
<1>7. /\ OpenSessions(m_flowTable)[h] = SessionOf(m_flowTable[h])
      /\ SessionOf(m_flowTable[h]).begin = m_flowTable[h].m_flowBeginTime
  BY <1>1 DEF OpenSessions, SessionOf
<1>8. Sessions!Expire(h)
  BY <1>1, <1>4, <1>5, <1>6, <1>7 DEF Sessions!Expire, OpenSessions, InTime
<1>9. pc # "exited" /\ pc' # "exited"
  BY <1>1 DEF ClearOldest
<1> QED BY <1>2, <1>8, <1>9 DEF Sessions!Next

LEMMA DumpAllFlowIsEnd ==
    ASSUME IInv, InTime, DumpAllFlow
    PROVE  Sessions!Next
<1> DEFINE t  == m_flowTable
           lg == [h \in Hashes |-> SessionsOf(packetLog[h])]
           os == OpenSessions(t)
<1>1. pc = "loop" /\ pc' = "exited" /\ m_flowTable' = <<>>
  BY DEF DumpAllFlow
<1>2. OpenSessions(m_flowTable') = <<>>
  BY <1>1 DEF OpenSessions
<1>3. ASSUME NEW h \in Hashes
      PROVE  SessionsOf(packetLog'[h]) =
               (IF h \in DOMAIN os
                THEN Append(lg[h], [session |-> os[h], end |-> now])
                ELSE lg[h])
  <2>1. DOMAIN os = DOMAIN t /\ lg[h] = SessionsOf(packetLog[h])
    BY DEF OpenSessions
  <2>2. CASE h \in DOMAIN t
    <3>1. packetLog'[h] = Append(packetLog[h], [ctx |-> t[h], end |-> now])
      BY <2>2 DEF DumpAllFlow
    <3>2. packetLog[h] \in Seq(FlowRecord) /\ t[h] \in FlowContext /\ now \in Nat
      BY <2>2 DEF IInv, Types, GoodTable, GoodFlow
    <3>3. [ctx |-> t[h], end |-> now] \in FlowRecord
      BY <3>2 DEF FlowRecord
    <3>4. os[h] = SessionOf(t[h])
      BY <2>2 DEF OpenSessions
    <3> HIDE DEF t, lg, os
    <3> QED BY <2>1, <2>2, <3>1, <3>2, <3>3, <3>4, SessionWritten
  <2>3. CASE h \notin DOMAIN t
    <3>1. packetLog'[h] = packetLog[h]
      BY <2>3 DEF DumpAllFlow
    <3> HIDE DEF t, lg, os
    <3> QED BY <2>1, <2>3, <3>1 DEF SessionsOf
  <2> QED BY <2>2, <2>3
<1>4. now \in 0 .. MaxTime
  BY DEF InTime
<1>5. Sessions!End
  <2>1. [h \in Hashes |-> SessionsOf(packetLog'[h])] =
          [h \in Hashes |->
             IF h \in DOMAIN os
             THEN Append(lg[h], [session |-> os[h], end |-> now])
             ELSE lg[h]]
    BY <1>3
  <2> QED BY <1>1, <1>2, <1>4, <2>1 DEF Sessions!End, OpenSessions
<1> QED BY <1>1, <1>5 DEF Sessions!Next

LEMMA OthersStutter ==
    ASSUME Dequeue \/ AssertFails \/ ClearExpiredFlow \/ ClearEnds
           \/ AdvanceClock \/ UNCHANGED vars
    PROVE  UNCHANGED Sessions!vars
<1>1. m_flowTable' = m_flowTable /\ packetLog' = packetLog
  BY DEF Dequeue, AssertFails, ClearExpiredFlow, ClearEnds, AdvanceClock, vars
<1>2. (pc' = "exited") = (pc = "exited")
  BY DEF Dequeue, AssertFails, ClearExpiredFlow, ClearEnds, AdvanceClock, vars
<1> QED BY <1>1, <1>2 DEF Sessions!vars

(* Flow decoding keeps the promise of SessionLog: a flow leaves the table  *)
(* only by being written, once and whole, for one of the reasons the code  *)
(* knows, and what is written stays as it is.                              *)
THEOREM FlowTableImplementsSessionLog == Spec => ImplementsSessions
<1>1. Init => InTime
  BY FlowTableAssumption DEF Init, InTime
<1>2. Init => Sessions!Init
  BY DEF Init, Sessions!Init, SessionsOf
<1>3. ASSUME IInv, InTime, [Next]_vars
      PROVE  [Sessions!Next]_(Sessions!vars)
  <2>1. CASE InsertFlowTable
    <3>1. todo # <<>> /\ Head(todo) \in Packets
      BY <1>3, <2>1, HeadTailProperties DEF InsertFlowTable, IInv, Types
    <3> QED BY <1>3, <2>1, <3>1, OpenFlowIsOpen, ReopenFlowIsRestart,
         CountInFlowIsContinue, FinishFlowIsFinish DEF InsertFlowTable
  <2>2. CASE ClearOldest
    BY <1>3, <2>2, ClearOldestIsExpire
  <2>3. CASE DumpAllFlow
    BY <1>3, <2>3, DumpAllFlowIsEnd
  <2>4. CASE Dequeue \/ AssertFails \/ ClearExpiredFlow \/ ClearEnds
             \/ AdvanceClock \/ UNCHANGED vars
    BY <2>4, OthersStutter
  <2> QED BY <1>3, <2>1, <2>2, <2>3, <2>4 DEF Next
<1> QED BY <1>1, <1>2, <1>3, SpecIInv, StaysInTime, PTL
     DEF Spec, ImplementsSessions, Sessions!Spec

-------------------------------------------------------------------------------
(***************************************************************************)
(* Counting.  What the records of a key and its flow count as sent by an   *)
(* address is followed through the handlers modulo the counters' width.    *)
(***************************************************************************)
Units == {"pkts", "bytes"}

\* What a packet adds to the count of a key and a sender.
Sent(f, h, a, unit) ==
    IF h = HashOf(f) /\ a = KeyOf(f).m_ip1
    THEN [pkts |-> 1, bytes |-> CurBytes(f)][unit]
    ELSE 0

LogSum(log, a, unit) ==
    SumFunction([i \in 1 .. Len(log) |-> SentBy(log[i].ctx, a)[unit]])

TableSum(t, h, a, unit) ==
    IF h \in DOMAIN t THEN SentBy(t[h], a)[unit] ELSE 0

LEMMA WidthSame ==
    ASSUME NEW n \in Nat, NEW m \in Nat, n % UINT32 = m % UINT32, NEW k \in Nat
    PROVE  (n + k) % UINT32 = (m + k) % UINT32
<1>1. UINT32 \in Nat \ {0}
  BY FlowTableAssumption
<1> QED BY <1>1, ModSame, ZenonT(30)

LEMMA SentFacts ==
    ASSUME NEW f \in Packets, NEW h, NEW a, NEW unit \in Units
    PROVE  Sent(f, h, a, unit) \in Nat
BY FrameFacts DEF Sent, Units

LEMMA SentByType ==
    ASSUME NEW ctx \in FlowContext, NEW a, NEW unit \in Units
    PROVE  SentBy(ctx, a)[unit] \in Nat
<1>1. /\ ctx.m_ip1To2Pkts \in Nat /\ ctx.m_ip2To1Pkts \in Nat
      /\ ctx.m_ip1To2TotalBytes \in Nat /\ ctx.m_ip2To1TotalBytes \in Nat
  BY FlowTableAssumption DEF FlowContext
<1> QED BY <1>1 DEF SentBy, Units

\* A packet of one of the two addresses is counted on that address's side only.
LEMMA PacketCountedOnce ==
    ASSUME NEW ctx \in FlowContext, NEW f \in Packets, DirectionKnown(ctx, f),
           NEW a, NEW unit \in Units
    PROVE  SentBy(CountPacket(ctx, f), a)[unit] % UINT32
             = (SentBy(ctx, a)[unit] + Sent(f, HashOf(f), a, unit)) % UINT32
<1> DEFINE s == KeyOf(f).m_ip1
           d == CountPacket(ctx, f)
<1>1. /\ ctx.m_ip1To2Pkts \in Nat /\ ctx.m_ip1To2Pkts + 1 \in Nat
      /\ ctx.m_ip2To1Pkts \in Nat /\ ctx.m_ip2To1Pkts + 1 \in Nat
      /\ ctx.m_ip1To2TotalBytes \in Nat
      /\ ctx.m_ip1To2TotalBytes + CurBytes(f) \in Nat
      /\ ctx.m_ip2To1TotalBytes \in Nat
      /\ ctx.m_ip2To1TotalBytes + CurBytes(f) \in Nat
      /\ UINT32 \in Nat \ {0}
  <2>1. CurBytes(f) \in Nat
    BY FrameFacts
  <2> QED BY <2>1, FlowTableAssumption DEF FlowContext
<1>2. d.id = ctx.id
  BY CountPacketFacts
<1>3. \A n \in Nat : (n % UINT32) % UINT32 = n % UINT32
  <2> SUFFICES ASSUME NEW n \in Nat
               PROVE  (n % UINT32) % UINT32 = n % UINT32
    OBVIOUS
  <2>1. n % UINT32 \in 0 .. (UINT32 - 1) /\ 0 \in Nat
    BY <1>1, DivMod
  <2>2. (0 + (n % UINT32)) % UINT32 = (0 + n) % UINT32
    BY <1>1, <2>1, ModAdd
  <2>3. 0 + (n % UINT32) = n % UINT32 /\ 0 + n = n
    BY <2>1
  <2> QED BY <2>2, <2>3
<1>4. CASE ctx.id.m_ip1 = s
  <2>1. /\ d.m_ip1To2Pkts = (ctx.m_ip1To2Pkts + 1) % UINT32
        /\ d.m_ip1To2TotalBytes = (ctx.m_ip1To2TotalBytes + CurBytes(f)) % UINT32
        /\ d.m_ip2To1Pkts = ctx.m_ip2To1Pkts
        /\ d.m_ip2To1TotalBytes = ctx.m_ip2To1TotalBytes
    BY <1>4 DEF CountPacket, Add, FlowContext
  <2>2. /\ d.m_ip1To2Pkts % UINT32 = (ctx.m_ip1To2Pkts + 1) % UINT32
        /\ d.m_ip1To2TotalBytes % UINT32 = (ctx.m_ip1To2TotalBytes + CurBytes(f)) % UINT32
    BY <1>1, <1>3, <2>1
  <2> HIDE DEF d, s
  <2>3. CASE a = s
    <3>1. SentBy(d, a) = [pkts |-> d.m_ip1To2Pkts, bytes |-> d.m_ip1To2TotalBytes]
      BY <1>2, <1>4, <2>3 DEF SentBy
    <3>2. SentBy(ctx, a) = [pkts |-> ctx.m_ip1To2Pkts, bytes |-> ctx.m_ip1To2TotalBytes]
      BY <1>4, <2>3 DEF SentBy
    <3>3. Sent(f, HashOf(f), a, unit) = [pkts |-> 1, bytes |-> CurBytes(f)][unit]
      BY <2>3 DEF Sent, s
    <3>4. CASE unit = "pkts"
      <4>1. SentBy(d, a)[unit] = d.m_ip1To2Pkts
        BY <3>1, <3>4
      <4>2. SentBy(ctx, a)[unit] = ctx.m_ip1To2Pkts
        BY <3>2, <3>4
      <4>3. Sent(f, HashOf(f), a, unit) = 1
        BY <3>3, <3>4
      <4> QED BY <2>2, <4>1, <4>2, <4>3 DEF d
    <3>5. CASE unit = "bytes"
      <4>1. SentBy(d, a)[unit] = d.m_ip1To2TotalBytes
        BY <3>1, <3>5
      <4>2. SentBy(ctx, a)[unit] = ctx.m_ip1To2TotalBytes
        BY <3>2, <3>5
      <4>3. Sent(f, HashOf(f), a, unit) = CurBytes(f)
        BY <3>3, <3>5
      <4> QED BY <2>2, <4>1, <4>2, <4>3 DEF d
    <3> QED BY <3>4, <3>5 DEF Units
  <2>4. CASE a # s
    <3>1. SentBy(d, a) = SentBy(ctx, a) /\ Sent(f, HashOf(f), a, unit) = 0
      BY <1>2, <1>4, <2>1, <2>4 DEF SentBy, Sent, s
    <3>2. SentBy(ctx, a)[unit] \in Nat
      BY SentByType
    <3>3. SentBy(ctx, a)[unit] + 0 = SentBy(ctx, a)[unit]
      BY <3>2
    <3> QED BY <3>1, <3>3 DEF d
  <2> QED BY <2>3, <2>4
<1>5. CASE ctx.id.m_ip1 # s
  <2>1. /\ d.m_ip1To2Pkts = ctx.m_ip1To2Pkts
        /\ d.m_ip1To2TotalBytes = ctx.m_ip1To2TotalBytes
        /\ d.m_ip2To1Pkts = (ctx.m_ip2To1Pkts + 1) % UINT32
        /\ d.m_ip2To1TotalBytes = (ctx.m_ip2To1TotalBytes + CurBytes(f)) % UINT32
    BY <1>5 DEF CountPacket, Add, FlowContext
  <2>2. /\ d.m_ip2To1Pkts % UINT32 = (ctx.m_ip2To1Pkts + 1) % UINT32
        /\ d.m_ip2To1TotalBytes % UINT32 = (ctx.m_ip2To1TotalBytes + CurBytes(f)) % UINT32
    BY <1>1, <1>3, <2>1
  <2>3. ctx.id.m_ip2 = s
    BY <1>5 DEF DirectionKnown
  <2> HIDE DEF d, s
  <2>4. CASE a = s
    <3>1. SentBy(d, a) = [pkts |-> d.m_ip2To1Pkts, bytes |-> d.m_ip2To1TotalBytes]
      BY <1>2, <1>5, <2>3, <2>4 DEF SentBy
    <3>2. SentBy(ctx, a) = [pkts |-> ctx.m_ip2To1Pkts, bytes |-> ctx.m_ip2To1TotalBytes]
      BY <1>5, <2>3, <2>4 DEF SentBy
    <3>3. Sent(f, HashOf(f), a, unit) = [pkts |-> 1, bytes |-> CurBytes(f)][unit]
      BY <2>4 DEF Sent, s
    <3>4. CASE unit = "pkts"
      <4>1. SentBy(d, a)[unit] = d.m_ip2To1Pkts
        BY <3>1, <3>4
      <4>2. SentBy(ctx, a)[unit] = ctx.m_ip2To1Pkts
        BY <3>2, <3>4
      <4>3. Sent(f, HashOf(f), a, unit) = 1
        BY <3>3, <3>4
      <4> QED BY <2>2, <4>1, <4>2, <4>3 DEF d
    <3>5. CASE unit = "bytes"
      <4>1. SentBy(d, a)[unit] = d.m_ip2To1TotalBytes
        BY <3>1, <3>5
      <4>2. SentBy(ctx, a)[unit] = ctx.m_ip2To1TotalBytes
        BY <3>2, <3>5
      <4>3. Sent(f, HashOf(f), a, unit) = CurBytes(f)
        BY <3>3, <3>5
      <4> QED BY <2>2, <4>1, <4>2, <4>3 DEF d
    <3> QED BY <3>4, <3>5 DEF Units
  <2>5. CASE a # s
    <3>1. SentBy(d, a) = SentBy(ctx, a) /\ Sent(f, HashOf(f), a, unit) = 0
      BY <1>2, <1>5, <2>1, <2>3, <2>5 DEF SentBy, Sent, s
    <3>2. SentBy(ctx, a)[unit] \in Nat
      BY SentByType
    <3>3. SentBy(ctx, a)[unit] + 0 = SentBy(ctx, a)[unit]
      BY <3>2
    <3> QED BY <3>1, <3>3 DEF d
  <2> QED BY <2>4, <2>5
<1> QED BY <1>4, <1>5

LEMMA NoteFinCounts ==
    ASSUME NEW ctx \in FlowContext, NEW f \in Packets, NEW a
    PROVE  SentBy(NoteFin(ctx, f), a) = SentBy(ctx, a)
BY DEF NoteFin, FlowContext, SentBy

LEMMA FirstPacketCounted ==
    ASSUME now \in Nat, NEW f \in Packets, NEW a, NEW unit \in Units
    PROVE  SentBy(FirstContext(f), a)[unit] % UINT32
             = Sent(f, HashOf(f), a, unit) % UINT32
<1> DEFINE c == NewContext(KeyOf(f), now)
           d == CountPacket(c, f)
<1>1. c \in FlowContext /\ c.id = KeyOf(f)
  BY FrameFacts, NewContextFacts
<1>2. SentBy(c, a)[unit] = 0
  BY DEF SentBy, NewContext, Units
<1>3. DirectionKnown(c, f)
  BY <1>1 DEF DirectionKnown
<1> HIDE DEF c
<1>4. d \in FlowContext
  BY <1>1, CountPacketFacts
<1>5. SentBy(d, a)[unit] % UINT32 = (0 + Sent(f, HashOf(f), a, unit)) % UINT32
  BY <1>1, <1>2, <1>3, PacketCountedOnce
<1>6. 0 + Sent(f, HashOf(f), a, unit) = Sent(f, HashOf(f), a, unit)
  BY SentFacts
<1> HIDE DEF d
<1>7. SentBy(NoteFin(d, f), a) = SentBy(d, a)
  BY <1>4, NoteFinCounts
<1> QED BY <1>5, <1>6, <1>7 DEF FirstContext, c, d

LEMMA LogSumAppend ==
    ASSUME NEW log \in Seq(FlowRecord), NEW ctx \in FlowContext, NEW end \in Nat,
           NEW a, NEW unit \in Units
    PROVE  /\ LogSum(log, a, unit) \in Nat
           /\ LogSum(Append(log, [ctx |-> ctx, end |-> end]), a, unit)
                = LogSum(log, a, unit) + SentBy(ctx, a)[unit]
<1> DEFINE r == [ctx |-> ctx, end |-> end]
           more == Append(log, r)
           s == [i \in 1 .. Len(log) |-> SentBy(log[i].ctx, a)[unit]]
           t == [i \in 1 .. Len(more) |-> SentBy(more[i].ctx, a)[unit]]
           n == SentBy(ctx, a)[unit]
<1>1. Len(log) \in Nat /\ \A i \in 1 .. Len(log) : log[i] \in FlowRecord
  BY LenProperties, ElementOfSeq
<1>2. \A i \in 1 .. Len(log) : SentBy(log[i].ctx, a)[unit] \in Nat
  BY <1>1, SentByType DEF FlowRecord
<1>3. s \in Seq(Nat) /\ n \in Nat
  BY <1>1, <1>2, SentByType
<1>4. r.ctx = ctx /\ r \in FlowRecord
  BY DEF FlowRecord
<1> HIDE DEF r
<1>5. /\ Len(more) = Len(log) + 1 /\ more[Len(log) + 1] = r
      /\ \A i \in 1 .. Len(log) : more[i] = log[i]
  BY <1>4, AppendProperties
<1>6. /\ Len(s) = Len(log) /\ DOMAIN t = 1 .. (Len(log) + 1) /\ t[Len(log) + 1] = n
      /\ \A i \in 1 .. Len(log) : t[i] = s[i]
  <2> HIDE DEF more
  <2> QED BY <1>1, <1>4, <1>5
<1> HIDE DEF s, t, n
<1>7. SumFunction(s) \in Nat /\ SumFunction(t) = SumFunction(s) + n
  BY <1>3, <1>6, SumGrows
<1> QED BY <1>7 DEF LogSum, s, t, n, more, r

LEMMA SumsAre ==
    ASSUME NEW h, NEW a, NEW unit
    PROVE  /\ InLog(h, a, unit) = LogSum(packetLog[h], a, unit)
           /\ InTable(h, a, unit) = TableSum(m_flowTable, h, a, unit)
           /\ InLog(h, a, unit)' = LogSum(packetLog'[h], a, unit)
           /\ InTable(h, a, unit)' = TableSum(m_flowTable', h, a, unit)
BY DEF InLog, InTable, LogSum, TableSum

LEMMA SumTypes ==
    ASSUME IInv, NEW h \in Hashes, NEW a, NEW unit \in Units
    PROVE  /\ InLog(h, a, unit) \in Nat
           /\ InTable(h, a, unit) \in Nat
<1>1. packetLog[h] \in Seq(FlowRecord)
  BY DEF IInv, Types
<1>2. LogSum(packetLog[h], a, unit) \in Nat
  <2>1. FirstContext(CHOOSE f \in Packets : HashOf(f) = h) \in FlowContext /\ now \in Nat
    BY FirstContextFacts DEF Hashes, IInv, Types
  <2> QED BY <1>1, <2>1, LogSumAppend
<1>3. h \in DOMAIN m_flowTable => m_flowTable[h] \in FlowContext
  BY DEF IInv, GoodTable, GoodFlow
<1> QED BY <1>2, <1>3, SumsAre, SentByType DEF TableSum

\* The packet in hand is added to the right sum, and the sums of other keys stay.
LEMMA PacketStays ==
    ASSUME IInv, PacketsAccounted, NEW f \in Packets, NextPacket(f),
           \A h \in Hashes, a \in Senders, unit \in Units :
             (InLog(h, a, unit)' + InTable(h, a, unit)') % UINT32
               = (InLog(h, a, unit) + InTable(h, a, unit) + Sent(f, h, a, unit)) % UINT32
    PROVE  PacketsAccounted'
<1> SUFFICES ASSUME NEW h \in Hashes, NEW a \in Senders, NEW unit \in Units
             PROVE  (InLog(h, a, unit)' + InTable(h, a, unit)') % UINT32
                      = handled'[<<h, a>>][unit] % UINT32
  BY DEF PacketsAccounted, Units
<1> DEFINE n == InLog(h, a, unit) + InTable(h, a, unit)
           m == handled[<<h, a>>][unit]
           k == Sent(f, h, a, unit)
<1>1. n \in Nat /\ k \in Nat
  BY SumTypes, SentFacts
<1>2. m \in Nat /\ handled'[<<h, a>>][unit] = m + k
  <2> DEFINE p == <<HashOf(f), KeyOf(f).m_ip1>>
  <2>1. handled \in [Hashes \X Senders -> [pkts : Nat, bytes : Nat]]
    BY DEF IInv, Types
  <2>2. p \in Hashes \X Senders /\ CurBytes(f) \in Nat
    BY FrameFacts
  <2>3. handled[<<h, a>>] \in [pkts : Nat, bytes : Nat]
    BY <2>1
  <2>4. handled' = [handled EXCEPT ![p] = [pkts |-> @.pkts + 1, bytes |-> @.bytes + CurBytes(f)]]
    BY DEF NextPacket
  <2>5. CASE <<h, a>> = p
    <3>1. handled'[<<h, a>>] = [pkts |-> handled[<<h, a>>].pkts + 1, bytes |-> handled[<<h, a>>].bytes + CurBytes(f)]
      BY <2>1, <2>2, <2>4, <2>5
    <3>2. h = HashOf(f) /\ a = KeyOf(f).m_ip1
      BY <2>5
    <3> QED BY <2>2, <2>3, <3>1, <3>2 DEF Sent, Units
  <2>6. CASE <<h, a>> # p
    <3>1. handled'[<<h, a>>] = handled[<<h, a>>]
      BY <2>1, <2>2, <2>4, <2>6
    <3>2. ~ (h = HashOf(f) /\ a = KeyOf(f).m_ip1)
      BY <2>6
    <3>3. m \in Nat /\ k = 0
      BY <2>3, <3>2 DEF Sent, Units
    <3> QED BY <3>1, <3>3
  <2> QED BY <2>5, <2>6
<1>3. n % UINT32 = m % UINT32
  BY DEF PacketsAccounted, Units
<1> HIDE DEF n, m, k
<1>4. (n + k) % UINT32 = (m + k) % UINT32
  BY <1>1, <1>2, <1>3, WidthSame
<1> QED BY <1>2, <1>4 DEF n, k

\* A record is written for a key: its context is added to the sum of the log.
LEMMA WriteCounts ==
    ASSUME IInv, NEW h \in Hashes, NEW ctx \in FlowContext, NEW end \in Nat,
           packetLog' = [packetLog EXCEPT ![h] = Append(@, [ctx |-> ctx, end |-> end])]
    PROVE  \A g \in Hashes, a \in Senders, unit \in Units :
             InLog(g, a, unit)'
               = InLog(g, a, unit) + IF g = h THEN SentBy(ctx, a)[unit] ELSE 0
<1> SUFFICES ASSUME NEW g \in Hashes, NEW a \in Senders, NEW unit \in Units
             PROVE  InLog(g, a, unit)'
                      = InLog(g, a, unit) + IF g = h THEN SentBy(ctx, a)[unit] ELSE 0
  OBVIOUS
<1>1. packetLog \in [Hashes -> Seq(FlowRecord)]
  BY DEF IInv, Types
<1>2. CASE g = h
  <2>1. packetLog'[g] = Append(packetLog[g], [ctx |-> ctx, end |-> end])
    BY <1>1, <1>2
  <2>2. LogSum(Append(packetLog[g], [ctx |-> ctx, end |-> end]), a, unit)
          = LogSum(packetLog[g], a, unit) + SentBy(ctx, a)[unit]
    BY <1>1, LogSumAppend
  <2> QED BY <1>2, <2>1, <2>2, SumsAre
<1>3. CASE g # h
  <2>1. packetLog'[g] = packetLog[g]
    BY <1>1, <1>3
  <2>2. InLog(g, a, unit) \in Nat
    BY SumTypes
  <2>3. InLog(g, a, unit) + 0 = InLog(g, a, unit)
    BY <2>2
  <2> QED BY <1>3, <2>1, <2>3, SumsAre
<1> QED BY <1>2, <1>3

\* However InsertFlowTable handles a packet, it is counted once.
LEMMA OpenFlowAccounted ==
    ASSUME IInv, PacketsAccounted, NEW f \in Packets, OpenFlow(f)
    PROVE  PacketsAccounted'
<1> DEFINE h == HashOf(f)
           ctx == FirstContext(f)
<1>1. /\ NextPacket(f) /\ h \notin DOMAIN m_flowTable /\ packetLog' = packetLog
      /\ m_flowTable' = With(m_flowTable, h, ctx) /\ now \in Nat
  BY DEF OpenFlow, Opens, WithFlow, With, IInv, Types
<1>2. ASSUME NEW g \in Hashes, NEW a \in Senders, NEW unit \in Units
      PROVE  (InLog(g, a, unit)' + InTable(g, a, unit)') % UINT32
               = (InLog(g, a, unit) + InTable(g, a, unit) + Sent(f, g, a, unit)) % UINT32
  <2> DEFINE n == InLog(g, a, unit)
             k == Sent(f, g, a, unit)
  <2>1. n \in Nat /\ InTable(g, a, unit) \in Nat /\ k \in Nat /\ InLog(g, a, unit)' = n
    BY <1>1, SumTypes, SumsAre, SentFacts
  <2>2. CASE g = h
    <3> DEFINE m == SentBy(ctx, a)[unit]
    <3>1. m \in Nat /\ m % UINT32 = k % UINT32
      BY <1>1, <2>2, FirstContextFacts, SentByType, FirstPacketCounted
    <3>2. InTable(g, a, unit) = 0 /\ InTable(g, a, unit)' = m
      BY <1>1, <2>2, SumsAre DEF TableSum, With
    <3> HIDE DEF m, n, k
    <3>3. (m + n) % UINT32 = (k + n) % UINT32
      BY <2>1, <3>1, WidthSame
    <3>4. n + m = m + n /\ n + 0 + k = k + n
      BY <2>1, <3>1
    <3> QED BY <2>1, <3>2, <3>3, <3>4 DEF n, k
  <2>3. CASE g # h
    <3>1. InTable(g, a, unit)' = InTable(g, a, unit)
      <4>1. TableSum(m_flowTable', g, a, unit) = TableSum(m_flowTable, g, a, unit)
        <5> HIDE DEF h, ctx
        <5> QED BY <1>1, <2>3 DEF TableSum, With
      <4> QED BY <4>1, SumsAre
    <3>2. k = 0
      BY <2>3 DEF Sent
    <3>3. n + InTable(g, a, unit) + 0 = n + InTable(g, a, unit)
      BY <2>1
    <3> QED BY <2>1, <3>1, <3>2, <3>3
  <2> QED BY <2>2, <2>3
<1> QED BY <1>1, <1>2, PacketStays

LEMMA ReopenFlowAccounted ==
    ASSUME IInv, PacketsAccounted, NEW f \in Packets, ReopenFlow(f)
    PROVE  PacketsAccounted'
<1> DEFINE h == HashOf(f)
           ctx == FirstContext(f)
           old == m_flowTable[h]
<1>1. /\ NextPacket(f) /\ h \in DOMAIN m_flowTable /\ now \in Nat /\ h \in Hashes
      /\ m_flowTable' = With(m_flowTable, h, ctx)
      /\ packetLog' = [packetLog EXCEPT ![h] = Append(@, [ctx |-> old, end |-> now])]
  BY FrameFacts DEF ReopenFlow, Reopens, WithFlow, With, Logged, IInv, Types
<1>2. old \in FlowContext
  BY <1>1 DEF IInv, GoodTable, GoodFlow
<1>3. ASSUME NEW g \in Hashes, NEW a \in Senders, NEW unit \in Units
      PROVE  (InLog(g, a, unit)' + InTable(g, a, unit)') % UINT32
               = (InLog(g, a, unit) + InTable(g, a, unit) + Sent(f, g, a, unit)) % UINT32
  <2> DEFINE n == InLog(g, a, unit)
             k == Sent(f, g, a, unit)
             o == SentBy(old, a)[unit]
  <2>1. n \in Nat /\ InTable(g, a, unit) \in Nat /\ k \in Nat /\ o \in Nat
    BY <1>2, SumTypes, SentFacts, SentByType
  <2>2. InLog(g, a, unit)' = n + IF g = h THEN o ELSE 0
    <3> HIDE DEF h, old
    <3> QED BY <1>1, <1>2, WriteCounts
  <2>3. CASE g = h
    <3> DEFINE m == SentBy(ctx, a)[unit]
    <3>1. m \in Nat /\ m % UINT32 = k % UINT32
      BY <1>1, <2>3, FirstContextFacts, SentByType, FirstPacketCounted
    <3>2. InTable(g, a, unit) = o /\ InTable(g, a, unit)' = m
      BY <1>1, <2>3, SumsAre DEF TableSum, With
    <3> HIDE DEF m, n, k, o
    <3>3. (m + (n + o)) % UINT32 = (k + (n + o)) % UINT32
      <4>1. n + o \in Nat
        BY <2>1
      <4> QED BY <2>1, <3>1, <4>1, WidthSame
    <3>4. n + o + m = m + (n + o) /\ n + o + k = k + (n + o)
      BY <2>1, <3>1
    <3> QED BY <2>2, <2>3, <3>2, <3>3, <3>4 DEF n, k
  <2>4. CASE g # h
    <3>1. InTable(g, a, unit)' = InTable(g, a, unit)
      <4>1. TableSum(m_flowTable', g, a, unit) = TableSum(m_flowTable, g, a, unit)
        <5> HIDE DEF h, ctx
        <5> QED BY <1>1, <2>4 DEF TableSum, With
      <4> QED BY <4>1, SumsAre
    <3>2. k = 0
      BY <2>4 DEF Sent
    <3> HIDE DEF n, k
    <3>3. n + InTable(g, a, unit) + 0 = n + 0 + InTable(g, a, unit)
      BY <2>1
    <3> QED BY <2>2, <2>4, <3>1, <3>2, <3>3 DEF n, k
  <2> QED BY <2>3, <2>4
<1> QED BY <1>1, <1>3, PacketStays

LEMMA CountInFlowAccounted ==
    ASSUME IInv, PacketsAccounted, NEW f \in Packets, CountInFlow(f)
    PROVE  PacketsAccounted'
<1> DEFINE h == HashOf(f)
           old == m_flowTable[h]
           cnt == CountPacket(old, f)
           ctx == NoteFin(cnt, f)
<1>1. /\ NextPacket(f) /\ h \in DOMAIN m_flowTable /\ packetLog' = packetLog
      /\ m_flowTable' = [m_flowTable EXCEPT ![h] = ctx] /\ DirectionKnown(old, f)
  BY DEF CountInFlow, Continues
<1>2. old \in FlowContext /\ m_flowTable = [g \in DOMAIN m_flowTable |-> m_flowTable[g]]
  BY <1>1 DEF IInv, GoodTable, GoodFlow
<1>3. cnt \in FlowContext
  BY <1>2, CountPacketFacts
<1>4. ASSUME NEW g \in Hashes, NEW a \in Senders, NEW unit \in Units
      PROVE  (InLog(g, a, unit)' + InTable(g, a, unit)') % UINT32
               = (InLog(g, a, unit) + InTable(g, a, unit) + Sent(f, g, a, unit)) % UINT32
  <2> DEFINE n == InLog(g, a, unit)
             k == Sent(f, g, a, unit)
             o == SentBy(old, a)[unit]
  <2>1. /\ n \in Nat /\ InTable(g, a, unit) \in Nat /\ k \in Nat /\ o \in Nat
        /\ InLog(g, a, unit)' = n
    BY <1>1, <1>2, SumTypes, SumsAre, SentFacts, SentByType
  <2>2. CASE g = h
    <3> DEFINE m == SentBy(ctx, a)[unit]
    <3>1. m \in Nat /\ m % UINT32 = (o + k) % UINT32
      <4>1. m = SentBy(cnt, a)[unit]
        BY <1>3, NoteFinCounts
      <4>2. SentBy(cnt, a)[unit] \in Nat
        BY <1>3, SentByType
      <4>3. SentBy(cnt, a)[unit] % UINT32 = (o + k) % UINT32
        BY <1>1, <1>2, <2>2, PacketCountedOnce
      <4> HIDE DEF m
      <4> QED BY <4>1, <4>2, <4>3
    <3>2. InTable(g, a, unit) = o /\ InTable(g, a, unit)' = m
      BY <1>1, <1>2, <2>2, SumsAre DEF TableSum
    <3> HIDE DEF m, n, k, o
    <3>3. (m + n) % UINT32 = ((o + k) + n) % UINT32
      <4>1. o + k \in Nat
        BY <2>1
      <4> QED BY <2>1, <3>1, <4>1, WidthSame
    <3>4. n + m = m + n /\ n + o + k = (o + k) + n
      BY <2>1, <3>1
    <3> QED BY <2>1, <3>2, <3>3, <3>4 DEF n, k
  <2>3. CASE g # h
    <3>1. InTable(g, a, unit)' = InTable(g, a, unit)
      BY <1>1, <1>2, <2>3, SumsAre DEF TableSum
    <3>2. k = 0
      BY <2>3 DEF Sent
    <3>3. n + InTable(g, a, unit) + 0 = n + InTable(g, a, unit)
      BY <2>1
    <3> QED BY <2>1, <3>1, <3>2, <3>3
  <2> QED BY <2>2, <2>3
<1> QED BY <1>1, <1>4, PacketStays

LEMMA FinishFlowAccounted ==
    ASSUME IInv, PacketsAccounted, NEW f \in Packets, FinishFlow(f)
    PROVE  PacketsAccounted'
<1> DEFINE h == HashOf(f)
           old == m_flowTable[h]
           cnt == CountPacket(old, f)
<1>1. /\ NextPacket(f) /\ h \in DOMAIN m_flowTable /\ now \in Nat /\ h \in Hashes
      /\ m_flowTable' = Without(m_flowTable, h) /\ DirectionKnown(old, f)
      /\ packetLog' = [packetLog EXCEPT ![h] = Append(@, [ctx |-> cnt, end |-> now])]
  BY FrameFacts DEF FinishFlow, Closes, WithoutFlows, Without, Logged, IInv, Types
<1>2. old \in FlowContext
  BY <1>1 DEF IInv, GoodTable, GoodFlow
<1>3. cnt \in FlowContext
  BY <1>2, CountPacketFacts
<1>4. ASSUME NEW g \in Hashes, NEW a \in Senders, NEW unit \in Units
      PROVE  (InLog(g, a, unit)' + InTable(g, a, unit)') % UINT32
               = (InLog(g, a, unit) + InTable(g, a, unit) + Sent(f, g, a, unit)) % UINT32
  <2> DEFINE n == InLog(g, a, unit)
             k == Sent(f, g, a, unit)
             o == SentBy(old, a)[unit]
             m == SentBy(cnt, a)[unit]
  <2>1. n \in Nat /\ InTable(g, a, unit) \in Nat /\ k \in Nat /\ o \in Nat /\ m \in Nat
    BY <1>2, <1>3, SumTypes, SentFacts, SentByType
  <2>2. InLog(g, a, unit)' = n + IF g = h THEN m ELSE 0
    <3> HIDE DEF h, cnt
    <3> QED BY <1>1, <1>3, WriteCounts
  <2>3. CASE g = h
    <3>1. m % UINT32 = (o + k) % UINT32
      BY <1>1, <1>2, <2>3, PacketCountedOnce
    <3>2. InTable(g, a, unit) = o /\ InTable(g, a, unit)' = 0
      BY <1>1, <2>3, SumsAre DEF TableSum, Without
    <3> HIDE DEF m, n, k, o
    <3>3. (m + n) % UINT32 = ((o + k) + n) % UINT32
      <4>1. o + k \in Nat
        BY <2>1
      <4> QED BY <2>1, <3>1, <4>1, WidthSame
    <3>4. n + m + 0 = m + n /\ n + o + k = (o + k) + n
      BY <2>1
    <3> QED BY <2>2, <2>3, <3>2, <3>3, <3>4 DEF n, k
  <2>4. CASE g # h
    <3>1. InTable(g, a, unit)' = InTable(g, a, unit)
      BY <1>1, <2>4, SumsAre DEF TableSum, Without
    <3>2. k = 0
      BY <2>4 DEF Sent
    <3> HIDE DEF n, k
    <3>3. n + InTable(g, a, unit) + 0 = n + 0 + InTable(g, a, unit)
      BY <2>1
    <3> QED BY <2>2, <2>4, <3>1, <3>2, <3>3 DEF n, k
  <2> QED BY <2>3, <2>4
<1> QED BY <1>1, <1>4, PacketStays

\* A flow that is written as it is moves from one sum to the other.
LEMMA ClearOldestAccounted ==
    ASSUME IInv, PacketsAccounted, ClearOldest
    PROVE  PacketsAccounted'
<1> DEFINE h == Oldest
           old == m_flowTable[h]
<1>1. /\ h \in DOMAIN m_flowTable /\ swept \in Nat /\ handled' = handled
      /\ m_flowTable' = Without(m_flowTable, h)
      /\ packetLog' = [packetLog EXCEPT ![h] = Append(@, [ctx |-> old, end |-> swept])]
  BY DEF ClearOldest, AssertionsHold, WithoutFlows, Without, IInv, Types
<1>2. old \in FlowContext /\ h \in Hashes
  BY <1>1 DEF IInv, GoodTable, GoodFlow
<1>3. ASSUME NEW g \in Hashes, NEW a \in Senders, NEW unit \in Units
      PROVE  InLog(g, a, unit)' + InTable(g, a, unit)' = InLog(g, a, unit) + InTable(g, a, unit)
  <2> DEFINE n == InLog(g, a, unit)
             o == SentBy(old, a)[unit]
  <2>1. n \in Nat /\ InTable(g, a, unit) \in Nat /\ o \in Nat
    BY <1>2, SumTypes, SentByType
  <2>2. InLog(g, a, unit)' = n + IF g = h THEN o ELSE 0
    <3> HIDE DEF h, old
    <3> QED BY <1>1, <1>2, WriteCounts
  <2>3. CASE g = h
    <3>1. InTable(g, a, unit) = o /\ InTable(g, a, unit)' = 0
      BY <1>1, <2>3, SumsAre DEF TableSum, Without
    <3> HIDE DEF n, o
    <3> QED BY <2>1, <2>2, <2>3, <3>1 DEF n
  <2>4. CASE g # h
    <3>1. InTable(g, a, unit)' = InTable(g, a, unit)
      BY <1>1, <2>4, SumsAre DEF TableSum, Without
    <3> HIDE DEF n, o
    <3> QED BY <2>1, <2>2, <2>4, <3>1 DEF n
  <2> QED BY <2>3, <2>4
<1> QED BY <1>1, <1>3 DEF PacketsAccounted, Units

LEMMA DumpAllFlowAccounted ==
    ASSUME IInv, PacketsAccounted, DumpAllFlow
    PROVE  PacketsAccounted'
<1>1. /\ packetLog' =
           [h \in Hashes |-> IF h \in DOMAIN m_flowTable
                             THEN Append(packetLog[h], [ctx |-> m_flowTable[h], end |-> now])
                             ELSE packetLog[h]]
      /\ m_flowTable' = <<>> /\ handled' = handled
  BY DEF DumpAllFlow
<1>2. now \in Nat /\ packetLog \in [Hashes -> Seq(FlowRecord)]
  BY DEF IInv, Types
<1>3. ASSUME NEW g \in Hashes, NEW a \in Senders, NEW unit \in Units
      PROVE  InLog(g, a, unit)' + InTable(g, a, unit)' = InLog(g, a, unit) + InTable(g, a, unit)
  <2> DEFINE n == InLog(g, a, unit)
             o == SentBy(m_flowTable[g], a)[unit]
  <2>1. n \in Nat /\ InTable(g, a, unit)' = 0
    <3>1. TableSum(<<>>, g, a, unit) = 0
      BY DEF TableSum
    <3> QED BY <1>1, <3>1, SumTypes, SumsAre
  <2>2. CASE g \in DOMAIN m_flowTable
    <3>1. m_flowTable[g] \in FlowContext
      BY <2>2 DEF IInv, GoodTable, GoodFlow
    <3>2. o \in Nat /\ InTable(g, a, unit) = o
      BY <2>2, <3>1, SentByType, SumsAre DEF TableSum
    <3>3. InLog(g, a, unit)' = n + o
      <4>1. packetLog'[g] = Append(packetLog[g], [ctx |-> m_flowTable[g], end |-> now])
        BY <1>1, <2>2
      <4>2. LogSum(packetLog'[g], a, unit) = LogSum(packetLog[g], a, unit) + o
        BY <1>2, <3>1, <4>1, LogSumAppend
      <4> QED BY <4>2, SumsAre
    <3> HIDE DEF n, o
    <3> QED BY <2>1, <3>2, <3>3 DEF n
  <2>3. CASE g \notin DOMAIN m_flowTable
    <3>1. InLog(g, a, unit)' = n /\ InTable(g, a, unit) = 0
      <4>1. packetLog'[g] = packetLog[g]
        BY <1>1, <2>3
      <4> QED BY <2>3, <4>1, SumsAre DEF TableSum
    <3> HIDE DEF n
    <3> QED BY <2>1, <3>1 DEF n
  <2> QED BY <2>2, <2>3
<1> QED BY <1>1, <1>3 DEF PacketsAccounted, Units

LEMMA OthersAccounted ==
    ASSUME PacketsAccounted, UNCHANGED <<m_flowTable, packetLog, handled>>
    PROVE  PacketsAccounted'
<1>1. ASSUME NEW h, NEW a, NEW unit
      PROVE  InLog(h, a, unit)' = InLog(h, a, unit) /\ InTable(h, a, unit)' = InTable(h, a, unit)
  BY DEF InLog, InTable
<1> QED BY <1>1 DEF PacketsAccounted

(***************************************************************************)
(* No packet is lost or counted twice, and none on the wrong side: the     *)
(* records and the flow of a key agree with what was handed to ParseFlow,  *)
(* modulo the width of the counters, with any frames, colliding or not.    *)
(***************************************************************************)
THEOREM EveryPacketAccounted == Spec => []PacketsAccounted
<1>1. Init => PacketsAccounted
  <2> SUFFICES ASSUME Init, NEW h \in Hashes, NEW a \in Senders, NEW unit \in Units
               PROVE  (InLog(h, a, unit) + InTable(h, a, unit)) % UINT32
                        = handled[<<h, a>>][unit] % UINT32
    BY DEF PacketsAccounted, Units
  <2>1. packetLog[h] = <<>> /\ m_flowTable = <<>> /\ handled[<<h, a>>] = [pkts |-> 0, bytes |-> 0]
    BY DEF Init
  <2>2. InLog(h, a, unit) = 0
    <3>1. DOMAIN [i \in 1 .. Len(packetLog[h]) |-> SentBy(packetLog[h][i].ctx, a)[unit]] = {}
      BY <2>1
    <3> QED BY <3>1, SumEmpty DEF InLog, SumFunction
  <2>3. InTable(h, a, unit) = 0 /\ handled[<<h, a>>][unit] = 0
    BY <2>1 DEF InTable, Units
  <2> QED BY <2>2, <2>3
<1>2. IInv /\ PacketsAccounted /\ [Next]_vars => PacketsAccounted'
  <2> SUFFICES ASSUME IInv, PacketsAccounted, [Next]_vars
               PROVE  PacketsAccounted'
    OBVIOUS
  <2>1. CASE InsertFlowTable
    <3>1. Head(todo) \in Packets
      <4>1. todo # <<>> /\ todo \in Seq(Packets)
        BY <2>1 DEF InsertFlowTable, IInv, Types
      <4> QED BY <4>1, HeadTailProperties
    <3> QED BY <2>1, <3>1, OpenFlowAccounted, ReopenFlowAccounted, CountInFlowAccounted,
               FinishFlowAccounted DEF InsertFlowTable
  <2>2. CASE ClearOldest
    BY <2>2, ClearOldestAccounted
  <2>3. CASE DumpAllFlow
    BY <2>3, DumpAllFlowAccounted
  <2>4. CASE Dequeue \/ AssertFails \/ ClearExpiredFlow \/ ClearEnds \/ AdvanceClock
             \/ UNCHANGED vars
    <3>1. UNCHANGED <<m_flowTable, packetLog, handled>>
      BY <2>4 DEF Dequeue, AssertFails, ClearExpiredFlow, ClearEnds, AdvanceClock, vars
    <3> QED BY <3>1, OthersAccounted
  <2> QED BY <2>1, <2>2, <2>3, <2>4 DEF Next
<1> QED BY <1>1, <1>2, SpecIInv, PTL DEF Spec

-------------------------------------------------------------------------------
(***************************************************************************)
(* How many packets there are in the records and in the flows, as long as  *)
(* there are fewer than a counter can count.                               *)
(***************************************************************************)
PktsOf(ctx) == ctx.m_ip1To2Pkts + ctx.m_ip2To1Pkts

LogPkts(log) == SumFunction([i \in 1 .. Len(log) |-> PktsOf(log[i].ctx)])

TablePkts(t, h) == IF h \in DOMAIN t THEN PktsOf(t[h]) ELSE 0

Pkts(h) == LogPkts(packetLog[h]) + TablePkts(m_flowTable, h)

AllPkts == SumFunctionOnSet([h \in Hashes |-> Pkts(h)], Hashes)

LEMMA PktsOfFacts ==
    ASSUME NEW ctx \in FlowContext, NEW f \in Packets
    PROVE  /\ PktsOf(ctx) \in Nat
           /\ PktsOf(NoteFin(ctx, f)) = PktsOf(ctx)
           /\ PktsOf(ctx) + 1 < UINT32 => PktsOf(CountPacket(ctx, f)) = PktsOf(ctx) + 1
<1>1. /\ ctx.m_ip1To2Pkts \in Nat /\ ctx.m_ip2To1Pkts \in Nat /\ UINT32 \in Nat \ {0}
  BY FlowTableAssumption DEF FlowContext
<1>2. PktsOf(NoteFin(ctx, f)) = PktsOf(ctx)
  BY DEF NoteFin, FlowContext, PktsOf
<1>3. ASSUME PktsOf(ctx) + 1 < UINT32
      PROVE  PktsOf(CountPacket(ctx, f)) = PktsOf(ctx) + 1
  <2>1. \A n \in Nat : n < UINT32 => n % UINT32 = n
    BY <1>1
  <2>2. /\ ctx.m_ip1To2Pkts + 1 \in Nat /\ ctx.m_ip1To2Pkts + 1 < UINT32
        /\ ctx.m_ip2To1Pkts + 1 \in Nat /\ ctx.m_ip2To1Pkts + 1 < UINT32
    BY <1>1, <1>3 DEF PktsOf
  <2>3. /\ Add(ctx.m_ip1To2Pkts, 1) = ctx.m_ip1To2Pkts + 1
        /\ Add(ctx.m_ip2To1Pkts, 1) = ctx.m_ip2To1Pkts + 1
    BY <2>1, <2>2 DEF Add
  <2>4. CASE ctx.id.m_ip1 = KeyOf(f).m_ip1
    <3>1. /\ CountPacket(ctx, f).m_ip1To2Pkts = ctx.m_ip1To2Pkts + 1
          /\ CountPacket(ctx, f).m_ip2To1Pkts = ctx.m_ip2To1Pkts
      BY <2>3, <2>4 DEF CountPacket, FlowContext
    <3> QED BY <1>1, <3>1 DEF PktsOf
  <2>5. CASE ctx.id.m_ip1 # KeyOf(f).m_ip1
    <3>1. /\ CountPacket(ctx, f).m_ip1To2Pkts = ctx.m_ip1To2Pkts
          /\ CountPacket(ctx, f).m_ip2To1Pkts = ctx.m_ip2To1Pkts + 1
      BY <2>3, <2>5 DEF CountPacket, FlowContext
    <3> QED BY <1>1, <3>1 DEF PktsOf
  <2> QED BY <2>4, <2>5
<1>4. PktsOf(ctx) \in Nat
  BY <1>1 DEF PktsOf
<1> QED BY <1>2, <1>3, <1>4

LEMMA FirstPkt ==
    ASSUME now \in Nat, NEW f \in Packets, 1 < UINT32
    PROVE  PktsOf(FirstContext(f)) = 1
<1> DEFINE c == NewContext(KeyOf(f), now)
           d == CountPacket(c, f)
<1>1. c \in FlowContext
  BY FrameFacts, NewContextFacts
<1>2. PktsOf(c) = 0
  BY DEF PktsOf, NewContext
<1> HIDE DEF c
<1>3. d \in FlowContext /\ PktsOf(d) = 1
  BY <1>1, <1>2, CountPacketFacts, PktsOfFacts
<1> HIDE DEF d
<1>4. PktsOf(NoteFin(d, f)) = 1
  BY <1>3, PktsOfFacts
<1> QED BY <1>4 DEF FirstContext, c, d

LEMMA LogPktsAppend ==
    ASSUME NEW log \in Seq(FlowRecord), NEW ctx \in FlowContext, NEW end \in Nat
    PROVE  /\ LogPkts(log) \in Nat
           /\ LogPkts(Append(log, [ctx |-> ctx, end |-> end])) = LogPkts(log) + PktsOf(ctx)
<1> DEFINE r == [ctx |-> ctx, end |-> end]
           more == Append(log, r)
           s == [i \in 1 .. Len(log) |-> PktsOf(log[i].ctx)]
           t == [i \in 1 .. Len(more) |-> PktsOf(more[i].ctx)]
           n == PktsOf(ctx)
<1>1. Len(log) \in Nat /\ \A i \in 1 .. Len(log) : log[i] \in FlowRecord
  BY LenProperties, ElementOfSeq
<1>0. \A c \in FlowContext : PktsOf(c) \in Nat
  BY FlowTableAssumption DEF FlowContext, PktsOf
<1>2. \A i \in 1 .. Len(log) : PktsOf(log[i].ctx) \in Nat
  BY <1>0, <1>1 DEF FlowRecord
<1>3. s \in Seq(Nat) /\ n \in Nat
  BY <1>0, <1>1, <1>2
<1>4. r.ctx = ctx /\ r \in FlowRecord
  BY DEF FlowRecord
<1> HIDE DEF r
<1>5. /\ Len(more) = Len(log) + 1 /\ more[Len(log) + 1] = r
      /\ \A i \in 1 .. Len(log) : more[i] = log[i]
  BY <1>4, AppendProperties
<1>6. /\ Len(s) = Len(log) /\ DOMAIN t = 1 .. (Len(log) + 1) /\ t[Len(log) + 1] = n
      /\ \A i \in 1 .. Len(log) : t[i] = s[i]
  <2> HIDE DEF more
  <2> QED BY <1>1, <1>4, <1>5
<1> HIDE DEF s, t, n
<1>7. SumFunction(s) \in Nat /\ SumFunction(t) = SumFunction(s) + n
  BY <1>3, <1>6, SumGrows
<1> QED BY <1>7 DEF LogPkts, s, t, n, more, r

LEMMA PktsTypes ==
    ASSUME IInv, NEW h \in Hashes
    PROVE  /\ LogPkts(packetLog[h]) \in Nat
           /\ TablePkts(m_flowTable, h) \in Nat
           /\ Pkts(h) \in Nat
<1>1. packetLog[h] \in Seq(FlowRecord)
  BY DEF IInv, Types
<1>2. LogPkts(packetLog[h]) \in Nat
  <2>1. FirstContext(CHOOSE f \in Packets : HashOf(f) = h) \in FlowContext /\ now \in Nat
    BY FirstContextFacts DEF Hashes, IInv, Types
  <2> QED BY <1>1, <2>1, LogPktsAppend
<1>3. h \in DOMAIN m_flowTable => m_flowTable[h] \in FlowContext
  BY DEF IInv, GoodTable, GoodFlow
<1>4. \A c \in FlowContext : PktsOf(c) \in Nat
  BY FlowTableAssumption DEF FlowContext, PktsOf
<1>5. TablePkts(m_flowTable, h) \in Nat
  BY <1>3, <1>4 DEF TablePkts
<1> QED BY <1>2, <1>5 DEF Pkts

\* A record of a key adds the packets of its context to those in its records.
LEMMA WriteAddsPkts ==
    ASSUME IInv, NEW h \in Hashes, NEW ctx \in FlowContext, NEW end \in Nat,
           packetLog' = [packetLog EXCEPT ![h] = Append(@, [ctx |-> ctx, end |-> end])]
    PROVE  /\ LogPkts(packetLog'[h]) = LogPkts(packetLog[h]) + PktsOf(ctx)
           /\ \A g \in Hashes \ {h} : packetLog'[g] = packetLog[g]
<1>1. packetLog \in [Hashes -> Seq(FlowRecord)]
  BY DEF IInv, Types
<1>2. packetLog'[h] = Append(packetLog[h], [ctx |-> ctx, end |-> end])
  BY <1>1
<1>3. LogPkts(Append(packetLog[h], [ctx |-> ctx, end |-> end]))
        = LogPkts(packetLog[h]) + PktsOf(ctx)
  BY <1>1, LogPktsAppend
<1> QED BY <1>1, <1>2, <1>3

\* A packet adds one to the packets of its key, and none to those of another.
LEMMA PacketAddsOne ==
    ASSUME IInv, NEW f \in Packets, HashOf(f) \in Hashes, Pkts(HashOf(f)) + 1 < UINT32,
           OpenFlow(f) \/ ReopenFlow(f) \/ CountInFlow(f) \/ FinishFlow(f)
    PROVE  /\ Pkts(HashOf(f))' = Pkts(HashOf(f)) + 1
           /\ \A g \in Hashes \ {HashOf(f)} : Pkts(g)' = Pkts(g)
<1> DEFINE h == HashOf(f)
           old == m_flowTable[h]
           cnt == CountPacket(old, f)
<1>1. /\ h \in Hashes /\ now \in Nat /\ UINT32 \in Nat
      /\ LogPkts(packetLog[h]) \in Nat /\ TablePkts(m_flowTable, h) \in Nat
      /\ Pkts(h) = LogPkts(packetLog[h]) + TablePkts(m_flowTable, h)
  BY PktsTypes, FlowTableAssumption DEF IInv, Types, Pkts
<1>2. /\ 1 < UINT32 /\ TablePkts(m_flowTable, h) + 1 < UINT32
  <2> HIDE DEF h
  <2> QED BY <1>1 DEF h
<1>3. FirstContext(f) \in FlowContext /\ PktsOf(FirstContext(f)) = 1
  BY <1>1, <1>2, FirstPkt, FirstContextFacts
<1>4. h \in DOMAIN m_flowTable =>
        /\ old \in FlowContext /\ TablePkts(m_flowTable, h) = PktsOf(old)
        /\ cnt \in FlowContext /\ PktsOf(cnt) = PktsOf(old) + 1
        /\ PktsOf(NoteFin(cnt, f)) = PktsOf(old) + 1
  <2> SUFFICES ASSUME h \in DOMAIN m_flowTable
               PROVE  /\ old \in FlowContext /\ TablePkts(m_flowTable, h) = PktsOf(old)
                      /\ cnt \in FlowContext /\ PktsOf(cnt) = PktsOf(old) + 1
                      /\ PktsOf(NoteFin(cnt, f)) = PktsOf(old) + 1
    OBVIOUS
  <2>1. old \in FlowContext /\ TablePkts(m_flowTable, h) = PktsOf(old)
    BY DEF IInv, GoodTable, GoodFlow, TablePkts
  <2>2. cnt \in FlowContext /\ PktsOf(cnt) = PktsOf(old) + 1
    <3> HIDE DEF h, old
    <3> QED BY <1>2, <2>1, CountPacketFacts, PktsOfFacts
  <2> HIDE DEF old, cnt
  <2> QED BY <2>1, <2>2, PktsOfFacts
<1>5. CASE OpenFlow(f)
  <2>1. /\ h \notin DOMAIN m_flowTable /\ packetLog' = packetLog
        /\ m_flowTable' = With(m_flowTable, h, FirstContext(f))
    BY <1>5 DEF OpenFlow, Opens, WithFlow, With
  <2> HIDE DEF h
  <2>2. TablePkts(m_flowTable, h) = 0 /\ TablePkts(m_flowTable', h) = 1
    BY <1>3, <2>1 DEF TablePkts, With
  <2>3. \A g \in Hashes \ {h} : TablePkts(m_flowTable', g) = TablePkts(m_flowTable, g)
    BY <2>1 DEF TablePkts, With
  <2>4. Pkts(h)' = Pkts(h) + 1
    BY <1>1, <2>1, <2>2 DEF Pkts
  <2>5. \A g \in Hashes \ {h} : Pkts(g)' = Pkts(g)
    BY <2>1, <2>3 DEF Pkts
  <2> QED BY <2>4, <2>5 DEF h
<1>6. CASE ReopenFlow(f)
  <2>1. /\ h \in DOMAIN m_flowTable
        /\ m_flowTable' = With(m_flowTable, h, FirstContext(f))
        /\ packetLog' = [packetLog EXCEPT ![h] = Append(@, [ctx |-> old, end |-> now])]
    BY <1>6 DEF ReopenFlow, Reopens, WithFlow, With, Logged
  <2> HIDE DEF h, old
  <2>2. /\ LogPkts(packetLog'[h]) = LogPkts(packetLog[h]) + PktsOf(old)
        /\ \A g \in Hashes \ {h} : packetLog'[g] = packetLog[g]
    BY <1>1, <1>4, <2>1, WriteAddsPkts
  <2>3. TablePkts(m_flowTable, h) = PktsOf(old) /\ TablePkts(m_flowTable', h) = 1
    BY <1>3, <1>4, <2>1 DEF TablePkts, With
  <2>4. \A g \in Hashes \ {h} : TablePkts(m_flowTable', g) = TablePkts(m_flowTable, g)
    BY <2>1 DEF TablePkts, With
  <2>5. Pkts(h)' = Pkts(h) + 1
    <3>1. Pkts(h)' = LogPkts(packetLog[h]) + PktsOf(old) + 1
      BY <2>2, <2>3 DEF Pkts
    <3> QED BY <1>1, <2>3, <3>1
  <2>6. \A g \in Hashes \ {h} : Pkts(g)' = Pkts(g)
    BY <2>2, <2>4 DEF Pkts
  <2> QED BY <2>5, <2>6 DEF h
<1>7. CASE CountInFlow(f)
  <2>1. /\ h \in DOMAIN m_flowTable /\ packetLog' = packetLog
        /\ m_flowTable' = [m_flowTable EXCEPT ![h] = NoteFin(cnt, f)]
    BY <1>7 DEF CountInFlow, Continues
  <2>2. m_flowTable = [g \in DOMAIN m_flowTable |-> m_flowTable[g]]
    BY DEF IInv, GoodTable
  <2> HIDE DEF h, old, cnt
  <2>3. TablePkts(m_flowTable', h) = TablePkts(m_flowTable, h) + 1
    BY <1>4, <2>1, <2>2 DEF TablePkts
  <2>4. \A g \in Hashes \ {h} : TablePkts(m_flowTable', g) = TablePkts(m_flowTable, g)
    BY <2>1, <2>2 DEF TablePkts
  <2>5. Pkts(h)' = Pkts(h) + 1
    <3>1. Pkts(h)' = LogPkts(packetLog[h]) + (TablePkts(m_flowTable, h) + 1)
      BY <2>1, <2>3 DEF Pkts
    <3> QED BY <1>1, <3>1
  <2>6. \A g \in Hashes \ {h} : Pkts(g)' = Pkts(g)
    BY <2>1, <2>4 DEF Pkts
  <2> QED BY <2>5, <2>6 DEF h
<1>8. CASE FinishFlow(f)
  <2>1. /\ h \in DOMAIN m_flowTable
        /\ m_flowTable' = Without(m_flowTable, h)
        /\ packetLog' = [packetLog EXCEPT ![h] = Append(@, [ctx |-> cnt, end |-> now])]
    BY <1>8 DEF FinishFlow, Closes, WithoutFlows, Without, Logged
  <2> HIDE DEF h, old, cnt
  <2>2. /\ LogPkts(packetLog'[h]) = LogPkts(packetLog[h]) + PktsOf(cnt)
        /\ \A g \in Hashes \ {h} : packetLog'[g] = packetLog[g]
    BY <1>1, <1>4, <2>1, WriteAddsPkts
  <2>3. TablePkts(m_flowTable', h) = 0
    BY <2>1 DEF TablePkts, Without
  <2>4. \A g \in Hashes \ {h} : TablePkts(m_flowTable', g) = TablePkts(m_flowTable, g)
    BY <2>1 DEF TablePkts, Without
  <2>5. Pkts(h)' = Pkts(h) + 1
    <3>1. Pkts(h)' = LogPkts(packetLog[h]) + (TablePkts(m_flowTable, h) + 1) + 0
      BY <1>4, <2>1, <2>2, <2>3 DEF Pkts
    <3> QED BY <1>1, <3>1
  <2>6. \A g \in Hashes \ {h} : Pkts(g)' = Pkts(g)
    BY <2>2, <2>4 DEF Pkts
  <2> QED BY <2>5, <2>6 DEF h
<1> QED BY <1>5, <1>6, <1>7, <1>8

\* A flow that is written takes its packets from the table to the log.
LEMMA WritingKeepsPkts ==
    ASSUME IInv, ClearOldest \/ DumpAllFlow
    PROVE  \A g \in Hashes : Pkts(g)' = Pkts(g)
<1>1. CASE ClearOldest
  <2>0. PICK h, ctx : h = Oldest /\ ctx = m_flowTable[h]
    OBVIOUS
  <2>1. /\ h \in DOMAIN m_flowTable
        /\ m_flowTable' = Without(m_flowTable, h)
        /\ packetLog' = [packetLog EXCEPT ![h] = Append(@, [ctx |-> ctx, end |-> swept])]
    BY <1>1, <2>0 DEF ClearOldest, Clearing, AssertionsHold, WithoutFlows, Without
  <2>2. h \in Hashes /\ ctx \in FlowContext /\ swept \in Nat
    BY <2>0, <2>1 DEF IInv, GoodTable, GoodFlow, Types
  <2>3. /\ LogPkts(packetLog'[h]) = LogPkts(packetLog[h]) + PktsOf(ctx)
        /\ \A g \in Hashes \ {h} : packetLog'[g] = packetLog[g]
    BY <2>1, <2>2, WriteAddsPkts
  <2>4. TablePkts(m_flowTable, h) = PktsOf(ctx) /\ TablePkts(m_flowTable', h) = 0
    BY <2>0, <2>1 DEF TablePkts, Without
  <2>5. \A g \in Hashes \ {h} : TablePkts(m_flowTable', g) = TablePkts(m_flowTable, g)
    BY <2>1 DEF TablePkts, Without
  <2>6. Pkts(h)' = Pkts(h)
    <3>1. Pkts(h)' = LogPkts(packetLog[h]) + TablePkts(m_flowTable, h) + 0
      BY <2>3, <2>4 DEF Pkts
    <3> QED BY <2>2, <3>1, PktsTypes DEF Pkts
  <2>7. \A g \in Hashes \ {h} : Pkts(g)' = Pkts(g)
    BY <2>3, <2>5 DEF Pkts
  <2> QED BY <2>6, <2>7
<1>2. CASE DumpAllFlow
  <2> SUFFICES ASSUME NEW g \in Hashes
               PROVE  Pkts(g)' = Pkts(g)
    OBVIOUS
  <2>1. /\ m_flowTable' = <<>> /\ now \in Nat /\ packetLog \in [Hashes -> Seq(FlowRecord)]
        /\ packetLog' =
             [h \in Hashes |-> IF h \in DOMAIN m_flowTable
                               THEN Append(packetLog[h], [ctx |-> m_flowTable[h], end |-> now])
                               ELSE packetLog[h]]
    BY <1>2 DEF DumpAllFlow, IInv, Types
  <2>2. TablePkts(m_flowTable', g) = 0
    BY <2>1 DEF TablePkts
  <2>3. LogPkts(packetLog[g]) \in Nat /\ TablePkts(m_flowTable, g) \in Nat
    BY PktsTypes
  <2>4. LogPkts(packetLog'[g]) = LogPkts(packetLog[g]) + TablePkts(m_flowTable, g)
    <3>1. CASE g \in DOMAIN m_flowTable
      <4>1. packetLog'[g] = Append(packetLog[g], [ctx |-> m_flowTable[g], end |-> now])
        BY <2>1, <3>1
      <4>2. m_flowTable[g] \in FlowContext /\ TablePkts(m_flowTable, g) = PktsOf(m_flowTable[g])
        BY <3>1 DEF IInv, GoodTable, GoodFlow, TablePkts
      <4>3. LogPkts(Append(packetLog[g], [ctx |-> m_flowTable[g], end |-> now]))
              = LogPkts(packetLog[g]) + PktsOf(m_flowTable[g])
        BY <2>1, <4>2, LogPktsAppend
      <4> QED BY <4>1, <4>2, <4>3
    <3>2. CASE g \notin DOMAIN m_flowTable
      <4>1. packetLog'[g] = packetLog[g] /\ TablePkts(m_flowTable, g) = 0
        BY <2>1, <3>2 DEF TablePkts
      <4> QED BY <2>3, <4>1
    <3> QED BY <3>1, <3>2
  <2>5. Pkts(g)' = LogPkts(packetLog[g]) + TablePkts(m_flowTable, g) + 0
    BY <2>2, <2>4 DEF Pkts
  <2> QED BY <2>3, <2>5 DEF Pkts
<1> QED BY <1>1, <1>2

LEMMA FewHashes ==
    ASSUME IsFiniteSet(Packets)
    PROVE  IsFiniteSet(Hashes)
<1> DEFINE hash == [f \in Packets |-> HashOf(f)]
<1>1. hash \in Surjection(Packets, Hashes)
  BY DEF Surjection, Hashes
<1> HIDE DEF hash
<1> QED BY <1>1, FS_Surjection

\* Each packet parsed is one more in the records and flows ...
LEMMA ParsingCounts ==
    ASSUME IInv, IsFiniteSet(Packets), InsertFlowTable, AllPkts + 1 < UINT32
    PROVE  AllPkts' = AllPkts + 1
<1>1. PICK f \in Packets : f = Head(todo)
  <2>1. todo # <<>> /\ todo \in Seq(Packets)
    BY DEF InsertFlowTable, IInv, Types
  <2> QED BY <2>1, HeadTailProperties
<1>2. OpenFlow(f) \/ ReopenFlow(f) \/ CountInFlow(f) \/ FinishFlow(f)
  BY <1>1 DEF InsertFlowTable
<1> DEFINE h == HashOf(f)
           F == [g \in Hashes |-> Pkts(g)]
           G == [g \in Hashes |-> Pkts(g)']
<1>3. IsFiniteSet(Hashes) /\ h \in Hashes /\ UINT32 \in Nat
  BY <1>1, FewHashes, FlowTableAssumption DEF Hashes
<1>4. \A g \in Hashes : F[g] \in Nat /\ F[g] = Pkts(g)
  BY PktsTypes
<1>5. SumFunctionOnSet(F, Hashes) = AllPkts /\ SumFunctionOnSet(G, Hashes) = AllPkts'
  BY DEF AllPkts
<1> HIDE DEF F
<1>6. AllPkts \in Nat /\ AllPkts = F[h] + SumFunctionOnSet(F, Hashes \ {h})
  <2> HIDE DEF h
  <2> QED BY <1>3, <1>4, <1>5, SumTakesAny
<1>7. SumFunctionOnSet(F, Hashes \ {h}) \in Nat
  <2>1. IsFiniteSet(Hashes \ {h})
    BY <1>3, FS_RemoveElement
  <2> HIDE DEF h
  <2> QED BY <2>1, <1>4, SumTakesAny
<1>8. Pkts(h) \in Nat /\ Pkts(h) + 1 < UINT32
  <2> HIDE DEF h
  <2> QED BY <1>3, <1>4, <1>6, <1>7
<1>9. /\ Pkts(h)' = Pkts(h) + 1
      /\ \A g \in Hashes \ {h} : Pkts(g)' = Pkts(g)
  BY <1>1, <1>2, <1>3, <1>8, PacketAddsOne
<1>10. \A g \in Hashes : G[g] \in Nat /\ G[g] = Pkts(g)'
  <2> HIDE DEF h
  <2> QED BY <1>4, <1>8, <1>9
<1>11. \A g \in Hashes \ {h} : G[g] = F[g]
  BY <1>4, <1>9, <1>10
<1> HIDE DEF G, h
<1>12. AllPkts' + F[h] = AllPkts + G[h]
  <2>1. SumFunctionOnSet(G, Hashes) + F[h] = SumFunctionOnSet(F, Hashes) + G[h]
    BY <1>3, <1>4, <1>10, <1>11, SumChanges
  <2> QED BY <2>1, <1>5
<1>13. AllPkts' \in Nat
  <2>1. SumFunctionOnSet(G, Hashes) \in Nat
    BY <1>3, <1>10, SumTakesAny
  <2> QED BY <2>1, <1>5
<1> QED BY <1>3, <1>4, <1>6, <1>8, <1>9, <1>10, <1>12, <1>13

\* ... and nothing else changes their number.
LEMMA OthersKeepAll ==
    ASSUME IInv, [Next]_vars, ~ InsertFlowTable
    PROVE  AllPkts' = AllPkts
<1>1. CASE ClearOldest \/ DumpAllFlow
  BY <1>1, WritingKeepsPkts DEF AllPkts
<1>2. CASE ~ (ClearOldest \/ DumpAllFlow)
  <2>1. UNCHANGED <<m_flowTable, packetLog>>
    BY <1>2 DEF Next, Dequeue, AssertFails, ClearExpiredFlow, ClearEnds, AdvanceClock, vars
  <2>2. \A g \in Hashes : Pkts(g)' = Pkts(g)
    BY <2>1 DEF Pkts
  <2> QED BY <2>2 DEF AllPkts
<1> QED BY <1>1, <1>2

-------------------------------------------------------------------------------
(***************************************************************************)
(* class FlowCache on its own keeps its map and its list consistent, for   *)
(* any keys, capacity and times.                                           *)
(***************************************************************************)

\* Update is a deletion and an insertion: both are given the same address.
LEMMA UpdateIsReinsert ==
    ASSUME NEW K, NEW c, CacheType(K, c), NEW k, Count(c, k), NEW e
    PROVE  Update(c, k, e) = Insert(Delete(c, k), k, e)
<1> DEFINE m == c.m_cacheMap
           r == RemoveAt(c.m_cacheList, Iter(c, k))
           n == NewNode(r, k, e)
<1>1. k \in DOMAIN m /\ m = [g \in DOMAIN m |-> m[g]]
  BY DEF CacheType, Count, Keyed
<1>2. Update(c, k, e) =
        [m_cacheMap |-> [m EXCEPT ![k] = n.addr], m_cacheList |-> Append(r, n)]
  BY DEF Update
<1>3. Insert(Delete(c, k), k, e) =
        [m_cacheMap |-> Store(Erase(m, k), k, n.addr), m_cacheList |-> Append(r, n)]
  BY DEF Insert, Delete
<1> HIDE DEF m, r, n
<1>4. Store(Erase(m, k), k, n.addr) = [m EXCEPT ![k] = n.addr]
  <2>1. DOMAIN Store(Erase(m, k), k, n.addr) = DOMAIN m
    BY <1>1 DEF Store, Erase
  <2> QED BY <1>1, <2>1 DEF Store, Erase
<1> QED BY <1>2, <1>3, <1>4

LEMMA UpdateProperties ==
    ASSUME NEW K, NEW c, CacheType(K, c), CacheConsistent(c),
           NEW k \in K, Count(c, k), NEW e \in Nat
    PROVE  /\ CacheType(K, Update(c, k, e))
           /\ CacheConsistent(Update(c, k, e))
           /\ Keyed(Update(c, k, e)) = Keyed(c)
<1> DEFINE d == Delete(c, k)
<1>1. /\ CacheType(K, d) /\ CacheConsistent(d)
      /\ Keyed(d) = Keyed(c) \ {k}
  BY DeleteProperties
<1> HIDE DEF d
<1>2. ~ Count(d, k)
  BY <1>1 DEF Count
<1>3. /\ CacheType(K, Insert(d, k, e)) /\ CacheConsistent(Insert(d, k, e))
      /\ Keyed(Insert(d, k, e)) = Keyed(d) \union {k}
  BY <1>1, <1>2, InsertProperties
<1>4. Update(c, k, e) = Insert(d, k, e)
  BY UpdateIsReinsert DEF d
<1>5. (Keyed(c) \ {k}) \union {k} = Keyed(c)
  BY DEF Count
<1> QED BY <1>1, <1>3, <1>4, <1>5

-------------------------------------------------------------------------------
CInv ==
    /\ CacheType(Keys, cache)
    /\ CacheConsistent(cache)

LEMMA InitCInv == CacheInit => CInv
BY EmptyCacheProperties DEF CacheInit, CInv

LEMMA InsertCInv ==
    ASSUME CInv, NEW key \in Keys, NEW value \in 1 .. MaxExpire, InsertKey(key, value)
    PROVE  CInv'
<1>1. value \in Nat /\ ~ Count(cache, key) /\ cache' = Insert(cache, key, value)
  BY FlowCacheAssumption DEF InsertKey
<1>2. CacheType(Keys, cache') /\ CacheConsistent(cache')
  BY <1>1, InsertProperties DEF CInv
<1> QED BY <1>2 DEF CInv

LEMMA UpdateCInv ==
    ASSUME CInv, NEW key \in Keys, NEW value \in 1 .. MaxExpire, UpdateKey(key, value)
    PROVE  CInv'
<1>1. value \in Nat /\ Count(cache, key) /\ cache' = Update(cache, key, value)
  BY FlowCacheAssumption DEF UpdateKey
<1>2. CacheType(Keys, cache') /\ CacheConsistent(cache')
  BY <1>1, UpdateProperties DEF CInv
<1> QED BY <1>2 DEF CInv

LEMMA DeleteCInv ==
    ASSUME CInv, NEW key, Count(cache, key), cache' = Delete(cache, key)
    PROVE  CInv'
<1>1. CacheType(Keys, cache') /\ CacheConsistent(cache')
  BY DeleteProperties DEF CInv
<1> QED BY <1>1 DEF CInv

LEMMA SpecCInv == CacheSpec => []CInv
<1>1. CInv /\ [CacheNext]_cache => CInv'
  <2> SUFFICES ASSUME CInv, [CacheNext]_cache
               PROVE  CInv'
    OBVIOUS
  <2>1. ASSUME NEW key \in Keys, DeleteKey(key)
        PROVE  CInv'
    BY <2>1, DeleteCInv DEF DeleteKey
  <2>2. ASSUME NEW time \in 1 .. MaxExpire, DeleteExpired(time)
        PROVE  CInv'
    <3>1. Count(cache, Head(cache.m_cacheList).key)
      BY <2>2, OldestInMap DEF CInv, DeleteExpired, GetExpired, Count
    <3> QED BY <2>2, <3>1, DeleteCInv DEF DeleteExpired
  <2>3. CASE UNCHANGED cache
    BY <2>3 DEF CInv
  <2> QED BY <2>1, <2>2, <2>3, InsertCInv, UpdateCInv DEF CacheNext
<1> QED BY <1>1, InitCInv, PTL DEF CacheSpec

(***************************************************************************)
(* Whatever calls follow one another, and whichever free address the       *)
(* allocator gives a node, each key of m_cacheMap has exactly one node of  *)
(* m_cacheList, its iterator points to that node, and there are no others. *)
(***************************************************************************)
THEOREM CacheStaysConsistent == CacheSpec => []Consistent
BY SpecCInv, PTL DEF CInv, Consistent

-------------------------------------------------------------------------------
(* The order of the queue.                                                 *)

\* A key has one place.
LEMMA IterUnique ==
    ASSUME NEW c, CacheConsistent(c), NEW i \in 1 .. Len(c.m_cacheList)
    PROVE  Iter(c, c.m_cacheList[i].key) = i
<1> DEFINE k == c.m_cacheList[i].key
<1>1. Count(c, k)
  BY DEF CacheConsistent, Count
<1> HIDE DEF k
<1>2. Iter(c, k) \in 1 .. Len(c.m_cacheList) /\ c.m_cacheList[Iter(c, k)].key = k
  BY <1>1, IterProperties
<1>3. c.m_cacheList[i].key = k
  BY DEF k
<1>4. Iter(c, k) = i
  BY <1>2, <1>3 DEF CacheConsistent
<1> QED BY <1>4 DEF k

LEMMA BeforeIsOrder ==
    ASSUME NEW K, NEW c, CacheType(K, c), CacheConsistent(c),
           NEW g, NEW h, Count(c, g), Count(c, h)
    PROVE  g \in Before(c, h) <=> Iter(c, g) < Iter(c, h)
<1> DEFINE l == c.m_cacheList
<1>1. Len(l) \in Nat
  BY LenProperties DEF CacheType
<1>2. /\ Iter(c, g) \in 1 .. Len(l) /\ l[Iter(c, g)].key = g
      /\ Iter(c, h) \in 1 .. Len(l)
  BY IterProperties
<1>3. \A i \in 1 .. Len(l) : l[i].key = g => i = Iter(c, g)
  BY IterUnique
<1>4. ASSUME g \in Before(c, h)
      PROVE  Iter(c, g) < Iter(c, h)
  <2>1. PICK i \in 1 .. Iter(c, h) - 1 : l[i].key = g
    BY <1>4 DEF Before
  <2>2. i \in 1 .. Len(l) /\ i < Iter(c, h)
    BY <1>1, <1>2, <2>1
  <2> QED BY <1>3, <2>1, <2>2
<1>5. ASSUME Iter(c, g) < Iter(c, h)
      PROVE  g \in Before(c, h)
  <2>1. Iter(c, g) \in 1 .. Iter(c, h) - 1
    BY <1>1, <1>2, <1>5
  <2> QED BY <1>2, <2>1 DEF Before
<1> QED BY <1>4, <1>5

LEMMA InsertOrder ==
    ASSUME NEW K, NEW c, CacheType(K, c), CacheConsistent(c),
           NEW k \in K, ~ Count(c, k), NEW e \in Nat
    PROVE  /\ \A g \in Keyed(c) : /\ Iter(Insert(c, k, e), g) = Iter(c, g)
                                      /\ Iter(c, g) < Iter(Insert(c, k, e), k)
           /\ Last(Insert(c, k, e).m_cacheList).expire = e
<1> DEFINE d == Insert(c, k, e)
           l == c.m_cacheList
           n == NewNode(l, k, e)
<1>1. l \in Seq(Node(K)) /\ Len(l) \in Nat /\ n \in Node(K)
  BY LenProperties, FreeAddrProperties DEF CacheType, Node, NewNode
<1>2. /\ d.m_cacheList = Append(l, n)
      /\ Len(d.m_cacheList) = Len(l) + 1
      /\ \A i \in 1 .. Len(l) : d.m_cacheList[i] = l[i]
      /\ d.m_cacheList[Len(l) + 1] = n
  <2>1. d.m_cacheList = Append(l, n)
    BY DEF Insert
  <2> HIDE DEF d, n
  <2> QED BY <1>1, <2>1, AppendProperties
<1>3. CacheConsistent(d)
  BY InsertProperties
<1>4. n.key = k /\ n.expire = e
  BY DEF NewNode
<1> HIDE DEF d, n
<1>5. Iter(d, k) = Len(l) + 1
  <2>1. Len(l) + 1 \in 1 .. Len(d.m_cacheList)
    BY <1>1, <1>2
  <2> QED BY <1>2, <1>3, <1>4, <2>1, IterUnique
<1>6. ASSUME NEW g \in Keyed(c)
      PROVE  Iter(d, g) = Iter(c, g) /\ Iter(c, g) < Len(l) + 1
  <2>1. Iter(c, g) \in 1 .. Len(l) /\ l[Iter(c, g)].key = g
    BY IterProperties DEF Count
  <2>2. Iter(c, g) \in 1 .. Len(d.m_cacheList) /\ d.m_cacheList[Iter(c, g)].key = g
    BY <1>1, <1>2, <2>1
  <2>3. Iter(d, d.m_cacheList[Iter(c, g)].key) = Iter(c, g)
    BY <1>3, <2>2, IterUnique
  <2> QED BY <1>1, <2>1, <2>2, <2>3
<1>7. Last(d.m_cacheList).expire = e
  BY <1>2, <1>4 DEF Last
<1> QED BY <1>5, <1>6, <1>7 DEF d

LEMMA DeleteOrder ==
    ASSUME NEW K, NEW c, CacheType(K, c), CacheConsistent(c), NEW k, Count(c, k)
    PROVE  \A g \in Keyed(c) \ {k} :
             Iter(Delete(c, k), g) =
               IF Iter(c, g) < Iter(c, k) THEN Iter(c, g) ELSE Iter(c, g) - 1
<1> DEFINE d == Delete(c, k)
           l == c.m_cacheList
           p == Iter(c, k)
<1>1. l \in Seq(Node(K)) /\ Len(l) \in Nat
  BY LenProperties DEF CacheType
<1>2. p \in 1 .. Len(l) /\ l[p].key = k
  BY IterProperties
<1>3. /\ Len(d.m_cacheList) = Len(l) - 1
      /\ \A j \in 1 .. Len(l) - 1 : d.m_cacheList[j] = IF j < p THEN l[j] ELSE l[j + 1]
  <2>1. d.m_cacheList = RemoveAt(l, p)
    BY DEF Delete
  <2> HIDE DEF d, p
  <2> QED BY <1>1, <1>2, <2>1, RemoveAtProperties
<1>4. CacheConsistent(d)
  BY DeleteProperties
<1> HIDE DEF d
<1> SUFFICES ASSUME NEW g \in Keyed(c) \ {k}
             PROVE  Iter(d, g) = IF Iter(c, g) < p THEN Iter(c, g) ELSE Iter(c, g) - 1
  BY DEF d
<1> DEFINE q == Iter(c, g)
           j == IF q < p THEN q ELSE q - 1
<1>5. q \in 1 .. Len(l) /\ l[q].key = g
  BY IterProperties DEF Count
<1>6. q # p
  BY <1>2, <1>5
<1> HIDE DEF p, q
<1>7. j \in 1 .. Len(d.m_cacheList) /\ d.m_cacheList[j].key = g
  <2>1. CASE q < p
    BY <1>1, <1>2, <1>3, <1>5, <2>1
  <2>2. CASE ~ (q < p)
    <3>1. q - 1 \in 1 .. Len(l) - 1 /\ ~ (q - 1 < p) /\ q - 1 + 1 = q
      BY <1>1, <1>2, <1>5, <1>6, <2>2
    <3> QED BY <1>3, <1>5, <2>2, <3>1
  <2> QED BY <2>1, <2>2
<1> HIDE DEF j
<1>8. Iter(d, g) = j
  BY <1>4, <1>7, IterUnique
<1> QED BY <1>8 DEF j, q

\* Two keys that both stay, and are not touched, keep their order.
LEMMA DeleteKeepsOrder ==
    ASSUME NEW K, NEW c, CacheType(K, c), CacheConsistent(c), NEW k, Count(c, k),
           NEW g \in Keyed(c) \ {k}, NEW h \in Keyed(c) \ {k},
           Iter(c, g) < Iter(c, h)
    PROVE  Iter(Delete(c, k), g) < Iter(Delete(c, k), h)
<1>1. Len(c.m_cacheList) \in Nat
  BY LenProperties DEF CacheType
<1>2. /\ Iter(c, g) \in 1 .. Len(c.m_cacheList) /\ c.m_cacheList[Iter(c, g)].key = g
      /\ Iter(c, h) \in 1 .. Len(c.m_cacheList) /\ c.m_cacheList[Iter(c, h)].key = h
      /\ Iter(c, k) \in 1 .. Len(c.m_cacheList) /\ c.m_cacheList[Iter(c, k)].key = k
  BY IterProperties DEF Count
<1>3. Iter(c, g) # Iter(c, k) /\ Iter(c, h) # Iter(c, k)
  BY <1>2
<1>4. /\ Iter(Delete(c, k), g) =
           IF Iter(c, g) < Iter(c, k) THEN Iter(c, g) ELSE Iter(c, g) - 1
      /\ Iter(Delete(c, k), h) =
           IF Iter(c, h) < Iter(c, k) THEN Iter(c, h) ELSE Iter(c, h) - 1
  BY DeleteOrder
<1> QED BY <1>1, <1>2, <1>3, <1>4

LEMMA StepKeepsOrder ==
    ASSUME CInv, CInv', CacheNext,
           NEW k1 \in Keyed(cache) \intersect Keyed(cache'),
           NEW k2 \in Keyed(cache) \intersect Keyed(cache'),
           k1 \in Before(cache, k2), k2 \in Before(cache', k1)
    PROVE  cache' = Update(cache, k1, Last(cache'.m_cacheList).expire)
<1>1. CacheType(Keys, cache) /\ CacheConsistent(cache)
      /\ CacheType(Keys, cache') /\ CacheConsistent(cache')
  BY DEF CInv
<1>2. Iter(cache, k1) < Iter(cache, k2)
  BY <1>1, BeforeIsOrder DEF Count
<1>3. Iter(cache', k2) < Iter(cache', k1)
  BY <1>1, BeforeIsOrder DEF Count
<1>4. /\ Len(cache.m_cacheList) \in Nat /\ Len(cache'.m_cacheList) \in Nat
      /\ Iter(cache, k1) \in 1 .. Len(cache.m_cacheList)
      /\ Iter(cache, k2) \in 1 .. Len(cache.m_cacheList)
      /\ Iter(cache', k1) \in 1 .. Len(cache'.m_cacheList)
      /\ Iter(cache', k2) \in 1 .. Len(cache'.m_cacheList)
  BY <1>1, LenProperties, IterProperties DEF CacheType, Count
<1>5. ~ (Iter(cache', k1) < Iter(cache', k2))
  BY <1>3, <1>4
<1>6. ASSUME NEW key \in Keys, NEW value \in 1 .. MaxExpire, InsertKey(key, value)
      PROVE  FALSE
  <2>1. value \in Nat /\ ~ Count(cache, key) /\ cache' = Insert(cache, key, value)
    BY <1>6, FlowCacheAssumption DEF InsertKey
  <2>2. Iter(cache', k1) = Iter(cache, k1) /\ Iter(cache', k2) = Iter(cache, k2)
    BY <1>1, <2>1, InsertOrder
  <2> QED BY <1>2, <1>5, <2>2
<1>7. ASSUME NEW key, Count(cache, key), cache' = Delete(cache, key)
      PROVE  FALSE
  <2>1. k1 \in Keyed(cache) \ {key} /\ k2 \in Keyed(cache) \ {key}
    BY <1>1, <1>7, DeleteProperties
  <2>2. Iter(cache', k1) < Iter(cache', k2)
    BY <1>1, <1>2, <1>7, <2>1, DeleteKeepsOrder
  <2> QED BY <1>5, <2>2
<1>8. ASSUME NEW key \in Keys, NEW value \in 1 .. MaxExpire, UpdateKey(key, value)
      PROVE  cache' = Update(cache, k1, Last(cache'.m_cacheList).expire)
  <2> DEFINE d == Delete(cache, key)
  <2>1. value \in Nat /\ Count(cache, key) /\ cache' = Update(cache, key, value)
    BY <1>8, FlowCacheAssumption DEF UpdateKey
  <2>2. cache' = Insert(d, key, value)
    BY <1>1, <2>1, UpdateIsReinsert
  <2>3. /\ CacheType(Keys, d) /\ CacheConsistent(d)
        /\ Keyed(d) = Keyed(cache) \ {key}
    BY <1>1, <2>1, DeleteProperties
  <2>4. ~ Count(d, key)
    BY <2>3 DEF Count
  <2>5. /\ \A g \in Keyed(d) : /\ Iter(cache', g) = Iter(d, g)
                                   /\ Iter(d, g) < Iter(cache', key)
        /\ Last(cache'.m_cacheList).expire = value
    BY <2>1, <2>2, <2>3, <2>4, InsertOrder
  <2>6. CASE key = k1
    BY <2>1, <2>5, <2>6
  <2>7. CASE key # k1 /\ key = k2
    <3>1. Iter(cache', k1) < Iter(cache', k2)
      BY <2>3, <2>5, <2>7
    <3> QED BY <1>5, <3>1
  <2>8. CASE key # k1 /\ key # k2
    <3>1. k1 \in Keyed(cache) \ {key} /\ k2 \in Keyed(cache) \ {key}
      BY <2>8
    <3>2. Iter(d, k1) < Iter(d, k2)
      BY <1>1, <1>2, <2>1, <3>1, DeleteKeepsOrder
    <3>3. Iter(cache', k1) < Iter(cache', k2)
      BY <2>3, <2>5, <3>1, <3>2
    <3> QED BY <1>5, <3>3
  <2> QED BY <2>6, <2>7, <2>8
<1>9. ASSUME NEW time \in 1 .. MaxExpire, DeleteExpired(time)
      PROVE  FALSE
  <2>1. Count(cache, Head(cache.m_cacheList).key)
    BY <1>1, <1>9, OldestInMap DEF DeleteExpired, GetExpired, Count
  <2> QED BY <1>7, <1>9, <2>1 DEF DeleteExpired
<1> QED BY <1>6, <1>7, <1>8, <1>9 DEF CacheNext, DeleteKey

(***************************************************************************)
(* Of two keys in the cache the one behind comes first only when the other *)
(* has been refreshed by Update.                                           *)
(***************************************************************************)
THEOREM OnlyUpdateOvertakes == CacheSpec => NeverOvertaken
<1>1. CInv /\ CInv' /\ [CacheNext]_cache =>
        [\A k1, k2 \in Keyed(cache) \intersect Keyed(cache') :
           k1 \in Before(cache, k2) /\ k2 \in Before(cache', k1) =>
             cache' = Update(cache, k1, Last(cache'.m_cacheList).expire)]_cache
  BY StepKeepsOrder
<1> QED BY <1>1, SpecCInv, PTL DEF CacheSpec, NeverOvertaken

-------------------------------------------------------------------------------
(***************************************************************************)
(* The flow table is one of the callers that FlowCacheSpec allows: a cache *)
(* that is its queue sees nothing but calls whose asserts hold.            *)
(***************************************************************************)
CallerOf ==
    /\ Keys = Hashes
    /\ Capacity = 0
    /\ MaxExpire = MaxTime + FlowOutTime

IsQueue == cache = m_flowCache

LEMMA StepIsCall ==
    ASSUME CallerOf, IInv, InTime, [Next]_vars, IsQueue, IsQueue'
    PROVE  [CacheNext]_cache
<1>0. cache = m_flowCache /\ cache' = m_flowCache'
  BY DEF IsQueue
<1>1. Expiry \in 1 .. MaxExpire
  BY FlowTableAssumption DEF CallerOf, Expiry, InTime
<1>2. ~ Full(cache, Capacity)
  BY DEF CallerOf, Full
<1>3. CASE InsertFlowTable
  <2>1. PICK f \in Packets : OpenFlow(f) \/ ReopenFlow(f) \/ CountInFlow(f) \/ FinishFlow(f)
    <3>1. todo # <<>> /\ todo \in Seq(Packets)
      BY <1>3 DEF InsertFlowTable, IInv, Types
    <3> QED BY <1>3, <3>1, HeadTailProperties DEF InsertFlowTable
  <2>2. PICK h \in Keys : h = HashOf(f)
    BY FrameFacts DEF CallerOf
  <2>3. CASE OpenFlow(f)
    <3>1. InsertKey(h, Expiry)
      BY <1>0, <1>2, <2>2, <2>3 DEF OpenFlow, InsertKey
    <3> QED BY <1>1, <3>1 DEF CacheNext
  <2>4. CASE ReopenFlow(f)
    <3>1. Count(cache, h) /\ cache' = Insert(Delete(cache, h), h, Expiry)
      BY <1>0, <2>2, <2>4 DEF ReopenFlow
    <3>2. Update(cache, h, Expiry) = Insert(Delete(cache, h), h, Expiry)
      BY <1>0, <3>1, UpdateIsReinsert DEF IInv, QueueOK
    <3>3. UpdateKey(h, Expiry)
      BY <3>1, <3>2 DEF UpdateKey
    <3> QED BY <1>1, <3>3 DEF CacheNext
  <2>5. CASE CountInFlow(f)
    BY <1>0, <2>5 DEF CountInFlow
  <2>6. CASE FinishFlow(f)
    <3>1. DeleteKey(h)
      BY <1>0, <2>2, <2>6 DEF FinishFlow, DeleteKey
    <3> QED BY <3>1 DEF CacheNext
  <2> QED BY <2>1, <2>3, <2>4, <2>5, <2>6
<1>4. CASE ClearOldest
  <2>1. PICK h : h = Oldest
    OBVIOUS
  <2>2. h \in DOMAIN m_flowTable /\ Count(cache, h) /\ cache' = Delete(cache, h)
    BY <1>0, <1>4, <2>1 DEF ClearOldest, Clearing, AssertionsHold
  <2>3. h \in Keys
    BY <2>2 DEF IInv, GoodTable, CallerOf
  <2>4. DeleteKey(h)
    BY <2>2 DEF DeleteKey
  <2> QED BY <2>3, <2>4 DEF CacheNext
<1>5. CASE Dequeue \/ AssertFails \/ ClearExpiredFlow \/ ClearEnds \/ DumpAllFlow
             \/ AdvanceClock \/ UNCHANGED vars
  BY <1>0, <1>5
  DEF Dequeue, AssertFails, ClearExpiredFlow, ClearEnds, DumpAllFlow, AdvanceClock, vars
<1> QED BY <1>3, <1>4, <1>5 DEF Next

(***************************************************************************)
(* InsertFlow, EraseFlow and the sweep call the expiry queue only as its   *)
(* asserts allow, and a SYN, which deletes and inserts, is an Update.      *)
(***************************************************************************)
THEOREM TableUsesCache ==
    ASSUME CallerOf
    PROVE  Spec /\ []IsQueue => CacheSpec
<1>1. Init => InTime
  BY FlowTableAssumption DEF Init, InTime
<1>2. Init /\ IsQueue => CacheInit
  BY DEF Init, CacheInit, IsQueue
<1>3. IInv /\ InTime /\ [Next]_vars /\ IsQueue /\ IsQueue' => [CacheNext]_cache
  BY StepIsCall
<1> QED BY <1>1, <1>2, <1>3, SpecIInv, StaysInTime, PTL DEF Spec, CacheSpec

(***************************************************************************)
(* So in the queue of Decode a flow falls behind another only when a SYN   *)
(* opens it anew: flows expire in the order in which they were opened.     *)
(***************************************************************************)
THEOREM FlowsQueueInTurn ==
    ASSUME CallerOf
    PROVE  Spec /\ []IsQueue => NeverOvertaken
BY TableUsesCache, OnlyUpdateOvertakes, PTL
===============================================================================
