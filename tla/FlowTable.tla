------------------------------ MODULE FlowTable ------------------------------
(***************************************************************************)
(* Flow (session) decoding by one decode thread: the flow table, its       *)
(* expiry queue and the records written to packet.log.                     *)
(* (ParseFlow, InsertFlowTable, InsertFlow, DumpFlow, DumpAllFlow,         *)
(* EraseFlow and ClearExpiredFlow in decode.cpp, FlowContext in flow.h.)   *)
(*                                                                         *)
(* A decode thread owns its table, so handling a packet is one step, and   *)
(* so is an iteration of the sweep.  The thread takes a batch of packets   *)
(* off its ring, handles them in order, erases the expired flows, and      *)
(* starts again; when it is told to stop and its ring is empty it writes   *)
(* every flow and ends.  An assert that fails aborts the process (the      *)
(* build type is Debug).                                                   *)
(*                                                                         *)
(* m_SYNCount is written and never read and is left out; m_flowEndTime is  *)
(* the end of the record.  The clock does not move within a step.          *)
(***************************************************************************)
EXTENDS FlowKeys, FlowCache

CONSTANTS
    Packets,           \* frames the NIC may deliver
    FlowOutTime,       \* m_flowOutTime
    UINT32,            \* the number of uint32_t values, 2^32 in the program
    ClockMayStepBack,  \* system_clock may be set back while the program runs
    MaxBatch,          \* bound: packets in one dequeued burst
    MaxPackets,        \* bound: packets handled in a behaviour
    MaxTime            \* bound: last instant of the clock

ASSUME FlowTableAssumption ==
    /\ Packets \subseteq Frame
    /\ FlowOutTime \in Nat \ {0}
    /\ UINT32 \in Nat \ {0}
    /\ ClockMayStepBack \in BOOLEAN
    /\ MaxBatch \in Nat \ {0}
    /\ MaxPackets \in Nat
    /\ MaxTime \in Nat \ {0}

VARIABLES
    pc,           \* where the thread is
    todo,         \* packets of the batch that ParseFlow has still to handle
    m_flowTable,  \* hash of the key -> FlowContext
    m_flowCache,  \* FlowCache of the hashes
    now,          \* GetCurTimeMs()
    packetLog,    \* hash -> the records written for its flows, in order
    swept,        \* the time ClearExpiredFlow read
    handled,      \* history: hash and sender -> what was handed to ParseFlow
    finNoted      \* history: where the context of the last FIN update was

vars == <<pc, todo, m_flowTable, m_flowCache, now, packetLog, swept, handled,
          finNoted>>

Hashes  == {HashOf(f) : f \in Packets}
Senders == {KeyOf(f).m_ip1 : f \in Packets}

\* The number of uint8_t values.
UINT8 == 256

FlowContext ==
    [ id                 : FlowKey,
      m_ip1To2Pkts       : 0 .. (UINT32 - 1),
      m_ip2To1Pkts       : 0 .. (UINT32 - 1),
      m_ip1To2TotalBytes : 0 .. (UINT32 - 1),
      m_ip2To1TotalBytes : 0 .. (UINT32 - 1),
      m_flowBeginTime    : Nat,
      m_lastIsSYN        : BOOLEAN,
      m_FINCount         : 0 .. (UINT8 - 1),
      m_lastIsFIN        : BOOLEAN ]

FlowRecord == [ctx : FlowContext, end : Nat]

TypeOK ==
    /\ pc \in {"loop", "parse", "sweep", "clear", "exited", "aborted"}
    /\ todo \in Seq(Packets)
    /\ DOMAIN m_flowTable \subseteq Hashes
    /\ m_flowTable \in [DOMAIN m_flowTable -> FlowContext]
    /\ Keyed(m_flowCache) \subseteq Hashes
    /\ m_flowCache \in [ m_cacheMap  : [Keyed(m_flowCache) -> Nat],
                         m_cacheList : Seq(Node(Hashes)) ]
    /\ now \in Nat
    /\ packetLog \in [Hashes -> Seq(FlowRecord)]
    /\ swept \in Nat
    /\ handled \in [Hashes \X Senders -> [pkts : Nat, bytes : Nat]]
    /\ finNoted \in {"none", "inTable", "erased"}

Init ==
    /\ pc = "loop"
    /\ todo = <<>>
    /\ m_flowTable = <<>>
    /\ m_flowCache = EmptyCache
    /\ now = 1
    /\ packetLog = [h \in Hashes |-> <<>>]
    /\ swept = 0
    /\ handled = [k \in Hashes \X Senders |-> [pkts |-> 0, bytes |-> 0]]
    /\ finNoted = "none"

-------------------------------------------------------------------------------
(* FlowContext, as the handlers change it.                                 *)

NewContext(key, time) ==
    [ id                 |-> key,
      m_ip1To2Pkts       |-> 0,
      m_ip2To1Pkts       |-> 0,
      m_ip1To2TotalBytes |-> 0,
      m_ip2To1TotalBytes |-> 0,
      m_flowBeginTime    |-> time,
      m_lastIsSYN        |-> FALSE,
      m_FINCount         |-> 0,
      m_lastIsFIN        |-> FALSE ]

Add(n, m) == (n + m) % UINT32

\* Lines 259 to 273: the SYN mark and the statistics of the direction.
CountPacket(ctx, f) ==
    IF ctx.id.m_ip1 = KeyOf(f).m_ip1
    THEN [ctx EXCEPT !.m_lastIsSYN        = IsSyn(f),
                     !.m_ip1To2Pkts       = Add(@, 1),
                     !.m_ip1To2TotalBytes = Add(@, CurBytes(f))]
    ELSE [ctx EXCEPT !.m_lastIsSYN        = IsSyn(f),
                     !.m_ip2To1Pkts       = Add(@, 1),
                     !.m_ip2To1TotalBytes = Add(@, CurBytes(f))]

\* Lines 281 and 282: the FIN count (a uint8_t) and the FIN mark.
NoteFin(ctx, f) ==
    [ctx EXCEPT !.m_FINCount  = (@ + IF IsFin(f) THEN 1 ELSE 0) % UINT8,
                !.m_lastIsFIN = IsFin(f)]

\* A close condition that waits for one FIN too many.
FinishedLate(ctx) == ctx.m_lastIsFIN /\ ctx.m_FINCount = 3

\* Both sides have sent their FIN, and nothing but a FIN came last.
Finished(ctx) == ctx.m_lastIsFIN /\ ctx.m_FINCount = 2

\* The assertion of line 262: the sender is one of the flow's two addresses.
DirectionKnown(ctx, f) ==
    KeyOf(f).m_ip1 \in {ctx.id.m_ip1, ctx.id.m_ip2}

-------------------------------------------------------------------------------
(* What InsertFlowTable does with a packet depends on the flow it finds.   *)

Opens(f) == HashOf(f) \notin DOMAIN m_flowTable

Reopens(f) ==
    /\ HashOf(f) \in DOMAIN m_flowTable
    /\ IsSyn(f)
    /\ ~ m_flowTable[HashOf(f)].m_lastIsSYN

Closes(f) ==
    /\ HashOf(f) \in DOMAIN m_flowTable
    /\ ~ Reopens(f)
    /\ Finished(m_flowTable[HashOf(f)])

Continues(f) ==
    /\ HashOf(f) \in DOMAIN m_flowTable
    /\ ~ Reopens(f)
    /\ ~ Finished(m_flowTable[HashOf(f)])

\* The table with a flow's context replaced or added, and with it erased.
WithFlow(h, ctx) ==
    [g \in DOMAIN m_flowTable \union {h} |-> IF g = h THEN ctx ELSE m_flowTable[g]]

WithoutFlows(S) == [g \in DOMAIN m_flowTable \ S |-> m_flowTable[g]]

\* A flow created for packet f, with the packet counted in it.
FirstContext(f) == NoteFin(CountPacket(NewContext(KeyOf(f), now), f), f)

Expiry == now + FlowOutTime

\* A record that ends when the flow would have timed out.
LoggedExpiry(h, ctx) ==
    [packetLog EXCEPT ![h] =
       Append(@, [ctx |-> ctx, end |-> ctx.m_flowBeginTime + FlowOutTime])]

\* DumpFlow: write the flow's record; the context is deleted.
Logged(h, ctx) == [packetLog EXCEPT ![h] = Append(@, [ctx |-> ctx, end |-> now])]

-------------------------------------------------------------------------------
(* DecodeProcess: take a batch, parse it, sweep.                           *)

TotalHandled ==
    FoldSet(LAMBDA k, n : n + handled[k].pkts, 0, Hashes \X Senders)

\* The ring hands over one to MaxBatch packets.
Dequeue ==
    /\ pc = "loop"
    /\ \E batch \in BoundedSeq(Packets, MaxBatch) :
         /\ batch # <<>>
         /\ TotalHandled + Len(batch) <= MaxPackets
         /\ todo' = batch
    /\ pc' = "parse"
    /\ UNCHANGED <<m_flowTable, m_flowCache, now, packetLog, swept, handled,
                   finNoted>>

(***************************************************************************)
(* What every branch of InsertFlowTable does besides changing the table:   *)
(* ParseFlow goes on with the next packet of the batch.                    *)
(***************************************************************************)
NextPacket(f) ==
    /\ pc = "parse"
    /\ todo' = Tail(todo)
    /\ pc' = IF Tail(todo) = <<>> THEN "sweep" ELSE "parse"
    /\ handled' = [handled EXCEPT ![<<HashOf(f), KeyOf(f).m_ip1>>] =
                     [pkts |-> @.pkts + 1, bytes |-> @.bytes + CurBytes(f)]]
    /\ UNCHANGED <<now, swept>>

\* InsertFlow of a new flow, then the packet's statistics.
OpenFlow(f) ==
    /\ Opens(f)
    /\ ~ Count(m_flowCache, HashOf(f))
    /\ NextPacket(f)
    /\ m_flowTable' = WithFlow(HashOf(f), FirstContext(f))
    /\ m_flowCache' = Insert(m_flowCache, HashOf(f), Expiry)
    /\ finNoted' = "inTable"
    /\ UNCHANGED packetLog

\* A SYN ends the flow it finds and opens a new one for the same key.
ReopenFlow(f) ==
    /\ Reopens(f)
    /\ Count(m_flowCache, HashOf(f))
    /\ NextPacket(f)
    /\ packetLog' = Logged(HashOf(f), m_flowTable[HashOf(f)])
    /\ m_flowTable' = WithFlow(HashOf(f), FirstContext(f))
    /\ m_flowCache' =
         Insert(Delete(m_flowCache, HashOf(f)), HashOf(f), Expiry)
    /\ finNoted' = "inTable"

CountInFlow(f) ==
    /\ Continues(f)
    /\ DirectionKnown(m_flowTable[HashOf(f)], f)
    /\ NextPacket(f)
    /\ m_flowTable' =
         [m_flowTable EXCEPT ![HashOf(f)] = NoteFin(CountPacket(@, f), f)]
    /\ finNoted' = "inTable"
    /\ UNCHANGED <<m_flowCache, packetLog>>

\* The flow is written before its last packet is counted.
FinishBeforeCount(f) ==
    /\ Closes(f)
    /\ DirectionKnown(m_flowTable[HashOf(f)], f)
    /\ Count(m_flowCache, HashOf(f))
    /\ NextPacket(f)
    /\ packetLog' = Logged(HashOf(f), m_flowTable[HashOf(f)])
    /\ m_flowTable' = WithoutFlows({HashOf(f)})
    /\ m_flowCache' = Delete(m_flowCache, HashOf(f))
    /\ finNoted' = "erased"

(***************************************************************************)
(* The packet after the second FIN is counted and ends the flow.  The two  *)
(* assignments at the end of the handler then go through a pointer whose   *)
(* context DumpFlow has deleted: no flow of the table sees them.           *)
(***************************************************************************)
FinishFlow(f) ==
    /\ Closes(f)
    /\ DirectionKnown(m_flowTable[HashOf(f)], f)
    /\ Count(m_flowCache, HashOf(f))
    /\ NextPacket(f)
    /\ packetLog' = Logged(HashOf(f), CountPacket(m_flowTable[HashOf(f)], f))
    /\ m_flowTable' = WithoutFlows({HashOf(f)})
    /\ m_flowCache' = Delete(m_flowCache, HashOf(f))
    /\ finNoted' = "erased"

InsertFlowTable ==
    /\ todo # <<>>
    /\ \/ OpenFlow(Head(todo))
       \/ ReopenFlow(Head(todo))
       \/ CountInFlow(Head(todo))
       \/ FinishFlow(Head(todo))

\* The assertions the handler of packet f meets, in the branch f takes.
InsertAssertionsHold(f) ==
    /\ Opens(f)     => ~ Count(m_flowCache, HashOf(f))
    /\ Reopens(f)   => Count(m_flowCache, HashOf(f))
    /\ Continues(f) => DirectionKnown(m_flowTable[HashOf(f)], f)
    /\ Closes(f)    => /\ DirectionKnown(m_flowTable[HashOf(f)], f)
                       /\ Count(m_flowCache, HashOf(f))

\* The flow that the next iteration of the sweep ends.
Oldest == Head(m_flowCache.m_cacheList).key

Clearing == pc = "clear" /\ GetExpired(m_flowCache, swept)

AssertionsHold ==
    /\ pc = "parse" => InsertAssertionsHold(Head(todo))
    /\ Clearing     => Oldest \in DOMAIN m_flowTable /\ Count(m_flowCache, Oldest)

AssertFails ==
    /\ pc \in {"parse", "clear"}
    /\ ~ AssertionsHold
    /\ pc' = "aborted"
    /\ UNCHANGED <<todo, m_flowTable, m_flowCache, now, packetLog, swept,
                   handled, finNoted>>

\* ClearExpiredFlow reads the clock once.
ClearExpiredFlow ==
    /\ pc = "sweep"
    /\ swept' = now
    /\ pc' = "clear"
    /\ UNCHANGED <<todo, m_flowTable, m_flowCache, now, packetLog, handled, finNoted>>

\* The body of its loop: DumpFlow with the time read, EraseFlow.
ClearOldest ==
    /\ Clearing
    /\ AssertionsHold
    /\ packetLog' = [packetLog EXCEPT ![Oldest] =
                       Append(@, [ctx |-> m_flowTable[Oldest], end |-> swept])]
    /\ m_flowTable' = WithoutFlows({Oldest})
    /\ m_flowCache' = Delete(m_flowCache, Oldest)
    /\ UNCHANGED <<pc, todo, now, swept, handled, finNoted>>

\* Its loop ends, and with it the iteration of DecodeProcess.
ClearEnds ==
    /\ pc = "clear"
    /\ ~ GetExpired(m_flowCache, swept)
    /\ pc' = "loop"
    /\ UNCHANGED <<todo, m_flowTable, m_flowCache, now, packetLog, swept, handled,
                   finNoted>>

\* A thread that clears its table without writing it.
ClearAllFlow ==
    /\ pc = "loop"
    /\ m_flowTable' = <<>>
    /\ pc' = "exited"
    /\ UNCHANGED <<todo, m_flowCache, now, packetLog, swept, handled, finNoted>>

\* DumpAllFlow, after the last batch: the table is cleared, the queue is not.
DumpAllFlow ==
    /\ pc = "loop"
    /\ packetLog' =
         [h \in Hashes |-> IF h \in DOMAIN m_flowTable
                           THEN Append(packetLog[h], [ctx |-> m_flowTable[h], end |-> now])
                           ELSE packetLog[h]]
    /\ m_flowTable' = <<>>
    /\ pc' = "exited"
    /\ UNCHANGED <<todo, m_flowCache, now, swept, handled, finNoted>>

\* The clock moves between two handlers; system_clock may be set back.
AdvanceClock ==
    /\ pc \in {"loop", "parse", "sweep", "clear"}
    /\ now' \in 1 .. MaxTime
    /\ now' # now
    /\ ClockMayStepBack \/ now' > now
    /\ UNCHANGED <<pc, todo, m_flowTable, m_flowCache, packetLog, swept, handled,
                   finNoted>>

Next ==
    \/ Dequeue
    \/ InsertFlowTable
    \/ AssertFails
    \/ ClearExpiredFlow
    \/ ClearOldest
    \/ ClearEnds
    \/ DumpAllFlow
    \/ AdvanceClock

Spec == Init /\ [][Next]_vars

-------------------------------------------------------------------------------
(* Correctness.                                                            *)

Running == pc \in {"loop", "parse", "sweep", "clear"}

(***************************************************************************)
(* The table and the expiry queue always describe the same flows: every    *)
(* flow of the table has exactly one node of the queue, with the time the  *)
(* flow was opened plus the timeout, and there are no other nodes.  A flow *)
(* without a node would never be written; a node without a flow stops the  *)
(* process at the assertion of ClearExpiredFlow.                           *)
(***************************************************************************)
TableMatchesCache ==
    Running =>
        /\ CacheConsistent(m_flowCache)
        /\ Keyed(m_flowCache) = DOMAIN m_flowTable
        /\ \A i \in 1 .. Len(m_flowCache.m_cacheList) :
             LET node == m_flowCache.m_cacheList[i]
             IN  node.expire = m_flowTable[node.key].m_flowBeginTime + FlowOutTime

(***************************************************************************)
(* No assertion of decode.cpp or flowCache.h fails.  This needs packets    *)
(* whose keys do not collide.                                              *)
(***************************************************************************)
NoAbort == pc # "aborted"

(***************************************************************************)
(* With a clock that never steps back, looking at the front of the queue   *)
(* is enough: no flow that had timed out when the thread last swept is     *)
(* still in the table when it waits for packets again.                     *)
(***************************************************************************)
NoExpiredFlowAfterSweep ==
    pc = "loop" =>
        \A h \in DOMAIN m_flowTable : m_flowTable[h].m_flowBeginTime + FlowOutTime > swept

\* What a context counts as sent by an address.
SentBy(ctx, a) ==
    IF ctx.id.m_ip1 = a
    THEN [pkts |-> ctx.m_ip1To2Pkts, bytes |-> ctx.m_ip1To2TotalBytes]
    ELSE IF ctx.id.m_ip2 = a
    THEN [pkts |-> ctx.m_ip2To1Pkts, bytes |-> ctx.m_ip2To1TotalBytes]
    ELSE [pkts |-> 0, bytes |-> 0]

\* The sum of that, in packets or in bytes, over the records of a key and its flow.
InLog(h, a, unit) ==
    SumFunction([i \in 1 .. Len(packetLog[h]) |-> SentBy(packetLog[h][i].ctx, a)[unit]])

InTable(h, a, unit) ==
    IF h \in DOMAIN m_flowTable THEN SentBy(m_flowTable[h], a)[unit] ELSE 0

(***************************************************************************)
(* Every packet handed to ParseFlow is counted in exactly one context,     *)
(* open or written, and on the side of the address that sent it, whatever  *)
(* opened, reopened, closed or expired the flows in between.  The counters *)
(* are uint32_t, so the sums agree modulo their width.                     *)
(***************************************************************************)
PacketsAccounted ==
    \A h \in Hashes, a \in Senders, unit \in {"pkts", "bytes"} :
        (InLog(h, a, unit) + InTable(h, a, unit)) % UINT32
          = handled[<<h, a>>][unit] % UINT32

(***************************************************************************)
(* The two directions of a conversation share one flow: no two flows of    *)
(* the table carry the same five-tuple, one of them possibly reversed.     *)
(***************************************************************************)
ConversationNotSplit ==
    \A g, h \in DOMAIN m_flowTable :
        SameConversation(m_flowTable[g].id, m_flowTable[h].id) => g = h

(***************************************************************************)
(* A flow does not outlive its second FIN by more than one packet: in the  *)
(* table, two FINs have been seen only when the second was the last packet *)
(* of the flow, and there are never three.                                 *)
(***************************************************************************)
TwoFinsClose ==
    \A h \in DOMAIN m_flowTable :
        /\ m_flowTable[h].m_FINCount <= 2
        /\ m_flowTable[h].m_FINCount = 2 => m_flowTable[h].m_lastIsFIN

(***************************************************************************)
(* With a clock that never steps back, the records of a key follow one     *)
(* another: each ends no earlier than it begins and no later than the next *)
(* flow of the key begins.                                                 *)
(***************************************************************************)
RecordsOrdered ==
    \A h \in Hashes :
        LET log == packetLog[h]
        IN  /\ \A i \in 1 .. Len(log) : log[i].ctx.m_flowBeginTime <= log[i].end
            /\ \A i, j \in 1 .. Len(log) :
                 i < j => log[i].end <= log[j].ctx.m_flowBeginTime
            /\ h \in DOMAIN m_flowTable =>
                 \A i \in 1 .. Len(log) :
                   log[i].end <= m_flowTable[h].m_flowBeginTime

\* A context, and a log of records, as sessions.
SessionOf(ctx) ==
    [ id    |-> ctx.id,
      begin |-> ctx.m_flowBeginTime,
      there |-> ctx.m_ip1To2Pkts,
      back  |-> ctx.m_ip2To1Pkts,
      fins  |-> ctx.m_FINCount ]

SessionsOf(records) ==
    [i \in 1 .. Len(records) |->
       [session |-> SessionOf(records[i].ctx), end |-> records[i].end]]

(***************************************************************************)
(* What flow decoding promises (SessionLog): a flow disappears from the    *)
(* table only by being written, once and whole; a SYN, the packet after    *)
(* the second FIN, the timeout or the end of the thread is the reason; and *)
(* what is written is never changed.                                       *)
(***************************************************************************)
Sessions == INSTANCE SessionLog WITH
    Keys    <- Hashes,
    Ids     <- {KeyOf(f) : f \in Packets},
    Times   <- 0 .. MaxTime,
    Timeout <- FlowOutTime,
    Width   <- UINT32,
    open    <- [h \in DOMAIN m_flowTable |-> SessionOf(m_flowTable[h])],
    log     <- [h \in Hashes |-> SessionsOf(packetLog[h])],
    ended   <- pc = "exited"

ImplementsSessions == Sessions!Spec

(***************************************************************************)
(* What "assert(m_flowTable.count(key))" of InsertFlowTable says of the    *)
(* updates that follow it: they are made to a flow of the table.           *)
(***************************************************************************)
UpdatesAreInTable == finNoted # "erased"
===============================================================================
