------------------------------ MODULE Qcap_proofs ------------------------------
(***************************************************************************)
(* Theorems about Qcap: the process from the card to packet.log loses      *)
(* track of no packet, for every size of burst, ring and pool, any number  *)
(* of signals, any finite set of frames and any traffic.                   *)
(*                                                                         *)
(* A step of Qcap is a step, or a stutter, of PacketPath and of FlowTable; *)
(* so what is proved of either of them holds here (P and T below).  Link   *)
(* says how the two fit together.                                          *)
(***************************************************************************)
EXTENDS Qcap, Lemmas

P == INSTANCE PacketPath_proofs

\* The last three constants and cache are those of FlowCacheSpec: it is the queue.
T == INSTANCE FlowTable_proofs
       WITH MaxBatch <- Burst, MaxPackets <- MaxPkts, cache <- m_flowCache,
            Keys <- Table!Hashes, Capacity <- 0, MaxExpire <- MaxTime + FlowOutTime

-------------------------------------------------------------------------------
(***************************************************************************)
(* Path and P, and Table and T, are instances with the same substitution:  *)
(* their definitions mean the same.  They are unfolded one layer at a      *)
(* time, from the keys up to the steps.                                    *)
(***************************************************************************)
LEMMA SameKeys ==
    /\ \A f : Table!KeyOf(f) = T!KeyOf(f)
    /\ \A f : Table!HashOf(f) = T!HashOf(f)
    /\ \A f : Table!CurBytes(f) = T!CurBytes(f)
    /\ \A f : Table!IsSyn(f) = T!IsSyn(f)
    /\ \A f : Table!IsFin(f) = T!IsFin(f)
    /\ Table!Hashes = T!Hashes
    /\ Table!Senders = T!Senders
<1>1. \A f, p : Table!RecognizeProto(f) = T!RecognizeProto(f)
  BY DEF Table!RecognizeProto, T!RecognizeProto, Table!Q_IP, T!Q_IP, Table!Q_TCP,
         T!Q_TCP, Table!Q_UDP, T!Q_UDP, Table!Q_ETHERIP, T!Q_ETHERIP
<1>2. \A f, p : Table!Recognized(f, p) <=> T!Recognized(f, p)
  BY <1>1 DEF Table!Recognized, T!Recognized
<1>3. \A f : Table!HasPorts(f) <=> T!HasPorts(f)
  BY <1>2 DEF Table!HasPorts, T!HasPorts, Table!Q_TCP, T!Q_TCP, Table!Q_UDP, T!Q_UDP
<1>4. \A f : Table!KeyOf(f) = T!KeyOf(f)
  BY <1>1, <1>2, <1>3 DEF Table!KeyOf, T!KeyOf, Table!Q_IP, T!Q_IP
<1>5. \A f : Table!HashOf(f) = T!HashOf(f)
  BY <1>4 DEF Table!HashOf, T!HashOf, Table!GetHash, T!GetHash, Table!SymDiff, T!SymDiff
<1>6. \A f : Table!CurBytes(f) = T!CurBytes(f)
  BY <1>2 DEF Table!CurBytes, T!CurBytes, Table!Q_IP, T!Q_IP, Table!ETHER_HEADER_LEN,
              T!ETHER_HEADER_LEN
<1>7. \A f : Table!IsSyn(f) = T!IsSyn(f) /\ Table!IsFin(f) = T!IsFin(f)
  BY <1>2 DEF Table!IsSyn, T!IsSyn, Table!IsFin, T!IsFin, Table!Q_TCP, T!Q_TCP
<1>8. Table!Hashes = T!Hashes /\ Table!Senders = T!Senders
  BY <1>4, <1>5 DEF Table!Hashes, T!Hashes, Table!Senders, T!Senders
<1> QED BY <1>4, <1>5, <1>6, <1>7, <1>8

LEMMA SameQueue ==
    /\ Table!EmptyCache = T!EmptyCache
    /\ \A c, k : Table!Count(c, k) <=> T!Count(c, k)
    /\ \A c, k, e : Table!Insert(c, k, e) = T!Insert(c, k, e)
    /\ \A c, k : Table!Delete(c, k) = T!Delete(c, k)
    /\ \A c, t : Table!GetExpired(c, t) <=> T!GetExpired(c, t)
<1>1. Table!EmptyCache = T!EmptyCache
  BY DEF Table!EmptyCache, T!EmptyCache
<1>2. \A c : Table!Keyed(c) = T!Keyed(c)
  BY DEF Table!Keyed, T!Keyed
<1>3. \A c, k : Table!Iter(c, k) = T!Iter(c, k)
  BY DEF Table!Iter, T!Iter
<1>4. \A l, k, e : Table!NewNode(l, k, e) = T!NewNode(l, k, e)
  BY DEF Table!NewNode, T!NewNode, Table!FreeAddr, T!FreeAddr
<1>5. \A m, k, a : /\ Table!Store(m, k, a) = T!Store(m, k, a)
                   /\ Table!Erase(m, k) = T!Erase(m, k)
  BY DEF Table!Store, T!Store, Table!Erase, T!Erase
<1>6. \A c, k : Table!Count(c, k) <=> T!Count(c, k)
  BY <1>2 DEF Table!Count, T!Count
<1>7. \A c, k, e : Table!Insert(c, k, e) = T!Insert(c, k, e)
  BY <1>4, <1>5 DEF Table!Insert, T!Insert
<1>8. \A c, k : Table!Delete(c, k) = T!Delete(c, k)
  BY <1>3, <1>5 DEF Table!Delete, T!Delete, Table!RemoveAt, T!RemoveAt
<1>9. \A c, t : Table!GetExpired(c, t) <=> T!GetExpired(c, t)
  BY <1>2 DEF Table!GetExpired, T!GetExpired
<1> QED BY <1>1, <1>6, <1>7, <1>8, <1>9

LEMMA SameContexts ==
    /\ \A k, t : Table!NewContext(k, t) = T!NewContext(k, t)
    /\ \A c, f : Table!CountPacket(c, f) = T!CountPacket(c, f)
    /\ \A c, f : Table!NoteFin(c, f) = T!NoteFin(c, f)
    /\ \A c : Table!Finished(c) <=> T!Finished(c)
    /\ \A c, f : Table!DirectionKnown(c, f) <=> T!DirectionKnown(c, f)
<1>1. \A k, t : Table!NewContext(k, t) = T!NewContext(k, t)
  BY DEF Table!NewContext, T!NewContext
<1>2. \A c, f : Table!CountPacket(c, f) = T!CountPacket(c, f)
  BY SameKeys DEF Table!CountPacket, T!CountPacket, Table!Add, T!Add
<1>3. \A c, f : Table!NoteFin(c, f) = T!NoteFin(c, f)
  BY SameKeys DEF Table!NoteFin, T!NoteFin, Table!UINT8, T!UINT8
<1>4. \A c, f : Table!DirectionKnown(c, f) <=> T!DirectionKnown(c, f)
  BY SameKeys DEF Table!DirectionKnown, T!DirectionKnown
<1>5. \A c : Table!Finished(c) <=> T!Finished(c)
  BY DEF Table!Finished, T!Finished
<1> QED BY <1>1, <1>2, <1>3, <1>4, <1>5

LEMMA SameHandling ==
    /\ \A f : Table!OpenFlow(f) <=> T!OpenFlow(f)
    /\ \A f : Table!ReopenFlow(f) <=> T!ReopenFlow(f)
    /\ \A f : Table!CountInFlow(f) <=> T!CountInFlow(f)
    /\ \A f : Table!FinishFlow(f) <=> T!FinishFlow(f)
    /\ \A f : Table!InsertAssertionsHold(f) <=> T!InsertAssertionsHold(f)
<1>1. \A f : Table!FirstContext(f) = T!FirstContext(f)
  BY SameKeys, SameContexts DEF Table!FirstContext, T!FirstContext
<1>2. /\ \A f : Table!Opens(f) <=> T!Opens(f)
      /\ \A f : Table!Reopens(f) <=> T!Reopens(f)
      /\ \A f : Table!Closes(f) <=> T!Closes(f)
      /\ \A f : Table!Continues(f) <=> T!Continues(f)
  BY SameKeys, SameContexts
  DEF Table!Opens, T!Opens, Table!Reopens, T!Reopens, Table!Closes, T!Closes,
      Table!Continues, T!Continues
<1>3. \A f : Table!NextPacket(f) <=> T!NextPacket(f)
  BY SameKeys DEF Table!NextPacket, T!NextPacket
<1>4. /\ \A h, c : Table!Logged(h, c) = T!Logged(h, c)
      /\ \A h, c : Table!WithFlow(h, c) = T!WithFlow(h, c)
      /\ \A S : Table!WithoutFlows(S) = T!WithoutFlows(S)
      /\ Table!Expiry = T!Expiry
  BY DEF Table!Logged, T!Logged, Table!WithFlow, T!WithFlow, Table!WithoutFlows,
         T!WithoutFlows, Table!Expiry, T!Expiry
<1>5. \A f : Table!OpenFlow(f) <=> T!OpenFlow(f)
  BY <1>1, <1>2, <1>3, <1>4, SameKeys, SameQueue DEF Table!OpenFlow, T!OpenFlow
<1>6. \A f : Table!ReopenFlow(f) <=> T!ReopenFlow(f)
  BY <1>1, <1>2, <1>3, <1>4, SameKeys, SameQueue DEF Table!ReopenFlow, T!ReopenFlow
<1>7. \A f : Table!CountInFlow(f) <=> T!CountInFlow(f)
  BY <1>2, <1>3, SameKeys, SameContexts DEF Table!CountInFlow, T!CountInFlow
<1>8. \A f : Table!FinishFlow(f) <=> T!FinishFlow(f)
  BY <1>2, <1>3, <1>4, SameKeys, SameContexts, SameQueue DEF Table!FinishFlow, T!FinishFlow
<1>9. \A f : Table!InsertAssertionsHold(f) <=> T!InsertAssertionsHold(f)
  BY <1>2, SameKeys, SameContexts, SameQueue
  DEF Table!InsertAssertionsHold, T!InsertAssertionsHold
<1> QED BY <1>5, <1>6, <1>7, <1>8, <1>9

LEMMA SameTable ==
    /\ Table!Init <=> T!Init
    /\ Table!InsertFlowTable <=> T!InsertFlowTable
    /\ Table!Dequeue <=> T!Dequeue
    /\ Table!ClearExpiredFlow <=> T!ClearExpiredFlow
    /\ Table!ClearOldest <=> T!ClearOldest
    /\ Table!ClearEnds <=> T!ClearEnds
    /\ Table!DumpAllFlow <=> T!DumpAllFlow
    /\ Table!AdvanceClock <=> T!AdvanceClock
    /\ Table!AssertionsHold <=> T!AssertionsHold
<1>1. Table!Init <=> T!Init
  BY SameKeys, SameQueue DEF Table!Init, T!Init
<1>2. Table!InsertFlowTable <=> T!InsertFlowTable
  BY SameHandling DEF Table!InsertFlowTable, T!InsertFlowTable
<1>3. Table!Dequeue <=> T!Dequeue
  <2>1. Table!TotalHandled = T!TotalHandled
    BY SameKeys DEF Table!TotalHandled, T!TotalHandled, Table!FoldSet, T!FoldSet,
                    Table!MapThenFoldSet, T!MapThenFoldSet
  <2>2. \A S, n : Table!BoundedSeq(S, n) = T!BoundedSeq(S, n)
    BY DEF Table!BoundedSeq, T!BoundedSeq, Table!SeqOf, T!SeqOf
  <2> QED BY <2>1, <2>2 DEF Table!Dequeue, T!Dequeue
<1>4. /\ Table!Oldest = T!Oldest
      /\ Table!Clearing <=> T!Clearing
      /\ Table!AssertionsHold <=> T!AssertionsHold
  BY SameHandling, SameQueue
  DEF Table!Oldest, T!Oldest, Table!Clearing, T!Clearing, Table!AssertionsHold,
      T!AssertionsHold
<1>5. Table!ClearOldest <=> T!ClearOldest
  BY <1>4, SameQueue
  DEF Table!ClearOldest, T!ClearOldest, Table!WithoutFlows, T!WithoutFlows
<1>6. Table!ClearEnds <=> T!ClearEnds
  BY SameQueue DEF Table!ClearEnds, T!ClearEnds
<1>7. Table!DumpAllFlow <=> T!DumpAllFlow
  BY SameKeys DEF Table!DumpAllFlow, T!DumpAllFlow
<1>8. /\ Table!ClearExpiredFlow <=> T!ClearExpiredFlow
      /\ Table!AdvanceClock <=> T!AdvanceClock
  BY DEF Table!ClearExpiredFlow, T!ClearExpiredFlow, Table!AdvanceClock, T!AdvanceClock
<1> QED BY <1>1, <1>2, <1>3, <1>4, <1>5, <1>6, <1>7, <1>8

\* The steps of PacketPath, those of Qcap's instance and of that of the theorems.
LEMMA SamePath ==
    /\ Path!Init <=> P!Init
    /\ Path!Next <=> P!Next
    /\ Path!Main <=> P!Main
    /\ Path!TestRunning <=> P!TestRunning
    /\ Path!TestEmpty <=> P!TestEmpty
    /\ Path!Dequeue <=> P!Dequeue
    /\ Path!ReleasePkt <=> P!ReleasePkt
    /\ Path!Hosts = P!Hosts
    /\ \A s, thread : Path!Deliver(s, thread) <=> P!Deliver(s, thread)
    /\ \A s : Path!SigHandle(s) <=> P!SigHandle(s)
BY DEF Path!vars, P!vars, Path!captureVars, P!captureVars, Path!decodeVars,
       P!decodeVars, Path!lifeVars, P!lifeVars, Path!signalVars, P!signalVars,
       Path!Hosts, P!Hosts, Path!Init, P!Init, Path!Least, P!Least, Path!Plus,
       P!Plus, Path!Taken, P!Taken, Path!Left, P!Left, Path!Handling, P!Handling,
       Path!Runs, P!Runs, Path!MainAt, P!MainAt, Path!DecAt, P!DecAt,
       Path!RegisterCapture, P!RegisterCapture, Path!InitSucceeds, P!InitSucceeds,
       Path!InitFails, P!InitFails, Path!StartDecode, P!StartDecode,
       Path!RegisterDecode, P!RegisterDecode, Path!Poll, P!Poll, Path!RxBurst,
       P!RxBurst, Path!CountReceived, P!CountReceived, Path!Enqueue, P!Enqueue,
       Path!CountDropped, P!CountDropped, Path!FreeDropped, P!FreeDropped,
       Path!StopDevice, P!StopDevice, Path!CleanupEal, P!CleanupEal,
       Path!ReturnFromMain, P!ReturnFromMain, Path!Main, P!Main, Path!TestRunning,
       P!TestRunning, Path!TestEmpty, P!TestEmpty, Path!Dequeue, P!Dequeue,
       Path!Parse, P!Parse, Path!ReleasePkt, P!ReleasePkt, Path!Dump, P!Dump,
       Path!DecodeThread, P!DecodeThread, Path!Deliver, P!Deliver, Path!HandlerAt,
       P!HandlerAt, Path!MayHoldLog, P!MayHoldLog, Path!CaughtInLog, P!CaughtInLog,
       Path!Enter, P!Enter, Path!LogTotals, P!LogTotals, Path!TestCapture, P!TestCapture, Path!StopCapture,
       P!StopCapture, Path!ReadCapCount, P!ReadCapCount, Path!ReadDropCount,
       P!ReadDropCount, Path!TestDecode, P!TestDecode, Path!StopDecode,
       P!StopDecode, Path!SigHandle, P!SigHandle, Path!Next, P!Next

\* The assumptions of the two modules are part of Qcap's.
LEMMA PathAssumed == P!PacketPathAssumption
BY QcapAssumption DEF Path!PacketPathAssumption, P!PacketPathAssumption

LEMMA TableAssumed == T!FlowTableAssumption /\ T!FlowCacheAssumption
<1>1. Table!Frame = T!Frame
  BY DEF Table!Frame, T!Frame, Table!Word, T!Word, Table!Port, T!Port, Table!UINT16,
         T!UINT16
<1> QED
  BY <1>1, QcapAssumption
  DEF Table!FlowTableAssumption, T!FlowTableAssumption, T!FlowCacheAssumption

-------------------------------------------------------------------------------
(* Every step is a step, or a stutter, of both modules.                    *)

LEMMA StepIsPath == [Next]_vars => [P!Next]_(P!vars)
<1> SUFFICES ASSUME [Next]_vars
             PROVE  Path!Next \/ UNCHANGED P!vars
  BY SamePath
<1>1. CASE PathOnly
  BY <1>1 DEF PathOnly, Path!Next, Path!DecodeThread
<1>2. CASE DequeueBatch
  BY <1>2 DEF DequeueBatch, Path!Next, Path!DecodeThread
<1>3. CASE EndBatch
  BY <1>3 DEF EndBatch, Path!Next, Path!DecodeThread
<1>4. CASE DumpFlows
  BY <1>4 DEF DumpFlows, Path!Next, Path!DecodeThread
<1>5. CASE ParsePacket \/ SweepFlows \/ Tick \/ UNCHANGED vars
  <2>1. UNCHANGED pathVars
    BY <1>5 DEF ParsePacket, SweepFlows, Parsing, Tick, vars
  <2> QED BY <2>1 DEF pathVars, P!vars
<1> QED BY <1>1, <1>2, <1>3, <1>4, <1>5 DEF Next

LEMMA StepIsTable == [Next]_vars => [T!Next]_(T!vars)
<1> SUFFICES ASSUME [Next]_vars
             PROVE  T!Next \/ UNCHANGED T!vars
  OBVIOUS
<1>1. CASE DequeueBatch \/ ParsePacket \/ SweepFlows \/ EndBatch \/ DumpFlows \/ Tick
  BY <1>1, SameTable
  DEF DequeueBatch, ParsePacket, SweepFlows, EndBatch, DumpFlows, Tick, T!Next
<1>2. CASE PathOnly \/ UNCHANGED vars
  <2>1. UNCHANGED tableVars
    BY <1>2 DEF PathOnly, vars
  <2> QED BY <2>1 DEF tableVars, T!vars
<1> QED BY <1>1, <1>2 DEF Next

(***************************************************************************)
(* The process is the capture and the decode thread of PacketPath, and its *)
(* decode thread is the one of FlowTable: every behaviour of the whole is  *)
(* one of each, so no step of one disturbs what the other relies on.       *)
(***************************************************************************)
THEOREM Composition == Spec => P!Spec /\ T!Spec
<1>1. Init => P!Init /\ T!Init
  BY SamePath, SameTable DEF Init
<1> QED BY <1>1, StepIsPath, StepIsTable, PTL DEF Spec, P!Spec, T!Spec

(***************************************************************************)
(* The invariants proved of the two: the counters of the capture thread    *)
(* are exact, and the flow table matches its expiry queue.                 *)
(***************************************************************************)
THEOREM BothInvariants == Spec => [](P!CountInv /\ T!IInv)
BY Composition, PathAssumed, TableAssumed, P!SpecCountInv, T!SpecIInv, PTL

(***************************************************************************)
(* What PacketPath and FlowTable promise is promised by the whole: packets *)
(* go to the decoder in the order in which they came, the newest are the   *)
(* ones lost; a flow leaves the table only by being written, once and for  *)
(* a reason; and its node in the expiry queue is not overtaken.            *)
(***************************************************************************)
THEOREM PromisesKept ==
    Spec => P!ImplementsQueue /\ T!ImplementsSessions /\ T!NeverOvertaken
<1>1. T!CallerOf
  BY SameKeys DEF T!CallerOf
<1>2. T!IsQueue
  BY DEF T!IsQueue
<1>3. T!Spec /\ []T!IsQueue => T!NeverOvertaken
  BY <1>1, TableAssumed, T!FlowsQueueInTurn
<1> QED
  BY <1>2, <1>3, Composition, PathAssumed, TableAssumed, P!PathImplementsQueue,
     T!FlowTableImplementsSessionLog, PTL

(***************************************************************************)
(* The asserts of ParseFlow and ClearExpiredFlow hold wherever the decode  *)
(* thread meets one, since no keys of two conversations collide: leaving   *)
(* AssertFails out of the process leaves no behaviour out.                 *)
(***************************************************************************)
THEOREM NoAssertLeftOut ==
    Spec => [](pc \in {"parse", "clear"} => Table!AssertionsHold)
<1>1. T!KeysDoNotCollide
  BY QcapAssumption, SameKeys DEF T!KeysDoNotCollide
<1>2. T!IInv => (pc \in {"parse", "clear"} => Table!AssertionsHold)
  BY <1>1, SameTable, TableAssumed, T!NoCollisionNoFailure
<1> QED BY <1>2, BothInvariants, PTL

-------------------------------------------------------------------------------
(***************************************************************************)
(* How the two modules fit together: the decode thread is in its batch in  *)
(* both or in neither and ends in both at once, with an empty table; and   *)
(* the packets in records, in open flows and still to be parsed are those  *)
(* that PacketPath counts as decoded or being decoded.  The last conjunct  *)
(* is inductive only together with the exact counters: they show that no   *)
(* more packets are in the flows than were received, so no uint32_t of a   *)
(* flow wraps.                                                             *)
(***************************************************************************)
Link ==
    /\ decPc = "parse" <=> pc \in {"parse", "sweep", "clear"}
    /\ decPc = "done" <=> pc = "exited"
    /\ pc # "parse" => todo = <<>>
    /\ pc = "exited" => m_flowTable = <<>>
    /\ received < UINT32 => T!AllPkts + Len(todo) = Len(decoded) + P!InParse

\* There are finitely many keys, and a sum is a sum in every instance.
LEMMA Finite == IsFiniteSet(Packets) /\ IsFiniteSet(T!Hashes) /\ T!IsFiniteSet(Packets)
<1>1. IsFiniteSet(Packets) /\ T!IsFiniteSet(Packets)
  BY QcapAssumption DEF IsFiniteSet, T!IsFiniteSet
<1>2. T!IsFiniteSet(T!Hashes)
  BY <1>1, TableAssumed, T!FewHashes
<1> QED BY <1>1, <1>2 DEF IsFiniteSet, T!IsFiniteSet

LEMMA SameSum == \A f, S : SumFunctionOnSet(f, S) = T!SumFunctionOnSet(f, S)
BY DEF SumFunctionOnSet, T!SumFunctionOnSet, FoldFunctionOnSet, T!FoldFunctionOnSet,
       MapThenFoldSet, T!MapThenFoldSet

LEMMA LinkTypes ==
    ASSUME P!CountInv, T!IInv
    PROVE  /\ todo \in Seq(Packets) /\ Len(todo) \in Nat
           /\ decoded \in Seq(Nat) /\ decBurst \in Seq(Nat) /\ ring \in Seq(Nat)
           /\ Len(decoded) \in Nat /\ Len(decBurst) \in Nat /\ Len(ring) \in Nat
           /\ received \in Nat /\ UINT32 \in Nat /\ Burst \in Nat
           /\ P!InParse \in Nat /\ P!Kept \in Nat /\ dropPktCount \in Nat
           /\ P!InHand \in Nat /\ P!Uncounted \in Nat /\ capPktCount \in Nat
           /\ T!AllPkts \in Nat
<1>1. todo \in Seq(Packets) /\ Len(todo) \in Nat
  BY LenProperties DEF T!IInv, T!Types
<1>2. P!TypeOK
  BY DEF P!CountInv, P!IInv
<1>3. /\ decoded \in Seq(Nat) /\ decBurst \in Seq(Nat) /\ ring \in Seq(Nat)
      /\ received \in Nat
  BY <1>2 DEF P!TypeOK
<1>4. Len(decoded) \in Nat /\ Len(decBurst) \in Nat /\ Len(ring) \in Nat
  BY <1>3, LenProperties
<1>5. UINT32 \in Nat /\ Burst \in Nat
  BY PathAssumed DEF P!PacketPathAssumption
<1>6. P!InParse \in Nat
  BY <1>4 DEF P!InParse
<1>7. /\ P!Kept \in Nat /\ dropPktCount \in Nat /\ P!InHand \in Nat
      /\ P!Uncounted \in Nat /\ capPktCount \in Nat
  BY <1>2, PathAssumed, P!CountTypes
<1>8. T!AllPkts \in Nat
  <2>1. \A h \in T!Hashes : T!Pkts(h) \in Nat
    BY TableAssumed, T!PktsTypes
  <2> DEFINE F == [h \in T!Hashes |-> T!Pkts(h)]
  <2>2. \A h \in T!Hashes : F[h] \in Nat
    BY <2>1
  <2>3. T!AllPkts = SumFunctionOnSet(F, T!Hashes)
    BY SameSum DEF T!AllPkts
  <2> HIDE DEF F
  <2> QED BY <2>2, <2>3, Finite, SumTakesAny
<1> QED BY <1>1, <1>3, <1>4, <1>5, <1>6, <1>7, <1>8

LEMMA InitLink == Init => Link
<1> SUFFICES ASSUME Init
             PROVE  Link
  OBVIOUS
<1>1. P!Init /\ T!Init
  BY SamePath, SameTable DEF Init
<1>2. decPc = "none" /\ pc = "loop" /\ todo = <<>> /\ decoded = <<>> /\ P!InParse = 0
  BY <1>1 DEF P!Init, T!Init, P!InParse
<1>3. T!AllPkts = 0
  <2> DEFINE F == [h \in T!Hashes |-> T!Pkts(h)]
  <2>1. \A h \in T!Hashes : T!Pkts(h) = 0
    <3> SUFFICES ASSUME NEW h \in T!Hashes
                 PROVE  T!Pkts(h) = 0
      OBVIOUS
    <3>1. packetLog[h] = <<>> /\ m_flowTable = <<>>
      BY <1>1 DEF T!Init
    <3>2. T!TablePkts(m_flowTable, h) = 0
      BY <3>1 DEF T!TablePkts
    <3>3. T!LogPkts(<<>>) = 0
      <4> DEFINE e == [i \in 1 .. Len(<<>>) |-> T!PktsOf(<<>>[i].ctx)]
      <4>1. DOMAIN e = {}
        OBVIOUS
      <4>2. T!SumFunction(e) = SumFunctionOnSet(e, DOMAIN e)
        BY SameSum DEF T!SumFunction, T!FoldFunction, T!SumFunctionOnSet
      <4> HIDE DEF e
      <4>3. T!SumFunction(e) = 0
        BY <4>1, <4>2, SumEmpty
      <4> QED BY <4>3 DEF e, T!LogPkts
    <3> QED BY <3>1, <3>2, <3>3 DEF T!Pkts
  <2>2. \A h \in T!Hashes : F[h] = 0
    BY <2>1
  <2>3. T!AllPkts = SumFunctionOnSet(F, T!Hashes)
    BY SameSum DEF T!AllPkts
  <2> HIDE DEF F
  <2> QED BY <2>2, <2>3, Finite, SumOfZeros
<1> QED BY <1>2, <1>3 DEF Link

\* A packet parsed is taken off the batch.
LEMMA ParsingTakes ==
    ASSUME T!IInv, T!InsertFlowTable
    PROVE  /\ pc = "parse"
           /\ Len(todo') + 1 = Len(todo)
           /\ pc' \in {"parse", "sweep"} /\ (pc' # "parse" => todo' = <<>>)
<1>1. /\ pc = "parse" /\ todo # <<>> /\ todo' = Tail(todo)
      /\ pc' = IF Tail(todo) = <<>> THEN "sweep" ELSE "parse"
  BY DEF T!InsertFlowTable, T!OpenFlow, T!ReopenFlow, T!CountInFlow, T!FinishFlow,
         T!NextPacket
<1>2. todo \in Seq(Packets)
  BY DEF T!IInv, T!Types
<1>3. Len(Tail(todo)) = Len(todo) - 1 /\ Len(todo) \in Nat
  BY <1>1, <1>2, HeadTailProperties, LenProperties
<1> QED BY <1>1, <1>3

\* No other step changes the number of packets in records and flows.
LEMMA KeepAll ==
    ASSUME T!IInv, [Next]_vars, ~ ParsePacket
    PROVE  T!AllPkts' = T!AllPkts
<1>1. ~ T!InsertFlowTable
  <2> SUFFICES ASSUME T!InsertFlowTable
               PROVE  FALSE
    OBVIOUS
  <2>1. pc = "parse" /\ Len(todo') + 1 = Len(todo) /\ Len(todo) \in Nat
    BY ParsingTakes, LenProperties DEF T!IInv, T!Types
  <2>2. pc = "parse" /\ todo' # todo
    BY <2>1
  <2> QED BY <2>2
    DEF Next, PathOnly, DequeueBatch, SweepFlows, EndBatch, DumpFlows, Tick,
        vars, tableVars, Table!Dequeue, Table!ClearExpiredFlow, Table!ClearOldest,
        Table!ClearEnds, Table!DumpAllFlow, Table!AdvanceClock
<1> QED BY <1>1, StepIsTable, TableAssumed, T!OthersKeepAll

\* The steps that are only PacketPath's begin and end no batch.
LEMMA PathOnlyKeeps ==
    ASSUME P!IInv, PathOnly
    PROVE  /\ decPc' = "parse" <=> decPc = "parse"
           /\ decPc' = "done" <=> decPc = "done"
           /\ decoded' = decoded
           /\ P!InParse' = P!InParse
           /\ received' < UINT32 => received < UINT32
<1>1. CASE P!Main
  <2>1. decBurst' = decBurst /\ decoded' = decoded
    BY <1>1 DEF P!Main, P!RegisterCapture, P!InitSucceeds, P!InitFails, P!StartDecode,
           P!RegisterDecode, P!Poll, P!RxBurst, P!CountReceived, P!Enqueue,
           P!CountDropped, P!FreeDropped, P!StopDevice, P!CleanupEal,
           P!ReturnFromMain, P!MainAt, P!decodeVars
  <2>2. decPc' = decPc \/ (decPc = "none" /\ decPc' \in {"none", "running"})
    BY <1>1 DEF P!Main, P!RegisterCapture, P!InitSucceeds, P!InitFails, P!StartDecode,
           P!RegisterDecode, P!Poll, P!RxBurst, P!CountReceived, P!Enqueue,
           P!CountDropped, P!FreeDropped, P!StopDevice, P!CleanupEal,
           P!ReturnFromMain, P!MainAt, P!IInv, P!Places
  <2>3. received' < UINT32 => received < UINT32
    BY <1>1, PathAssumed, P!MainLeaves
  <2> QED BY <2>1, <2>2, <2>3 DEF P!InParse
<1>2. CASE P!TestRunning \/ P!TestEmpty \/ P!ReleasePkt
  BY <1>2
  DEF P!TestRunning, P!TestEmpty, P!ReleasePkt, P!DecAt, P!decodeVars, P!captureVars,
      P!InParse
<1>3. CASE P!Dequeue /\ decBurst' = <<>>
  <2>1. PICK n : n = P!Least(Burst, Len(ring))
    OBVIOUS
  <2>2. ring \in Seq(Nat) /\ Burst \in Nat /\ Len(ring) \in Nat
    BY PathAssumed, LenProperties DEF P!IInv, P!TypeOK, P!PacketPathAssumption
  <2>3. n \in 0 .. Len(ring)
    BY <2>1, <2>2 DEF P!Least
  <2>4. Len(P!Taken(ring, n)) = n
    BY <2>2, <2>3, PathAssumed, P!TakenLeft
  <2>5. n = 0
    <3>1. decBurst' = P!Taken(ring, n)
      BY <1>3, <2>1 DEF P!Dequeue
    <3> QED BY <1>3, <2>4, <3>1, EmptySeq
  <2> QED BY <1>3, <2>1, <2>5 DEF P!Dequeue, P!DecAt, P!captureVars, P!InParse
<1>4. CASE (\E s \in Signals, thread \in P!Hosts : P!Deliver(s, thread))
             \/ (\E s \in Signals : P!SigHandle(s))
  BY <1>4
  DEF P!Deliver, P!SigHandle, P!Enter, P!LogTotals, P!CaughtInLog, P!TestCapture,
      P!StopCapture, P!ReadCapCount, P!ReadDropCount, P!TestDecode, P!StopDecode,
      P!HandlerAt, P!decodeVars, P!captureVars, P!InParse
<1> QED BY <1>1, <1>2, <1>3, <1>4, SamePath DEF PathOnly

LEMMA NextLink ==
    ASSUME P!CountInv, P!CountInv', T!IInv, T!IInv', Link, [Next]_vars
    PROVE  Link'
<1>t. P!IInv /\ P!IInv'
  BY DEF P!CountInv
<1>1. CASE PathOnly
  <2>1. UNCHANGED <<pc, todo, m_flowTable>>
    BY <1>1 DEF PathOnly, tableVars
  <2>2. T!AllPkts' = T!AllPkts
    <3>1. ~ ParsePacket
      <4>1. ParsePacket => Len(todo') + 1 = Len(todo) /\ Len(todo) \in Nat
        BY ParsingTakes, SameTable, LinkTypes DEF ParsePacket
      <4> QED BY <2>1, <4>1
    <3> QED BY <3>1, KeepAll
  <2> QED BY <1>1, <1>t, <2>1, <2>2, PathOnlyKeeps DEF Link
<1>2. CASE DequeueBatch
  <2>1. /\ decPc = "dequeue" /\ pc = "loop" /\ pc' = "parse" /\ todo' # <<>>
        /\ UNCHANGED <<decoded, received, m_flowTable>>
        /\ decPc' \in {"running", "parse"}
        /\ decPc' = "running" => decBurst' = P!Taken(ring, 0)
    BY <1>2 DEF DequeueBatch, Path!Dequeue, Path!DecAt, Path!captureVars,
                Table!Dequeue, Path!Taken, P!Taken
  <2>2. Len(todo') = Len(decBurst') /\ Len(decBurst') \in Nat
    <3>1. decBurst' \in Seq(Nat) /\ Len(decBurst') \in Nat
      BY LinkTypes, <1>t, LenProperties DEF P!IInv, P!TypeOK
    <3> QED BY <1>2, <3>1 DEF DequeueBatch
  <2>3. Len(todo') # 0
    <3>1. todo' \in Seq(Packets)
      BY DEF T!IInv, T!Types
    <3> QED BY <2>1, <3>1, EmptySeq
  <2>4. decPc' = "parse"
    <3>1. ring \in Seq(Nat) /\ 0 \in 0 .. Len(ring)
      BY LinkTypes
    <3>2. Len(P!Taken(ring, 0)) = 0
      BY <3>1, PathAssumed, P!TakenLeft
    <3> QED BY <2>1, <2>2, <2>3, <3>2
  <2>5. P!InParse = 0 /\ P!InParse' = Len(decBurst') /\ todo = <<>>
    BY <2>1, <2>4 DEF P!InParse, Link
  <2>6. T!AllPkts' = T!AllPkts
    <3>1. ~ ParsePacket
      <4>1. ParsePacket => pc = "parse"
        BY ParsingTakes, SameTable DEF ParsePacket
      <4> QED BY <2>1, <4>1
    <3> QED BY <3>1, KeepAll
  <2>7. received' < UINT32 => T!AllPkts' + Len(todo') = Len(decoded') + P!InParse'
    <3>1. received < UINT32 => T!AllPkts = Len(decoded)
      BY <2>5, LinkTypes DEF Link
    <3> QED BY <2>1, <2>2, <2>5, <2>6, <3>1
  <2> QED BY <2>1, <2>4, <2>7 DEF Link
<1>3. CASE ParsePacket
  <2>1. UNCHANGED pathVars /\ decPc = "parse" /\ T!InsertFlowTable
    BY <1>3, SameTable DEF ParsePacket, Parsing
  <2>2. /\ pc = "parse" /\ Len(todo') + 1 = Len(todo)
        /\ pc' \in {"parse", "sweep"} /\ (pc' # "parse" => todo' = <<>>)
    BY <2>1, ParsingTakes
  <2>3. UNCHANGED <<decPc, decoded, decBurst, received>> /\ P!InParse' = P!InParse
    BY <2>1 DEF pathVars, P!InParse
  <2>4. ASSUME received < UINT32
        PROVE  T!AllPkts' + Len(todo') = Len(decoded) + P!InParse
    <3>1. T!AllPkts + Len(todo) = Len(decoded) + P!InParse
      BY <2>4 DEF Link
    <3>2. Len(decoded) + P!InParse <= received
      <4>1. /\ capPktCount = received - P!Uncounted
            /\ dropPktCount + P!Kept = capPktCount
        BY <2>4 DEF P!CountInv, P!CountsExact
      <4>2. /\ Len(decoded) \in Nat /\ P!InParse \in Nat /\ Len(ring) \in Nat
            /\ P!InHand \in Nat /\ dropPktCount \in Nat /\ P!Kept \in Nat
            /\ received \in Nat /\ P!Uncounted \in Nat
        BY LinkTypes
      <4>3. Len(decoded) + P!InParse <= P!Kept
        BY <4>2 DEF P!Kept
      <4>4. P!Kept <= received
        BY <4>1, <4>2
      <4> QED BY <4>2, <4>3, <4>4
    <3>3. Len(todo') \in Nat
      BY LenProperties DEF T!IInv, T!Types
    <3>t. /\ T!AllPkts \in Nat /\ Len(todo) \in Nat /\ Len(decoded) \in Nat
          /\ P!InParse \in Nat /\ received \in Nat /\ UINT32 \in Nat
      BY LinkTypes
    <3>4. T!AllPkts + 1 < UINT32
      <4>1. T!AllPkts + Len(todo) < UINT32
        BY <2>4, <3>1, <3>2, <3>t
      <4>2. 1 <= Len(todo)
        BY <2>2, <3>3, <3>t
      <4> QED BY <3>t, <4>1, <4>2
    <3>5. T!AllPkts' = T!AllPkts + 1
      BY <2>1, <3>4, Finite, TableAssumed, T!ParsingCounts
    <3> QED BY <2>2, <3>1, <3>3, <3>5, <3>t
  <2> QED BY <2>1, <2>2, <2>3, <2>4 DEF Link
<1>4. CASE SweepFlows
  <2>1. /\ UNCHANGED <<decPc, decoded, decBurst, received, todo>> /\ decPc = "parse"
        /\ pc \in {"sweep", "clear"} /\ pc' = "clear"
    BY <1>4 DEF SweepFlows, Parsing, pathVars, Table!ClearExpiredFlow,
                Table!ClearOldest, Table!Clearing
  <2>2. T!AllPkts' = T!AllPkts
    <3>1. ParsePacket => pc = "parse"
      BY ParsingTakes, SameTable DEF ParsePacket
    <3> QED BY <2>1, <3>1, KeepAll
  <2> QED BY <2>1, <2>2 DEF Link, P!InParse
<1>5. CASE EndBatch
  <2>1. /\ decPc = "parse" /\ decPc' = "release" /\ decoded' = decoded \o decBurst
        /\ pc = "clear" /\ pc' = "loop" /\ UNCHANGED <<received, todo, m_flowTable>>
    BY <1>5 DEF EndBatch, Path!Parse, Path!DecAt, Path!captureVars, Table!ClearEnds
  <2>2. T!AllPkts' = T!AllPkts
    <3>1. ParsePacket => pc = "parse"
      BY ParsingTakes, SameTable DEF ParsePacket
    <3> QED BY <2>1, <3>1, KeepAll
  <2>3. P!InParse = Len(decBurst) /\ P!InParse' = 0
    BY <2>1 DEF P!InParse
  <2>4. Len(decoded') = Len(decoded) + Len(decBurst)
    BY <2>1, LinkTypes, ConcatProperties
  <2>5. Len(decoded') + 0 = Len(decoded) + P!InParse
    BY <2>3, <2>4, LinkTypes
  <2> QED BY <2>1, <2>2, <2>3, <2>5 DEF Link
<1>6. CASE DumpFlows
  <2>1. /\ decPc = "dump" /\ decPc' = "done" /\ decoded' = decoded
        /\ pc = "loop" /\ pc' = "exited" /\ m_flowTable' = <<>>
        /\ UNCHANGED <<received, todo>>
    BY <1>6 DEF DumpFlows, Path!Dump, Path!DecAt, Path!captureVars, Path!decodeVars,
                Table!DumpAllFlow
  <2>2. T!AllPkts' = T!AllPkts
    <3>1. ParsePacket => pc = "parse"
      BY ParsingTakes, SameTable DEF ParsePacket
    <3> QED BY <2>1, <3>1, KeepAll
  <2> QED BY <2>1, <2>2 DEF Link, P!InParse
<1>7. CASE Tick \/ UNCHANGED vars
  <2>1. UNCHANGED <<decPc, decoded, decBurst, received, pc, todo, m_flowTable>>
    BY <1>7 DEF Tick, vars, pathVars, tableVars, Table!AdvanceClock
  <2>2. T!AllPkts' = T!AllPkts
    <3>1. ~ ParsePacket
      <4>1. ParsePacket => Len(todo') + 1 = Len(todo) /\ Len(todo) \in Nat
        BY ParsingTakes, SameTable, LinkTypes DEF ParsePacket
      <4> QED BY <2>1, <4>1
    <3> QED BY <3>1, KeepAll
  <2> QED BY <2>1, <2>2 DEF Link, P!InParse
<1> QED BY <1>1, <1>2, <1>3, <1>4, <1>5, <1>6, <1>7 DEF Next

(***************************************************************************)
(* The batch that DecodeProcess takes off the ring is the one ParseFlow    *)
(* works through, packet by packet, for as long as the process runs.       *)
(***************************************************************************)
THEOREM AlwaysLinked == Spec => []Link
<1>1. P!CountInv /\ P!CountInv' /\ T!IInv /\ T!IInv' /\ Link /\ [Next]_vars => Link'
  BY NextLink
<1> QED BY <1>1, InitLink, BothInvariants, PTL DEF Spec

-------------------------------------------------------------------------------
(* What follows for the packets and the totals.                            *)

\* What the records and the flows hold is what FlowTable counts.
LEMMA RecordsAndFlows ==
    ASSUME T!IInv
    PROVE  /\ InRecords \in Nat /\ InFlows \in Nat
           /\ T!AllPkts = InRecords + InFlows
           /\ m_flowTable = <<>> => InFlows = 0
<1> DEFINE R == [h \in Table!Hashes |->
                   SumFunction([i \in 1 .. Len(packetLog[h]) |-> PktsOf(packetLog[h][i].ctx)])]
           F == [h \in Table!Hashes |->
                   IF h \in DOMAIN m_flowTable THEN PktsOf(m_flowTable[h]) ELSE 0]
           A == [h \in T!Hashes |-> T!Pkts(h)]
<1>1. IsFiniteSet(T!Hashes) /\ Table!Hashes = T!Hashes
  BY Finite, SameKeys
<1>2. \A c : PktsOf(c) = T!PktsOf(c)
  BY DEF PktsOf, T!PktsOf
<1>3. \A f : SumFunction(f) = T!SumFunction(f)
  BY SameSum
  DEF SumFunction, T!SumFunction, FoldFunction, T!FoldFunction, SumFunctionOnSet,
      T!SumFunctionOnSet
<1>4. \A h \in T!Hashes : R[h] = T!LogPkts(packetLog[h])
  BY <1>1, <1>2, <1>3 DEF T!LogPkts
<1>5. \A h \in T!Hashes : F[h] = T!TablePkts(m_flowTable, h)
  BY <1>1, <1>2 DEF T!TablePkts
<1>6. \A h \in T!Hashes : A[h] = T!LogPkts(packetLog[h]) + T!TablePkts(m_flowTable, h)
  BY DEF T!Pkts
<1>7. InRecords = SumFunctionOnSet(R, T!Hashes) /\ InFlows = SumFunctionOnSet(F, T!Hashes)
  BY <1>1 DEF InRecords, InFlows
<1>8. T!AllPkts = SumFunctionOnSet(A, T!Hashes)
  BY SameSum DEF T!AllPkts
<1>9. m_flowTable = <<>> => \A h \in T!Hashes : F[h] = 0
  BY <1>1
<1> HIDE DEF R, F, A
<1>10. \A h \in T!Hashes : R[h] \in Nat /\ F[h] \in Nat /\ A[h] = R[h] + F[h]
  BY <1>4, <1>5, <1>6, TableAssumed, T!PktsTypes
<1>11. SumFunctionOnSet(A, T!Hashes)
         = SumFunctionOnSet(R, T!Hashes) + SumFunctionOnSet(F, T!Hashes)
  BY <1>1, <1>10, SumOfSums
<1>12. SumFunctionOnSet(R, T!Hashes) \in Nat /\ SumFunctionOnSet(F, T!Hashes) \in Nat
  BY <1>1, <1>10, SumTakesAny
<1>13. m_flowTable = <<>> => SumFunctionOnSet(F, T!Hashes) = 0
  BY <1>1, <1>9, SumOfZeros
<1> QED BY <1>7, <1>8, <1>11, <1>12, <1>13

LEMMA LinkedTraced ==
    ASSUME P!CountInv, T!IInv, Link
    PROVE  PacketsTraced
<1> SUFFICES ASSUME received < UINT32
             PROVE  /\ received = dropPktCount + InBurst + Len(ring) + Len(todo)
                                    + InFlows + InRecords
                    /\ decPc = "done" => InFlows = 0
  BY DEF PacketsTraced
<1>t. /\ Len(todo) \in Nat /\ Len(ring) \in Nat /\ Len(decoded) \in Nat
      /\ received \in Nat /\ P!InParse \in Nat /\ P!InHand \in Nat
      /\ P!Uncounted \in Nat /\ dropPktCount \in Nat /\ capPktCount \in Nat
  BY LinkTypes
<1>1. InRecords \in Nat /\ InFlows \in Nat
  BY RecordsAndFlows
<1>2. InRecords + InFlows + Len(todo) = Len(decoded) + P!InParse
  BY RecordsAndFlows DEF Link
<1>3. /\ capPktCount = received - P!Uncounted
      /\ dropPktCount + (Len(decoded) + P!InParse + Len(ring) + P!InHand) = capPktCount
  BY DEF P!CountInv, P!CountsExact, P!Kept
<1>4. InBurst = P!Uncounted + P!InHand
  <2>1. P!IInv
    BY DEF P!CountInv
  <2>2. mainPc \notin {"count", "enqueue", "drop", "free"} => Len(burst) = 0
    BY <2>1 DEF P!IInv, P!Places
  <2>3. Len(burst) \in Nat
    BY <2>1, PathAssumed, P!CountTypes DEF P!IInv
  <2>4. CASE mainPc = "count"
    BY <2>3, <2>4 DEF InBurst, P!Uncounted, P!InHand
  <2>5. CASE mainPc \in {"enqueue", "drop"}
    BY <2>3, <2>5 DEF InBurst, P!Uncounted, P!InHand
  <2>6. CASE mainPc \notin {"count", "enqueue", "drop"}
    <3>1. InBurst = 0
      BY <2>2, <2>6 DEF InBurst
    <3>2. P!Uncounted = 0 /\ P!InHand = 0
      BY <2>6 DEF P!Uncounted, P!InHand
    <3> QED BY <3>1, <3>2
  <2> QED BY <2>4, <2>5, <2>6
<1>5. received = dropPktCount + InBurst + Len(ring) + Len(todo) + InFlows + InRecords
  <2>1. InBurst \in Nat
    BY <1>t, <1>4
  <2>2. received = dropPktCount + (Len(decoded) + P!InParse) + Len(ring) + InBurst
    BY <1>t, <1>3, <1>4
  <2> QED BY <1>t, <1>1, <1>2, <2>1, <2>2
<1>6. decPc = "done" => InFlows = 0
  BY RecordsAndFlows DEF Link
<1> QED BY <1>5, <1>6

(***************************************************************************)
(* No packet disappears between rte_eth_rx_burst and packet.log: at every  *)
(* step each packet received is counted in m_dropPktCount, in a burst, on  *)
(* the ring, in the batch, in an open flow or in one record; and when      *)
(* DecodeProcess has returned no flow is open.                             *)
(***************************************************************************)
THEOREM EveryPacketTraced == Spec => []PacketsTraced
BY LinkedTraced, AlwaysLinked, BothInvariants, PTL

LEMMA LinkedMatches ==
    ASSUME P!CountInv, T!IInv, Link
    PROVE  SummaryMatchesRecords
<1> SUFFICES ASSUME received < UINT32, Path!NoneEarly, decPc = "done",
                    NEW s \in Signals, summary[s].taken
             PROVE  LET kept == summary[s].cap - summary[s].drop
                    IN  kept <= InRecords + Burst /\ InRecords <= kept + Burst
  BY DEF SummaryMatchesRecords
<1>1. InRecords = Len(decoded)
  <2>1. todo = <<>> /\ m_flowTable = <<>> /\ P!InParse = 0
    BY DEF Link, P!InParse
  <2>2. InRecords + 0 + 0 = Len(decoded) + 0
    BY <2>1, RecordsAndFlows DEF Link
  <2> QED BY <2>2, RecordsAndFlows, LinkTypes
<1>2. P!SummaryMatchesDecoded
  BY PathAssumed, P!LastBurstMatches DEF P!CountInv
<1>3. P!NoneEarly
  BY DEF Path!NoneEarly, P!NoneEarly
<1> QED BY <1>1, <1>2, <1>3 DEF P!SummaryMatchesDecoded

(***************************************************************************)
(* The totals that QcapExit logs foretell the records: captured minus      *)
(* dropped, as the handler read them, and the packets in packet.log after  *)
(* DumpAllFlow differ by at most one burst, whatever was going on between. *)
(***************************************************************************)
THEOREM SummaryTellsTheRecords == Spec => []SummaryMatchesRecords
BY LinkedMatches, AlwaysLinked, BothInvariants, PTL
===============================================================================
