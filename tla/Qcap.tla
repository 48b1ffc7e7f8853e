--------------------------------- MODULE Qcap ---------------------------------
(***************************************************************************)
(* The process from the network card to packet.log: PacketPath, with the   *)
(* one step in which its decode thread parses a batch opened up into the   *)
(* steps of FlowTable (decode mode FLOW).                                  *)
(*                                                                         *)
(* A step of the decode thread that starts or ends a batch is a step of    *)
(* both; a packet parsed and a flow swept out is one of FlowTable only,    *)
(* and main and the handlers see only PacketPath.                          *)
(*                                                                         *)
(* The packets are such that no assertion of FlowTable can fail, so the    *)
(* process ends where PacketPath lets it end.                              *)
(***************************************************************************)
EXTENDS Naturals, SequencesExt

CONSTANTS
    Burst, RingCap, NumBufs, RxDesc, UINT32, Signals, MaxPkts,  \* of PacketPath
    Packets, FlowOutTime, ClockMayStepBack, MaxTime,            \* of FlowTable
    Traffic     \* what may come in: the frame that each packet is

VARIABLES
    mainPc, decPc, sigPc, sigHost, capRegistered, decRegistered,
    capRunning, decRunning, ealUp, ring, burst, decBurst, poolFree,
    capPktCount, dropPktCount, summary, logStuck, received, decoded,
    pc, todo, m_flowTable, m_flowCache, now, packetLog, swept, handled, finNoted,
    frame       \* the frame that each packet is, a member of Traffic

Path  == INSTANCE PacketPath
Table == INSTANCE FlowTable WITH MaxBatch <- Burst, MaxPackets <- MaxPkts

ASSUME QcapAssumption ==
    /\ Path!PacketPathAssumption
    /\ Table!FlowTableAssumption
    /\ IsFiniteSet(Packets)
    /\ Traffic \subseteq [1 .. MaxPkts -> Packets]
    /\ \A f, g \in Packets :
         Table!HashOf(f) = Table!HashOf(g) =>
           Table!KeyOf(f).m_ip1 \in {Table!KeyOf(g).m_ip1, Table!KeyOf(g).m_ip2}

pathVars ==
    <<mainPc, decPc, sigPc, sigHost, capRegistered, decRegistered, capRunning,
      decRunning, ealUp, ring, burst, decBurst, poolFree, capPktCount,
      dropPktCount, summary, logStuck, received, decoded>>

tableVars == <<pc, todo, m_flowTable, m_flowCache, now, packetLog, swept, handled,
               finNoted>>

vars == <<pathVars, tableVars, frame>>

Init == Path!Init /\ Table!Init /\ frame \in Traffic

-------------------------------------------------------------------------------
(* Steps of main, of the handlers, and of the decode thread between the    *)
(* batches.                                                                *)
PathOnly ==
    /\ \/ Path!Main
       \/ Path!TestRunning
       \/ Path!TestEmpty
       \/ Path!Dequeue /\ decBurst' = <<>>
       \/ Path!ReleasePkt
       \/ \E s \in Signals, thread \in Path!Hosts : Path!Deliver(s, thread)
       \/ \E s \in Signals : Path!SigHandle(s)
    /\ UNCHANGED <<tableVars, frame>>

\* The packets of the burst are what ParseFlow will handle.
DequeueBatch ==
    /\ Path!Dequeue
    /\ Table!Dequeue
    /\ todo' = [i \in 1 .. Len(decBurst') |-> frame[decBurst'[i]]]
    /\ UNCHANGED frame

\* The decode thread is in the batch.
Parsing ==
    /\ decPc = "parse"
    /\ Path!Runs("decode")
    /\ UNCHANGED <<pathVars, frame>>

\* A record is a call of the log.
RecordsAccepted == packetLog' # packetLog => ~ logStuck

\* ParseFlow of one packet, whose headers are read in its mbuf.
ParsePacket == ealUp /\ Parsing /\ Table!InsertFlowTable /\ RecordsAccepted

SweepFlows ==
    Parsing /\ (Table!ClearExpiredFlow \/ Table!ClearOldest) /\ RecordsAccepted

EndBatch == Path!Parse /\ Table!ClearEnds /\ UNCHANGED frame

\* The decode loop has ended: DumpAllFlow.
DumpFlows == Path!Dump /\ Table!DumpAllFlow /\ UNCHANGED frame

Tick ==
    /\ mainPc # "exited"
    /\ Table!AdvanceClock
    /\ UNCHANGED <<pathVars, frame>>

Next ==
    \/ PathOnly
    \/ DequeueBatch
    \/ ParsePacket
    \/ SweepFlows
    \/ EndBatch
    \/ DumpFlows
    \/ Tick

Spec == Init /\ [][Next]_vars

-------------------------------------------------------------------------------
(* Correctness.                                                            *)

PktsOf(ctx) == ctx.m_ip1To2Pkts + ctx.m_ip2To1Pkts

\* The packets in the records of packet.log, and in the flows still open.
InRecords ==
    SumFunctionOnSet(
        [h \in Table!Hashes |->
           SumFunction([i \in 1 .. Len(packetLog[h]) |-> PktsOf(packetLog[h][i].ctx)])],
        Table!Hashes)

InFlows ==
    SumFunctionOnSet(
        [h \in Table!Hashes |->
           IF h \in DOMAIN m_flowTable THEN PktsOf(m_flowTable[h]) ELSE 0],
        Table!Hashes)

\* The packets of the burst that are not yet counted as dropped.
InBurst == IF mainPc = "free" THEN 0 ELSE Len(burst)

(***************************************************************************)
(* No packet disappears between the card and packet.log: each is counted   *)
(* as dropped, on its way to the flow table, in an open flow or in one     *)
(* record; and a decode thread that came to its end has no flow open.      *)
(* (While the counters have not wrapped.)                                  *)
(***************************************************************************)
PacketsTraced ==
    received < UINT32 =>
      /\ received =
           dropPktCount + InBurst + Len(ring) + Len(todo) + InFlows + InRecords
      /\ decPc = "done" => InFlows = 0

(***************************************************************************)
(* The totals that a handler logs and the records that follow tell the     *)
(* same story: when the decode thread has come to its end, the packets of  *)
(* all records are those captured and not dropped, up to the burst that    *)
(* the capture thread had in hand.                                         *)
(***************************************************************************)
SummaryMatchesRecords ==
    received < UINT32 /\ Path!NoneEarly /\ decPc = "done" =>
      \A s \in Signals :
        summary[s].taken =>
          LET kept == summary[s].cap - summary[s].drop
          IN  kept <= InRecords + Burst /\ InRecords <= kept + Burst
===============================================================================
