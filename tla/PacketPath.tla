------------------------------ MODULE PacketPath ------------------------------
(***************************************************************************)
(* The path of a packet through the process, and the process's life:       *)
(* main() and SigHandle/QcapExit (main.cpp), CoreDpdk::PollingCapture      *)
(* (core_dpdk.cpp), Decode::DecodeProcess (decode.cpp) and the rte_ring    *)
(* between the two.                                                        *)
(*                                                                         *)
(* The capture thread is the main thread.  m_rxQueNumber is 1, so there is *)
(* one ring and one decode thread.  A SIGINT interrupts any thread: main,  *)
(* decode, or another one (the logger's, or one of DPDK's), and that       *)
(* thread runs QcapExit while the others go on; a thread that is in the    *)
(* handler takes no second SIGINT.                                         *)
(*                                                                         *)
(* The handler logs, and so do main() and the decode thread.  A call of    *)
(* the log ends (AsyncLog) unless a handler makes it on top of a thread    *)
(* that holds the queue's mutex, or of the log's worker while the queue is *)
(* full: then that call never returns, nor does any later one.             *)
(*                                                                         *)
(* Packets are numbered in the order the NIC hands them over.  A packet    *)
(* that the NIC drops for want of a descriptor never reaches the program   *)
(* and has no number.  What decoding a packet does to the flow table is    *)
(* the subject of FlowTable.                                               *)
(***************************************************************************)
EXTENDS Naturals, Sequences, FiniteSets, SequencesExt

CONSTANTS
    Burst,      \* BURST_SIZE
    RingCap,    \* m_pktRingSize - 1, what an rte_ring of that size can hold
    NumBufs,    \* NUM_BUFS, the size of the mbuf pool
    RxDesc,     \* descriptors of the receive queue, each with an mbuf
    UINT32,     \* the number of uint32_t values
    Signals,    \* the SIGINTs that may be delivered
    MaxPkts     \* bound: packets received

ASSUME PacketPathAssumption ==
    /\ Burst \in Nat \ {0}
    /\ RingCap \in Nat \ {0}
    /\ NumBufs \in Nat
    /\ RxDesc \in Nat
    /\ UINT32 \in Nat \ {0}
    /\ MaxPkts \in Nat
    /\ RingCap >= Burst
    /\ NumBufs >= RxDesc + RingCap + 2 * Burst

VARIABLES
    mainPc,      \* where main() is
    decPc,       \* where the decode thread is; "none" before it is created
    sigPc,       \* where each SIGINT's handler is; "idle" before delivery
    sigHost,     \* the thread each handler interrupts
    capRegistered, decRegistered,  \* g_coreDpdks and g_decodes have the object
    capRunning, decRunning,        \* the two m_running flags
    ealUp,       \* the memory of rings and mbufs is mapped
    ring,        \* m_pktRings[0]
    burst,       \* mbufs of PollingCapture that are not enqueued
    decBurst,    \* mbufs of DecodeProcess
    poolFree,    \* mbufs in the pool
    capPktCount, dropPktCount,     \* m_capSummary
    summary,     \* the CapSummary of each handler; history: whether it has been
                 \* taken, and whether the handler came too early to see a capture
    logStuck,    \* a handler is caught in a call of the log
    received,    \* history: packets received
    decoded      \* history: packets decoded, in order

vars == <<mainPc, decPc, sigPc, sigHost, capRegistered, decRegistered,
          capRunning, decRunning, ealUp, ring, burst, decBurst, poolFree,
          capPktCount, dropPktCount, summary, logStuck, received, decoded>>

captureVars == <<burst, capPktCount, dropPktCount, received>>
decodeVars  == <<decBurst, decoded>>
lifeVars    == <<capRegistered, decRegistered, capRunning, decRunning, ealUp>>
signalVars  == <<sigPc, sigHost, summary, logStuck>>

MainPcs == {"new", "init", "spawn", "register", "poll", "rx", "count", "enqueue",
            "drop", "free", "devStop", "cleanup", "return", "exited"}
DecPcs  == {"none", "running", "empty", "dequeue", "parse", "release", "dump",
            "done"}
SigPcs  == {"idle", "enter", "capRunning", "capStop", "readCap", "readDrop",
            "logTotals", "decRunning", "decStop", "done"}
Hosts   == {"main", "decode", "other"}
Counter == 0 .. (UINT32 - 1)

TypeOK ==
    /\ mainPc \in MainPcs
    /\ decPc \in DecPcs
    /\ sigPc \in [Signals -> SigPcs]
    /\ sigHost \in [Signals -> Hosts]
    /\ capRegistered \in BOOLEAN /\ decRegistered \in BOOLEAN
    /\ capRunning \in BOOLEAN /\ decRunning \in BOOLEAN
    /\ ealUp \in BOOLEAN
    /\ ring \in Seq(Nat) /\ Len(ring) <= RingCap
    /\ burst \in Seq(Nat) /\ Len(burst) <= Burst
    /\ decBurst \in Seq(Nat) /\ Len(decBurst) <= Burst
    /\ poolFree \in 0 .. NumBufs
    /\ capPktCount \in Counter
    /\ dropPktCount \in Counter
    /\ summary \in [Signals -> [cap : Counter, drop : Counter,
                                taken : BOOLEAN, early : BOOLEAN]]
    /\ logStuck \in BOOLEAN
    /\ received \in Nat
    /\ decoded \in Seq(Nat)

Init ==
    /\ mainPc = "new"
    /\ decPc = "none"
    /\ sigPc = [s \in Signals |-> "idle"]
    /\ sigHost = [s \in Signals |-> "other"]
    /\ capRegistered = FALSE
    /\ decRegistered = FALSE
    /\ capRunning = TRUE
    /\ decRunning = FALSE
    /\ ealUp = FALSE
    /\ ring = <<>>
    /\ burst = <<>>
    /\ decBurst = <<>>
    /\ poolFree = NumBufs
    /\ capPktCount = 0
    /\ dropPktCount = 0
    /\ summary = [s \in Signals |-> [cap |-> 0, drop |-> 0, taken |-> FALSE,
                                early |-> FALSE]]
    /\ logStuck = FALSE
    /\ received = 0
    /\ decoded = <<>>

-------------------------------------------------------------------------------
Least(m, n) == IF m <= n THEN m ELSE n

Plus(m, n) == (m + n) % UINT32

\* The first n elements of a sequence, and the rest of it.
Taken(s, n) == SubSeq(s, 1, n)
Left(s, n)  == SubSeq(s, n + 1, Len(s))

Handling(s) == sigPc[s] \notin {"idle", "done"}

\* A thread runs while the process lives and no handler interrupts it.
Runs(thread) ==
    /\ mainPc # "exited"
    /\ \A s \in Signals : Handling(s) => sigHost[s] # thread

\* A step of main() from one place to another.
MainAt(from, to) ==
    /\ Runs("main")
    /\ mainPc = from
    /\ mainPc' = to
    /\ UNCHANGED <<decodeVars, signalVars>>

\* A step of the decode thread from one place to another.
DecAt(from, to) ==
    /\ Runs("decode")
    /\ decPc = from
    /\ decPc' = to
    /\ UNCHANGED <<mainPc, captureVars, lifeVars, signalVars>>

-------------------------------------------------------------------------------
(* main(): create and register, initialise, spawn, capture, shut down.     *)

RegisterCapture ==
    /\ MainAt("new", "init")
    /\ capRegistered' = TRUE
    /\ UNCHANGED <<decPc, decRegistered, capRunning, decRunning, ealUp, ring,
                   poolFree, captureVars>>

\* CoreDpdk::Init: the pool and the receive queue's mbufs are taken from it.
InitSucceeds ==
    /\ ~ logStuck
    /\ MainAt("init", "spawn")
    /\ ealUp' = TRUE
    /\ poolFree' = NumBufs - RxDesc
    /\ UNCHANGED <<decPc, capRegistered, decRegistered, capRunning, decRunning,
                   ring, captureVars>>

\* One of the calls of Init fails, which is logged, and main() returns.
InitFails ==
    /\ ~ logStuck
    /\ MainAt("init", "exited")
    /\ UNCHANGED <<decPc, lifeVars, ring, poolFree, captureVars>>

\* Decode::Start; a failure of pthread_create is logged and ignored.
StartDecode ==
    /\ MainAt("spawn", "register")
    /\ decRunning' = TRUE
    /\ decPc' \in {"running", "none"}
    /\ UNCHANGED <<capRegistered, decRegistered, capRunning, ealUp, ring,
                   poolFree, captureVars>>

\* The decode thread is registered; Start logs and begins to poll.
RegisterDecode ==
    /\ ~ logStuck
    /\ MainAt("register", "poll")
    /\ decRegistered' = TRUE
    /\ UNCHANGED <<decPc, capRegistered, capRunning, decRunning, ealUp, ring,
                   poolFree, captureVars>>

\* A loop that never looks at the flag again.
PollAlways ==
    /\ MainAt("poll", "rx")
    /\ UNCHANGED <<decPc, lifeVars, ring, poolFree, captureVars>>

\* The loop condition of PollingCapture.
Poll ==
    /\ MainAt("poll", IF capRunning THEN "rx" ELSE "devStop")
    /\ UNCHANGED <<decPc, lifeVars, ring, poolFree, captureVars>>

\* rte_eth_rx_burst: packets in descriptors, each replaced from the pool.
RxBurst ==
    /\ \E n \in 0 .. Least(Burst, poolFree) :
         /\ received + n <= MaxPkts
         /\ MainAt("rx", IF n = 0 THEN "poll" ELSE "count")
         /\ burst' = [i \in 1 .. n |-> received + i]
         /\ received' = received + n
         /\ poolFree' = poolFree - n
    /\ UNCHANGED <<decPc, lifeVars, ring, capPktCount, dropPktCount>>

CountReceived ==
    /\ MainAt("count", "enqueue")
    /\ capPktCount' = Plus(capPktCount, Len(burst))
    /\ UNCHANGED <<decPc, lifeVars, ring, poolFree, burst, dropPktCount,
                   received>>

\* rte_ring_sp_enqueue_burst: as many as fit.
Enqueue ==
    LET n == Least(Len(burst), RingCap - Len(ring))
    IN  /\ MainAt("enqueue", IF n < Len(burst) THEN "drop" ELSE "poll")
        /\ ring' = ring \o Taken(burst, n)
        /\ burst' = Left(burst, n)
        /\ UNCHANGED <<decPc, lifeVars, poolFree, capPktCount, dropPktCount,
                       received>>

\* A count of the bursts, and not of the packets, that lost something.
CountDroppedOnce ==
    /\ MainAt("drop", "free")
    /\ dropPktCount' = Plus(dropPktCount, 1)
    /\ UNCHANGED <<decPc, lifeVars, ring, poolFree, burst, capPktCount, received>>

CountDropped ==
    /\ MainAt("drop", "free")
    /\ dropPktCount' = Plus(dropPktCount, Len(burst))
    /\ UNCHANGED <<decPc, lifeVars, ring, poolFree, burst, capPktCount, received>>

\* A drop that forgets to give the mbufs back.
LeakDropped ==
    /\ MainAt("free", "poll")
    /\ burst' = <<>>
    /\ UNCHANGED <<decPc, lifeVars, ring, poolFree, capPktCount, dropPktCount,
                   received>>

FreeDropped ==
    /\ MainAt("free", "poll")
    /\ poolFree' = poolFree + Len(burst)
    /\ burst' = <<>>
    /\ UNCHANGED <<decPc, lifeVars, ring, capPktCount, dropPktCount, received>>

\* PollingCapture logs its end; CoreDpdk::UnInit, in two calls; main() returns.
StopDevice ==
    /\ ~ logStuck
    /\ MainAt("devStop", "cleanup")
    /\ UNCHANGED <<decPc, lifeVars, ring, poolFree, captureVars>>

\* rte_eal_cleanup unmaps rings and mbufs; the decode thread is not joined.
CleanupEal ==
    /\ MainAt("cleanup", "return")
    /\ ealUp' = FALSE
    /\ UNCHANGED <<decPc, capRegistered, decRegistered, capRunning, decRunning,
                   ring, poolFree, captureVars>>

ReturnFromMain ==
    /\ MainAt("return", "exited")
    /\ UNCHANGED <<decPc, lifeVars, ring, poolFree, captureVars>>

Main ==
    \/ RegisterCapture \/ InitSucceeds \/ InitFails
    \/ StartDecode \/ RegisterDecode
    \/ Poll \/ RxBurst \/ CountReceived \/ Enqueue \/ CountDropped \/ FreeDropped
    \/ StopDevice \/ CleanupEal \/ ReturnFromMain

-------------------------------------------------------------------------------
(* DecodeProcess.  A step that touches a ring or an mbuf needs ealUp: once *)
(* rte_eal_cleanup has unmapped that memory the access faults, SigHandle   *)
(* returns from SIGSEGV, and it faults again until the process exits.      *)

\* A loop that goes on only while both operands are true.
TestRunningAnd ==
    /\ DecAt("running", IF decRunning THEN "empty" ELSE "dump")
    /\ UNCHANGED <<ring, poolFree, decodeVars>>

\* The left operand of "m_running || !rte_ring_empty(m_pktRing)".
TestRunning ==
    /\ DecAt("running", IF decRunning THEN "dequeue" ELSE "empty")
    /\ UNCHANGED <<ring, poolFree, decodeVars>>

\* The right operand, read later.
TestEmpty ==
    /\ ealUp
    /\ DecAt("empty", IF ring = <<>> THEN "dump" ELSE "dequeue")
    /\ UNCHANGED <<ring, poolFree, decodeVars>>

\* A dequeue from the end where packets are enqueued.
DequeueNewest ==
    LET n == Least(Burst, Len(ring))
    IN  /\ ealUp
        /\ DecAt("dequeue", IF n = 0 THEN "running" ELSE "parse")
        /\ decBurst' = Left(ring, Len(ring) - n)
        /\ ring' = Taken(ring, Len(ring) - n)
        /\ UNCHANGED <<poolFree, decoded>>

Dequeue ==
    LET n == Least(Burst, Len(ring))
    IN  /\ ealUp
        /\ DecAt("dequeue", IF n = 0 THEN "running" ELSE "parse")
        /\ decBurst' = Taken(ring, n)
        /\ ring' = Left(ring, n)
        /\ UNCHANGED <<poolFree, decoded>>

\* RecognizeProto and ParseSinglePkt, or ParseFlow and ClearExpiredFlow.
Parse ==
    /\ ealUp
    /\ DecAt("parse", "release")
    /\ decoded' = decoded \o decBurst
    /\ UNCHANGED <<ring, poolFree, decBurst>>

ReleasePkt ==
    /\ ealUp
    /\ DecAt("release", "running")
    /\ poolFree' = poolFree + Len(decBurst)
    /\ decBurst' = <<>>
    /\ UNCHANGED <<ring, decoded>>

\* DumpAllFlow; the thread logs its end.
Dump ==
    /\ ~ logStuck
    /\ DecAt("dump", "done")
    /\ UNCHANGED <<ring, poolFree, decodeVars>>

DecodeThread ==
    TestRunning \/ TestEmpty \/ Dequeue \/ Parse \/ ReleasePkt \/ Dump

-------------------------------------------------------------------------------
(* SigHandle(SIGINT): it logs and calls QcapExit.                          *)

Deliver(s, thread) ==
    /\ Runs(thread)
    /\ thread = "decode" => decPc \notin {"none", "done"}
    /\ sigPc[s] = "idle"
    /\ sigPc' = [sigPc EXCEPT ![s] = "enter"]
    /\ sigHost' = [sigHost EXCEPT ![s] = thread]
    /\ UNCHANGED <<mainPc, decPc, lifeVars, ring, poolFree, captureVars,
                   decodeVars, summary, logStuck>>

HandlerAt(s, from, to) ==
    /\ mainPc # "exited"
    /\ sigPc[s] = from
    /\ sigPc' = [sigPc EXCEPT ![s] = to]
    /\ UNCHANGED <<mainPc, decPc, sigHost, capRegistered, decRegistered, ealUp,
                   ring, poolFree, captureVars, decodeVars, logStuck>>

\* Where a thread may be in a call of the log when a handler interrupts it;
\* the log's own worker and flusher are among the other threads.
MayHoldLog(thread) ==
    \/ /\ thread = "main"
       /\ mainPc \in {"new", "init", "spawn", "register", "devStop", "return"}
    \/ thread = "decode" /\ decPc \in {"parse", "dump"}
    \/ thread = "other"

\* A call of the handler that waits for the thread below it, for ever.
CaughtInLog(s) ==
    /\ mainPc # "exited"
    /\ sigPc[s] \in {"enter", "logTotals"}
    /\ MayHoldLog(sigHost[s])
    /\ ~ logStuck
    /\ logStuck' = TRUE
    /\ UNCHANGED <<mainPc, decPc, sigPc, sigHost, summary, lifeVars, ring, poolFree,
                   captureVars, decodeVars>>

\* The two messages of SigHandle.
Enter(s) ==
    /\ ~ logStuck
    /\ HandlerAt(s, "enter", "capRunning")
    /\ UNCHANGED <<capRunning, decRunning, summary>>

\* A handler that logs the totals of a capture it leaves running.
TestCaptureNoStop(s) ==
    /\ HandlerAt(s, "capRunning",
                 IF capRegistered /\ capRunning THEN "readCap" ELSE "logTotals")
    /\ summary' = [summary EXCEPT ![s].early = ~ capRegistered]
    /\ UNCHANGED <<capRunning, decRunning>>

\* Running() of the registered CoreDpdk; there may be none yet.
TestCapture(s) ==
    /\ HandlerAt(s, "capRunning",
                 IF capRegistered /\ capRunning THEN "capStop" ELSE "logTotals")
    /\ summary' = [summary EXCEPT ![s].early = ~ capRegistered]
    /\ UNCHANGED <<capRunning, decRunning>>

StopCapture(s) ==
    /\ HandlerAt(s, "capStop", "readCap")
    /\ capRunning' = FALSE
    /\ UNCHANGED <<decRunning, summary>>

ReadCapCount(s) ==
    /\ HandlerAt(s, "readCap", "readDrop")
    /\ summary' = [summary EXCEPT ![s].cap = capPktCount]
    /\ UNCHANGED <<capRunning, decRunning>>

ReadDropCount(s) ==
    /\ HandlerAt(s, "readDrop", "logTotals")
    /\ summary' = [summary EXCEPT ![s].drop = dropPktCount, ![s].taken = TRUE]
    /\ UNCHANGED <<capRunning, decRunning>>

LogTotals(s) ==
    /\ ~ logStuck
    /\ HandlerAt(s, "logTotals", "decRunning")
    /\ UNCHANGED <<capRunning, decRunning, summary>>

TestDecode(s) ==
    /\ HandlerAt(s, "decRunning",
                 IF decRegistered /\ decRunning THEN "decStop" ELSE "done")
    /\ UNCHANGED <<capRunning, decRunning, summary>>

StopDecode(s) ==
    /\ HandlerAt(s, "decStop", "done")
    /\ decRunning' = FALSE
    /\ UNCHANGED <<capRunning, summary>>

SigHandle(s) ==
    \/ Enter(s) \/ TestCapture(s) \/ StopCapture(s) \/ ReadCapCount(s)
    \/ ReadDropCount(s) \/ LogTotals(s) \/ TestDecode(s) \/ StopDecode(s)
    \/ CaughtInLog(s)

-------------------------------------------------------------------------------
Next ==
    \/ Main
    \/ DecodeThread
    \/ \E s \in Signals, thread \in Hosts : Deliver(s, thread)
    \/ \E s \in Signals : SigHandle(s)

Spec == Init /\ [][Next]_vars

\* The scheduler lets every thread, and every handler it is in, go on; but once
\* the log is stuck, main and the decode thread may stop at any call of it.
Fairness ==
    /\ WF_vars(Main /\ ~ logStuck)
    /\ WF_vars(DecodeThread /\ ~ logStuck)
    /\ \A s \in Signals : WF_vars(SigHandle(s))

FairSpec == Spec /\ Fairness

-------------------------------------------------------------------------------
(* Correctness.                                                            *)

(***************************************************************************)
(* No mbuf is lost or handed out twice: as long as the process lives, each *)
(* one is in the pool, in a descriptor of the receive queue (once it is    *)
(* set up), on the ring or in one of the two bursts.                       *)
(***************************************************************************)
InDescriptors == IF mainPc \in {"new", "init"} THEN 0 ELSE RxDesc

MbufsConserved ==
    mainPc # "exited" =>
      poolFree + InDescriptors + Len(ring) + Len(burst) + Len(decBurst) = NumBufs

(***************************************************************************)
(* The pool is large enough: however far decoding is behind, the capture   *)
(* thread finds a free mbuf for every packet of the next burst.            *)
(***************************************************************************)
RxNeverStarved == mainPc = "rx" => poolFree >= Burst

(***************************************************************************)
(* What the counters say is what happened, at every step of the two        *)
(* threads: captured minus dropped is decoded, being decoded, on the ring, *)
(* or about to be put there, modulo the width of the counters.             *)
(***************************************************************************)
InParse == IF decPc = "parse" THEN Len(decBurst) ELSE 0
InHand  == IF mainPc \in {"enqueue", "drop"} THEN Len(burst) ELSE 0
Kept    == Len(decoded) + InParse + Len(ring) + InHand

CaptureAccounted == capPktCount = (dropPktCount + Kept) % UINT32

(***************************************************************************)
(* The loop "m_running || !rte_ring_empty" does not drain the ring, since  *)
(* the capture thread may be past its own test of m_running; but it leaves *)
(* at most the one burst that thread still had in hand.  This fails after  *)
(* a handler that ran before the capture was registered: it cannot stop    *)
(* the capture and may yet stop the decoding.                              *)
(***************************************************************************)
NoneEarly == \A s \in Signals : ~ summary[s].early

AtMostOneBurstStranded ==
    NoneEarly /\ decPc \in {"dump", "done"} => Len(ring) <= Burst

(***************************************************************************)
(* The totals a handler logs are read while the capture thread goes on.    *)
(* They miss at most one burst of captured and of dropped packets.         *)
(***************************************************************************)
SummaryWithinOneBurst ==
    \A s \in Signals :
        summary[s].taken =>
            /\ (capPktCount + UINT32 - summary[s].cap) % UINT32 <= Burst
            /\ (dropPktCount + UINT32 - summary[s].drop) % UINT32 <= Burst

(***************************************************************************)
(* Although the two totals are read one after the other, a handler never   *)
(* logs more dropped than captured packets, until a counter can wrap.      *)
(***************************************************************************)
SummaryConsistent ==
    received < UINT32 => \A s \in Signals :
        summary[s].taken => summary[s].drop <= summary[s].cap

\* The packets received and not yet decoded, oldest first.
Pending == (IF decPc = "parse" THEN decBurst ELSE <<>>) \o ring \o burst

(***************************************************************************)
(* What the path promises: a queue that may lose its newest packets.       *)
(***************************************************************************)
Queue == INSTANCE LossyQueue WITH queue <- Pending, delivered <- decoded,
                                  offered <- received

ImplementsQueue == Queue!Spec

(***************************************************************************)
(* Once the capture flag is down the process ends, wherever main() was and *)
(* whichever thread the handler interrupted, unless a handler is caught in *)
(* a call of the log that the thread below it holds up.                    *)
(***************************************************************************)
StopLeadsToExit == ~ capRunning ~> mainPc = "exited" \/ logStuck

(***************************************************************************)
(* Until one of the two threads is told to stop, or a handler is caught in *)
(* a call of the log, the decode thread, if it could be created, decodes   *)
(* every packet on the ring sooner or later.                               *)
(***************************************************************************)
RingIsDrained ==
    \A p \in 1 .. MaxPkts :
        p \in ToSet(ring) /\ decPc # "none"
          ~> p \in ToSet(decoded) \/ ~ capRunning \/ ~ decRunning \/ logStuck
===============================================================================
