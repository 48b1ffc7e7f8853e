---------------------------- MODULE AsyncLog_proofs ----------------------------
(***************************************************************************)
(* Proofs about AsyncLog: its types, that destroying the pool leaves       *)
(* nothing in the queue, whoever destroys it, and that queue and worker    *)
(* implement the abstract log.                                             *)
(***************************************************************************)
EXTENDS AsyncLog, Lemmas

\* A position of the queue goes round within the slots.
LEMMA AfterInSlots == ASSUME NEW i \in Q!Slots PROVE Q!After(i) \in Q!Slots
<1>1. QueueSize + 1 \in Nat \ {0} /\ i + 1 \in Nat
  BY AsyncLogAssumption DEF Q!Slots
<1>2. (i + 1) % (QueueSize + 1) \in 0 .. (QueueSize + 1) - 1
  BY <1>1
<1> QED BY <1>2, AsyncLogAssumption DEF Q!Slots, Q!After, Q!MaxItems

\* The names that the model gives to threads are callers, and no SIGINT.
LEMMA Names ==
    /\ "main" \in Callers /\ "flusher" \in Callers /\ "decode" \in Callers
    /\ "main" \notin Signals /\ "none" \notin Callers
    /\ \A s \in Signals : s \in Callers
  BY AsyncLogAssumption DEF Callers, Threads

\* What a push and a pop do to the vector and the two positions.
LEMMA PushFacts ==
    ASSUME NEW q \in Queues, NEW m \in Messages
    PROVE  /\ Q!PushBack(q, m) \in Queues
           /\ Q!PushBack(q, m).tail = Q!After(q.tail)
           /\ Q!PushBack(q, m).v = [q.v EXCEPT ![q.tail] = m]
<1>1. Q!After(q.tail) \in Q!Slots /\ Q!After(q.head) \in Q!Slots
  BY AfterInSlots DEF Queues
<1>2. [q.v EXCEPT ![q.tail] = m] \in [Q!Slots -> Messages]
  BY DEF Queues
<1> QED BY <1>1, <1>2 DEF Queues, Q!PushBack

LEMMA PopFacts ==
    ASSUME NEW q \in Queues
    PROVE  /\ Q!PopFront(q) \in Queues
           /\ Q!PopFront(q).tail = q.tail
           /\ Q!PopFront(q).head = Q!After(q.head)
           /\ Q!PopFront(q).v = [q.v EXCEPT ![q.head] = NoMsg]
           /\ Q!Front(q) \in Messages
           /\ Q!Front(q) = q.v[q.head]
<1>1. Q!After(q.head) \in Q!Slots
  BY AfterInSlots DEF Queues
<1>2. NoMsg \in Messages
  BY DEF NoMsg, Msg, Messages
<1>3. [q.v EXCEPT ![q.head] = NoMsg] \in [Q!Slots -> Messages]
  BY <1>2 DEF Queues
<1> QED BY <1>1, <1>3 DEF Queues, Q!PopFront, Q!Front

-------------------------------------------------------------------------------
(* Types                                                                   *)

USE DEF lifeVars, callVars, workerVars, sigVars

LEMMA TypeInit == Init => TypeOK
<1> SUFFICES ASSUME Init PROVE TypeOK
  OBVIOUS
<1>1. NoMsg \in Messages
  BY DEF NoMsg, Msg, Messages
<1>2. 0 \in Q!Slots
  BY AsyncLogAssumption DEF Q!Slots
<1>3. queue \in Queues
  BY <1>1, <1>2 DEF Init, Q!EmptyQ, Queues
<1>4. hand \in Messages /\ file \in Seq(Messages)
  BY <1>1 DEF Init
<1> QED BY <1>3, <1>4 DEF Init, TypeOK, MainPcs, CallPcs, WorkerPcs, SigPcs, Hosts,
                      Threads

\* What a call leaves to be typed is the place of its caller.
LEMMA TypeCall ==
    ASSUME TypeOK, NEW c \in Callers, Begin(c) \/ WakeUp(c) \/ CallStep(c)
    PROVE  TypeOK'
<1> USE DEF TypeOK, CallPcs
<1>1. CASE Begin(c)
  <2>1. calls' \in [Callers -> Nat]
    BY <1>1 DEF Begin
  <2> QED BY <1>1, <2>1 DEF Begin, Goto
<1>2. CASE Acquire(c)
  BY <1>2 DEF Acquire, CallAt, Goto
<1>3. CASE Enqueue(c)
  <2>1. MsgOf(c) \in Messages
    BY DEF MsgOf, Terminate, FlushMsg, Msg, Messages
  <2>2. queue \in Queues /\ Q!PushBack(queue, MsgOf(c)) \in Queues
    BY <2>1, PushFacts
  <2>4. queue' \in Queues
    BY <1>3, <2>2 DEF Enqueue
  <2>3. pc' \in [Callers -> CallPcs] /\ workerPc' \in WorkerPcs
    BY <1>3 DEF Enqueue, Goto, WorkerPcs
  <2> QED BY <1>3, <2>4, <2>3 DEF Enqueue, CallAt
<1>4. CASE WakeUp(c)
  BY <1>4 DEF WakeUp, CallAt, Goto
<1>5. CASE Release(c)
  BY <1>5 DEF Release, CallAt, Goto
<1>6. CASE Join(c)
  BY <1>6 DEF Join, CallAt, Goto, MainPcs
<1>7. CASE LockReport(c) \/ Report(c)
  BY <1>7 DEF LockReport, Report, CallAt, Goto
<1> QED BY <1>1, <1>2, <1>3, <1>4, <1>5, <1>6, <1>7 DEF CallStep

LEMMA TypeWorker == TypeOK /\ WorkerStep => TypeOK'
<1> SUFFICES ASSUME TypeOK, WorkerStep PROVE TypeOK'
  OBVIOUS
<1> USE DEF TypeOK, WorkerPcs
<1>1. CASE WorkerAcquire
  BY <1>1 DEF WorkerAcquire, WorkerAt
<1>2. CASE Dequeue
  <2>1. hand' \in Messages /\ queue' \in Queues
    BY <1>2, PopFacts DEF Dequeue
  <2> QED BY <1>2, <2>1 DEF Dequeue, WorkerAt
<1>3. CASE Timeout
  BY <1>3 DEF Timeout, WorkerAt
<1>4. CASE NotifyPop
  BY <1>4 DEF NotifyPop, WorkerAt, Goto, CallPcs
<1>5. CASE Process
  <2>1. NoMsg \in Messages
    BY DEF NoMsg, Msg, Messages
  <2>2. file' \in Seq(Messages)
    <3>1. file' = file \/ file' = Append(file, hand)
      BY <1>5 DEF Process
    <3>2. file \in Seq(Messages) /\ hand \in Messages
      OBVIOUS
    <3> HIDE DEF TypeOK
    <3> QED BY <3>1, <3>2
  <2> QED BY <1>5, <2>1, <2>2 DEF Process, WorkerAt
<1> QED BY <1>1, <1>2, <1>3, <1>4, <1>5 DEF WorkerStep

LEMMA TypeMain == TypeOK /\ Main => TypeOK'
<1> SUFFICES ASSUME TypeOK, Main PROVE TypeOK'
  OBVIOUS
<1> USE DEF TypeOK, MainAt, MainPcs
<1>1. CASE SetRealTimeFlush
  BY <1>1 DEF SetRealTimeFlush
<1>2. CASE StartDecode
  BY <1>2 DEF StartDecode
<1>3. CASE Return
  BY <1>3 DEF Return
<1>4. CASE StopFlusher \/ JoinFlusher \/ Exit
  BY <1>4 DEF StopFlusher, JoinFlusher, Exit
<1>5. CASE DropPool
  BY <1>5, Names DEF DropPool, Goto, CallPcs
<1> QED BY <1>1, <1>2, <1>3, <1>4, <1>5 DEF Main

LEMMA TypeNext == TypeOK /\ [Next]_vars => TypeOK'
<1> SUFFICES ASSUME TypeOK, [Next]_vars PROVE TypeOK'
  OBVIOUS
<1>1. CASE FlusherEnds
  BY <1>1 DEF FlusherEnds, TypeOK
<1>2. ASSUME NEW s \in Signals, NEW t \in Hosts, Deliver(s, t) PROVE TypeOK'
  BY <1>2 DEF Deliver, TypeOK, SigPcs
<1>3. ASSUME NEW s \in Signals, Handler(s) PROVE TypeOK'
  BY <1>3 DEF Handler, Stop, Done, HandlerAt, TypeOK, SigPcs
<1>4. CASE UNCHANGED vars
  BY <1>4 DEF vars, TypeOK
<1> QED BY <1>1, <1>2, <1>3, <1>4, TypeCall, TypeWorker, TypeMain DEF Next

(***************************************************************************)
(* Every variable keeps its type; in particular the two positions of the   *)
(* queue stay within its vector.                                           *)
(***************************************************************************)
THEOREM TypeCorrect == Spec => []TypeOK
  BY TypeInit, TypeNext, PTL DEF Spec

-------------------------------------------------------------------------------
(* Nothing is left in the queue                                            *)

Before == {"want", "locked", "waiting"}

\* The destructor has posted its message.
Posted == destroyer # "none" /\ pc[destroyer] \notin Before

\* Once a caller destroys the pool, nobody else is in a call that has it, and
\* only that caller joins the worker; when it is back, the worker is done.
OneDestroyer ==
    /\ \A c \in Callers : pc[c] = "join" => destroyer = c
    /\ destroyer # "none" =>
         /\ ~ RegistryHolds
         /\ pc[destroyer] # "release"
         /\ \A c \in Callers : ~ Holding(c)
         /\ pc[destroyer] \in Before \union {"join"} \/ workerPc = "done"

\* The terminate message is the last in the queue; nothing follows it.
TerminateLast ==
    /\ \A i \in Q!Slots :
         queue.v[i].type = "terminate" => Posted /\ Q!After(i) = queue.tail
    /\ hand.type = "terminate" \/ workerPc = "done" =>
         Posted /\ Q!IsEmpty(queue)

\* The worker has a message only while it notifies and processes.
HandEmpty == workerPc \notin {"notify", "process"} => hand = NoMsg

\* A worker that is done stays done, and main exits only after its own join.
DrainInv == TypeOK /\ OneDestroyer /\ TerminateLast /\ HandEmpty

LEMMA TypesOfMessages ==
    /\ NoMsg.type = "none" /\ Terminate.type = "terminate"
    /\ FlushMsg.type = "flush"
    /\ \A c, n : Msg("log", c, n).type = "log"
  BY DEF NoMsg, Terminate, FlushMsg, Msg

LEMMA DrainInit == Init => DrainInv
<1> SUFFICES ASSUME Init PROVE DrainInv
  OBVIOUS
<1>1. TypeOK
  BY TypeInit
<1>2. OneDestroyer /\ HandEmpty
  BY Names DEF Init, OneDestroyer, HandEmpty
<1>3. TerminateLast
  BY TypesOfMessages DEF Init, TerminateLast, Q!EmptyQ
<1> QED BY <1>1, <1>2, <1>3 DEF DrainInv

\* A step that leaves queue, worker and destroyer alone, and that moves one
\* caller between places that neither have the pool nor join it.
LEMMA DrainFrame ==
    ASSUME DrainInv, TypeOK',
           UNCHANGED <<destroyer, queue, workerPc, hand>>,
           RegistryHolds' => RegistryHolds, UNCHANGED pc
    PROVE  DrainInv'
<1>1. OneDestroyer'
  BY DEF DrainInv, OneDestroyer, Holding
<1>2. TerminateLast' /\ HandEmpty'
  BY DEF DrainInv, TerminateLast, HandEmpty, Posted, Q!IsEmpty
<1> QED BY <1>1, <1>2 DEF DrainInv

\* A step of a caller that changes its place only, and keeps the pool from
\* being had again once it is destroyed.
LEMMA DrainMove ==
    ASSUME DrainInv, TypeOK', NEW c \in Callers, NEW place \in CallPcs,
           UNCHANGED <<mainPc, destroyer, queue, workerPc, hand>>,
           Goto(c, place),
           place \notin {"join"},
           pc[c] = "join" => workerPc = "done",
           pc[c] \in Before => place \in Before,
           pc[c] \notin Before => place \notin Before \/ destroyer = "none",
           place = "release" => pc[c] = "release"
    PROVE  DrainInv'
<1> USE DEF TypeOK
<1>1. pc' = [pc EXCEPT ![c] = place] /\ pc \in [Callers -> CallPcs]
  BY DEF Goto, DrainInv
<1>2. \A d \in Callers : d # c => pc'[d] = pc[d]
  BY <1>1
<1>3. pc'[c] = place
  BY <1>1
<1>4. RegistryHolds' = RegistryHolds
  BY DEF RegistryHolds
<1>5. destroyer \in Callers \union {"none"}
  BY DEF DrainInv
<1>6. OneDestroyer'
  <2>1. ASSUME NEW d \in Callers, pc'[d] = "join" PROVE destroyer' = d
    BY <2>1, <1>2, <1>3 DEF DrainInv, OneDestroyer
  <2>2. ASSUME destroyer # "none" PROVE pc'[destroyer] # "release"
    BY <2>2, <1>2, <1>3, <1>5 DEF DrainInv, OneDestroyer
  <2>3. ASSUME destroyer # "none", NEW d \in Callers PROVE ~ Holding(d)'
    <3>1. ~ Holding(d)
      BY <2>3 DEF DrainInv, OneDestroyer
    <3>2. CASE d # c
      BY <3>1, <3>2, <1>2 DEF Holding
    <3>3. CASE d = c
      BY <2>3, <3>1, <3>3, <1>3 DEF Holding, Before
    <3> QED BY <3>2, <3>3
  <2>4. ASSUME destroyer # "none"
        PROVE  pc'[destroyer] \in Before \union {"join"} \/ workerPc' = "done"
    <3>1. pc[destroyer] \in Before \union {"join"} \/ workerPc = "done"
      BY <2>4 DEF DrainInv, OneDestroyer
    <3>2. CASE destroyer # c
      BY <2>4, <3>1, <3>2, <1>2, <1>5
    <3>3. CASE destroyer = c
      BY <2>4, <3>1, <3>3, <1>3 DEF Before
    <3> QED BY <3>2, <3>3
  <2>5. destroyer' = destroyer
    OBVIOUS
  <2> HIDE DEF TypeOK
  <2> QED BY <2>1, <2>2, <2>3, <2>4, <2>5, <1>4 DEF OneDestroyer, DrainInv
<1>7. Posted => Posted'
  BY <1>2, <1>3, <1>5 DEF Posted, Before
<1>8. TerminateLast'
  BY <1>7 DEF DrainInv, TerminateLast, Q!IsEmpty
<1>9. HandEmpty'
  BY DEF DrainInv, HandEmpty
<1> QED BY <1>6, <1>8, <1>9 DEF DrainInv

LEMMA DrainEnqueue ==
    ASSUME DrainInv, TypeOK', NEW c \in Callers, Enqueue(c), ~ Q!Full(queue)
    PROVE  DrainInv'
<1> DEFINE place == IF destroyer = c THEN "join" ELSE "release"
<1>1. /\ pc' = [pc EXCEPT ![c] = place] /\ pc \in [Callers -> CallPcs]
      /\ pc[c] = "locked"
      /\ queue' = Q!PushBack(queue, MsgOf(c))
      /\ UNCHANGED <<mainPc, destroyer, hand>>
      /\ workerPc' = IF workerPc = "asleep" THEN "want" ELSE workerPc
      /\ queue \in Queues /\ MsgOf(c) \in Messages
      /\ destroyer \in Callers \union {"none"}
  BY DEF Enqueue, CallAt, Goto, DrainInv, TypeOK, MsgOf, Terminate, FlushMsg, Msg,
         Messages
<1> HIDE DEF place
<1>2. \A d \in Callers : d # c => pc'[d] = pc[d]
  BY <1>1
<1>3. pc'[c] = place
  BY <1>1
<1>4. destroyer = c \/ destroyer = "none"
  <2>1. destroyer # c => Holding(c)
    BY <1>1 DEF Holding
  <2> QED BY <2>1 DEF DrainInv, OneDestroyer
<1>5. ~ Posted
  BY <1>1, <1>4 DEF Posted, Before
<1>6. OneDestroyer'
  <2>1. RegistryHolds' = RegistryHolds
    BY <1>1 DEF RegistryHolds
  <2>2. CASE destroyer = "none"
    BY <1>1, <1>2, <1>3, <2>2, Names DEF place, DrainInv, OneDestroyer
  <2>3. CASE destroyer = c
    BY <1>1, <1>2, <1>3, <2>1, <2>3 DEF place, DrainInv, OneDestroyer, Holding
  <2> QED BY <1>4, <2>2, <2>3
<1>7. TerminateLast'
  <2>1. \A i \in Q!Slots : queue.v[i].type # "terminate"
    BY <1>5 DEF DrainInv, TerminateLast
  <2>2. hand.type # "terminate" /\ workerPc # "done"
    BY <1>5 DEF DrainInv, TerminateLast
  <2>3. hand'.type # "terminate" /\ workerPc' # "done"
    BY <1>1, <2>2
  <2>4. queue'.v = [queue.v EXCEPT ![queue.tail] = MsgOf(c)]
        /\ queue'.tail = Q!After(queue.tail)
    BY <1>1, PushFacts
  <2>5. queue.v \in [Q!Slots -> Messages] /\ queue.tail \in Q!Slots
    BY <1>1 DEF Queues
  <2>6. ASSUME NEW i \in Q!Slots, queue'.v[i].type = "terminate"
        PROVE  Posted' /\ Q!After(i) = queue'.tail
    <3>1. i = queue.tail /\ MsgOf(c).type = "terminate"
      BY <2>1, <2>4, <2>5, <2>6
    <3>2. destroyer = c
      BY <3>1, TypesOfMessages DEF MsgOf
    <3>3. Posted'
      BY <1>1, <1>3, <3>2, Names DEF Posted, place, Before
    <3> QED BY <3>1, <3>3, <2>4
  <2> QED BY <2>3, <2>6 DEF TerminateLast
<1>8. HandEmpty'
  BY <1>1 DEF DrainInv, HandEmpty
<1> QED BY <1>6, <1>7, <1>8 DEF DrainInv

LEMMA DrainCall ==
    ASSUME DrainInv, NEW c \in Callers, Begin(c) \/ WakeUp(c) \/ CallStep(c)
    PROVE  DrainInv'
<1>1. TypeOK'
  BY TypeCall DEF DrainInv
<1> USE <1>1
<1>2. CASE Begin(c)
  <2>1. destroyer # "none" => ~ PoolAlive
    BY DEF DrainInv, OneDestroyer, PoolAlive
  <2>2. CASE PoolAlive
    <3>1. Goto(c, "want") /\ destroyer = "none"
      BY <1>2, <2>1, <2>2 DEF Begin
    <3> QED BY <1>2, <3>1, DrainMove DEF Begin, CallPcs, Before
  <2>3. CASE ~ PoolAlive
    BY <1>2, <2>3, DrainMove DEF Begin, CallPcs, Before
  <2> QED BY <2>2, <2>3
<1>3. CASE Acquire(c)
  BY <1>3, DrainMove DEF Acquire, CallAt, CallPcs, Before
<1>4. CASE Enqueue(c)
  <2>1. CASE Q!Full(queue)
    BY <1>4, <2>1, DrainMove DEF Enqueue, CallAt, CallPcs, Before
  <2>2. CASE ~ Q!Full(queue)
    BY <1>4, <2>2, DrainEnqueue
  <2> QED BY <2>1, <2>2
<1>5. CASE WakeUp(c)
  BY <1>5, DrainMove DEF WakeUp, CallAt, CallPcs, Before
<1>6. CASE Release(c)
  <2>1. CASE ~ LastHolder(c)
    BY <1>6, <2>1, DrainMove DEF Release, CallAt, CallPcs, Before
  <2>2. CASE LastHolder(c)
    <3>1. /\ pc[c] = "release" /\ pc' = [pc EXCEPT ![c] = "want"]
          /\ destroyer' = c
          /\ UNCHANGED <<mainPc, queue, workerPc, hand>>
          /\ pc \in [Callers -> CallPcs] /\ destroyer \in Callers \union {"none"}
      BY <1>6, <2>2 DEF Release, CallAt, Goto, DrainInv, TypeOK
    <3>2. pc'[c] = "want" /\ \A d \in Callers : d # c => pc'[d] = pc[d]
      BY <3>1
    <3>3. destroyer = "none"
      <4>1. destroyer # c
        BY <3>1, Names DEF DrainInv, OneDestroyer
      <4>2. Holding(c)
        BY <3>1, <4>1 DEF Holding
      <4> QED BY <4>2 DEF DrainInv, OneDestroyer
    <3>4. ~ Posted
      BY <3>3 DEF Posted
    <3>5. OneDestroyer'
      <4>1. ~ RegistryHolds'
        BY <2>2, <3>1 DEF LastHolder, RegistryHolds
      <4>2. ASSUME NEW d \in Callers PROVE ~ Holding(d)'
        BY <2>2, <3>1, <3>2, <3>3, Names DEF LastHolder, Holding
      <4>3. ASSUME NEW d \in Callers PROVE pc'[d] # "join"
        BY <3>2, <3>3, Names DEF DrainInv, OneDestroyer
      <4> QED BY <3>1, <3>2, <4>1, <4>2, <4>3 DEF OneDestroyer, Before
    <3>6. TerminateLast' /\ HandEmpty'
      BY <3>1, <3>4 DEF DrainInv, TerminateLast, HandEmpty
    <3> QED BY <3>5, <3>6 DEF DrainInv
  <2> QED BY <2>1, <2>2
<1>7. CASE Join(c)
  <2>1. CASE workerPc = "done" /\ Goto(c, "idle") /\ UNCHANGED mainPc
    BY <1>7, <2>1, DrainMove DEF Join, CallAt, CallPcs, Before
  <2>2. CASE mainPc' = "aborted" /\ UNCHANGED pc
    BY <1>7, <2>2, DrainFrame DEF Join, CallAt, RegistryHolds
  <2> QED BY <1>7, <2>1, <2>2 DEF Join
<1>8. CASE LockReport(c)
  BY <1>8, DrainMove DEF LockReport, CallAt, CallPcs, Before
<1>9. CASE Report(c)
  BY <1>9, DrainMove DEF Report, CallAt, CallPcs, Before
<1> QED BY <1>2, <1>3, <1>4, <1>5, <1>6, <1>7, <1>8, <1>9 DEF CallStep

LEMMA DrainDequeue == DrainInv /\ TypeOK' /\ Dequeue => DrainInv'
<1> SUFFICES ASSUME DrainInv, TypeOK', Dequeue PROVE DrainInv'
  OBVIOUS
<1>1. UNCHANGED <<mainPc, destroyer, pc>> /\ workerPc = "locked"
  BY DEF Dequeue, WorkerAt
<1>2. hand = NoMsg
  BY <1>1 DEF DrainInv, HandEmpty
<1>3. OneDestroyer'
  BY <1>1 DEF DrainInv, OneDestroyer, Holding, RegistryHolds, Before
<1>4. CASE Q!IsEmpty(queue)
  <2>1. workerPc' = "asleep" /\ UNCHANGED <<hand, queue>>
    BY <1>4 DEF Dequeue
  <2> QED BY <1>1, <1>2, <1>3, <2>1 DEF DrainInv, TerminateLast, HandEmpty, Posted
<1>5. CASE ~ Q!IsEmpty(queue)
  <2>1. /\ workerPc' = "notify" /\ hand' = queue.v[queue.head]
        /\ queue'.tail = queue.tail
        /\ queue'.head = Q!After(queue.head)
        /\ queue'.v = [queue.v EXCEPT ![queue.head] = NoMsg]
    BY <1>5, PopFacts DEF Dequeue, DrainInv, TypeOK
  <2>2. queue.v \in [Q!Slots -> Messages] /\ queue.head \in Q!Slots
    BY DEF DrainInv, TypeOK, Queues
  <2>3. ASSUME NEW i \in Q!Slots, queue'.v[i].type = "terminate"
        PROVE  Posted' /\ Q!After(i) = queue'.tail
    <3>1. queue.v[i].type = "terminate"
      BY <2>1, <2>2, <2>3, TypesOfMessages
    <3> QED BY <1>1, <2>1, <3>1 DEF DrainInv, TerminateLast, Posted
  <2>4. hand'.type = "terminate" => Posted' /\ Q!IsEmpty(queue)'
    BY <1>1, <2>1, <2>2 DEF DrainInv, TerminateLast, Posted, Q!IsEmpty
  <2>5. TerminateLast' /\ HandEmpty'
    BY <2>1, <2>3, <2>4 DEF TerminateLast, HandEmpty
  <2> QED BY <1>3, <2>5 DEF DrainInv
<1> QED BY <1>4, <1>5

LEMMA DrainWorker == DrainInv /\ WorkerStep => DrainInv'
<1> SUFFICES ASSUME DrainInv, WorkerStep PROVE DrainInv'
  OBVIOUS
<1>1. TypeOK'
  BY TypeWorker DEF DrainInv
<1>2. CASE WorkerAcquire \/ Timeout
  <2>1. /\ UNCHANGED <<mainPc, destroyer, pc, queue, hand>>
        /\ workerPc \in {"want", "asleep"} /\ workerPc' \in {"want", "locked"}
    BY <1>2 DEF WorkerAcquire, Timeout, WorkerAt
  <2>2. OneDestroyer'
    BY <2>1 DEF DrainInv, OneDestroyer, Holding, RegistryHolds, Before
  <2>3. TerminateLast' /\ HandEmpty'
    BY <2>1 DEF DrainInv, TerminateLast, HandEmpty, Posted, Q!IsEmpty
  <2> QED BY <1>1, <2>2, <2>3 DEF DrainInv
<1>3. CASE Dequeue
  BY <1>1, <1>3, DrainDequeue
<1>4. CASE NotifyPop
  <2>1. /\ UNCHANGED <<mainPc, destroyer, queue, hand>>
        /\ workerPc = "notify" /\ workerPc' = "process"
        /\ \/ UNCHANGED pc
           \/ \E c \in Callers : pc[c] = "waiting" /\ Goto(c, "want")
    BY <1>4 DEF NotifyPop, WorkerAt
  <2>2. \A d \in Callers : \/ pc'[d] = pc[d]
                           \/ pc[d] = "waiting" /\ pc'[d] = "want"
    BY <2>1 DEF Goto, DrainInv, TypeOK
  <2>3. destroyer \in Callers \union {"none"}
    BY DEF DrainInv, TypeOK
  <2>4. OneDestroyer'
    BY <2>1, <2>2, <2>3 DEF DrainInv, OneDestroyer, Holding, RegistryHolds, Before
  <2>5. Posted' = Posted
    BY <2>1, <2>2, <2>3 DEF Posted, Before
  <2>6. TerminateLast' /\ HandEmpty'
    BY <2>1, <2>5 DEF DrainInv, TerminateLast, HandEmpty, Q!IsEmpty
  <2> QED BY <1>1, <2>4, <2>6 DEF DrainInv
<1>5. CASE Process
  <2>1. /\ UNCHANGED <<mainPc, destroyer, pc, queue>>
        /\ workerPc = "process" /\ workerPc' \in {"want", "done"}
        /\ workerPc' = "done" => hand.type = "terminate"
        /\ hand' = NoMsg
    BY <1>5 DEF Process, WorkerAt
  <2>2. OneDestroyer'
    BY <2>1 DEF DrainInv, OneDestroyer, Holding, RegistryHolds, Before
  <2>3. TerminateLast' /\ HandEmpty'
    BY <2>1, TypesOfMessages DEF DrainInv, TerminateLast, HandEmpty, Posted,
                                 Q!IsEmpty
  <2> QED BY <1>1, <2>2, <2>3 DEF DrainInv
<1> QED BY <1>2, <1>3, <1>4, <1>5 DEF WorkerStep

LEMMA DrainMain == DrainInv /\ Main => DrainInv'
<1> SUFFICES ASSUME DrainInv, Main PROVE DrainInv'
  OBVIOUS
<1>1. TypeOK'
  BY TypeMain DEF DrainInv
<1>2. CASE DropPool /\ ~ \E c \in Callers : Holding(c)
  <2>1. /\ pc' = [pc EXCEPT !["main"] = "want"] /\ destroyer' = "main"
        /\ UNCHANGED <<queue, workerPc, hand>>
        /\ mainPc = "dropPool" /\ mainPc' = "teardown"
        /\ pc \in [Callers -> CallPcs]
    BY <1>2 DEF DropPool, MainAt, Goto, DrainInv, TypeOK
  <2>2. /\ pc'["main"] = "want"
        /\ \A d \in Callers : d # "main" => pc'[d] = pc[d]
    BY <2>1, Names
  <2>3. destroyer = "none"
    BY <2>1 DEF DrainInv, OneDestroyer, RegistryHolds
  <2>4. OneDestroyer'
    <3>1. ASSUME NEW d \in Callers PROVE ~ Holding(d)' /\ pc'[d] # "join"
      BY <1>2, <2>1, <2>2, <2>3, Names DEF Holding, DrainInv, OneDestroyer
    <3> QED BY <2>1, <2>2, <3>1 DEF OneDestroyer, RegistryHolds, Before
  <2>5. ~ Posted
    BY <2>3 DEF Posted
  <2>6. TerminateLast' /\ HandEmpty'
    BY <2>1, <2>5 DEF DrainInv, TerminateLast, HandEmpty
  <2> QED BY <1>1, <2>4, <2>6 DEF DrainInv
<1>3. CASE ~ (DropPool /\ ~ \E c \in Callers : Holding(c))
  <2>1. UNCHANGED <<destroyer, queue, workerPc, hand, pc>>
    BY <1>3 DEF Main, MainAt, SetRealTimeFlush, StartDecode, Return, StopFlusher,
                JoinFlusher, DropPool, Exit
  <2>2. RegistryHolds' => RegistryHolds
    BY <1>3 DEF Main, MainAt, SetRealTimeFlush, StartDecode, Return, StopFlusher,
                JoinFlusher, DropPool, Exit, RegistryHolds
  <2> QED BY <1>1, <2>1, <2>2, DrainFrame
<1> QED BY <1>2, <1>3

LEMMA DrainNext == DrainInv /\ [Next]_vars => DrainInv'
<1> SUFFICES ASSUME DrainInv, [Next]_vars PROVE DrainInv'
  OBVIOUS
<1>1. TypeOK'
  BY TypeNext DEF DrainInv
<1>2. CASE FlusherEnds
  BY <1>1, <1>2, DrainFrame DEF FlusherEnds, RegistryHolds
<1>3. ASSUME NEW s \in Signals, NEW t \in Hosts, Deliver(s, t) PROVE DrainInv'
  BY <1>1, <1>3, DrainFrame DEF Deliver, RegistryHolds
<1>4. ASSUME NEW s \in Signals, Handler(s) PROVE DrainInv'
  BY <1>1, <1>4, DrainFrame DEF Handler, Stop, Done, HandlerAt, RegistryHolds
<1>5. CASE UNCHANGED vars
  BY <1>1, <1>5, DrainFrame DEF vars, RegistryHolds
<1> QED BY <1>2, <1>3, <1>4, <1>5, DrainCall, DrainWorker, DrainMain DEF Next

(***************************************************************************)
(* The worker ends with an empty queue, and no call can add to it.         *)
(***************************************************************************)
THEOREM WorkerLeavesNothing == Spec => []NothingAfterTerminate
<1>1. DrainInv => NothingAfterTerminate
  BY DEF DrainInv, TerminateLast, OneDestroyer, Posted, Before, Holding,
         NothingAfterTerminate
<1> QED BY <1>1, DrainInit, DrainNext, PTL DEF Spec

ExitInv ==
    mainPc = "exited" /\ destroyer = "main" => workerPc = "done"

(***************************************************************************)
(* A process whose registry let the pool go last has written everything.   *)
(***************************************************************************)
THEOREM RegistryDrainsLog == Spec => []WrittenAtExit
<1>1. Init => ExitInv
  BY DEF Init, ExitInv
<1>2. DrainInv /\ ExitInv /\ [Next]_vars => ExitInv'
  <2> SUFFICES ASSUME DrainInv, ExitInv, [Next]_vars PROVE ExitInv'
    OBVIOUS
  <2>1. CASE Exit
    <3>1. pc["main"] = "idle" /\ UNCHANGED <<destroyer, workerPc>>
      BY <2>1 DEF Exit, MainAt
    <3> QED BY <3>1 DEF DrainInv, OneDestroyer, ExitInv, Before
  <2>2. CASE mainPc = "exited"
    BY <2>2 DEF ExitInv, Next, vars, Main, MainAt, SetRealTimeFlush, StartDecode,
         Return, StopFlusher, JoinFlusher, DropPool, Exit, FlusherEnds, Begin,
         WakeUp, CallStep, CallAt, Acquire, Enqueue, Release, Join, LockReport,
         Report, WorkerStep, WorkerAt, WorkerAcquire, Dequeue, Timeout, NotifyPop,
         Process, Deliver, Handler, HandlerAt, Stop, Done, Runs, Ended
  <2>3. CASE ~ Exit /\ mainPc # "exited"
    <3>1. mainPc' # "exited"
      BY <2>3 DEF Next, vars, Main, MainAt, SetRealTimeFlush, StartDecode,
         Return, StopFlusher, JoinFlusher, DropPool, FlusherEnds, Begin,
         WakeUp, CallStep, CallAt, Acquire, Enqueue, Release, Join, LockReport,
         Report, WorkerStep, WorkerAt, WorkerAcquire, Dequeue, Timeout, NotifyPop,
         Process, Deliver, Handler, HandlerAt, Stop, Done
    <3> QED BY <3>1 DEF ExitInv
  <2> QED BY <2>1, <2>2, <2>3
<1>3. DrainInv /\ ExitInv => WrittenAtExit
  BY DEF DrainInv, ExitInv, TerminateLast, HandEmpty, WrittenAtExit
<1> QED BY <1>1, <1>2, <1>3, DrainInit, DrainNext, PTL DEF Spec

-------------------------------------------------------------------------------
(***************************************************************************)
(* The queue as a sequence: push_back appends, pop_front takes the first.  *)
(***************************************************************************)

\* A remainder of a number that is less than twice the modulus.
LEMMA WrapsOnce ==
    ASSUME NEW m \in Nat \ {0}, NEW a \in Nat, a < 2 * m
    PROVE  a % m = IF a < m THEN a ELSE a - m
<1>1. a \div m \in Nat /\ a % m \in 0 .. m - 1 /\ a = m * (a \div m) + (a % m)
  BY DivMod
<1>2. CASE a < m
  <2>1. a \in 0 .. m - 1 /\ m * (a \div m) + (a % m) = m * 0 + a
    BY <1>1, <1>2
  <2>2. a % m = a
    BY <1>1, <2>1, DivModUnique
  <2> QED BY <1>2, <2>2
<1>3. CASE ~ a < m
  <2>1. a - m \in 0 .. m - 1 /\ m * (a \div m) + (a % m) = m * 1 + (a - m)
    BY <1>1, <1>3
  <2>2. a % m = a - m
    BY <1>1, <2>1, DivModUnique
  <2> QED BY <1>3, <2>2
<1> QED BY <1>2, <1>3

\* The distance of two positions on a ring of c + 1 slots, forward.
LEMMA Distances ==
    ASSUME NEW c \in Nat, NEW h \in 0 .. c, NEW t \in 0 .. c, NEW n,
           n = IF t >= h THEN t - h ELSE c + 1 - (h - t)
    PROVE  /\ \A i \in 0 .. n : t = (IF h + i <= c THEN h + i ELSE h + i - c - 1) <=> i = n
           /\ t # h =>
                LET k == IF h = c THEN 0 ELSE h + 1
                IN  n > 0 /\ n - 1 = IF t >= k THEN t - k ELSE c + 1 - (k - t)
<1>1. CASE t >= h
  BY <1>1
<1>2. CASE ~ t >= h
  BY <1>2
<1> QED BY <1>1, <1>2

\* Positions and the number of items, without remainders.
LEMMA QueueFacts ==
    ASSUME NEW q \in Queues
    PROVE  /\ q.head \in 0 .. QueueSize /\ q.tail \in 0 .. QueueSize
           /\ Q!Size(q) \in 0 .. QueueSize
           /\ Q!Size(q) = IF q.tail >= q.head THEN q.tail - q.head
                                              ELSE QueueSize + 1 - (q.head - q.tail)
           /\ \A i \in 0 .. QueueSize :
                /\ Q!After(i) = IF i = QueueSize THEN 0 ELSE i + 1
                /\ Q!At(q, i) = q.v[IF q.head + i <= QueueSize
                                    THEN q.head + i ELSE q.head + i - QueueSize - 1]
<1>1. QueueSize \in Nat \ {0}
  BY AsyncLogAssumption
<1>2. q.head \in 0 .. QueueSize /\ q.tail \in 0 .. QueueSize
  BY DEF Queues, Q!Slots
<1>3. ASSUME NEW i \in 0 .. QueueSize
      PROVE  /\ (i + 1) % (QueueSize + 1) = IF i = QueueSize THEN 0 ELSE i + 1
             /\ (q.head + i) % (QueueSize + 1) =
                  IF q.head + i <= QueueSize THEN q.head + i ELSE q.head + i - QueueSize - 1
  <2> DEFINE m == QueueSize + 1
  <2>1. m \in Nat \ {0} /\ i + 1 \in Nat /\ q.head + i \in Nat
    BY <1>1, <1>2
  <2>2. i + 1 < 2 * m /\ q.head + i < 2 * m
    BY <1>1, <1>2
  <2> HIDE DEF m
  <2>3. (i + 1) % m = IF i + 1 < m THEN i + 1 ELSE (i + 1) - m
    BY <2>1, <2>2, WrapsOnce
  <2>4. (q.head + i) % m = IF q.head + i < m THEN q.head + i ELSE (q.head + i) - m
    BY <2>1, <2>2, WrapsOnce
  <2> QED BY <1>1, <1>2, <2>3, <2>4 DEF m
<1>4. \A i \in 0 .. QueueSize :
        /\ Q!After(i) = IF i = QueueSize THEN 0 ELSE i + 1
        /\ Q!At(q, i) = q.v[IF q.head + i <= QueueSize
                            THEN q.head + i ELSE q.head + i - QueueSize - 1]
  BY <1>3 DEF Q!After, Q!At, Q!MaxItems
<1>5. Q!Size(q) = IF q.tail >= q.head THEN q.tail - q.head
                                      ELSE QueueSize + 1 - (q.head - q.tail)
  BY <1>1, <1>2 DEF Q!Size, Q!MaxItems
<1>6. Q!Size(q) \in 0 .. QueueSize
  BY <1>1, <1>2, <1>5
<1> QED BY <1>2, <1>4, <1>5, <1>6

LEMMA ContentsSeq ==
    ASSUME NEW q \in Queues
    PROVE  /\ Q!Contents(q) \in Seq(Messages)
           /\ Len(Q!Contents(q)) = Q!Size(q)
           /\ \A i \in 1 .. Q!Size(q) : Q!Contents(q)[i] = Q!At(q, i - 1)
<1>1. Q!Size(q) \in Nat
  BY QueueFacts
<1>2. ASSUME NEW i \in 1 .. Q!Size(q) PROVE Q!At(q, i - 1) \in Messages
  <2>1. i - 1 \in 0 .. QueueSize /\ q.head \in 0 .. QueueSize /\ QueueSize \in Nat
    BY QueueFacts, AsyncLogAssumption
  <2>2. Q!At(q, i - 1) = q.v[IF q.head + (i - 1) <= QueueSize
                             THEN q.head + (i - 1) ELSE q.head + (i - 1) - QueueSize - 1]
    BY <2>1, QueueFacts
  <2>3. (IF q.head + (i - 1) <= QueueSize
         THEN q.head + (i - 1) ELSE q.head + (i - 1) - QueueSize - 1) \in Q!Slots
    BY <2>1 DEF Q!Slots
  <2> QED BY <2>2, <2>3 DEF Queues
<1> QED BY <1>1, <1>2 DEF Q!Contents

LEMMA PushAppends ==
    ASSUME NEW q \in Queues, NEW m \in Messages, ~ Q!Full(q)
    PROVE  /\ Q!Contents(Q!PushBack(q, m)) = Append(Q!Contents(q), m)
           /\ Q!Size(q) < QueueSize
<1> DEFINE r == Q!PushBack(q, m)
           n == Q!Size(q)
<1>1. /\ r \in Queues /\ r.head = q.head /\ r.tail = Q!After(q.tail)
      /\ r.v = [q.v EXCEPT ![q.tail] = m]
  BY PushFacts DEF Q!PushBack, Q!Full
<1>2. /\ q.v \in [Q!Slots -> Messages] /\ QueueSize \in Nat \ {0}
      /\ Q!Slots = 0 .. QueueSize /\ Q!After(q.tail) # q.head
  BY AsyncLogAssumption DEF Queues, Q!Slots, Q!Full
<1> HIDE DEF r
<1>3. Q!Size(r) = n + 1 /\ n < QueueSize /\ n \in Nat
  <2>1. /\ q.head \in 0 .. QueueSize /\ q.tail \in 0 .. QueueSize
        /\ n = IF q.tail >= q.head THEN q.tail - q.head
                                   ELSE QueueSize + 1 - (q.head - q.tail)
    BY QueueFacts
  <2>2. Q!After(q.tail) = IF q.tail = QueueSize THEN 0 ELSE q.tail + 1
    BY <2>1, QueueFacts
  <2>3. Q!Size(r) = IF r.tail >= r.head THEN r.tail - r.head
                                        ELSE QueueSize + 1 - (r.head - r.tail)
    BY <1>1, QueueFacts
  <2> HIDE DEF n
  <2> QED BY <1>1, <1>2, <2>1, <2>2, <2>3, SMTT(20)
<1>4. ASSUME NEW i \in 0 .. n
      PROVE  Q!At(r, i) = IF i = n THEN m ELSE Q!At(q, i)
  <2> DEFINE p == IF q.head + i <= QueueSize THEN q.head + i ELSE q.head + i - QueueSize - 1
  <2>1. i \in 0 .. QueueSize
    BY <1>2, <1>3
  <2>2. Q!At(r, i) = r.v[p] /\ Q!At(q, i) = q.v[p]
    BY <1>1, <2>1, QueueFacts
  <2>3. p \in 0 .. QueueSize /\ (p = q.tail <=> i = n)
    <3>1. /\ q.head \in 0 .. QueueSize /\ q.tail \in 0 .. QueueSize
          /\ n = IF q.tail >= q.head THEN q.tail - q.head
                                     ELSE QueueSize + 1 - (q.head - q.tail)
      BY QueueFacts
    <3> HIDE DEF n
    <3>2. p = q.tail <=> i = n
      BY <1>2, <3>1, Distances
    <3>3. p \in 0 .. QueueSize
      BY <1>2, <2>1, <3>1, SMTT(20)
    <3> QED BY <3>2, <3>3
  <2> HIDE DEF p
  <2> QED BY <1>1, <1>2, <2>2, <2>3
<1>5. /\ Q!Contents(q) \in Seq(Messages) /\ Len(Q!Contents(q)) = n
      /\ \A i \in 1 .. n : Q!Contents(q)[i] = Q!At(q, i - 1)
  BY ContentsSeq
<1>6. /\ Q!Contents(r) \in Seq(Messages) /\ Len(Q!Contents(r)) = n + 1
      /\ \A i \in 1 .. n + 1 : Q!Contents(r)[i] = Q!At(r, i - 1)
  BY <1>1, <1>3, ContentsSeq
<1> HIDE DEF n
<1>7. Q!Contents(r) = Append(Q!Contents(q), m)
  <2>1. /\ Append(Q!Contents(q), m) \in Seq(Messages)
        /\ Len(Append(Q!Contents(q), m)) = n + 1
    BY <1>5
  <2>2. ASSUME NEW i \in 1 .. n + 1
        PROVE  Q!Contents(r)[i] = Append(Q!Contents(q), m)[i]
    <3>1. Q!Contents(r)[i] = IF i = n + 1 THEN m ELSE Q!At(q, i - 1)
      BY <1>3, <1>4, <1>6
    <3>2. CASE i = n + 1
      BY <1>5, <3>1, <3>2
    <3>3. CASE i # n + 1
      BY <1>3, <1>5, <3>1, <3>3
    <3> QED BY <3>2, <3>3
  <2> QED BY <1>6, <2>1, <2>2, SeqEqual
<1> QED BY <1>3, <1>7 DEF r, n

LEMMA PopTakesFirst ==
    ASSUME NEW q \in Queues, ~ Q!IsEmpty(q)
    PROVE  Q!Contents(q) = <<Q!Front(q)>> \o Q!Contents(Q!PopFront(q))
<1> DEFINE r == Q!PopFront(q)
           n == Q!Size(q)
<1>1. /\ r \in Queues /\ r.tail = q.tail /\ r.head = Q!After(q.head)
      /\ r.v = [q.v EXCEPT ![q.head] = NoMsg] /\ Q!Front(q) = q.v[q.head]
      /\ Q!Front(q) \in Messages
  BY PopFacts
<1>2. /\ q.v \in [Q!Slots -> Messages] /\ QueueSize \in Nat \ {0}
      /\ Q!Slots = 0 .. QueueSize /\ q.tail # q.head
  BY AsyncLogAssumption DEF Queues, Q!Slots, Q!IsEmpty
<1> HIDE DEF r
<1>3. Q!Size(r) = n - 1 /\ n > 0 /\ n \in Nat /\ n <= QueueSize
  <2>1. /\ q.head \in 0 .. QueueSize /\ q.tail \in 0 .. QueueSize
        /\ n = IF q.tail >= q.head THEN q.tail - q.head
                                   ELSE QueueSize + 1 - (q.head - q.tail)
    BY QueueFacts
  <2>2. Q!After(q.head) = IF q.head = QueueSize THEN 0 ELSE q.head + 1
    BY <2>1, QueueFacts
  <2>3. Q!Size(r) = IF r.tail >= r.head THEN r.tail - r.head
                                        ELSE QueueSize + 1 - (r.head - r.tail)
    BY <1>1, QueueFacts
  <2> HIDE DEF n
  <2>4. LET k == IF q.head = QueueSize THEN 0 ELSE q.head + 1
        IN  n > 0 /\ n - 1 = IF q.tail >= k THEN q.tail - k
                                            ELSE QueueSize + 1 - (k - q.tail)
    BY <1>2, <2>1, Distances, SMTT(20)
  <2>5. Q!Size(r) = n - 1 /\ n > 0
    BY <1>1, <2>2, <2>3, <2>4
  <2> QED BY <1>2, <2>1, <2>5
<1>4. ASSUME NEW i \in 0 .. n - 1
      PROVE  Q!At(q, i) = IF i = 0 THEN Q!Front(q) ELSE Q!At(r, i - 1)
  <2> DEFINE p == IF q.head + i <= QueueSize THEN q.head + i ELSE q.head + i - QueueSize - 1
  <2>1. i \in 0 .. QueueSize
    BY <1>2, <1>3
  <2>2. Q!At(q, i) = q.v[p]
    BY <2>1, QueueFacts
  <2>3. p \in 0 .. QueueSize /\ (p = q.head <=> i = 0)
    <3>1. q.head \in 0 .. QueueSize
      BY QueueFacts
    <3> QED BY <1>2, <2>1, <3>1
  <2>4. CASE i = 0
    BY <1>1, <2>2, <2>3, <2>4
  <2>5. CASE i # 0
    <3>1. i - 1 \in 0 .. QueueSize
      BY <1>2, <2>1, <2>5
    <3>2. Q!At(r, i - 1) = r.v[IF r.head + (i - 1) <= QueueSize
                  THEN r.head + (i - 1) ELSE r.head + (i - 1) - QueueSize - 1]
      BY <1>1, <3>1, QueueFacts
    <3>3. r.head = IF q.head = QueueSize THEN 0 ELSE q.head + 1
      BY <1>1, QueueFacts
    <3>4. p = IF r.head + (i - 1) <= QueueSize
                  THEN r.head + (i - 1) ELSE r.head + (i - 1) - QueueSize - 1
      BY <1>2, <2>1, <2>5, <3>3, QueueFacts
    <3>5. Q!At(r, i - 1) = r.v[p]
      BY <3>2, <3>4
    <3> HIDE DEF p
    <3> QED BY <1>1, <1>2, <2>2, <2>3, <2>5, <3>5
  <2> QED BY <2>4, <2>5
<1>5. /\ Q!Contents(q) \in Seq(Messages) /\ Len(Q!Contents(q)) = n
      /\ \A i \in 1 .. n : Q!Contents(q)[i] = Q!At(q, i - 1)
  BY ContentsSeq
<1>6. /\ Q!Contents(r) \in Seq(Messages) /\ Len(Q!Contents(r)) = n - 1
      /\ \A i \in 1 .. n - 1 : Q!Contents(r)[i] = Q!At(r, i - 1)
  BY <1>1, <1>3, ContentsSeq
<1> HIDE DEF n
<1> DEFINE t == <<Q!Front(q)>> \o Q!Contents(r)
<1>7. t \in Seq(Messages) /\ Len(t) = n
  BY <1>1, <1>3, <1>6
<1>8. ASSUME NEW i \in 1 .. n PROVE Q!Contents(q)[i] = t[i]
  <2>1. Q!Contents(q)[i] = IF i = 1 THEN Q!Front(q) ELSE Q!At(r, i - 2)
    <3>1. i - 1 \in 0 .. n - 1 /\ (i - 1) - 1 = i - 2
      BY <1>3
    <3> QED BY <1>4, <1>5, <3>1
  <2>2. CASE i = 1
    BY <1>6, <2>1, <2>2
  <2>3. CASE i # 1
    <3>1. i - 1 \in 1 .. n - 1
      BY <1>3, <2>3
    <3>2. t[i] = Q!Contents(r)[i - 1]
      BY <1>6, <3>1
    <3> QED BY <1>6, <2>1, <2>3, <3>1, <3>2
  <2> QED BY <2>2, <2>3
<1> HIDE DEF t
<1>9. Q!Contents(q) = t
  BY <1>5, <1>7, <1>8, SeqEqual
<1> QED BY <1>9 DEF t, r

-------------------------------------------------------------------------------
(***************************************************************************)
(* The numbers of the calls.  A message that was accepted is from an       *)
(* earlier call than the one its caller is about to enqueue.               *)
(***************************************************************************)
\* A text, as against an order to the worker.
IsText(m) == m.type = "log"

\* The caller is in a call and has not enqueued its message.
Calling(c) == pc[c] \in Before /\ destroyer # c

Stamped(m) ==
    IsText(m) =>
      /\ m.by \in Callers /\ m.n <= calls[m.by]
      /\ Calling(m.by) => m.n < calls[m.by]

\* Every message there is, or was: a slot holds none but those.
Seen(m) ==
    \/ m = hand
    \/ \E k \in Q!Slots : m = queue.v[k]
    \/ \E k \in 1 .. Len(file) : m = file[k]

StampInv == \A m \in Messages : Seen(m) => Stamped(m)

\* A caller gets to enqueue a text only by beginning a call.
LEMMA CallsAdvance ==
    ASSUME DrainInv, [Next]_vars
    PROVE  \A c \in Callers :
             /\ calls[c] \in Nat /\ calls'[c] \in Nat /\ calls[c] <= calls'[c]
             /\ Calling(c)' => Calling(c) \/ calls[c] < calls'[c]
<1>1. /\ calls \in [Callers -> Nat] /\ pc \in [Callers -> CallPcs]
      /\ calls' \in [Callers -> Nat]
  BY TypeNext DEF DrainInv, TypeOK
<1>2. CASE UNCHANGED <<pc, calls, destroyer>>
  BY <1>1, <1>2 DEF Calling
<1>3. ASSUME NEW c \in Callers, Begin(c) PROVE calls' = [calls EXCEPT ![c] = @ + 1] /\
        UNCHANGED destroyer /\ \A d \in Callers \ {c} : pc'[d] = pc[d]
  BY <1>1, <1>3 DEF Begin, Goto
<1>4. ASSUME NEW c \in Callers, Begin(c) PROVE
        \A d \in Callers : /\ calls[d] <= calls'[d]
                           /\ Calling(d)' => Calling(d) \/ calls[d] < calls'[d]
  BY <1>1, <1>3, <1>4 DEF Calling
<1>5. ASSUME NEW c \in Callers, NEW place, Goto(c, place), calls' = calls,
             destroyer' = destroyer /\ (place \notin Before \/ pc[c] \in Before)
      PROVE  \A d \in Callers : Calling(d)' => Calling(d)
  <2>1. pc'[c] = place /\ \A d \in Callers \ {c} : pc'[d] = pc[d]
    BY <1>1, <1>5 DEF Goto
  <2> QED BY <1>5, <2>1 DEF Calling
<1>6. ASSUME NEW c \in Callers, Goto(c, "want"), destroyer' = c, destroyer = "none"
      PROVE  \A d \in Callers : Calling(d)' => Calling(d)
  <2>1. \A d \in Callers \ {c} : pc'[d] = pc[d]
    BY <1>1, <1>6 DEF Goto
  <2> QED BY <1>6, <2>1, Names DEF Calling
<1>7. ASSUME NEW c \in Callers, WakeUp(c) \/ CallStep(c)
      PROVE  /\ calls' = calls
             /\ \A d \in Callers : Calling(d)' => Calling(d)
  <2>1. calls' = calls
    BY <1>7 DEF WakeUp, CallStep, Acquire, Enqueue, Release, Join, LockReport, Report,
                CallAt
  <2>2. CASE WakeUp(c) \/ Acquire(c) \/ LockReport(c) \/ Report(c)
    BY <1>5, <2>1, <2>2 DEF WakeUp, Acquire, LockReport, Report, CallAt, Before
  <2>3. CASE Enqueue(c)
    BY <1>5, <2>1, <2>3 DEF Enqueue, CallAt, Before
  <2>4. CASE Release(c)
    <3>1. CASE LastHolder(c)
      <4>1. Goto(c, "want") /\ destroyer' = c /\ pc[c] = "release"
        BY <2>4, <3>1 DEF Release, CallAt
      <4>2. destroyer = "none"
        <5>1. destroyer # "none" => destroyer # c /\ ~ Holding(c)
          BY <4>1, Names DEF DrainInv, OneDestroyer
        <5>2. destroyer # c => Holding(c)
          BY <4>1 DEF Holding
        <5> QED BY <5>1, <5>2
      <4> QED BY <1>6, <2>1, <4>1, <4>2
    <3>2. CASE ~ LastHolder(c)
      BY <1>5, <2>1, <2>4, <3>2 DEF Release, CallAt, Before
    <3> QED BY <3>1, <3>2
  <2>5. CASE Join(c)
    <3>1. UNCHANGED destroyer /\ (Goto(c, "idle") \/ UNCHANGED pc)
      BY <2>5 DEF Join, CallAt
    <3> QED BY <1>5, <2>1, <3>1 DEF Calling, Before
  <2> QED BY <1>7, <2>1, <2>2, <2>3, <2>4, <2>5 DEF CallStep
<1>8. CASE WorkerStep
  <2>1. UNCHANGED <<calls, destroyer>>
    BY <1>8 DEF WorkerStep, WorkerAt, WorkerAcquire, Dequeue, Timeout, NotifyPop, Process
  <2>2. CASE UNCHANGED pc
    BY <1>2, <2>1, <2>2
  <2>3. CASE NotifyPop /\ ~ UNCHANGED pc
    <3>1. PICK c \in Callers : pc[c] = "waiting" /\ Goto(c, "want")
      BY <2>3 DEF NotifyPop
    <3> QED BY <1>1, <1>5, <2>1, <3>1 DEF Before
  <2>4. NotifyPop \/ UNCHANGED pc
    BY <1>8 DEF WorkerStep, WorkerAcquire, Dequeue, Timeout, Process
  <2> QED BY <2>2, <2>3, <2>4
<1>9. CASE Main
  <2>1. calls' = calls
    BY <1>9 DEF Main, MainAt, SetRealTimeFlush, StartDecode, Return, StopFlusher,
                JoinFlusher, DropPool, Exit
  <2>2. CASE UNCHANGED <<pc, destroyer>>
    BY <1>2, <2>1, <2>2
  <2>3. CASE DropPool /\ ~ UNCHANGED <<pc, destroyer>>
    <3>1. Goto("main", "want") /\ destroyer' = "main" /\ RegistryHolds
      BY <2>3 DEF DropPool, MainAt, RegistryHolds
    <3>2. destroyer = "none"
      BY <3>1 DEF DrainInv, OneDestroyer
    <3> QED BY <1>1, <1>6, <2>1, <3>1, <3>2, Names
  <2>4. DropPool \/ UNCHANGED <<pc, destroyer>>
    BY <1>9 DEF Main, SetRealTimeFlush, StartDecode, Return, StopFlusher,
                JoinFlusher, Exit
  <2> QED BY <2>2, <2>3, <2>4
<1>10. CASE ~ (Main \/ WorkerStep \/ \E c \in Callers : Begin(c) \/ WakeUp(c) \/ CallStep(c))
  <2>1. UNCHANGED <<pc, calls, destroyer>>
    BY <1>10 DEF Next, vars, FlusherEnds, Deliver, Handler, Stop, Done, HandlerAt
  <2> QED BY <1>2, <2>1
<1> QED BY <1>1, <1>4, <1>7, <1>8, <1>9, <1>10

\* The only new message is the one that is pushed.
LEMMA OnlyPushed ==
    ASSUME TypeOK, [Next]_vars, NEW m \in Messages, Seen(m)'
    PROVE  \/ Seen(m) \/ m = NoMsg
           \/ \E c \in Callers : Enqueue(c) /\ ~ Q!Full(queue) /\ m = MsgOf(c)
<1>1. /\ queue \in Queues /\ queue.v \in [Q!Slots -> Messages]
      /\ queue.head \in Q!Slots /\ queue.tail \in Q!Slots
      /\ file \in Seq(Messages) /\ hand \in Messages
  BY DEF TypeOK, Queues
<1>2. CASE UNCHANGED <<queue, hand, file>>
  BY <1>2 DEF Seen
<1>3. ASSUME NEW c \in Callers, Enqueue(c), ~ Q!Full(queue)
      PROVE  Seen(m) \/ m = MsgOf(c)
  <2>1. MsgOf(c) \in Messages
    BY <1>3 DEF MsgOf, Terminate, FlushMsg, Msg, Messages, TypeOK
  <2>2. queue'.v = [queue.v EXCEPT ![queue.tail] = MsgOf(c)] /\ UNCHANGED <<hand, file>>
    BY <1>1, <1>3, <2>1, PushFacts DEF Enqueue
  <2> QED BY <1>1, <2>2 DEF Seen
<1>4. CASE Dequeue /\ ~ Q!IsEmpty(queue)
  <2>1. /\ hand' = queue.v[queue.head] /\ file' = file
        /\ queue'.v = [queue.v EXCEPT ![queue.head] = NoMsg]
    BY <1>1, <1>4, PopFacts DEF Dequeue
  <2> QED BY <1>1, <2>1 DEF Seen
<1>5. CASE Process
  <2>1. hand' = NoMsg /\ queue' = queue /\ (file' = file \/ file' = Append(file, hand))
    BY <1>5 DEF Process
  <2>2. ASSUME NEW k \in 1 .. Len(file'), m = file'[k] PROVE Seen(m)
    <3>1. CASE file' = file
      BY <2>2, <3>1 DEF Seen
    <3>2. CASE file' = Append(file, hand)
      <4>1. k \in 1 .. Len(file) + 1
        BY <1>1, <2>2, <3>2
      <4>2. file'[k] = IF k = Len(file) + 1 THEN hand ELSE file[k]
        BY <1>1, <3>2, <4>1
      <4>3. k # Len(file) + 1 => k \in 1 .. Len(file)
        BY <1>1, <4>1
      <4> QED BY <2>2, <4>2, <4>3 DEF Seen
    <3> QED BY <2>1, <3>1, <3>2
  <2> QED BY <2>1, <2>2 DEF Seen
<1>6. CASE ~ Process /\ ~ (Dequeue /\ ~ Q!IsEmpty(queue))
           /\ ~ \E c \in Callers : Enqueue(c) /\ ~ Q!Full(queue)
  <2>1. UNCHANGED <<queue, hand, file>>
    <3>1. CASE Main
      BY <3>1 DEF Main, MainAt, SetRealTimeFlush, StartDecode, Return, StopFlusher,
                  JoinFlusher, DropPool, Exit
    <3>2. CASE WorkerStep
      BY <1>6, <3>2 DEF WorkerStep, WorkerAcquire, Dequeue, Timeout, NotifyPop
    <3>3. ASSUME NEW c \in Callers, Begin(c) \/ WakeUp(c) \/ CallStep(c)
          PROVE  UNCHANGED <<queue, hand, file>>
      BY <1>6, <3>3 DEF Begin, WakeUp, CallStep, Acquire, Enqueue, Release, Join,
                        LockReport, Report
    <3>4. CASE ~ Main /\ ~ WorkerStep
               /\ ~ \E c \in Callers : Begin(c) \/ WakeUp(c) \/ CallStep(c)
      BY <3>4 DEF Next, vars, FlusherEnds, Deliver, Handler, Stop, Done, HandlerAt
    <3> QED BY <3>1, <3>2, <3>3, <3>4
  <2> QED BY <1>2, <2>1
<1> QED BY <1>3, <1>4, <1>5, <1>6

LEMMA StampNext ==
    ASSUME DrainInv, StampInv, [Next]_vars
    PROVE  StampInv'
<1> SUFFICES ASSUME NEW m \in Messages, Seen(m)', IsText(m)
             PROVE  /\ m.by \in Callers /\ m.n <= calls'[m.by]
                    /\ Calling(m.by)' => m.n < calls'[m.by]
  BY DEF StampInv, Stamped
<1>1. m # NoMsg /\ m.n \in Nat
  BY TypesOfMessages DEF IsText, Messages
<1>2. CASE Seen(m)
  <2>1. /\ m.by \in Callers /\ m.n <= calls[m.by]
        /\ Calling(m.by) => m.n < calls[m.by]
    BY <1>2 DEF StampInv, Stamped
  <2>2. /\ calls[m.by] \in Nat /\ calls'[m.by] \in Nat /\ calls[m.by] <= calls'[m.by]
        /\ Calling(m.by)' => Calling(m.by) \/ calls[m.by] < calls'[m.by]
    BY <2>1, CallsAdvance
  <2> QED BY <1>1, <2>1, <2>2
<1>3. ASSUME NEW c \in Callers, Enqueue(c), ~ Q!Full(queue), m = MsgOf(c)
      PROVE  /\ m.by \in Callers /\ m.n <= calls'[m.by]
             /\ Calling(m.by)' => m.n < calls'[m.by]
  <2>1. m.by = c /\ m.n = calls[c]
    BY <1>3, TypesOfMessages DEF MsgOf, Msg, IsText
  <2>2. calls' = calls /\ calls[c] \in Nat
    BY <1>3 DEF Enqueue, CallAt, DrainInv, TypeOK
  <2>3. pc'[c] \notin Before
    BY <1>3 DEF Enqueue, Goto, Before, DrainInv, TypeOK
  <2> QED BY <2>1, <2>2, <2>3 DEF Calling
<1> QED BY <1>1, <1>2, <1>3, OnlyPushed DEF DrainInv

-------------------------------------------------------------------------------
(***************************************************************************)
(* The refinement.                                                         *)
(***************************************************************************)
InWorker == IF workerPc \in {"notify", "process"} THEN <<hand>> ELSE <<>>

LEMMA PendingFacts ==
    ASSUME TypeOK
    PROVE  /\ Pending = InWorker \o Q!Contents(queue)
           /\ InWorker \in Seq(Messages) /\ Len(InWorker) <= 1
           /\ Q!Contents(queue) \in Seq(Messages)
           /\ Pending \in Seq(Messages)
           /\ Len(Pending) = Len(InWorker) + Q!Size(queue)
           /\ \A k \in 1 .. Len(Pending) : Seen(Pending[k])
<1>1. queue \in Queues /\ hand \in Messages
  BY DEF TypeOK
<1>2. Pending = InWorker \o Q!Contents(queue)
  BY DEF Pending, InWorker
<1>3. /\ InWorker \in Seq(Messages) /\ Len(InWorker) <= 1
      /\ \A k \in 1 .. Len(InWorker) : InWorker[k] = hand
  BY <1>1 DEF InWorker
<1>4. /\ Q!Contents(queue) \in Seq(Messages) /\ Len(Q!Contents(queue)) = Q!Size(queue)
      /\ \A k \in 1 .. Q!Size(queue) : Q!Contents(queue)[k] = Q!At(queue, k - 1)
  BY <1>1, ContentsSeq
<1>5. ASSUME NEW k \in 1 .. Q!Size(queue) PROVE Seen(Q!Contents(queue)[k])
  <2>1. /\ QueueSize \in Nat /\ queue.head \in 0 .. QueueSize
        /\ Q!Size(queue) \in 0 .. QueueSize
    BY <1>1, QueueFacts, AsyncLogAssumption
  <2>2. k - 1 \in 0 .. QueueSize
    BY <2>1
  <2> DEFINE p == IF queue.head + (k - 1) <= QueueSize
                  THEN queue.head + (k - 1) ELSE queue.head + (k - 1) - QueueSize - 1
  <2>3. Q!At(queue, k - 1) = queue.v[p]
    BY <1>1, <2>2, QueueFacts
  <2>4. p \in Q!Slots
    BY <2>1, <2>2 DEF Q!Slots
  <2> HIDE DEF p
  <2> QED BY <1>4, <2>3, <2>4 DEF Seen
<1>6. Pending \in Seq(Messages) /\ Len(Pending) = Len(InWorker) + Q!Size(queue)
  BY <1>2, <1>3, <1>4
<1>7. ASSUME NEW k \in 1 .. Len(Pending) PROVE Seen(Pending[k])
  <2>1. CASE k <= Len(InWorker)
    <3>1. Pending[k] = InWorker[k]
      BY <1>2, <1>3, <1>4, <2>1
    <3> QED BY <1>3, <2>1, <3>1 DEF Seen
  <2>2. CASE k > Len(InWorker)
    <3>1. Pending[k] = Q!Contents(queue)[k - Len(InWorker)]
      BY <1>2, <1>3, <1>4, <1>6, <2>2
    <3>2. k - Len(InWorker) \in 1 .. Q!Size(queue)
      <4>1. Len(InWorker) \in Nat /\ Q!Size(queue) \in Nat
        BY <1>1, <1>3, QueueFacts
      <4> QED BY <1>6, <2>2, <4>1
    <3> QED BY <1>5, <3>1, <3>2
  <2> QED BY <1>3, <2>1, <2>2
<1> QED BY <1>2, <1>3, <1>4, <1>6, <1>7

\* A message that is pushed is newer than all its caller's that there are.
LEMMA EnqueueAccepts ==
    ASSUME TypeOK, StampInv, NEW c \in Callers, Enqueue(c), ~ Q!Full(queue)
    PROVE  Pipe!Accept
<1> DEFINE m == MsgOf(c)
<1>1. /\ m \in Messages /\ queue' = Q!PushBack(queue, m) /\ queue \in Queues
      /\ UNCHANGED <<hand, file>> /\ InWorker' = InWorker
      /\ file \in Seq(Messages)
  BY DEF Enqueue, MsgOf, Terminate, FlushMsg, Msg, Messages, TypeOK, InWorker
<1>2. IsText(m) => /\ m.by = c /\ m.n = calls[c] /\ Calling(c)
  BY TypesOfMessages DEF Enqueue, CallAt, MsgOf, Msg, IsText, Calling, Before
<1> HIDE DEF m
<1>3. /\ Q!Contents(queue') = Append(Q!Contents(queue), m)
      /\ Q!Size(queue) < QueueSize /\ Q!Size(queue) \in Nat /\ QueueSize \in Nat
  BY <1>1, PushAppends, QueueFacts, AsyncLogAssumption
<1>4. /\ Pending = InWorker \o Q!Contents(queue)
      /\ InWorker \in Seq(Messages) /\ Len(InWorker) <= 1
      /\ Q!Contents(queue) \in Seq(Messages)
      /\ Pending \in Seq(Messages)
      /\ Len(Pending) = Len(InWorker) + Q!Size(queue)
      /\ \A k \in 1 .. Len(Pending) : Seen(Pending[k])
  BY PendingFacts
<1>5. Pending' = InWorker \o Q!Contents(queue')
  BY <1>1 DEF Pending, InWorker
<1>6. Pending' = Append(Pending, m)
  BY <1>1, <1>3, <1>4, <1>5
<1>7. Len(Pending) < QueueSize + 1
  BY <1>3, <1>4
<1>8. Pending' # <<>> /\ Pipe!Last(Pending') = m
  BY <1>1, <1>4, <1>6 DEF Pipe!Last
<1>9. ASSUME IsText(m), NEW n \in Pipe!ToSet(Pending) \union Pipe!ToSet(file)
      PROVE  Pipe!Newer(m, n)
  <2>1. n \in Messages /\ Seen(n)
    <3>1. CASE n \in Pipe!ToSet(Pending)
      <4>1. PICK k \in 1 .. Len(Pending) : n = Pending[k]
        BY <1>4, <3>1 DEF Pipe!ToSet
      <4> QED BY <1>4, <4>1
    <3>2. CASE n \in Pipe!ToSet(file)
      <4>1. PICK k \in 1 .. Len(file) : n = file[k]
        BY <1>1, <3>2 DEF Pipe!ToSet
      <4> QED BY <1>1, <4>1 DEF Seen
    <3> QED BY <1>9, <3>1, <3>2
  <2>2. IsText(n) /\ n.by = c => n.n < calls[c]
    BY <1>2, <1>9, <2>1 DEF StampInv, Stamped
  <2>3. calls[c] \in Nat /\ n.n \in Nat
    BY <2>1 DEF TypeOK, Messages
  <2> QED BY <1>2, <1>9, <2>2, <2>3 DEF Pipe!Newer, Pipe!IsText, IsText
<1> QED BY <1>1, <1>2, <1>6, <1>7, <1>8, <1>9 DEF Pipe!Accept, Pipe!IsText, IsText

LEMMA ProcessHandles ==
    ASSUME TypeOK, Process
    PROVE  Pipe!Handle
<1>1. /\ workerPc = "process" /\ workerPc' \in {"want", "done"} /\ queue' = queue
      /\ file' = IF hand.type = "log" THEN Append(file, hand) ELSE file
  BY DEF Process, WorkerAt
<1>2. /\ Pending = <<hand>> \o Q!Contents(queue) /\ Pending' = <<>> \o Q!Contents(queue)
      /\ Q!Contents(queue) \in Seq(Messages) /\ hand \in Messages
  BY <1>1, PendingFacts DEF Pending, InWorker, TypeOK
<1>3. Pending # <<>> /\ Head(Pending) = hand /\ Tail(Pending) = Q!Contents(queue)
  BY <1>2
<1>4. Pending' = Tail(Pending)
  BY <1>2, <1>3
<1> QED BY <1>1, <1>3, <1>4 DEF Pipe!Handle, Pipe!IsText

\* To take a message from the queue into the hand is no step of the pipe.
LEMMA DequeueStutters ==
    ASSUME TypeOK, Dequeue
    PROVE  UNCHANGED <<Pending, file>>
<1>1. CASE Q!IsEmpty(queue)
  BY <1>1 DEF Dequeue, WorkerAt, Pending
<1>2. CASE ~ Q!IsEmpty(queue)
  <2>1. /\ workerPc = "locked" /\ workerPc' = "notify" /\ queue \in Queues
        /\ hand' = Q!Front(queue) /\ queue' = Q!PopFront(queue) /\ file' = file
    BY <1>2 DEF Dequeue, WorkerAt, TypeOK
  <2>2. Q!Contents(queue) = <<hand'>> \o Q!Contents(queue')
    BY <1>2, <2>1, PopTakesFirst
  <2>3. Q!Contents(queue) \in Seq(Messages)
    BY <2>1, ContentsSeq
  <2>4. Pending = Q!Contents(queue)
    BY <2>1, <2>3 DEF Pending
  <2>5. Pending' = <<hand'>> \o Q!Contents(queue')
    BY <2>1 DEF Pending
  <2> QED BY <2>1, <2>2, <2>4, <2>5
<1> QED BY <1>1, <1>2

LEMMA PipeNext ==
    ASSUME TypeOK, StampInv, [Next]_vars
    PROVE  [Pipe!Next]_<<Pending, file>>
<1>1. ASSUME NEW c \in Callers, Enqueue(c), ~ Q!Full(queue) PROVE Pipe!Next
  BY <1>1, EnqueueAccepts DEF Pipe!Next
<1>2. CASE Process
  BY <1>2, ProcessHandles DEF Pipe!Next
<1>3. CASE Dequeue
  BY <1>3, DequeueStutters
<1>4. CASE ~ Process /\ ~ Dequeue
           /\ ~ \E c \in Callers : Enqueue(c) /\ ~ Q!Full(queue)
  <2>1. UNCHANGED <<queue, hand, file, workerPc>> \/
        (WorkerStep /\ UNCHANGED <<queue, hand, file>>)
    <3>1. CASE Main
      BY <3>1 DEF Main, MainAt, SetRealTimeFlush, StartDecode, Return, StopFlusher,
                  JoinFlusher, DropPool, Exit
    <3>2. CASE WorkerStep
      BY <1>4, <3>2 DEF WorkerStep, WorkerAcquire, Timeout, NotifyPop
    <3>3. ASSUME NEW c \in Callers, Begin(c) \/ WakeUp(c) \/ CallStep(c)
          PROVE  UNCHANGED <<queue, hand, file, workerPc>>
      BY <1>4, <3>3 DEF Begin, WakeUp, CallStep, Acquire, Enqueue, Release, Join,
                        LockReport, Report
    <3>4. CASE ~ Main /\ ~ WorkerStep
               /\ ~ \E c \in Callers : Begin(c) \/ WakeUp(c) \/ CallStep(c)
      BY <3>4 DEF Next, vars, FlusherEnds, Deliver, Handler, Stop, Done, HandlerAt
    <3> QED BY <3>1, <3>2, <3>3, <3>4
  <2>2. WorkerStep =>
          (workerPc \in {"notify", "process"} <=> workerPc' \in {"notify", "process"})
    BY <1>4 DEF WorkerStep, WorkerAcquire, Timeout, NotifyPop, WorkerAt
  <2> QED BY <2>1, <2>2 DEF Pending
<1> QED BY <1>1, <1>2, <1>3, <1>4

(***************************************************************************)
(* spdlog's queue and worker implement the abstract log, for any queue     *)
(* size and any number of SIGINTs: what was accepted is handled once and   *)
(* in order, and texts of one caller are written in the order of its calls.*)
(***************************************************************************)
THEOREM LogImplementsPipe == Spec => ImplementsPipe
<1>1. Init => Pipe!Init
  <2> SUFFICES ASSUME Init PROVE Pipe!Init
    OBVIOUS
  <2>1. queue \in Queues /\ Q!Size(queue) = 0
    BY TypeInit DEF Init, TypeOK, Q!EmptyQ, Q!Size
  <2>2. Q!Contents(queue) = <<>>
    BY <2>1, ContentsSeq
  <2> QED BY <2>2 DEF Init, Pending, Pipe!Init
<1>2. Init => StampInv
  <2> SUFFICES ASSUME Init, NEW m \in Messages, Seen(m) PROVE ~ IsText(m)
    BY DEF StampInv, Stamped
  <2>1. m = NoMsg
    BY DEF Init, Seen, Q!EmptyQ
  <2> QED BY <2>1, TypesOfMessages DEF IsText
<1>3. DrainInv /\ StampInv /\ [Next]_vars => StampInv'
  BY StampNext
<1>4. DrainInv /\ StampInv /\ [Next]_vars => [Pipe!Next]_<<Pending, file>>
  BY PipeNext DEF DrainInv
<1> QED BY <1>1, <1>2, <1>3, <1>4, DrainInit, DrainNext, PTL
       DEF Spec, ImplementsPipe, Pipe!Spec
===============================================================================
