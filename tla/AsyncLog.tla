------------------------------- MODULE AsyncLog -------------------------------
(***************************************************************************)
(* The program's log while it runs and while it ends: the callers of LOG_* *)
(* (main, the decode thread, the periodic flusher and the SIGINT handler), *)
(* spdlog's blocking queue and its one worker, and the destruction of the  *)
(* registry when main returns.                                             *)
(*                                                                         *)
(* Both loggers of log.cpp share the pool, the queue and the worker; which *)
(* of the two a message is for is left out, so a flush is one of both.     *)
(* A handler runs on top of the thread it interrupts, which stands still   *)
(* until the handler returns; both are callers with a place of their own.  *)
(* A condition variable is the set of callers that wait on it.  What a     *)
(* sink does with a message is the subject of RotatingFiles.               *)
(***************************************************************************)
EXTENDS Integers, Sequences

CONSTANTS
    QueueSize,  \* default_async_q_size
    Signals,    \* the SIGINTs that may be delivered
    MaxCalls    \* bound: calls of main, the decode thread and the flusher

ASSUME AsyncLogAssumption ==
    /\ QueueSize \in Nat \ {0}
    /\ MaxCalls \in Nat
    /\ Signals \cap {"main", "decode", "flusher", "worker", "none"} = {}

VARIABLES
    mainPc,     \* where main() is, or the destructor of the registry
    up,         \* the other threads that exist and may log
    running,    \* m_running of the capture
    active,     \* active_ of the flusher
    pc,         \* where each caller is in its call
    calls,      \* the number of calls each caller has begun
    destroyer,  \* the caller that runs ~thread_pool
    queue,      \* q_
    workerPc,   \* where worker_loop_ is
    hand,       \* incoming_async_msg
    file,       \* history: the messages given to a sink
    sigPc, sigHost  \* where each handler is, and the thread it interrupts

lifeVars   == <<mainPc, up, running, active>>
callVars   == <<pc, calls, destroyer>>
workerVars == <<workerPc, hand, file>>
sigVars    == <<sigPc, sigHost>>
vars == <<lifeVars, callVars, queue, workerVars, sigVars>>

Threads == {"main", "decode", "flusher"}
Callers == Threads \union Signals
Hosts   == Threads \union {"worker"}

MainPcs == {"config", "init", "capture", "stopFlusher",
            "joinFlusher", "dropPool", "teardown", "exited", "aborted"}
CallPcs == {"idle", "want", "locked", "waiting", "release", "join",
            "lost", "report"}
WorkerPcs == {"want", "locked", "asleep", "notify", "process", "done"}
SigPcs  == {"idle", "greet", "total", "done"}

\* async_msg
Msg(type, by, n) == [type |-> type, by |-> by, n |-> n]
NoMsg     == Msg("none", "none", 0)
FlushMsg  == Msg("flush", "none", 0)
Terminate == Msg("terminate", "none", 0)
Messages  == [type : {"none", "log", "flush", "terminate"},
              by : Callers \union {"none"}, n : Nat]

Q == INSTANCE CircularQ WITH Capacity <- QueueSize, Nil <- NoMsg

Queues == [v : [Q!Slots -> Messages], head : Q!Slots, tail : Q!Slots,
           overrun : Nat]

TypeOK ==
    /\ mainPc \in MainPcs
    /\ up \subseteq {"decode", "flusher"}
    /\ running \in BOOLEAN
    /\ active \in BOOLEAN
    /\ pc \in [Callers -> CallPcs]
    /\ calls \in [Callers -> Nat]
    /\ destroyer \in Callers \union {"none"}
    /\ queue \in Queues
    /\ workerPc \in WorkerPcs
    /\ hand \in Messages
    /\ file \in Seq(Messages)
    /\ sigPc \in [Signals -> SigPcs]
    /\ sigHost \in [Signals -> Hosts]

\* After SignalRegister: the first LOG_INFO has built the Logger and the pool.
Init ==
    /\ mainPc = "config"
    /\ up = {}
    /\ running = TRUE
    /\ active = FALSE
    /\ pc = [c \in Callers |-> "idle"]
    /\ calls = [c \in Callers |-> 0]
    /\ destroyer = "none"
    /\ queue = Q!EmptyQ
    /\ workerPc = "want"
    /\ hand = NoMsg
    /\ file = <<>>
    /\ sigPc = [s \in Signals |-> "idle"]
    /\ sigHost = [s \in Signals |-> "main"]

-------------------------------------------------------------------------------
Ended == mainPc \in {"exited", "aborted"}

Handling(s) == sigPc[s] \in {"greet", "total"}

\* A thread runs while no handler is on top of it; a handler always does.
Runs(c) ==
    /\ ~ Ended
    /\ c \notin Signals => \A s \in Signals : Handling(s) => sigHost[s] # c

\* Who owns a reference to the pool: the registry, and a call in between
\* thread_pool_.lock() and the end of sink_it_ or flush_.
RegistryHolds == mainPc \notin {"teardown", "exited", "aborted"}

Holding(c) ==
    /\ pc[c] \in {"want", "locked", "waiting", "release"}
    /\ destroyer # c

PoolAlive == RegistryHolds \/ \E c \in Callers : Holding(c)

MutexFree == workerPc # "locked" /\ \A c \in Callers : pc[c] # "locked"

Goto(c, place) == pc' = [pc EXCEPT ![c] = place]

-------------------------------------------------------------------------------
(* A call of a logger, and the destructor of the pool, which posts a       *)
(* message of its own.  logger::flush makes the flusher's calls.           *)

MayCall(c) ==
    \/ /\ c = "main"
       /\ mainPc \in {"config", "init"}
       /\ calls[c] < MaxCalls
    \/ c = "decode" /\ "decode" \in up /\ calls[c] < MaxCalls
    \/ c = "flusher" /\ "flusher" \in up /\ active /\ calls[c] < MaxCalls
    \/ c \in Signals /\ \/ sigPc[c] = "greet" /\ calls[c] < 2
                        \/ sigPc[c] = "total" /\ calls[c] < 3

\* sink_it_ or flush_: lock the weak pointer.  Without a pool the exception
\* ends in err_handler_, and the message is lost.
Begin(c) ==
    /\ Runs(c)
    /\ pc[c] = "idle"
    /\ MayCall(c)
    /\ Goto(c, IF PoolAlive THEN "want" ELSE "lost")
    /\ calls' = [calls EXCEPT ![c] = @ + 1]
    /\ UNCHANGED <<lifeVars, destroyer, queue, workerVars, sigVars>>

\* A step inside a call.
CallAt(c, from) ==
    /\ Runs(c)
    /\ pc[c] = from
    /\ UNCHANGED <<calls, sigVars>>

\* The constructor of the unique_lock in enqueue, or the end of a wait.
Acquire(c) ==
    /\ CallAt(c, "want")
    /\ MutexFree
    /\ Goto(c, "locked")
    /\ UNCHANGED <<lifeVars, destroyer, queue, workerVars>>

MsgOf(c) ==
    CASE destroyer = c -> Terminate
      [] c = "flusher" -> FlushMsg
      [] OTHER         -> Msg("log", c, calls[c])

\* Wait on pop_cv_ while the queue is full; push_back, unlock and notify push_cv_.
\* (The worker looks at the queue every ten seconds anyway, so that a later
\* notification makes no difference.)  The destructor goes on to the join.
Enqueue(c) ==
    /\ CallAt(c, "locked")
    /\ \/ /\ Q!Full(queue)
          /\ Goto(c, "waiting")
          /\ UNCHANGED <<queue, workerPc>>
       \/ /\ ~ Q!Full(queue)
          /\ Goto(c, IF destroyer = c THEN "join" ELSE "release")
          /\ queue' = Q!PushBack(queue, MsgOf(c))
          /\ workerPc' = IF workerPc = "asleep" THEN "want" ELSE workerPc
    /\ UNCHANGED <<lifeVars, destroyer, hand, file>>

\* A wait may end without a notification.
WakeUp(c) ==
    /\ CallAt(c, "waiting")
    /\ Goto(c, "want")
    /\ UNCHANGED <<lifeVars, destroyer, queue, workerVars>>

\* A pool that goes although a call still has it.
LastHolderAny(c) == ~ RegistryHolds

LastHolder(c) ==
    ~ RegistryHolds /\ \A d \in Callers \ {c} : ~ Holding(d)

\* ~shared_ptr: the last one that held the pool destroys it.
Release(c) ==
    /\ CallAt(c, "release")
    /\ IF LastHolder(c)
         THEN Goto(c, "want") /\ destroyer' = c
         ELSE Goto(c, "idle") /\ UNCHANGED destroyer
    /\ UNCHANGED <<lifeVars, queue, workerVars>>

\* A destructor that does not wait for the worker.
JoinNot(c) ==
    /\ CallAt(c, "join")
    /\ Goto(c, "idle")
    /\ UNCHANGED <<lifeVars, destroyer, queue, workerVars>>

\* t.join() returns when the worker is done.  A handler on top of the worker
\* would join its own thread: join throws, and a joinable thread is destroyed.
Join(c) ==
    /\ CallAt(c, "join")
    /\ \/ /\ workerPc = "done"
          /\ Goto(c, "idle")
          /\ UNCHANGED mainPc
       \/ /\ c \in Signals /\ sigHost[c] = "worker"
          /\ mainPc' = "aborted"
          /\ UNCHANGED pc
    /\ UNCHANGED <<up, running, active, destroyer, queue, workerVars>>

\* err_handler_ reports on stderr, under a mutex of its own.
LockReport(c) ==
    /\ CallAt(c, "lost")
    /\ \A d \in Callers : pc[d] # "report"
    /\ Goto(c, "report")
    /\ UNCHANGED <<lifeVars, destroyer, queue, workerVars>>

Report(c) ==
    /\ CallAt(c, "report")
    /\ Goto(c, "idle")
    /\ UNCHANGED <<lifeVars, destroyer, queue, workerVars>>

CallStep(c) ==
    \/ Acquire(c) \/ Enqueue(c) \/ Release(c) \/ Join(c)
    \/ LockReport(c) \/ Report(c)

-------------------------------------------------------------------------------
(* The worker of the pool.                                                 *)

WorkerAt(from) ==
    /\ Runs("worker")
    /\ workerPc = from
    /\ UNCHANGED <<lifeVars, calls, destroyer, sigVars>>

WorkerAcquire ==
    /\ WorkerAt("want")
    /\ MutexFree
    /\ workerPc' = "locked"
    /\ UNCHANGED <<pc, queue, hand, file>>

\* dequeue_for: wait on push_cv_ while the queue is empty, or take the front
\* and unlock.
Dequeue ==
    /\ WorkerAt("locked")
    /\ IF Q!IsEmpty(queue)
         THEN workerPc' = "asleep" /\ UNCHANGED <<hand, queue>>
         ELSE /\ workerPc' = "notify"
              /\ hand' = Q!Front(queue)
              /\ queue' = Q!PopFront(queue)
    /\ UNCHANGED <<pc, file>>

\* Ten seconds, after which the queue is looked at again.
Timeout ==
    /\ WorkerAt("asleep")
    /\ workerPc' = "want"
    /\ UNCHANGED <<pc, queue, hand, file>>

\* A dequeue that notifies nobody.
NotifyPopNot ==
    /\ WorkerAt("notify")
    /\ workerPc' = "process"
    /\ UNCHANGED <<pc, queue, hand, file>>

\* pop_cv_.notify_one
NotifyPop ==
    /\ WorkerAt("notify")
    /\ workerPc' = "process"
    /\ IF \E c \in Callers : pc[c] = "waiting"
         THEN \E c \in Callers : pc[c] = "waiting" /\ Goto(c, "want")
         ELSE UNCHANGED pc
    /\ UNCHANGED <<queue, hand, file>>

\* process_next_msg_: backend_sink_it_, backend_flush_, or the end.
Process ==
    /\ WorkerAt("process")
    /\ hand' = NoMsg
    /\ \/ /\ hand.type = "log"
          /\ file' = Append(file, hand)
          /\ workerPc' = "want"
       \/ /\ hand.type = "flush"
          /\ workerPc' = "want"
          /\ UNCHANGED file
       \/ /\ hand.type = "terminate"
          /\ workerPc' = "done"
          /\ UNCHANGED file
    /\ UNCHANGED <<pc, queue>>

WorkerStep == WorkerAcquire \/ Dequeue \/ Timeout \/ NotifyPop \/ Process

-------------------------------------------------------------------------------
(* main(), as far as it matters to the log, and the registry's destructor. *)

MainAt(from, to) ==
    /\ Runs("main")
    /\ pc["main"] = "idle"
    /\ mainPc = from
    /\ mainPc' = to
    /\ UNCHANGED <<calls, queue, workerVars, sigVars>>

\* SetRealTimeFlush, if the configuration asks for it.
SetRealTimeFlush ==
    /\ MainAt("config", "init")
    /\ \/ up' = up \union {"flusher"} /\ active' = TRUE
       \/ UNCHANGED <<up, active>>
    /\ UNCHANGED <<running, pc, destroyer>>

\* CoreDpdk::Init, and the decode thread.
StartDecode ==
    /\ MainAt("init", "capture")
    /\ up' = up \union {"decode"}
    /\ UNCHANGED <<running, active, pc, destroyer>>

\* main() returns: the configuration or the card cannot be used, or the
\* capture was stopped.
Return ==
    /\ \/ MainAt("config", "stopFlusher")
       \/ MainAt("init", "stopFlusher")
       \/ ~ running /\ MainAt("capture", "stopFlusher")
    /\ UNCHANGED <<up, running, active, pc, destroyer>>

\* ~periodic_worker: the flusher has its mutex during the whole callback.
StopFlusher ==
    /\ "flusher" \in up => pc["flusher"] = "idle"
    /\ MainAt("stopFlusher", "joinFlusher")
    /\ active' = FALSE
    /\ UNCHANGED <<up, running, pc, destroyer>>

JoinFlusher ==
    /\ "flusher" \notin up
    /\ MainAt("joinFlusher", "dropPool")
    /\ UNCHANGED <<up, running, active, pc, destroyer>>

\* ~shared_ptr of tp_.
DropPool ==
    /\ MainAt("dropPool", "teardown")
    /\ IF \E c \in Callers : Holding(c)
         THEN UNCHANGED <<pc, destroyer>>
         ELSE Goto("main", "want") /\ destroyer' = "main"
    /\ UNCHANGED <<up, running, active>>

Exit ==
    /\ MainAt("teardown", "exited")
    /\ UNCHANGED <<up, running, active, pc, destroyer>>

Main ==
    \/ SetRealTimeFlush \/ StartDecode \/ Return
    \/ StopFlusher \/ JoinFlusher \/ DropPool \/ Exit

\* The flusher finds active_ false, and returns.
FlusherEnds ==
    /\ Runs("flusher")
    /\ "flusher" \in up /\ ~ active
    /\ pc["flusher"] = "idle"
    /\ up' = up \ {"flusher"}
    /\ UNCHANGED <<mainPc, running, active, callVars, queue, workerVars, sigVars>>

-------------------------------------------------------------------------------
(* SigHandle(SIGINT): two messages, the stop, and one message more.        *)

Exists(t) ==
    CASE t = "main"   -> TRUE
      [] t = "worker" -> workerPc # "done"
      [] OTHER        -> t \in up

Deliver(s, t) ==
    /\ sigPc[s] = "idle"
    /\ Runs(t) /\ Exists(t)
    /\ sigPc' = [sigPc EXCEPT ![s] = "greet"]
    /\ sigHost' = [sigHost EXCEPT ![s] = t]
    /\ UNCHANGED <<lifeVars, callVars, queue, workerVars>>

HandlerAt(s, from, to) ==
    /\ Runs(s)
    /\ pc[s] = "idle"
    /\ sigPc[s] = from
    /\ sigPc' = [sigPc EXCEPT ![s] = to]
    /\ UNCHANGED <<mainPc, up, active, callVars, queue, workerVars, sigHost>>

\* coreDpdk->Stop(), for a capture that is registered.
Stop(s) ==
    /\ calls[s] = 2
    /\ HandlerAt(s, "greet", "total")
    /\ running' = (running /\ mainPc = "config")

Done(s) ==
    /\ calls[s] = 3
    /\ HandlerAt(s, "total", "done")
    /\ UNCHANGED running

Handler(s) == Stop(s) \/ Done(s)

-------------------------------------------------------------------------------
Next ==
    \/ Main
    \/ FlusherEnds
    \/ \E c \in Callers :
         Begin(c) \/ WakeUp(c) \/ CallStep(c)
    \/ WorkerStep
    \/ \E s \in Signals, t \in Hosts : Deliver(s, t)
    \/ \E s \in Signals : Handler(s)

Spec == Init /\ [][Next]_vars

\* What a caller does when it is not at rest, and when it has to leave.
Step(c) ==
    \/ CallStep(c)
    \/ c = "main" /\ Main
    \/ c = "flusher" /\ FlusherEnds
    \/ c \in Signals /\ (Begin(c) \/ Handler(c))

(***************************************************************************)
(* Every thread that can run does.  One that wants a mutex gets it if it   *)
(* is free again and again (a thread at "want" or "lost" has no other      *)
(* step): its rivals sleep in between, for a second or for ten.            *)
(***************************************************************************)
Fairness == SF_vars(WorkerStep) /\ \A c \in Callers : SF_vars(Step(c))

FairSpec == Spec /\ Fairness

-------------------------------------------------------------------------------
(* Correctness.                                                            *)

\* The messages that are accepted and not handled: one may be in the worker's hand.
Pending ==
    (IF workerPc \in {"notify", "process"} THEN <<hand>> ELSE <<>>) \o Q!Contents(queue)

(***************************************************************************)
(* Whatever threads and handlers log, wait and leave: the queue, the       *)
(* worker and its message in hand are a FIFO buffer that loses and repeats *)
(* nothing - flushes come after the texts accepted before them - and keeps *)
(* the order of each caller.                                               *)
(***************************************************************************)
Pipe == INSTANCE LogPipe WITH Room <- QueueSize + 1, pending <- Pending,
                              written <- file

ImplementsPipe == Pipe!Spec

(***************************************************************************)
(* The worker ends only when nothing is queued and no call can queue       *)
(* anything any more, though the pool may be destroyed by any caller.      *)
(***************************************************************************)
NothingAfterTerminate ==
    workerPc = "done" =>
      /\ Q!IsEmpty(queue)
      /\ \A c \in Callers : pc[c] \notin {"want", "locked", "waiting"}

(***************************************************************************)
(* If the destructor of the registry let the pool go last, every message   *)
(* that was accepted is written when the process ends.  (A decode thread   *)
(* or a handler that was in a call at that moment destroys the pool        *)
(* instead, and the process does not wait for it.)                         *)
(***************************************************************************)
WrittenAtExit ==
    mainPc = "exited" /\ destroyer = "main" =>
      Q!IsEmpty(queue) /\ hand = NoMsg

(***************************************************************************)
(* The handler is stuck: the thread below it has the mutex that it waits   *)
(* for, or is the worker that alone could make room in the queue.          *)
(***************************************************************************)
HostAt(s, place) ==
    IF sigHost[s] = "worker" THEN workerPc = place ELSE pc[sigHost[s]] = place

Trapped(s) ==
    /\ Handling(s)
    /\ \/ pc[s] = "want" /\ HostAt(s, "locked")
       \/ pc[s] \in {"want", "waiting"} /\ sigHost[s] = "worker" /\ Q!Full(queue)
       \/ pc[s] = "lost" /\ HostAt(s, "report")

AnyTrapped == \E s \in Signals : Trapped(s)

(***************************************************************************)
(* A SIGINT that comes once the capture is registered ends the process -   *)
(* the handler gets through the two messages it logs before it stops the   *)
(* capture, the flusher is joined, the queue drained, the worker joined -  *)
(* on any thread and with any queue, unless the handler is trapped.        *)
(***************************************************************************)
SigintEndsProcess ==
    \A s \in Signals :
      sigPc[s] = "greet" /\ mainPc # "config" ~> Ended \/ AnyTrapped
===============================================================================
