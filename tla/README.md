# Qcap in TLA+

Qcap captures packets with DPDK, passes them through an `rte_ring` to a decode
thread and writes what it decodes - single packets or flows ("sessions") - to
`log/packet.log`. This directory models the part of it that is its own logic:
the path of a packet between two threads, the life of the process with its
SIGINT handler, and the decoding of flows with its table, its expiry queue and
its records. It also models the way there - configuration and set-up - and two
layers that the program stands on: its log, from the call of a thread over
spdlog's queue and worker to the files on disk, and the kernel module in
`igb_uio/`, which gives DPDK its network card. TLC checks the models on small instances; TLAPS proves the
main invariants for every value of the constants.

Run the checks in this directory: `tlc -config X.cfg M` for the module and
configuration of each run below, `tlapm M.tla` for the eight modules with
theorems.

## The system

| Part | Code (below `src/src/`) | State | Operations |
|---|---|---|---|
| Capture thread (= main thread) | `core_dpdk.cpp`, `main.cpp` | `m_running`, `m_capSummary`, the burst in hand | poll the NIC, count, enqueue, count and free what did not fit |
| Ring and mbuf pool | DPDK, created in `CoreDpdk::Init` | packets on the ring, free mbufs | burst enqueue and dequeue, alloc and free |
| Decode thread | `decode.cpp` | `m_running`, the burst in hand | dequeue, recognise, parse, sweep, release; final dump |
| Flow table | `decode.cpp`, `flow.h` | `m_flowTable`: key -> context | open, reopen (SYN), count, finish (2 FINs), expire, dump all |
| Expiry queue | `flowCache.h` | `m_cacheMap`, `m_cacheList` | Insert, Update, Delete, Count, GetExpired |
| Keys | `flow.h`, `protocol.h`, `decode.cpp` | none | recognise layers, fill in the key, hash |
| SIGINT handler | `main.cpp` | `g_coreDpdks`, `g_decodes` | stop capture, read totals, stop decoding |
| Configuration | `config.h`, `config.conf` | `m_configMap` | parse, fill, get |
| Set-up | `main.cpp`, `core_dpdk.cpp` | queues, rings, decoders | open logs, read settings, `Init`, one decoder per queue |
| Logging | `log.cpp`, `log.h` | two asynchronous loggers | open, log, set level, flush every second |
| Log queue and worker | spdlog: `async_logger`, `thread_pool`, `mpmc_blocking_q`, `circular_q`, `periodic_worker`, `registry` | `q_`, the worker, the flusher, who owns the pool | post, wait for room, process, terminate, join |
| Log files | spdlog: `rotating_file_sink`, `file_helper` | a file and its predecessors, `current_size_` | write, rotate, flush, reopen |
| Thread wrapper | `thread.cpp` | identifier, created flag | create; join and detach are never called |
| Kernel module | `../igb_uio/` | what probe acquired, reference count, interrupt mode and handler, mask bits | load, probe, open, irqcontrol, interrupt, release, remove |
| Scripts and build | `*.sh`, `CMakeLists.txt` | none | |

How they interact. `main` creates `CoreDpdk`, registers it for the handler,
initialises DPDK, creates one `Decode` per receive queue (there is one), starts
its thread, registers it, and then *is* the capture thread. The two threads
share the ring, the mbuf pool and nothing else; each has an atomic `m_running`
that only the handler clears. The handler runs on whichever thread the kernel
interrupts, while the others go on: it reads the capture counters without
synchronisation. When capture stops, `main` stops the device, unmaps DPDK's
memory and returns, without joining the decode thread. A decode thread owns its
table, so flow decoding is sequential; what makes it hard is the order of
packets, sweeps, clock steps and the end of the loop, and that two structures
with different life cycles (`m_flowTable`, `m_flowCache`) are changed by
separate calls.

Every thread logs. Both loggers share one thread pool: a call takes a reference
to it, waits for the queue's mutex and for room, and puts its message on the
queue; one worker takes messages off and hands them to the rotating files. A
flusher thread posts a flush every second. SIGINT handlers log, too, on top of
whatever thread they interrupted. When `main` returns, the registry joins the
flusher and lets go of the pool; who lets go last destroys it, by posting a
message that ends the worker and joining it.

The kernel module runs below all this. Several processes may open the card's
UIO device; the first open enables interrupts, the last release disables them,
and an atomic count says which is which. `remove` calls the same release while
files may still be open, and the interrupt handler runs at any time.

What is hard here, and what correctness means:

* **Interleaving of capture, decode and handler.** No mbuf leaks, whatever is
  dropped; the pool never runs dry; the counters say what happened; the decode
  loop leaves at most one burst behind; the totals in the log are close to the
  truth and consistent; the path is a FIFO queue that loses only new packets.
* **Termination.** A stopped capture ends the process, and a packet on the ring is
  decoded - unless a handler waits in a call of the log for the thread below it,
  which is a fault of the design.
* **Long sequences of table operations.** Table and queue describe the same
  flows, and each stored iterator points to the node of its key; every packet is in one record, on the side of its sender; a flow is
  written exactly once; two FINs end it; both directions are one flow; nothing
  that timed out survives a sweep; no assert fails.
* **A log that blocks, ends and fails.** Nothing accepted is lost, repeated or
  reordered, up to the end of the process; the worker ends only when nothing can
  come any more; a handler that logs is caught only on a lock that the thread
  below it holds or on the worker. Rotation keeps the order of the files and
  throws away the oldest messages, whatever call of the file system fails and
  wherever the process ends, with one exception: when a rename failed twice, it
  truncates the current log, and the newest messages go while older ones stay.
* **A start that depends on a file.** What is in force is what the file says,
  through two conversions, but for promiscuous mode, which the card may refuse
  unnoticed; a failure has a cause outside the code or one of two known defects
  in it (defaults of the wrong type, rings of one name); a number that is
  negative, huge or none does no harm.
* **Partial failure and callers out of step, in the kernel.** A failed probe
  keeps nothing; a failed open neither keeps its reference nor confuses the
  next one; handlers are requested and freed in pairs; a card that is unbound in
  good order leaves no handler; interrupts that were switched off stay off, for
  a card and a kernel on which the driver can switch them off at all.
* **Boundaries.** `uint32_t` counters, the `uint8_t` FIN count, a ring or a pool
  at its limit.

The complete list of hazards, each at its line, is in `PROJECT.json`.

## The modules

| Module | What it is |
|---|---|
| `FlowKeys` | From a frame to a key and its hash (pure operators). A machine word is the set of its one bits, so `^` is the symmetric difference. |
| `FlowCache` | The methods of `FlowCache` as operators on cache values, so that one step of a caller may make several calls. |
| `FlowCacheSpec` | `FlowCache` on its own: any calls whose asserts hold. |
| `FlowTable` | Flow decoding by one decode thread; uses `FlowKeys` and `FlowCache`. |
| `SessionLog` | The abstract log of sessions that `FlowTable` implements. |
| `PacketPath` | Capture thread, ring, pool, decode thread, `main` and the handlers. |
| `Qcap` | `PacketPath` and `FlowTable` composed: from the card to `packet.log`. |
| `LossyQueue` | The abstract queue that `PacketPath` implements. |
| `StartUp` | `main` from its first line to the capture loop: logs, configuration, `Init`, decoders. |
| `CircularQ` | The methods of `circular_q` as operators on queue values. |
| `AsyncLog` | The callers of the log, its queue, worker and flusher, and the end of the process. |
| `LogPipe` | The abstract log that `AsyncLog` implements. |
| `RotatingFiles` | One rotating log on disk, with failing calls, crashes and restarts. |
| `IgbUio` | One card under the kernel module, from load to unload, and the files that open it. |
| `MCFlowTable`, `MCPacketPath`, `MCQcap`, `MCStartUp`, `MCIgbUio` | Instances for TLC. |
| `Lemmas`, `FlowTable_proofs` (with the theorems of `FlowCacheSpec`), `PacketPath_proofs`, `Qcap_proofs`, `StartUp_proofs`, `AsyncLog_proofs`, `RotatingFiles_proofs`, `IgbUio_proofs` | Lemmas and theorems. |

How they fit together: `StartUp` ends where `PacketPath` has its capture loop
(`PacketPath` keeps, of the set-up, what the handlers can interrupt).
`PacketPath.Parse` is one batch of `FlowTable`, and `Qcap` puts it there; a record of `FlowTable` is a
call in `AsyncLog`; the step in which `AsyncLog`'s worker hands a message on is
`Log` of `RotatingFiles`. `IgbUio` is independent of them: it decides whether
`Init` finds a card.

In each module some operators come right before the definition they resemble
and are used by no specification (`DeleteMapOnly` before `Delete`, for
example): each is that definition with a plausible bug, and replacing the
definition with it violates a property of a run. They are listed under
`mutants` in `PROJECT.json`.

### FlowKeys, FlowCache

Both `unordered_map`s hash with `GetHash` and compare with `GetHash`, so to
them two keys with one hash are one key. The models therefore use the hash as
the key, and `FlowContext.id` keeps the fields of the key that opened the flow.
A list iterator is modelled as the address of its node. `m_cacheMap` maps a key to
an address, every call finds its node by that address alone, and a new node gets
an address that no node of the list has (`FreeAddr`), possibly one that was freed
before. An iterator that is kept too long thus points to no node, or to one of
another key: `UpdateStale`, an `Update` without `iter->second = newIter`, violates
`Consistent`.

The capacity is a parameter; the program leaves it at 0, no limit, and so do the
run and `FlowTable`.

`FlowCacheSpec.DeleteExpired` is one turn of the caller's loop, `GetExpired`
then `Delete`. `Expired` has no caller and is not modelled.

### FlowTable

| Variable | Code |
|---|---|
| `pc` | `loop`: waiting in `DecodeProcess`; `parse`: in `ParseFlow`; `sweep`, `clear`: in `ClearExpiredFlow`, before and in its loop; `exited`: after `DumpAllFlow`; `aborted`: after a failed assert |
| `todo` | the rest of the `ProtoListSet` |
| `m_flowTable`, `m_flowCache` | the members of that name |
| `now`, `swept` | the clock, and the reading that `ClearExpiredFlow` took |
| `packetLog` | the records given to `LOG_STAT`, by key: a copy of the context and its end time |
| `handled`, `finNoted` | history, for `PacketsAccounted` and `UpdatesAreInTable` |

`InsertFlowTable` is one action with a disjunct per branch (`OpenFlow`,
`ReopenFlow`, `CountInFlow`, `FinishFlow`); each includes the calls of
`InsertFlow`, `DumpFlow` and `EraseFlow` that the branch makes, in their order.
`ClearExpiredFlow` reads the clock, `ClearOldest` is one turn of its loop,
`ClearEnds` its exit. `AssertFails` is enabled exactly when an assert on the
path that the code would take is false; the build type is Debug, so it ends the
process. The clock moves between steps, and with `ClockMayStepBack` in both
directions, since the code reads `system_clock`. `DumpAllFlow` is possible
whenever the thread waits: the ring may then be empty and `m_running` false.
The model of the FIN bookkeeping keeps what line 281-282 does after
`EraseFlow`: those writes reach no flow of the table.

### PacketPath

| Variable | Code |
|---|---|
| `mainPc` | `main`, `CoreDpdk::Init`, `PollingCapture`, `UnInit` |
| `decPc` | `DecodeProcess`; `running` and `empty` are the two operands of its loop condition |
| `sigPc[s]`, `sigHost[s]` | the SIGINT `s`: where `SigHandle` and `QcapExit` are (`enter`, `logTotals`: at their calls of the log), and which thread it interrupts |
| `logStuck` | whether a handler is caught in a call of the log |
| `capRegistered`, `decRegistered` | `g_coreDpdks`, `g_decodes` |
| `capRunning`, `decRunning` | the two `m_running` |
| `ring`, `burst`, `decBurst`, `poolFree` | the ring, the arrays `mbufs` of both threads, the pool |
| `capPktCount`, `dropPktCount`, `summary` | `m_capSummary`, and the `CapSummary` of each handler |
| `ealUp` | whether ring and mbufs are mapped |
| `received`, `decoded` | history |

A step is what happens between two accesses to shared state. A handler stops
the thread it interrupts until it is done, and that thread takes no second
SIGINT meanwhile (as `signal` of glibc arranges); other threads may take one.
The handler logs (`main.cpp:39`, `54`, `57`), and `AsyncLog` shows when such a call never
returns: the thread below it holds a mutex of the log, or is the log's worker
while the queue is full. `PacketPath` keeps of this what matters to its threads:
a handler at a call of the log may be caught (`CaughtInLog`) if it interrupted
`main` or the decode thread where they log themselves, or one of the log's own
threads (`MayHoldLog`). With a lock held for ever, `main`, the decode thread and the
other handlers stop at their own calls of the log, if not before. That is more
than really happens - a full queue is enough to be caught on the worker, but the
model does not count messages - so the safety properties hold of more behaviours,
and the liveness properties name `logStuck` as their only exception.
`pthread_create` may fail, `Init` may fail. When DPDK's memory is unmapped, the
decode thread stops at its next access: the fault repeats, because the SIGSEGV
handler returns, until `main` returns. `Parse` stands for decoding a batch in
either mode; `FlowTable` opens that step up. `main` stops the device and cleans
up in two steps.

`rte_eth_rx_burst`, the ring operations and `rte_pktmbuf_free` are modelled
from their use: a receive takes as many packets as arrived, at most `Burst`,
and one mbuf from the pool for each; an enqueue takes as many as fit.

### Qcap

`Qcap` has the variables of both modules, and `frame`, which says what each of
`PacketPath`'s numbered packets is for `FlowTable`. `DequeueBatch`, `EndBatch` and
`DumpFlows` are steps of both; `ParsePacket` and `SweepFlows` are the steps of
`FlowTable` that `PacketPath.Parse` stands for, taken while the decode thread is
in its batch and no handler has interrupted it; a record is a call of the log, so none
is written once the log is stuck (`RecordsAccepted`); `PathOnly` are the other steps of
`PacketPath`. `ParsePacket` needs the mbufs to be mapped. Its packets do not
collide, so no assertion fails and `AssertFails` is left out; `NoAssertLeftOut`
proves that this leaves no behaviour out.

`main` does not wait for the decode thread, so the process may end with flows in
the table. `PacketsTraced` says where each packet then is, and that a decode
thread that came to its end has written everything.

### StartUp

| Variable | Code |
|---|---|
| `pc` | the place in `main` and in the calls it makes; `capture` is reached, `ended` is a return of `main`, `aborted` an exception, `crashed` and `looping` a fault |
| `file`, `at`, `data` | `config.conf`, the lines read, `configData` |
| `todo`, `config` | the walk of `FillConfig` over the hash map, `m_configMap` |
| `logs`, `level`, `flushOn`, `flusher` | the two loggers, their level and flush level, `flush_every` |
| `rxQueNumber`, `rings`, `promiscuous` | `m_rxQueNumber`, `m_pktRings`, the mode of the card |
| `decoders` | `g_decodes`, with the constructor's arguments |
| `failed` | history: a call to DPDK, the kernel or the system failed for an outside cause |

One line of the file is one step, as is one key of `FillConfig` and one call of
`Init`. The map's defaults keep the types of their literals - an enum, a
`long long`, a `char` pointer - so reading a default as `uint64_t` or as a string
throws. `FillConfig` walks a hash map, whose order is any order, and stops at the
first key it does not know: the rest keeps its defaults, and its tip is never
logged. A level by an unknown name is ignored. A log that cannot be opened leaves
a null logger; when it is the second, `SetLogLevel` faults, and the SIGSEGV
handler returns to the fault again and again (`looping`). Every ring of `Init`
gets the same name, so with two queues the second ring is refused and `Init`
ends; `failed` does not count that as an outside cause. The card may refuse
promiscuous mode, and `Init` drops that result: `EnablePromiscuous` leaves
`promiscuous` as the file asks or off.

### AsyncLog

| Variable | Code |
|---|---|
| `mainPc` | `main`, then the destructor of the registry: the flusher stopped and joined, the pool let go |
| `up`, `running`, `active` | the threads there are, `m_running` of the capture, `active_` of the flusher |
| `pc[c]`, `calls` | where a thread or handler is in a call of a logger, and its number; `release` is the end of the call, `join` the destructor of the pool |
| `destroyer` | who held the last reference |
| `queue` | `q_`, its condition variables being the callers that wait |
| `workerPc`, `hand`, `file` | `worker_loop_`, the message in hand; history of what was written |
| `sigPc`, `sigHost` | the handler, and the thread it interrupted |

A call locks the `weak_ptr` to the pool (`want`), takes the mutex (`locked`),
waits while the queue is full (`waiting`), adds its message and gives up its
reference (`release`). A call after the pool has gone reports an error (`lost`,
then `report` under its own mutex). A caller that held the last reference runs
the destructor. If that caller is `main`, the process waits for the worker; if
it is the decode thread or a handler, `main` returns from the registry and the
process ends meanwhile, which is the condition in `WrittenAtExit`. A handler on
the worker that held the last reference would join its own thread, which aborts.

A handler is stuck for ever (`Trapped`) if the thread below it holds the mutex
that it waits for, or is the worker and the queue is full. That is a fault of the
design - the handler logs - and `SigintEndsProcess` says that nothing else keeps
a SIGINT from ending the process. (The third disjunct of `Trapped` needs two
signals and does not occur in the run.)

### RotatingFiles

| Variable | Code |
|---|---|
| `exists`, `files` | the file names on disk by index, and the messages in them |
| `buffer` | what the C library has not written yet |
| `isOpen`, `currentSize`, `newSize` | `fd_`, `current_size_`, the local `new_size` |
| `flushOn` | whether `SetLevel` made each message flush |
| `pc`, `i`, `retried` | the place in `sink_it_` and `rotate_`, its loop variable, the one retry of `rename_file_` |
| `length`, `lost`, `faults`, `torn` | history: messages and their lengths, those dropped before they reached a file, what failed, whether a write failed in part |
| `truncated` | history: the messages of the current log that were truncated |

Each call of the file system is a step that may fail, and the process may end
(`Crash`, with the buffer lost) or be stopped between any two and start again on
the files it finds. An exception drops the message in hand. `RotateEnds` and
`GiveUp` reopen with truncation. In `RotateEnds` the log was moved away before; in
`GiveUp`, after a rename that failed twice, it may still be there under its name,
and its messages, the newest on disk, go into `truncated` although older files
stay.

### IgbUio

| Variable | Code |
|---|---|
| `preferred` | `igbuio_intr_mode_preferred`; `unloaded` while the module is not there |
| `devPc` | where `igbuio_pci_probe` or `igbuio_pci_remove` is; the three `fail...` places are probe's labels |
| `held` | the `rte_uio_pci_dev`, the enabled PCI device, the sysfs group and the UIO device, as far as probe has them |
| `bar`, `iom`, `iop`, `mapped` | the loop of `igbuio_setup_bars`, and how many `internal_addr` are mapped |
| `pc[c]` | where a file is in `igbuio_pci_open` or `igbuio_pci_release`; `pc[Remover]` is the release that remove calls |
| `refcnt`, `mode`, `irq` | `udev->refcnt`, `udev->mode`, whether `udev->info.irq` is not 0 |
| `vectors`, `handler`, `master` | what the PCI core keeps: message vectors, the installed handler, bus mastering |
| `intxDisabled`, `vecMasked` | the mask bits of the card |
| `silenced`, `orderly` | history: `irqcontrol` or the handler switched the open device's interrupts off, for `StaysSilent`; remove came in good order, for `OrderlyRemoveQuiesces` |

A step is one call into the PCI or UIO core, which may fail, or one atomic
operation on the count. `EnableInterrupts` is the `switch` with its fallthroughs:
it ends in any mode that is not before the preferred one, that the card has and
that the vectors which are enabled already allow; `RequestIrq` is the
`request_irq` that follows. An open whose `request_irq` fails leaves vectors and
`info.irq` as they are, and the next open finds them so.

What is assumed of the kernel, from how the driver uses it: the UIO core calls
the driver only while the device is registered; `uio_unregister_device` waits
for calls under way, and a file closed later does not reach the driver
(`CloseStale`); the variable `uioLocks`, chosen in `Init` and never changed, says
whether the core lets one file at a time into open and release, as newer kernels
do. The `.ko` beside the source was built for
kernel 3.10, so the branches without `pci_alloc_irq_vectors` and
`pci_msi_mask_irq` are the ones modelled; `NativeIntx` is false for the kernels
before 3.3 that take `pci_check_and_mask_intx` from `compat.h`. The memory of
one binding is not followed once a handler has been left behind with it: the
card is not bound again (`Probe` asks for `~ handler`).

## The runs

| Run | Module, configuration | What it asks |
|---|---|---|
| cache | `FlowCacheSpec` | Do map and list stay in step under any calls, and each stored iterator with its node (`Consistent`); can a node that was not refreshed be overtaken (`NeverOvertaken`)? |
| flow_table | `MCFlowTable`, `MCFlowTable.cfg` | One TCP connection and a UDP flow, with wrapping counters: table and queue (`TableMatchesCache`, `NoExpiredFlowAfterSweep`), counting (`PacketsAccounted`), what is one flow (`ConversationNotSplit`, `TwoFinsClose`), the records (`RecordsOrdered`, and the refinement of `SessionLog`, `ImplementsSessions`) |
| flow_assert, flow_erased | `MCFlowTable` | Two violations, see *Findings* |
| packet_path | `MCPacketPath`, `MCPacketPath.cfg` | All safety properties of the path with two SIGINTs, and the refinement of `LossyQueue` |
| qcap | `MCQcap`, `MCQcap.cfg` | Is each packet counted as dropped, on its way, in an open flow or in one record (`PacketsTraced`); do the totals that a handler logs agree with the records (`SummaryMatchesRecords`)? |
| shutdown | `MCPacketPath`, `MCShutdown.cfg` | Under fairness: does a stopped capture end the process (`StopLeadsToExit`), and is a packet on the ring decoded (`RingIsDrained`), unless a handler is caught in a call of the log? |
| startup | `MCStartUp`, `MCStartUp.cfg` | Do flusher, logs and decoders do what the file says, and is the card never promiscuous against it (`SettingsFollowFile`); has every failure an outside cause or one of two known defects (`FailsWithReason`); is the timeout in range (`TimeoutInRange`)? |
| async_log | `AsyncLog`, `MCAsyncLog.cfg` | Is the log a FIFO pipe (`ImplementsPipe`); does the worker end last (`NothingAfterTerminate`) and with everything written (`WrittenAtExit`); does a SIGINT end the process (`SigintEndsProcess`)? |
| log_files | `RotatingFiles`, `MCRotatingFiles.cfg` | Does rotation keep the order of the files and the newest messages, but for a log truncated after two failed renames (`KeepsNewest`), and without faults as many as it should (`KeepsEnough`); does no file outgrow its limit (`SizeLimit`)? |
| log_closed | `RotatingFiles`, `MCLogClosed.cfg` | A violation of `WritesHaveFile`, see *Findings* |
| uio | `MCIgbUio`, `MCIgbUio.cfg` | With and without the lock of the UIO core: `RefcntIsOpeners`, `OneEnabler`, `NothingKept`; with it: `OpenMeansEnabled`, `IrqPaired`, `OrderlyRemoveQuiesces`, and whether interrupts that were switched off stay off while other files open, close and fail to open (`StaysSilent`) |

Bounds, and why they are enough:

* Cache: four keys, so addresses are freed and used again around nodes that
  stay; three times, so expiry order and insertion order differ; capacity 0, as
  in the program.
* Flow table: at most four packets in batches of at most two. Four packets open
  a flow, send both FINs and close it with one more, or reopen it by a SYN in
  between; two batches allow sweeps in between. `UINT32` is 3, so the packet
  counters wrap. The timeout is 1 and the clock runs to 3: a flow can expire, be
  opened again and expire again. The clock of the runs never steps back, as two
  of the properties need it; the theorems about the others hold for a clock that
  does. Frames are chosen so that each branch of the handler happens, and that a
  packet of other hosts meets a flow, which may stop the process at an assert.
* Packet path: bursts of 2 and a ring of 3, so a burst fits whole, in part and
  not at all; six packets fill ring and both bursts and overflow once more.
  `UINT32` is 5, so the counters wrap; `SummaryConsistent` compares two readings
  and is stated for fewer than `UINT32` packets. Eight buffers are the minimum
  that the assumption of the module allows. Two SIGINTs are the smallest number
  that lets one handler interrupt a thread while another is at work; they are
  symmetric. `shutdown` has one-packet bursts and two packets, because liveness
  checking is expensive and neither property depends on sizes.
* Composition: bursts and a ring of two packets and four packets in all, so the
  second burst may be lost whole or in part; two traffics, one with a connection
  that is closed and one with a connection that is opened again and a datagram
  between; one SIGINT, a clock of two instants and a timeout of one.
* Start: about 660 files, which are the shipped `config.conf` and all ways to leave
  a line out, to replace one, to put one before and to put one or two behind it,
  among them unknown keys, doubled keys, a line without `=`, and numbers that are
  small, too large for 32 and for 64 bits (scaled to 4 and 6 bits), negative and
  none. Cards with no, one and two queues; the constructor asks for one.
* Log queue: two places, so that it fills up while two threads and a handler are
  in a call; one call of each thread while the process runs, besides those of
  `main` and of the handler.
* Log files: two old files and messages of length 1, 2 and 4 with a limit of 3, so
  that a file takes one to three messages, and a message may be longer than the
  limit; five messages fill every file and rotate one out; three faults are a
  rename that fails twice and a reopening that fails after it.
* Kernel module: three files, so one may be leaving, one failing to open and one
  opening at the same time; they are symmetric. Three BARs with two memory slots
  and one I/O slot, so each kind of slot may run out. A card with MSI-X and
  legacy interrupts, so that an open may end in another mode than the one before
  it. Nothing else is unbounded: a run binds and unbinds for ever.

`CHECK_DEADLOCK FALSE` is set where the system really stops: a decode thread
that has exited or aborted, a process that has ended, a log whose messages are
used up.

Fairness. In `shutdown`: weak fairness of the capture thread, of the decode
thread and of each handler that has started. These are threads of an operating
system that schedules every runnable thread; nothing is assumed of the NIC (it
may stay silent for ever) nor of SIGINTs (they may never come), and no fairness
is assumed between the choices within a thread. It is assumed of `main` and the
decode thread only while no handler is caught in the log, since they may then wait
for the lock, and a handler may always be caught where `MayHoldLog` allows it. In `async_log`: strong fairness
of the worker and of each caller. A thread that waits for the mutex finds it
taken and free in turn; it gets it, because its rivals sleep in between, the
flusher for a second and the worker, when the queue is empty, for ten. For the same reason the flusher's calls
are bounded: one period of it is long compared to a call.

## Findings

* `flow_assert`: a flow is found by the XOR of the fields of its key, so a
  packet of two other hosts with the same XOR meets it, and the assertion that
  the sender is one of the flow's two addresses (`decode.cpp:262`) fails.
  `AssertionsNeverFail` proves that this is the only way an assertion can fail.
  (Where the assertion holds, the packet is counted in another flow: two
  connections of the same hosts with swapped ports are one, though the comment
  at `decode.cpp:188` speaks of the five-tuple.)
* `flow_erased`: the packet after the second FIN erases the flow and then
  updates the FIN fields through the old pointer (`decode.cpp:276-282`), though
  the handler asserts that the flow it updates is in the table.
* `log_closed`: when the log cannot be reopened after a rotation, `fd_` is null
  and `current_size_` unchanged. The next message that is short enough is not
  measured, and `write` hands the null `fd_` to `fwrite`
  (`file_helper-inl.h:116`), where `size` throws; `file_helper.h:14` promises an
  exception on errors.

Four more disagreements have no run of their own; a passing property names each as
its exception.

* `SettingsFollowFile`: `Init` checks every call but `rte_eth_promiscuous_enable`
  (`core_dpdk.cpp:105`). When the card refuses, the program captures without
  promiscuous mode although the file asks for it (`config.conf:6`). The converse, a
  card that is promiscuous against the file, cannot happen.
* `FailsWithReason`: every ring is created under one name (`core_dpdk.cpp:88`), so with
  two receive queues `Init` fails, though `readme.md:15-17` says that capture and
  task threads can be added, each queue with a thread of its own. The constructor
  asks for one queue.
* `StaysSilent`: on a card whose MSI vectors have no mask bit `igbuio_msi_mask_irq` does
  nothing (`igb_uio.c:122`), and `irqcontrol` returns success although the interrupt
  it was to switch off stays on; the comment at `igb_uio.c:159-170` knows of no such
  case. With `Supported = {"MSI"}` and `MsiMaskBit = FALSE` TLC finds `VectorsStayOff`
  violated.
* `StaysSilent`, too: the version of `pci_check_and_mask_intx` in `compat.h`, for
  kernels before 3.3, tests the status register where it should test whether to mask
  (`compat.h:110`), so it clears the bit whenever an interrupt is pending: the
  handler enables an interrupt that `irqcontrol` had switched off, where the comment
  at `igb_uio.c:203-204` has it disable one. With `Supported = {"LEGACY"}` and
  `NativeIntx = FALSE` TLC finds `LegacyStaysOff` violated.

`OffMeansSilent` proves that in no other way an interrupt is on that was switched off,
on a kernel with the lock of the UIO core.

The models also show, without contradicting a document: a handler that logs may
wait for the thread it interrupted; a setting that the file does not name aborts
the start, unless it is a switch, and an unknown key may silently leave the
switches at their defaults, depending on the order of a hash map; a record is a
warning, so a log level of error or critical silences `packet.log`, too; a rotation
whose rename of an old file fails twice truncates the current log and keeps the
old files. With two open files, or
an open that overtakes remove, the module leaves its handler behind with a freed
device; without a lock in the UIO core a release that reached zero frees the
handler that a new first open has just requested; expiry relies on a
monotone clock although `system_clock` may be set back; flows expire only when
packets arrive; the decode loop does not quite drain the ring; a SIGINT that
another thread takes before `g_coreDpdks` is filled can later stop decoding and
not capture (the exception `NoneEarly` names).

## What is proved

`FlowTable_proofs`, for all sets of frames, timeouts, counter widths and run
lengths that satisfy `FlowTableAssumption` (frames are frames, the timeout and
the width are positive):

| Theorem | Statement |
|---|---|
| `TypeCorrect` | `Spec => []TypeOK` |
| `TableAndQueueAgree` | `Spec => []TableMatchesCache` |
| `OneFlowPerConversation` | `Spec => []ConversationNotSplit` |
| `FlowsEndAfterTwoFins` | `Spec => []TwoFinsClose` |
| `EveryPacketAccounted` | `Spec => []PacketsAccounted` |
| `FlowTableImplementsSessionLog` | `Spec => ImplementsSessions` |
| `SweepLeavesNoneExpired` | `Spec => []NoExpiredFlowAfterSweep` if the clock does not step back |
| `RecordsFollowOneAnother` | `Spec => []RecordsOrdered` if the clock does not step back |
| `AssertionsNeverFail` | `Spec => []NoAbort` if packets with one hash come from the same two hosts |

The inductive invariant `IInv` says more than the properties: each flow sits at
the hash of its own key, which is that of a packet (`GoodFlow`); while the
thread runs, the queue has one node per flow, with the flow's expiry time
(`GoodQueue`); with a monotone clock the queue is sorted and no node expires
later than a flow opened now would (`GoodOrder`). `TypeOK` alone is not
inductive: without `GoodQueue` the sweep could look up a flow that is not there.
What a call does to the queue's set of nodes is the subject of
`Lemmas` (`InsertProperties`, `DeleteProperties`, `IterProperties`);
the steps of the handler are then combinations of "add a flow and its node" and
"erase a flow and its node", and a SYN is the second followed by the first.
`RecordsOrdered` needs `TimesOrdered`: the records of a key end before its open
flow begins, and nothing is later than the clock, so a flow that
opens now begins after all of them.
`PacketsAccounted` is inductive given `IInv`: a packet adds one to one counter,
modulo its width, of the flow it opens or meets; a flow that is dumped moves its
counters from the table to the end of the records (`SumGrows`), and a SYN does
both. That a packet is counted on one side only needs the assertion that the
sender is one of the flow's addresses, which is the guard of the step.

The same module proves of `FlowCacheSpec`, for any keys, capacity and times:

| Theorem | Statement |
|---|---|
| `CacheStaysConsistent` | `CacheSpec => []Consistent` |
| `OnlyUpdateOvertakes` | `CacheSpec => NeverOvertaken` |
| `TableUsesCache` | `Spec /\ []IsQueue => CacheSpec`: the decoder is a caller of its queue |
| `FlowsQueueInTurn` | `Spec /\ []IsQueue => NeverOvertaken`: so its flows are not overtaken either |

The invariant `CInv` is `Consistent` with the cache's type; each address in the
map is that of one node, which has the key, and no two nodes have one address.
`FreeAddrProperties` shows that among one address more than nodes one is free.
`Update` is shown to be `Delete` followed by `Insert`,
so that each call is one of "take a key out, the others keep their order" and
"put a key at the end". `TableUsesCache` closes the gap to `FlowTable`: for the
keys, the capacity and the times that the decoder uses (`CallerOf`), `IsQueue` says
that `cache` is the decoder's `m_flowCache`; `StepIsCall` shows that `IInv` implies the asserts of each call that `ParseFlow` and the
sweep make.

`PacketPath_proofs`, for all sizes and any number of SIGINTs under
`PacketPathAssumption` (a burst fits into the ring, and the pool covers the
receive queue, the ring and two bursts: 4095 >= 128 + 1023 + 2 * 128):

| Theorem | Statement |
|---|---|
| `TypeCorrect` | `Spec => []TypeOK` (in particular the ring never overflows) |
| `MbufsNeverLeak` | `Spec => []MbufsConserved` |
| `RxAlwaysSupplied` | `Spec => []RxNeverStarved` |
| `CaptureAlwaysAccounted` | `Spec => []CaptureAccounted` |
| `StrandsAtMostOneBurst` | `Spec => []AtMostOneBurstStranded` |
| `SummaryNearlyComplete` | `Spec => []SummaryWithinOneBurst` |
| `SummaryNeverInverted` | `Spec => []SummaryConsistent` |
| `SummaryForetells` | `Spec => []SummaryMatchesDecoded`: captured minus dropped is what is decoded in the end, up to one burst |
| `PathImplementsQueue` | `Spec => ImplementsQueue` |

The first invariant adds to `TypeOK` and `MbufsConserved` where mbufs may be
(`Places`): each array of mbufs is empty except between the steps that fill and
empty it. The theorems after `CaptureAlwaysAccounted` have invariants of their
own. `StrandsAtMostOneBurst`: decoding is stopped only after capture was, and the
decode thread saw an empty ring after that (`StopOrder`). `SummaryNearlyComplete`:
capture was stopped before a total is read, so `main` counts at most the burst in
its hand afterwards (`SummaryGap`). `SummaryNeverInverted`: a burst is dropped only
when it does not fit into a ring that is no smaller, so the packets about to be
dropped are fewer than the counted ones that are kept, and the drop counter, read
second, cannot get ahead of the other (`ReadsOrdered`). `SummaryForetells`: once the
capture flag is down, what `main` may still enqueue or drop (`Rest`) and what it leaves
behind a decode thread that has ended (`Stranded`) are parts of one burst, and that
burst is also all that the two totals can miss (`LastBurst`). `PathImplementsQueue`
takes the packets in hand, on the ring and in the burst of `main` for the abstract
queue; the step in which `main` gives up what does not fit is `LossyQueue`'s loss
of its newest packets.

`Qcap_proofs`, for any traffic of finitely many kinds of frames under
`QcapAssumption` (the assumptions of the two modules, and no packets of other
hosts whose keys collide):

| Theorem | Statement |
|---|---|
| `Composition` | `Spec => P!Spec /\ T!Spec`: the whole implements `PacketPath` and `FlowTable` |
| `BothInvariants` | `Spec => [](P!CountInv /\ T!IInv)` |
| `AlwaysLinked` | `Spec => []Link` |
| `EveryPacketTraced` | `Spec => []PacketsTraced` |
| `SummaryTellsTheRecords` | `Spec => []SummaryMatchesRecords` |
| `PromisesKept` | `Spec => P!ImplementsQueue /\ T!ImplementsSessions /\ T!NeverOvertaken` |
| `NoAssertLeftOut` | `Spec => [](pc \in {"parse", "clear"} => Table!AssertionsHold)` |

A step of `Qcap` is a step or a stutter of each module, so every behaviour has the
invariants proved of the two: `P` and `T` are their theorem modules, instantiated as
`Qcap` instantiates the modules, and `SamePath` and `SameTable` show that the
definitions of both instances mean the same. What remains is `Link`: the decode thread
is in a batch in both modules or in neither, and the packets in the records, in open
flows and still in the batch are as many as those that `PacketPath` counts as decoded or being
decoded. `Link` is inductive only with the exact counters of `CountInv`: a
flow's `uint32_t` counter does not wrap, since there are no more packets in flows than
were received, and that is known from the capture's counters. On the other side it takes
`ParsingCounts` and `OthersKeepAll` of `FlowTable_proofs` (a packet parsed adds one to the sum
over all records and flows, sweeping and dumping move packets without changing it).
`PacketsTraced` is then the sum of both sides; `SummaryMatchesRecords` is
`SummaryForetells` for a thread that has emptied its table. `PromisesKept` and
`NoAssertLeftOut` follow from `Composition` and the theorems of the parts.

`StartUp_proofs`, for any set of files, any texts and conversion of them, any
widths and any card under `StartUpAssumption` (files consist of lines; a second
is not more than the default timeout; at most as many queues as cores):

| Theorem | Statement |
|---|---|
| `TypeCorrect` | `Spec => []TypeOK` |
| `NoFailureWithoutReason` | `Spec => []FailsWithReason` |
| `FileIsInForce` | `Spec => []SettingsFollowFile` |
| `TimeoutsAreInRange` | `Spec => []TimeoutInRange` |

The inductive invariant follows the start stage by stage: `ReadInv` (what `data`
holds is the last line of each key among the lines read), `FillInv` (what has
been visited is converted, the rest is the default), `LogInv` (what the loggers
have is what `config` says), `CardInv` (one ring per queue set up so far) and
`DecodeInv` (decoders are made of the values in `config`). `NoFailureWithoutReason`
says that the two defects named in `FailsWithReason` - defaults of the wrong type,
rings of one name - are the only ways in which a start fails without an outside
cause; `FileIsInForce` says of promiscuous mode only that the card is not in it
against the file, since the converse is false (see *Findings*).

`AsyncLog_proofs`, for any queue size, any number of signals and calls under
`AsyncLogAssumption` (the queue has a place; signals are not threads):

| Theorem | Statement |
|---|---|
| `TypeCorrect` | `Spec => []TypeOK` |
| `WorkerLeavesNothing` | `Spec => []NothingAfterTerminate` |
| `RegistryDrainsLog` | `Spec => []WrittenAtExit` |
| `LogImplementsPipe` | `Spec => ImplementsPipe` |

The invariant `DrainInv` says that there is at most one destroyer, and only when
nobody holds the pool (`OneDestroyer`); that the terminate message is the last in
the queue and comes from it (`TerminateLast`); and when the worker's hand is
empty (`HandEmpty`). The refinement takes the message in the worker's hand,
followed by the contents of the ring, for what `LogPipe` has accepted and not
handled - texts and orders to flush or to end alike. Its lemmas say what
`push_back` and `pop_front` do to the contents of a ring that wraps
(`PushAppends`, `PopTakesFirst`); its invariant, that a text on its way or in
the file is no newer than its caller's last call, and older than one that the
caller has yet to post (`StampInv`).

`RotatingFiles_proofs`, for any number of files and messages, any sizes and any
failures and crashes under `RotatingFilesAssumption`:

| Theorem | Statement |
|---|---|
| `NewestAreKept` | `Spec => []KeepsNewest` |
| `FilesStayInLimit` | `Spec => []SizeLimit` |
| `EnoughIsKept` | `Spec => []KeepsEnough` |
| `ClosedOnlyByFault` | `Spec => [](faults = 0 => WritesHaveFile)`: the scope of the finding `log_closed` |

`KeepsNewest` is not inductive: within `rotate_` the invariant `FInv` has to say
which file is missing (`Absent`), that a message in hand is newer than all files
(`HandNewest`), that what was rotated out is older than what is left, unless it
was truncated (`OldestOut`), that each loss is on account of a fault, and that
a log is truncated only after two of them (`Blamed`).
`SizeLimit` needs what `current_size_` and the local `new_size` are at each place
as long as no write failed in part (`SizesKnown`). `KeepsEnough` needs `Gapless`:
without faults the files there are have the first indexes, but for the gap that
a rotation under way moves down, none of them is empty, and once a message was
rotated out all are there.

`IgbUio_proofs`, for any card and any number of files, with or without the lock
of the UIO core, under `IgbUioAssumption` (the remover is not a file, files are
finitely many):

| Theorem | Statement |
|---|---|
| `TypeCorrect` | `Spec => []TypeOK` (in particular no slot beyond the last is filled) |
| `CountIsExact` | `Spec => []RefcntIsOpeners` |
| `EnablersExclude` | `Spec => []OneEnabler` |
| `ProbeUnwinds` | `Spec => []NothingKept` |

The invariant adds to these what probe and remove hold at each place
(`ResourcesAt`), that no file is in the driver before there is a UIO device, and
that the count is 0 when the device is registered. `OneEnabler` then follows
from the count: a file that finds the count at 0 finds no holder.

The second half of the module is about the kernels with that lock (the properties have
`uioLocks` as a condition):

| Theorem | Statement |
|---|---|
| `OpenFilesHaveInterrupts` | `Spec => []OpenMeansEnabled` |
| `RequestsAndFreesPair` | `Spec => []IrqPaired` |
| `OrderlyRemoveFreesHandler` | `Spec => []OrderlyRemoveQuiesces` |
| `OffMeansSilent` | `Spec => []StaysSilent` |

The invariant has one part for a bound card (`Served`: handler, `info.irq` and
vectors by the place of the one file in the driver) and one for a card that
remove met in good order (`Leaving`: the only handler left is the one that the
release under way will free). `OffMeansSilent` rests on them: what was switched off
is masked in the mode of that time, so it must be shown that no open changes the
mode meanwhile. `Quiet` says that a silenced card has its handler; a first open finds none
(`Served`), and only a first open sets up a mode. Without the lock this
argument fails.

Most type invariants are proved and not checked again by a run.

`Lemmas` holds what these proofs share. Sums over sets and sequences are folds, which
the community modules define by a recursive function. The library's induction
theorems take an operator, which the provers cannot instantiate, but its theorem
that the strict subsets of a finite set are well-founded is about sets:
`NatInductionOnSet` and `FiniteSetInduction` follow from it, each stated about
the set of those for which a fact holds. With them the folds are shown to exist
(`SumExists`, `SumFunctionExists`) and to be sums: any element may be taken first
(`SumTakesAny`), two disjoint sets add up (`SumOfUnion`), a longer sequence adds
its last element (`SumGrows`), and sums add up term by term (`SumOfSums`). `ModAdd` is the arithmetic of counters that wrap.

Model-checked only: liveness, that is `StopLeadsToExit`, `RingIsDrained` and
`SigintEndsProcess` (out of the prover's reach). Every other property of a passing
run is a theorem.

## What is not modelled

Text: the formatting of packets, records and log lines. In the vendored code this
is most of what there is - fmt and spdlog's pattern formatter, two thirds of all
lines of the repository - and no property is about characters. spdlog's other
sinks, the console, its backtracer, the synchronous loggers, the bounded
non-blocking queue calls and the loading of levels from the environment are not
used by the program (the console sink is, and keeps nothing). `help.h`, thread
names, core binding: no property is about them. The SIGSEGV and SIGABRT branches
of `SigHandle` end in the same `QcapExit`, at a time when the process is about to
end. `m_SYNCount` is written and never read. DPDK and the kernel are external.
The scripts are run by hand. Of the kernel module, the sysfs attribute `max_vfs`
only passes its argument to the PCI core, and the DMA mapping at the end of probe
is undone at once.

## The plan

Done: `FlowKeys`, `FlowCache`, `FlowCacheSpec`, `FlowTable`, `PacketPath`,
`LossyQueue`, `Qcap`, `IgbUio`, `StartUp` (which has the place of the planned `Config`
and `CoreInit`), `CircularQ`, `AsyncLog`, `LogPipe`, `SessionLog`, `RotatingFiles` (the planned
`Logger`), and the theorems above. Next, in this order:

1. The capture and the log in one module: the decode thread as a caller of
   `AsyncLog`, so that "each packet is in one record" reaches the file.
