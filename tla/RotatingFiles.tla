----------------------------- MODULE RotatingFiles -----------------------------
(***************************************************************************)
(* One log on disk: a rotating_file_sink over a file_helper, called by the *)
(* worker of the logger's thread pool, with calls of the file system that  *)
(* may fail and a process that may end between any two of them and start   *)
(* again on the files it left.                                             *)
(*                                                                         *)
(* A message is its number; a file is the set of messages in it, a message *)
(* cut short by a failing write included.  An exception is caught by the   *)
(* logger, which drops the message in hand.  The FILE of the C library     *)
(* keeps written bytes in a buffer until fflush or fclose, or until it is  *)
(* full.                                                                   *)
(***************************************************************************)
EXTENDS Integers, Sequences, FiniteSetsExt

CONSTANTS
    MaxFiles,     \* max_files_: files besides the current one
    MaxSize,      \* max_size_, in units of bytes
    Lengths,      \* the lengths that formatted messages have
    MaxMessages,  \* bound on messages
    MaxFaults     \* bound on failing calls and crashes

ASSUME RotatingFilesAssumption ==
    /\ MaxFiles \in Nat /\ MaxMessages \in Nat /\ MaxFaults \in Nat
    /\ MaxSize \in Nat \ {0}
    /\ Lengths \subseteq Nat \ {0}

VARIABLES
    exists,       \* the indexes whose files exist; 0 is the current log
    files,        \* the messages in each file
    buffer,       \* the messages in the buffer of the current file
    isOpen,       \* fd_ is not null
    currentSize,  \* current_size_
    newSize,      \* the local variable of sink_it_
    flushOn,      \* SetLevel has set flush_level_
    pc,           \* where the worker is in sink_it_, rotate_ or flush_
    i, retried,   \* the loop of rotate_; whether rename_file_ failed before
    length,       \* history: the length of each message so far
    lost,         \* history: messages dropped with an exception or a crash
    truncated,    \* history: messages of the current log that were truncated
                  \* after a rename failed, while older logs stayed
    faults, torn  \* history: what went wrong; torn: a write that failed

diskVars  == <<exists, files, buffer, isOpen>>
sizeVars  == <<currentSize, newSize>>
loopVars  == <<i, retried>>
faultVars == <<lost, truncated, faults, torn>>
vars == <<diskVars, sizeVars, flushOn, pc, loopVars, length, faultVars>>

Indexes  == 0 .. MaxFiles
Places   == {"down", "idle", "measure", "rotate", "rename", "giveUp",
             "write", "flush"}

\* The message in hand, the newest of all.
Msg == Len(length)

Bytes(messages) == SumFunctionOnSet(length, messages)

\* A first start, in a directory without logs.
Init ==
    /\ exists = {} /\ files = [k \in Indexes |-> {}]
    /\ buffer = {} /\ isOpen = FALSE
    /\ currentSize = 0 /\ newSize = 0 /\ flushOn = FALSE
    /\ pc = "down" /\ i = 0 /\ retried = FALSE
    /\ length = <<>>
    /\ lost = {} /\ truncated = {} /\ faults = 0 /\ torn = FALSE

-------------------------------------------------------------------------------
\* Helpers

Fault == faults < MaxFaults /\ faults' = faults + 1

\* backend_sink_it_: after the message, or its exception, flush if the level says so.
AfterMessage == pc' = IF flushOn THEN "flush" ELSE "idle"

Lose(messages) == lost' = lost \union messages

\* An exception leaves sink_it_, and the message in hand is gone.
Throw == Lose({Msg}) /\ AfterMessage

\* fflush of the open file.
FlushBuffer ==
    /\ files' = [files EXCEPT ![0] = @ \union buffer]
    /\ buffer' = {}

\* A flush that fails has written the older part of the buffer, or nothing.
FlushFails ==
    /\ Fault
    /\ \E last \in buffer \union {0} :
         LET written == {m \in buffer : m <= last}
         IN  /\ files' = [files EXCEPT ![0] = @ \union written]
             /\ buffer' = buffer \ written

\* file_helper::open without truncation.
OpenForAppend ==
    /\ exists' = exists \union {0}
    /\ isOpen' = TRUE

\* A reopening that keeps what the file holds.
ReopenForAppend == OpenForAppend /\ UNCHANGED files

\* file_helper::reopen(true).
ReopenTruncated ==
    /\ OpenForAppend
    /\ files' = [files EXCEPT ![0] = {}]

\* Every attempt failed, after some opening with "wb" did or did not succeed.
ReopenFails ==
    /\ Fault
    /\ \/ /\ exists' = exists \union {0}
          /\ files' = [files EXCEPT ![0] = {}]
       \/ UNCHANGED <<exists, files>>
    /\ Throw
    /\ UNCHANGED isOpen

-------------------------------------------------------------------------------
\* The process

\* A constructor that truncates.
StartAnew ==
    /\ pc = "down"
    /\ pc' = "idle"
    /\ ReopenTruncated
    /\ currentSize' = 0
    /\ flushOn' = FALSE
    /\ UNCHANGED <<buffer, newSize, loopVars, length, faultVars>>

\* The constructor of the sink.  If open throws there is no logger, and the
\* process does not live to log.
Start ==
    /\ pc = "down"
    /\ pc' = "idle"
    /\ OpenForAppend
    /\ currentSize' = Bytes(files[0])
    /\ flushOn' = FALSE
    /\ UNCHANGED <<files, buffer, newSize, loopVars, length, faultVars>>

\* Logger::SetLevel, by main.
SetLevel ==
    /\ pc # "down"
    /\ flushOn' = TRUE
    /\ UNCHANGED <<diskVars, sizeVars, pc, loopVars, length, faultVars>>

\* The message that sink_it_ has not written.
InHand == IF pc \in {"down", "idle", "flush"} THEN {} ELSE {Msg}

EndProcess ==
    /\ pc' = "down"
    /\ isOpen' = FALSE
    /\ buffer' = {}
    /\ i' = 0 /\ retried' = FALSE /\ newSize' = 0
    /\ UNCHANGED <<exists, currentSize, flushOn, length, truncated, torn>>

\* The process ends without running destructors.
Crash ==
    /\ pc # "down"
    /\ Fault
    /\ Lose(buffer \union InHand)
    /\ EndProcess
    /\ UNCHANGED files

\* The destructor of the sink closes the file.
Stop ==
    /\ pc = "idle"
    /\ EndProcess
    /\ \/ /\ isOpen
          /\ files' = [files EXCEPT ![0] = @ \union buffer]
          /\ UNCHANGED <<lost, faults>>
       \/ isOpen /\ Fault /\ Lose(buffer) /\ UNCHANGED files
       \/ ~ isOpen /\ UNCHANGED <<files, lost, faults>>

-------------------------------------------------------------------------------
\* rotating_file_sink::sink_it_

Log(n) ==
    /\ pc = "idle"
    /\ Msg < MaxMessages
    /\ length' = Append(length, n)
    /\ newSize' = currentSize + n
    /\ pc' = IF newSize' > MaxSize THEN "measure" ELSE "write"
    /\ UNCHANGED <<diskVars, currentSize, flushOn, loopVars, faultVars>>

FirstTarget == MaxFiles

\* The real size decides: an empty file is not rotated, and the size of a closed
\* one is an exception (the flush of a null file flushes something else).
Measure ==
    /\ pc = "measure"
    /\ \/ /\ isOpen
          /\ FlushBuffer
          /\ IF files'[0] # {}
               THEN pc' = "rotate" /\ i' = FirstTarget /\ isOpen' = FALSE
               ELSE pc' = "write" /\ UNCHANGED <<i, isOpen>>
          /\ UNCHANGED <<lost, faults>>
       \/ /\ isOpen
          /\ FlushFails
          /\ Throw
          /\ UNCHANGED <<i, isOpen>>
       \/ /\ ~ isOpen
          /\ Throw
          /\ UNCHANGED <<files, buffer, i, isOpen, faults>>
    /\ UNCHANGED <<exists, sizeVars, flushOn, retried, length, truncated, torn>>

\* file_helper::write, which hands the buffer to the kernel when it is full.  A
\* failing one leaves a part of the message in the buffer, or nothing.
WriteFails ==
    /\ Fault
    /\ torn' = TRUE
    /\ buffer' \in {buffer, buffer \union {Msg}}
    /\ Throw
    /\ UNCHANGED <<files, currentSize>>

Write ==
    /\ pc = "write"
    /\ isOpen
    /\ \/ /\ \/ files' = [files EXCEPT ![0] = @ \union buffer] /\ buffer' = {Msg}
             \/ buffer' = buffer \union {Msg} /\ UNCHANGED files
          /\ currentSize' = newSize
          /\ AfterMessage
          /\ UNCHANGED faultVars
       \/ WriteFails
    /\ UNCHANGED <<exists, isOpen, newSize, flushOn, loopVars, length, truncated>>

\* fwrite to a null FILE: a segmentation fault.
WriteClosed ==
    /\ pc = "write"
    /\ ~ isOpen
    /\ Lose(buffer \union InHand)
    /\ EndProcess
    /\ UNCHANGED <<files, faults>>

\* flush_, after a message or for the periodic flusher.
Flush ==
    /\ pc = "flush"
    /\ pc' = "idle"
    /\ \/ isOpen /\ FlushBuffer /\ UNCHANGED faults
       \/ isOpen /\ FlushFails
       \/ ~ isOpen /\ UNCHANGED <<files, buffer, faults>>
    /\ UNCHANGED <<exists, isOpen, sizeVars, flushOn, loopVars, length, lost,
                   truncated, torn>>

FlushEvery ==
    /\ pc = "idle"
    /\ pc' = "flush"
    /\ UNCHANGED <<diskVars, sizeVars, flushOn, loopVars, length, faultVars>>

-------------------------------------------------------------------------------
\* rotating_file_sink::rotate_, one action per call that changes the disk

\* A loop that ends at the first gap.
StopAtGap ==
    /\ pc = "rotate"
    /\ i > 0
    /\ i - 1 \notin exists
    /\ i' = 0
    /\ UNCHANGED <<diskVars, sizeVars, flushOn, pc, retried, length, faultVars>>

\* No file to move at i.
SkipFile ==
    /\ pc = "rotate"
    /\ i > 0
    /\ i - 1 \notin exists
    /\ i' = i - 1
    /\ UNCHANGED <<diskVars, sizeVars, flushOn, pc, retried, length, faultVars>>

\* rename_file_ first removes the target, and does not look at the result.
RemoveTarget ==
    /\ pc = "rotate"
    /\ i > 0
    /\ i - 1 \in exists
    /\ pc' = "rename"
    /\ \/ /\ exists' = exists \ {i}
          /\ files' = [files EXCEPT ![i] = {}]
          /\ UNCHANGED faults
       \/ Fault /\ UNCHANGED <<exists, files>>
    /\ UNCHANGED <<buffer, isOpen, sizeVars, flushOn, loopVars, length, lost,
                   truncated, torn>>

RenameFile ==
    /\ exists' = (exists \ {i - 1}) \union {i}
    /\ files' = [k \in Indexes |-> CASE k = i     -> files[i - 1]
                                     [] k = i - 1 -> {}
                                     [] OTHER     -> files[k]]

\* The second failure in a row is the last one.
Rename ==
    /\ pc = "rename"
    /\ \/ /\ RenameFile
          /\ pc' = "rotate" /\ i' = i - 1 /\ retried' = FALSE
          /\ UNCHANGED faults
       \/ /\ Fault
          /\ IF retried THEN pc' = "giveUp" /\ retried' = FALSE
                        ELSE pc' = "rotate" /\ retried' = TRUE
          /\ UNCHANGED <<exists, files, i>>
    /\ UNCHANGED <<buffer, isOpen, sizeVars, flushOn, length, lost, truncated, torn>>

SizeOfMsg == newSize' = length[Msg]

RotateEnds ==
    /\ pc = "rotate"
    /\ i = 0
    /\ \/ /\ ReopenTruncated
          /\ SizeOfMsg
          /\ pc' = "write"
          /\ UNCHANGED <<lost, faults>>
       \/ ReopenFails /\ UNCHANGED newSize
    /\ UNCHANGED <<buffer, currentSize, flushOn, loopVars, length, truncated, torn>>

\* A rename failed twice: the newest log is truncated, and sink_it_ left.
GiveUp ==
    /\ pc = "giveUp"
    /\ \/ /\ ReopenTruncated
          /\ currentSize' = 0
          /\ Throw
          /\ UNCHANGED faults
       \/ ReopenFails /\ UNCHANGED currentSize
    /\ truncated' = truncated \union (files[0] \ files'[0])
    /\ UNCHANGED <<buffer, newSize, flushOn, loopVars, length, torn>>

Next ==
    \/ Start \/ SetLevel \/ Crash \/ Stop
    \/ \E n \in Lengths : Log(n)
    \/ Measure \/ Write \/ WriteClosed \/ Flush \/ FlushEvery
    \/ SkipFile \/ RemoveTarget \/ Rename \/ RotateEnds \/ GiveUp

Spec == Init /\ [][Next]_vars

-------------------------------------------------------------------------------
\* What the files hold

Kept == buffer \union UNION {files[k] : k \in Indexes}

\* The messages that are neither there nor lost: rotate_ threw them away.
RotatedOut == (1 .. Msg) \ (Kept \union lost \union InHand)

(***************************************************************************)
(* Whatever call of the file system fails and wherever the process ends    *)
(* and starts again: rotate_ never leaves a newer message in an older      *)
(* file, and what it throws away is older than all it keeps - but for the  *)
(* current log, which holds the newest messages, when a rename fails twice *)
(* in a row and reopen(true) truncates it. That takes two failures, and    *)
(* without any failure nothing is lost.                                    *)
(***************************************************************************)
KeepsNewest ==
    /\ \A j, k \in Indexes :
         j < k => \A m \in files[k], n \in files[j] : m < n
    /\ \A k \in Indexes : \A m \in files[k], n \in buffer : m < n
    /\ \A m \in RotatedOut \ truncated, n \in Kept : m < n
    /\ truncated # {} => faults > 1
    /\ faults = 0 => lost = {}

(***************************************************************************)
(* Without failures, rotate_ throws a message away only when there are     *)
(* max_files_ files of newer ones.                                         *)
(***************************************************************************)
KeepsEnough ==
    faults = 0 /\ pc = "idle" /\ RotatedOut # {} =>
      \A k \in Indexes \ {0} : files[k] # {}

Limited(messages) == Bytes(messages) <= MaxSize \/ Cardinality(messages) = 1

(***************************************************************************)
(* "rotate if the new estimated file size exceeds max size", "truncate the *)
(* log file anyway to prevent it to grow beyond its limit": no file grows  *)
(* beyond the limit, except for a message longer than that, whichever      *)
(* renames, flushes and reopenings fail.  (A write that failed in part is  *)
(* not counted by sink_it_.)                                               *)
(***************************************************************************)
SizeLimit ==
    ~ torn =>
      /\ Limited(files[0] \union buffer)
      /\ \A k \in Indexes : Limited(files[k])

(***************************************************************************)
(* file_helper: "Throw spdlog_ex exception on errors."  A write that finds *)
(* no open file must throw like size() does, so fwrite always has a file.  *)
(***************************************************************************)
WritesHaveFile == pc = "write" => isOpen
===============================================================================
