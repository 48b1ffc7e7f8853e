-------------------------- MODULE RotatingFiles_proofs --------------------------
(***************************************************************************)
(* Proofs about RotatingFiles, for any number of files and any lengths,    *)
(* limits, failures and crashes.                                           *)
(***************************************************************************)
EXTENDS RotatingFiles, Lemmas

Typed ==
    /\ exists \subseteq Indexes
    /\ files \in [Indexes -> SUBSET (1 .. Msg)]
    /\ buffer \subseteq 1 .. Msg
    /\ lost \subseteq 1 .. Msg /\ truncated \subseteq 1 .. Msg
    /\ length \in Seq(Lengths)
    /\ pc \in Places /\ i \in Indexes
    /\ isOpen \in BOOLEAN /\ retried \in BOOLEAN
    /\ faults \in Nat

\* Where a message is.
Holds(m) == m \in buffer \/ \E k \in Indexes : m \in files[k]

Ordered ==
    /\ \A j, k \in Indexes :
         j < k => \A m \in files[k], n \in files[j] : m < n
    /\ \A k \in Indexes : \A m \in files[k], n \in buffer : m < n

OldestOut ==
    \A m \in 1 .. Msg, n \in 1 .. Msg :
      /\ ~ Holds(m) /\ m \notin lost /\ m \notin truncated /\ m \notin InHand
      /\ Holds(n)
      => m < n

\* The message in hand exists and is newer than what is on disk.
HandNewest ==
    pc \notin {"down", "idle", "flush"} =>
      Msg > 0 /\ \A m \in 1 .. Msg : Holds(m) => m < Msg

\* What does not exist or is not open holds nothing; rotation closes the file.
Absent ==
    /\ \A k \in Indexes \ exists : files[k] = {}
    /\ IF isOpen THEN 0 \in exists ELSE buffer = {}
    /\ pc \in {"down", "rotate", "rename", "giveUp"} => ~ isOpen

\* The loop of rotate_ has moved the file at i away, unless i is the last index.
LoopFits ==
    /\ pc \in {"rotate", "rename"} /\ i < MaxFiles => i \notin exists
    /\ pc = "rename" => i > 0 /\ i - 1 \in exists

\* Files stay closed, renames are repeated and messages are lost after a failure,
\* and the current log is truncated after two.
Blamed ==
    /\ ~ isOpen /\ pc \in {"idle", "flush", "measure", "write"} => faults > 0
    /\ retried => faults > 0
    /\ pc = "giveUp" \/ truncated # {} => faults > 1
    /\ faults = 0 => lost = {}

FInv ==
    /\ Typed /\ Ordered /\ OldestOut /\ HandNewest
    /\ Absent /\ LoopFits /\ Blamed

-------------------------------------------------------------------------------
LEMMA ZeroIndex == 0 \in Indexes /\ MaxFiles \in Indexes
  BY RotatingFilesAssumption DEF RotatingFilesAssumption, Indexes

LEMMA MsgNat == length \in Seq(Lengths) => Msg \in Nat
  BY DEF Msg

LEMMA InitFInv == Init => FInv
<1> SUFFICES ASSUME Init PROVE FInv
  OBVIOUS
<1>1. Msg = 0 /\ Msg \in Nat /\ length \in Seq(Lengths)
  BY DEF Init, Msg
<1>2. \A k \in Indexes : files[k] = {}
  BY DEF Init
<1>3. Typed
  BY <1>1, ZeroIndex DEF Init, Typed, Places
<1> QED
  BY <1>1, <1>2, <1>3 DEF Init, FInv, Ordered, OldestOut, HandNewest, Absent,
     LoopFits, Blamed, Holds

\* The step forgets only messages that are older than the rest or known to be
\* lost, and writes none but the message in hand.
LEMMA Forget ==
    ASSUME Typed, Typed', OldestOut, HandNewest, Msg' = Msg,
           lost \subseteq lost', truncated \subseteq truncated',
           InHand \ (lost' \union InHand') \subseteq {m \in 1 .. Msg : Holds(m)'},
           \A m \in 1 .. Msg : Holds(m)' /\ ~ Holds(m) => m = Msg,
           \A m, n \in 1 .. Msg :
             Holds(m) /\ ~ Holds(m)' /\ m \notin truncated' /\ Holds(n)' /\ m \notin lost'
               => m < n
    PROVE  OldestOut'
<1> SUFFICES ASSUME NEW m \in 1 .. Msg, NEW n \in 1 .. Msg, ~ Holds(m)',
                    m \notin lost', m \notin truncated', m \notin InHand', Holds(n)'
             PROVE  m < n
  BY Zenon DEF OldestOut
<1>1. Msg \in Nat /\ m \in Int /\ n \in Int /\ m <= Msg
  BY MsgNat DEF Typed
<1>2. CASE Holds(m)
  BY <1>2
<1>3. CASE ~ Holds(m)
  <2>1. m \notin lost /\ m \notin truncated /\ m \notin InHand
    OBVIOUS
  <2>2. CASE Holds(n)
    BY <1>3, <2>1, <2>2 DEF OldestOut
  <2>3. CASE ~ Holds(n)
    <3>1. n = Msg
      BY <2>3
    <3>2. m # n
      OBVIOUS
    <3> QED
      BY <1>1, <3>1, <3>2
  <2> QED
    BY <2>2, <2>3
<1> QED
  BY <1>2, <1>3

\* A step that writes and forgets nothing.
LEMMA ContentsStay ==
    ASSUME Typed, Ordered, OldestOut, HandNewest, Typed',
           UNCHANGED <<files, buffer, length>>, lost \subseteq lost',
           truncated \subseteq truncated',
           InHand \subseteq lost' \union InHand'
    PROVE  /\ Ordered' /\ OldestOut'
           /\ \A m : Holds(m)' <=> Holds(m)
<1>1. \A m : Holds(m)' <=> Holds(m)
  BY DEF Holds
<1>2. Msg' = Msg
  BY DEF Msg
<1>3. Ordered'
  BY DEF Ordered
<1> QED
  BY <1>1, <1>2, <1>3, Forget

\* fflush, in full or in part: messages go from the buffer to the current file.
LEMMA ContentsFlushed ==
    ASSUME Typed, Ordered, OldestOut, HandNewest, Typed',
           NEW written \in SUBSET buffer,
           \A m \in written, n \in buffer \ written : m < n,
           files' = [files EXCEPT ![0] = @ \union written],
           buffer' = buffer \ written,
           length' = length, lost \subseteq lost', truncated \subseteq truncated',
           InHand \subseteq lost' \union InHand'
    PROVE  /\ Ordered' /\ OldestOut'
           /\ \A m : Holds(m)' <=> Holds(m)
<1>1. /\ files'[0] = files[0] \union written
      /\ \A k \in Indexes \ {0} : files'[k] = files[k]
  BY ZeroIndex DEF Typed
<1>2. \A m : Holds(m)' <=> Holds(m)
  BY <1>1, ZeroIndex DEF Holds
<1>3. Msg' = Msg
  BY DEF Msg
<1>4. Ordered'
  <2>1. ASSUME NEW j \in Indexes, NEW k \in Indexes, j < k,
               NEW m \in files'[k], NEW n \in files'[j]
        PROVE  m < n
    <3>1. k # 0 /\ m \in files[k]
      BY <1>1, <2>1 DEF Indexes
    <3>2. n \in files[j] \/ (j = 0 /\ n \in buffer)
      BY <1>1, <2>1
    <3>3. CASE n \in files[j]
      BY <2>1, <3>1, <3>3 DEF Ordered
    <3>4. CASE j = 0 /\ n \in buffer
      BY <2>1, <3>1, <3>4 DEF Ordered
    <3> QED
      BY <3>2, <3>3, <3>4
  <2>2. ASSUME NEW k \in Indexes, NEW m \in files'[k], NEW n \in buffer'
        PROVE  m < n
    BY <1>1, <2>2 DEF Ordered
  <2> QED
    BY <2>1, <2>2 DEF Ordered
<1> QED
  BY <1>2, <1>3, <1>4, Forget

-------------------------------------------------------------------------------
\* The steps, one lemma for each kind.

LEMMA QuietStep ==
    ASSUME FInv, Start \/ SetLevel \/ FlushEvery \/ SkipFile
    PROVE  FInv'
<1>1. /\ UNCHANGED <<files, buffer, length, lost, truncated, faults, retried>>
      /\ length \in Seq(Lengths) /\ Msg' = Msg
  BY DEF FInv, Typed, Start, SetLevel, FlushEvery, SkipFile, diskVars, loopVars,
     faultVars, OpenForAppend, Msg
<1>2. InHand' = InHand
  BY <1>1 DEF Start, SetLevel, FlushEvery, SkipFile, InHand
<1>3. exists' \subseteq Indexes /\ exists \subseteq exists'
  BY ZeroIndex DEF FInv, Typed, Start, SetLevel, FlushEvery, SkipFile, diskVars,
     OpenForAppend
<1>4. i' \in Indexes /\ (SkipFile => i' = i - 1 /\ i' < MaxFiles)
  BY RotatingFilesAssumption DEF FInv, Typed, Start, SetLevel, FlushEvery,
     SkipFile, loopVars, Indexes, RotatingFilesAssumption
<1>5. pc' \in Places /\ isOpen' \in BOOLEAN
  BY DEF FInv, Typed, Start, SetLevel, FlushEvery, SkipFile, diskVars, Places,
     OpenForAppend
<1>6. Typed'
  BY <1>1, <1>3, <1>4, <1>5 DEF FInv, Typed
<1>7. Ordered' /\ OldestOut' /\ \A m : Holds(m)' <=> Holds(m)
  BY <1>1, <1>2, <1>6, ContentsStay DEF FInv
<1>8. HandNewest'
  BY <1>1, <1>7 DEF FInv, HandNewest, Start, SetLevel, FlushEvery, SkipFile
<1>9. Absent' /\ LoopFits' /\ Blamed'
  BY <1>1, <1>3, <1>4 DEF FInv, Absent, LoopFits, Blamed, Start, SetLevel,
     FlushEvery, SkipFile, diskVars, loopVars, OpenForAppend
<1> QED
  BY <1>6, <1>7, <1>8, <1>9 DEF FInv

\* The next message is newer than every one there is.
LEMMA LogStep ==
    ASSUME FInv, NEW n \in Lengths, Log(n)
    PROVE  FInv'
<1>1. /\ Msg \in Nat /\ Msg' = Msg + 1 /\ length' \in Seq(Lengths)
      /\ UNCHANGED <<exists, files, buffer, isOpen, lost, truncated, faults, i, retried>>
      /\ pc = "idle" /\ pc' \in {"measure", "write"}
  BY DEF FInv, Typed, Log, Msg, diskVars, loopVars, faultVars
<1>2. 1 .. Msg \subseteq 1 .. Msg'
  BY <1>1
<1>3. files' \in [Indexes -> SUBSET (1 .. Msg')]
  BY <1>1, <1>2 DEF FInv, Typed
<1>4. Typed'
  BY <1>1, <1>2, <1>3 DEF FInv, Typed, Places
<1>5. \A m : Holds(m)' <=> Holds(m)
  BY <1>1 DEF Holds
<1>6. \A m : Holds(m) => m \in 1 .. Msg
  BY DEF FInv, Typed, Holds
<1>7. InHand = {} /\ InHand' = {Msg + 1}
  BY <1>1 DEF InHand
<1>8. OldestOut'
  <2> SUFFICES ASSUME NEW m \in 1 .. Msg', NEW k \in 1 .. Msg', ~ Holds(m)',
                      m \notin lost', m \notin truncated', m \notin InHand', Holds(k)'
               PROVE  m < k
    BY Zenon DEF OldestOut
  <2>1. m \in 1 .. Msg
    BY <1>1, <1>7
  <2> QED
    BY <2>1, <1>1, <1>5, <1>6, <1>7 DEF FInv, OldestOut
<1>9. HandNewest'
  BY <1>1, <1>5, <1>6 DEF HandNewest
<1>10. Ordered' /\ Absent' /\ LoopFits' /\ Blamed'
  BY <1>1 DEF FInv, Ordered, Absent, LoopFits, Blamed
<1> QED
  BY <1>4, <1>8, <1>9, <1>10 DEF FInv

-------------------------------------------------------------------------------
\* The end of the process: the buffer goes to the file, or is lost.
LEMMA EndStep ==
    ASSUME FInv, Crash \/ Stop \/ WriteClosed
    PROVE  FInv'
<1>1. /\ UNCHANGED <<exists, length, truncated>> /\ Msg' = Msg
      /\ pc' = "down" /\ isOpen' = FALSE /\ buffer' = {}
      /\ i' = 0 /\ retried' = FALSE /\ InHand' = {}
  BY DEF Crash, Stop, WriteClosed, EndProcess, Msg, InHand
<1>2. Msg \in Nat /\ faults' \in Nat /\ InHand \subseteq 1 .. Msg
  BY RotatingFilesAssumption, MsgNat DEF FInv, Typed, HandNewest, InHand, Crash,
     Stop, WriteClosed, Fault, RotatingFilesAssumption
<1>3. CASE Stop /\ isOpen /\ files' = [files EXCEPT ![0] = @ \union buffer]
           /\ UNCHANGED <<lost, faults>>
  <2>1. pc = "idle" /\ InHand = {}
    BY <1>3 DEF Stop, InHand
  <2>2. Typed'
    BY <1>1, <1>2, <1>3, ZeroIndex DEF FInv, Typed, Places
  <2>3. buffer' = buffer \ buffer /\ buffer \in SUBSET buffer
    BY <1>1
  <2>4. Ordered' /\ OldestOut'
    BY <1>1, <1>3, <2>1, <2>2, <2>3, ContentsFlushed DEF FInv
  <2>5. Absent'
    <3>1. \A k \in Indexes \ exists : k = 0 => buffer = {}
      BY <1>3 DEF FInv, Absent
    <3> QED
      BY <1>1, <1>3, <3>1, ZeroIndex DEF FInv, Absent, Typed
  <2> QED
    BY <1>1, <1>3, <2>2, <2>4, <2>5 DEF FInv, HandNewest, LoopFits, Blamed
<1>4. CASE files' = files /\ lost' = lost \union buffer \union InHand
           /\ faults' >= faults /\ (faults' > 0 \/ lost' = lost)
  <2>1. Typed'
    BY <1>1, <1>2, <1>4, ZeroIndex DEF FInv, Typed, Places
  <2>2. \A m : Holds(m)' <=> \E k \in Indexes : m \in files[k]
    BY <1>1, <1>4 DEF Holds
  <2>3. OldestOut'
    BY <1>1, <1>4, <2>1, <2>2, Forget DEF FInv, Holds
  <2>4. Ordered'
    BY <1>1, <1>4 DEF FInv, Ordered
  <2>5. Blamed'
    BY <1>1, <1>2, <1>4 DEF FInv, Typed, Blamed
  <2> QED
    BY <1>1, <1>4, <2>1, <2>3, <2>4, <2>5 DEF FInv, HandNewest, LoopFits, Absent
<1>5. CASE WriteClosed
  <2>1. /\ faults' > 0 /\ faults' >= faults /\ files' = files
        /\ lost' = lost \union (buffer \union InHand)
    BY <1>5 DEF WriteClosed, FInv, Typed, Blamed, Lose
  <2>2. lost' = lost \union buffer \union InHand
    BY <2>1
  <2> QED
    BY <2>1, <2>2, <1>4
<1>6. CASE Crash
  <2>1. /\ faults' > 0 /\ faults' >= faults /\ files' = files
        /\ lost' = lost \union (buffer \union InHand)
    BY <1>6 DEF Crash, Fault, FInv, Typed, Lose
  <2>2. lost' = lost \union buffer \union InHand
    BY <2>1
  <2> QED
    BY <2>1, <2>2, <1>4
<1>7. CASE Stop
  <2>1. InHand = {}
    BY <1>7 DEF Stop, InHand
  <2>2. CASE isOpen /\ Fault /\ Lose(buffer) /\ UNCHANGED files
    <3>1. faults' > 0 /\ faults' >= faults /\ lost' = lost \union buffer
      BY <2>2 DEF Lose, Fault, FInv, Typed
    <3>2. lost' = lost \union buffer \union InHand
      BY <2>1, <3>1
    <3> QED
      BY <1>4, <2>2, <3>1, <3>2
  <2>3. CASE ~ isOpen /\ UNCHANGED <<files, lost, faults>>
    <3>1. buffer = {}
      BY <2>3 DEF FInv, Absent
    <3>2. lost' = lost \union buffer \union InHand
      BY <2>1, <2>3, <3>1
    <3>3. faults' >= faults /\ lost' = lost
      BY <2>3 DEF FInv, Typed
    <3> QED
      BY <1>4, <2>3, <3>2, <3>3
  <2> QED
    BY <1>3, <1>7, <2>2, <2>3 DEF Stop
<1> QED
  BY <1>5, <1>6, <1>7

-------------------------------------------------------------------------------
\* What an exception does.
LEMMA Thrown ==
    ASSUME Typed, Msg > 0, Throw
    PROVE  /\ lost' \subseteq 1 .. Msg /\ lost \subseteq lost' /\ Msg \in lost'
           /\ pc' \in {"flush", "idle"} /\ InHand' = {}
<1>1. lost' = lost \union {Msg} /\ pc' \in {"flush", "idle"}
  BY DEF Throw, Lose, AfterMessage
<1>2. Msg \in 1 .. Msg
  BY MsgNat DEF Typed
<1> QED
  BY <1>1, <1>2 DEF Typed, InHand

\* A flush that fails writes a prefix of the buffer.
LEMMA Prefix ==
    ASSUME Typed, FlushFails
    PROVE  /\ faults' \in Nat /\ faults' > 0 /\ faults' >= faults
           /\ \E written \in SUBSET buffer :
                /\ \A m \in written, n \in buffer \ written : m < n
                /\ files' = [files EXCEPT ![0] = @ \union written]
                /\ buffer' = buffer \ written
<1>1. PICK last \in buffer \union {0} :
        LET written == {m \in buffer : m <= last}
        IN  /\ files' = [files EXCEPT ![0] = @ \union written]
            /\ buffer' = buffer \ written
  BY DEF FlushFails
<1>2. last \in Nat /\ buffer \subseteq Nat
  BY MsgNat DEF Typed
<1>3. \A m \in {k \in buffer : k <= last}, n \in buffer \ {k \in buffer : k <= last} :
        m < n
  BY <1>2
<1>4. faults' \in Nat /\ faults' > 0 /\ faults' >= faults
  BY RotatingFilesAssumption DEF FlushFails, Fault, Typed, RotatingFilesAssumption
<1> QED
  BY <1>1, <1>3, <1>4

\* Types after a flush in full or in part.
LEMMA FlushTyped ==
    ASSUME Typed, NEW written \in SUBSET buffer,
           files' = [files EXCEPT ![0] = @ \union written],
           buffer' = buffer \ written, length' = length
    PROVE  /\ files' \in [Indexes -> SUBSET (1 .. Msg')]
           /\ buffer' \subseteq 1 .. Msg' /\ Msg' = Msg
           /\ \A k \in Indexes \ {0} : files'[k] = files[k]
  BY ZeroIndex DEF Typed, Msg

LEMMA FlushStep ==
    ASSUME FInv, Flush
    PROVE  FInv'
<1>1. /\ UNCHANGED <<exists, isOpen, length, lost, truncated, i, retried>>
      /\ pc = "flush" /\ pc' = "idle" /\ InHand = {} /\ InHand' = {}
  BY DEF Flush, loopVars, InHand
<1>2. ASSUME NEW written \in SUBSET buffer,
             \A m \in written, n \in buffer \ written : m < n,
             files' = [files EXCEPT ![0] = @ \union written],
             buffer' = buffer \ written, isOpen,
             faults' \in Nat, faults' >= faults
      PROVE  FInv'
  <2>1. Typed'
    BY <1>1, <1>2, FlushTyped DEF FInv, Typed, Places
  <2>2. Ordered' /\ OldestOut'
    BY <1>1, <1>2, <2>1, ContentsFlushed DEF FInv
  <2>3. Absent'
    BY <1>1, <1>2, FlushTyped DEF FInv, Absent
  <2> QED
    BY <1>1, <1>2, <2>1, <2>2, <2>3 DEF FInv, Typed, HandNewest, LoopFits, Blamed
<1>3. CASE isOpen /\ FlushBuffer /\ UNCHANGED faults
  <2>1. buffer \in SUBSET buffer /\ buffer' = buffer \ buffer
    BY <1>3 DEF FlushBuffer
  <2>2. files' = [files EXCEPT ![0] = @ \union buffer]
    BY <1>3 DEF FlushBuffer
  <2>3. faults' \in Nat /\ faults' >= faults
    BY <1>3 DEF FInv, Typed
  <2>4. \A m \in buffer, n \in buffer \ buffer : m < n
    OBVIOUS
  <2> QED
    BY <1>2, <1>3, <2>1, <2>2, <2>3, <2>4
<1>4. CASE isOpen /\ FlushFails
  BY <1>2, <1>4, Prefix DEF FInv
<1>5. CASE ~ isOpen /\ UNCHANGED <<files, buffer, faults>>
  <2>1. Typed'
    BY <1>1, <1>5 DEF FInv, Typed, Places, Msg
  <2>2. Ordered' /\ OldestOut'
    BY <1>1, <1>5, <2>1, ContentsStay DEF FInv
  <2> QED
    BY <1>1, <1>5, <2>1, <2>2 DEF FInv, HandNewest, LoopFits, Blamed, Absent
<1> QED
  BY <1>3, <1>4, <1>5 DEF Flush

-------------------------------------------------------------------------------
LEMMA MeasureStep ==
    ASSUME FInv, Measure
    PROVE  FInv'
<1>1. /\ UNCHANGED <<exists, length, retried, truncated>> /\ Msg' = Msg
      /\ pc = "measure" /\ InHand = {Msg} /\ Msg > 0
  BY DEF Measure, FInv, HandNewest, InHand, Msg
<1>2. CASE /\ isOpen /\ FlushBuffer /\ UNCHANGED <<lost, faults>>
           /\ IF files'[0] # {}
                THEN pc' = "rotate" /\ i' = FirstTarget /\ isOpen' = FALSE
                ELSE pc' = "write" /\ UNCHANGED <<i, isOpen>>
  <2>1. buffer \in SUBSET buffer /\ buffer' = buffer \ buffer
    BY <1>2 DEF FlushBuffer
  <2>2. files' = [files EXCEPT ![0] = @ \union buffer]
    BY <1>2 DEF FlushBuffer
  <2>3. InHand' = {Msg} /\ pc' \in {"rotate", "write"} /\ i' \in Indexes
    BY <1>1, <1>2, ZeroIndex DEF FInv, Typed, InHand, FirstTarget
  <2>4. Typed'
    BY <1>1, <1>2, <2>1, <2>2, <2>3, FlushTyped DEF FInv, Typed, Places
  <2>5. Ordered' /\ OldestOut' /\ \A m : Holds(m)' <=> Holds(m)
    BY <1>1, <1>2, <2>1, <2>2, <2>3, <2>4, ContentsFlushed DEF FInv
  <2>6. HandNewest'
    BY <1>1, <2>5 DEF FInv, HandNewest
  <2>7. Absent'
    BY <1>1, <1>2, <2>1, <2>2, FlushTyped DEF FInv, Absent
  <2>8. \/ pc' = "rotate" /\ i' = MaxFiles
        \/ pc' = "write" /\ isOpen'
    BY <1>2 DEF FirstTarget
  <2>9. MaxFiles \in Nat
    BY RotatingFilesAssumption DEF RotatingFilesAssumption
  <2>10. LoopFits'
    BY <2>8, <2>9 DEF LoopFits
  <2>11. Blamed'
    BY <1>1, <1>2, <2>8 DEF FInv, Blamed
  <2> QED
    BY <2>4, <2>5, <2>6, <2>7, <2>10, <2>11 DEF FInv
<1>3. CASE isOpen /\ FlushFails /\ Throw /\ UNCHANGED <<i, isOpen>>
  <2>1. PICK written \in SUBSET buffer :
          /\ \A m \in written, n \in buffer \ written : m < n
          /\ files' = [files EXCEPT ![0] = @ \union written]
          /\ buffer' = buffer \ written
    BY <1>3, Prefix DEF FInv
  <2>2. /\ lost' \subseteq 1 .. Msg /\ lost \subseteq lost' /\ Msg \in lost'
        /\ pc' \in {"flush", "idle"} /\ InHand' = {}
    BY <1>1, <1>3, Thrown DEF FInv
  <2>3. faults' \in Nat /\ faults' > 0 /\ faults' >= faults
    BY <1>3, Prefix DEF FInv
  <2>4. Typed'
    BY <1>1, <1>3, <2>1, <2>2, <2>3, FlushTyped DEF FInv, Typed, Places
  <2>5. Ordered' /\ OldestOut'
    BY <1>1, <1>3, <2>1, <2>2, <2>4, ContentsFlushed DEF FInv
  <2>6. Absent'
    BY <1>1, <1>3, <2>1, <2>2, FlushTyped DEF FInv, Absent
  <2> QED
    BY <1>1, <2>2, <2>3, <2>4, <2>5, <2>6 DEF FInv, Typed, HandNewest, LoopFits, Blamed
<1>4. CASE ~ isOpen /\ Throw /\ UNCHANGED <<files, buffer, i, isOpen, faults>>
  <2>1. /\ lost' \subseteq 1 .. Msg /\ lost \subseteq lost' /\ Msg \in lost'
        /\ pc' \in {"flush", "idle"} /\ InHand' = {}
    BY <1>1, <1>4, Thrown DEF FInv
  <2>2. Typed'
    BY <1>1, <1>4, <2>1 DEF FInv, Typed, Places
  <2>3. Ordered' /\ OldestOut'
    BY <1>1, <1>4, <2>1, <2>2, ContentsStay DEF FInv
  <2>4. faults' > 0
    BY <1>1, <1>4 DEF FInv, Blamed
  <2> QED
    BY <1>1, <1>4, <2>1, <2>2, <2>3, <2>4
       DEF FInv, HandNewest, LoopFits, Blamed, Absent
<1> QED
  BY <1>2, <1>3, <1>4 DEF Measure

-------------------------------------------------------------------------------
LEMMA WriteStep ==
    ASSUME FInv, Write
    PROVE  FInv'
<1>1. /\ UNCHANGED <<exists, isOpen, length, i, retried, truncated>> /\ Msg' = Msg
      /\ pc = "write" /\ isOpen /\ InHand = {Msg} /\ Msg > 0 /\ Msg \in 1 .. Msg
  BY MsgNat DEF Write, FInv, Typed, HandNewest, InHand, Msg, loopVars
<1>2. \A m \in 1 .. Msg : Holds(m) => m < Msg
  BY <1>1 DEF FInv, HandNewest
<1>3. PICK written \in {{}, buffer}, added \in {{}, {Msg}} :
        /\ files' = [files EXCEPT ![0] = @ \union written]
        /\ buffer' = (buffer \ written) \union added
        /\ written = buffer => added = {Msg} \/ buffer = {}
        /\ added = {Msg} \/ Msg \in lost'
  <2>1. files = [files EXCEPT ![0] = @ \union {}]
    BY ZeroIndex DEF FInv, Typed
  <2>2. CASE files' = [files EXCEPT ![0] = @ \union buffer] /\ buffer' = {Msg}
    BY <2>2
  <2>3. CASE buffer' = buffer \union {Msg} /\ UNCHANGED files
    BY <2>1, <2>3
  <2>4. CASE WriteFails
    <3>1. Msg \in lost' /\ files' = files
      BY <1>1, <2>4, Thrown DEF WriteFails, FInv
    <3>2. buffer' = buffer \/ buffer' = buffer \union {Msg}
      BY <2>4 DEF WriteFails
    <3> QED
      BY <2>1, <3>1, <3>2
  <2> QED
    BY <2>2, <2>3, <2>4 DEF Write
<1>4. /\ lost \subseteq lost' /\ lost' \subseteq 1 .. Msg
      /\ pc' \in {"flush", "idle"} /\ InHand' = {}
      /\ faults' \in Nat /\ faults' >= faults /\ (faults' > 0 \/ lost' = lost)
  <2>1. CASE WriteFails
    BY <1>1, <2>1, Thrown DEF WriteFails, Fault, FInv, Typed
  <2>2. CASE UNCHANGED faultVars /\ AfterMessage
    BY <2>2 DEF faultVars, AfterMessage, FInv, Typed, InHand
  <2> QED
    BY <2>1, <2>2 DEF Write
<1>5. /\ files'[0] = files[0] \union written
      /\ \A k \in Indexes \ {0} : files'[k] = files[k]
  BY <1>3, ZeroIndex DEF FInv, Typed
<1>6. Typed'
  BY <1>1, <1>3, <1>4, <1>5, ZeroIndex DEF FInv, Typed, Places
<1>7. \A m : Holds(m)' <=> Holds(m) \/ m \in added
  BY <1>3, <1>5, ZeroIndex DEF Holds
<1>8. OldestOut'
  <2>1. InHand \ (lost' \union InHand') \subseteq {m \in 1 .. Msg : Holds(m)'}
    BY <1>1, <1>3, <1>7
  <2>2. \A m \in 1 .. Msg : Holds(m)' /\ ~ Holds(m) => m = Msg
    BY <1>7
  <2> QED
    BY <1>1, <1>4, <1>6, <1>7, <2>1, <2>2, Forget DEF FInv
<1>9. Ordered'
  <2>1. ASSUME NEW j \in Indexes, NEW k \in Indexes, j < k,
               NEW m \in files'[k], NEW n \in files'[j]
        PROVE  m < n
    <3>1. k # 0 /\ m \in files[k]
      BY <1>5, <2>1 DEF Indexes
    <3>2. n \in files[j] \/ n \in buffer
      BY <1>3, <1>5, <2>1
    <3> QED
      BY <2>1, <3>1, <3>2 DEF FInv, Ordered
  <2>2. ASSUME NEW k \in Indexes, NEW m \in files'[k], NEW n \in buffer'
        PROVE  m < n
    <3>1. m \in files[k] \/ m \in written
      BY <1>5, <2>2
    <3>2. m \in 1 .. Msg /\ Holds(m)
      BY <1>3, <3>1, <2>2 DEF FInv, Typed, Holds
    <3>3. CASE n \in added
      BY <1>2, <3>2, <3>3
    <3>4. CASE n \notin added
      <4>1. n \in buffer /\ n \notin written
        BY <1>3, <2>2, <3>4
      <4>2. written = {}
        BY <4>1
      <4> QED
        BY <3>1, <4>1, <4>2 DEF FInv, Ordered
    <3> QED
      BY <3>3, <3>4
  <2> QED
    BY <2>1, <2>2 DEF Ordered
<1>10. Absent'
  BY <1>1, <1>4, <1>5 DEF FInv, Absent
<1> QED
  BY <1>1, <1>4, <1>6, <1>8, <1>9, <1>10
     DEF FInv, Typed, HandNewest, LoopFits, Blamed

-------------------------------------------------------------------------------
\* In the loop, the file at i is the oldest one or does not exist.
LEMMA TargetOldest ==
    ASSUME FInv, pc \in {"rotate", "rename"}
    PROVE  \A m \in files[i], k \in Indexes \ {i} : \A n \in files[k] : m < n
<1>1. CASE i = MaxFiles
  <2>1. \A k \in Indexes \ {i} : k < i
    BY <1>1, RotatingFilesAssumption DEF Indexes, RotatingFilesAssumption
  <2> QED
    BY <2>1 DEF FInv, Typed, Ordered
<1>2. CASE i # MaxFiles
  <2>1. i < MaxFiles
    BY <1>2, RotatingFilesAssumption DEF FInv, Typed, Indexes, RotatingFilesAssumption
  <2>2. files[i] = {}
    BY <2>1 DEF FInv, Typed, LoopFits, Absent
  <2> QED
    BY <2>2
<1> QED
  BY <1>1, <1>2

\* Rotation works on closed files with a message in hand.
LEMMA Rotating ==
    ASSUME FInv, pc \in {"rotate", "rename", "giveUp"}
    PROVE  /\ ~ isOpen /\ buffer = {} /\ InHand = {Msg}
           /\ Msg > 0 /\ Msg \in 1 .. Msg
           /\ \A m \in 1 .. Msg : Holds(m) => m < Msg
           /\ \A m : Holds(m) <=> \E k \in Indexes : m \in files[k]
<1>1. ~ isOpen /\ buffer = {}
  BY DEF FInv, Absent
<1>2. InHand = {Msg}
  BY DEF InHand
<1>3. Msg > 0 /\ \A m \in 1 .. Msg : Holds(m) => m < Msg
  BY DEF FInv, HandNewest
<1>4. Msg \in 1 .. Msg
  BY <1>3, MsgNat DEF FInv, Typed
<1> QED
  BY <1>1, <1>2, <1>3, <1>4 DEF Holds

LEMMA RemoveStep ==
    ASSUME FInv, RemoveTarget
    PROVE  FInv'
<1>1. /\ UNCHANGED <<buffer, isOpen, i, retried, length, lost, truncated>> /\ Msg' = Msg
      /\ pc = "rotate" /\ pc' = "rename" /\ i > 0 /\ i - 1 \in exists
      /\ InHand' = {Msg}
  BY DEF RemoveTarget, loopVars, Msg, InHand
<1>2. /\ ~ isOpen /\ buffer = {} /\ InHand = {Msg} /\ Msg > 0
      /\ \A m \in 1 .. Msg : Holds(m) => m < Msg
      /\ i \in Indexes
  BY <1>1, Rotating DEF FInv, Typed
<1>3. i - 1 \in Indexes /\ i - 1 # i
  BY <1>1, <1>2, RotatingFilesAssumption DEF Indexes, RotatingFilesAssumption
<1>4. CASE exists' = exists \ {i} /\ files' = [files EXCEPT ![i] = {}]
           /\ UNCHANGED faults
  <2>1. files'[i] = {} /\ \A k \in Indexes \ {i} : files'[k] = files[k]
    BY <1>2, <1>4 DEF FInv, Typed
  <2>2. \A m : Holds(m)' <=> \E k \in Indexes \ {i} : m \in files[k]
    BY <1>1, <1>2, <2>1 DEF Holds
  <2>3. Typed'
    BY <1>1, <1>2, <1>4, <2>1 DEF FInv, Typed, Places
  <2>4. \A m, n \in 1 .. Msg :
          Holds(m) /\ ~ Holds(m)' /\ m \notin lost' /\ Holds(n)' => m < n
    BY <1>1, <1>2, <2>2, TargetOldest DEF Holds
  <2>5. \A m \in 1 .. Msg : Holds(m)' => Holds(m)
    BY <2>2 DEF Holds
  <2>6. OldestOut'
    BY <1>1, <1>2, <2>3, <2>4, <2>5, Forget DEF FInv
  <2>7. Ordered'
    BY <1>1, <1>2, <2>1 DEF FInv, Ordered
  <2>8. HandNewest'
    BY <1>1, <1>2, <2>5 DEF HandNewest
  <2>9. Absent' /\ LoopFits' /\ Blamed'
    BY <1>1, <1>2, <1>3, <1>4, <2>1 DEF FInv, Absent, LoopFits, Blamed
  <2> QED
    BY <2>3, <2>6, <2>7, <2>8, <2>9 DEF FInv
<1>5. CASE Fault /\ UNCHANGED <<exists, files>>
  <2>1. faults' \in Nat /\ faults' > 0 /\ faults' >= faults
    BY <1>5 DEF Fault, FInv, Typed
  <2>2. Typed'
    BY <1>1, <1>5, <2>1 DEF FInv, Typed, Places
  <2>3. Ordered' /\ OldestOut' /\ \A m : Holds(m)' <=> Holds(m)
    BY <1>1, <1>2, <1>5, <2>2, ContentsStay DEF FInv
  <2>4. HandNewest'
    BY <1>1, <1>2, <2>3 DEF HandNewest
  <2>5. Absent' /\ LoopFits' /\ Blamed'
    BY <1>1, <1>2, <1>3, <1>5, <2>1 DEF FInv, Typed, Absent, LoopFits, Blamed
  <2> QED
    BY <2>2, <2>3, <2>4, <2>5 DEF FInv
<1> QED
  BY <1>4, <1>5 DEF RemoveTarget

LEMMA RenameStep ==
    ASSUME FInv, Rename
    PROVE  FInv'
<1>1. /\ UNCHANGED <<buffer, isOpen, length, lost, truncated>> /\ Msg' = Msg
      /\ pc = "rename" /\ pc' \in {"rotate", "giveUp"} /\ i > 0 /\ i - 1 \in exists
      /\ InHand' = {Msg}
  BY DEF Rename, Msg, InHand, FInv, LoopFits
<1>2. /\ ~ isOpen /\ buffer = {} /\ InHand = {Msg} /\ Msg > 0
      /\ \A m \in 1 .. Msg : Holds(m) => m < Msg
      /\ i \in Indexes
  BY <1>1, Rotating DEF FInv, Typed
<1>3. /\ i - 1 \in Indexes /\ i - 1 # i /\ MaxFiles \in Nat /\ i - 1 < MaxFiles
      /\ \A k \in Indexes : k \in Int
  BY <1>1, <1>2, RotatingFilesAssumption DEF Indexes, RotatingFilesAssumption
<1>4. CASE /\ RenameFile
           /\ pc' = "rotate" /\ i' = i - 1 /\ retried' = FALSE
           /\ UNCHANGED faults
  <2>1. /\ files'[i] = files[i - 1] /\ files'[i - 1] = {}
        /\ \A k \in Indexes \ {i, i - 1} : files'[k] = files[k]
        /\ files' \in [Indexes -> SUBSET (1 .. Msg)]
    BY <1>2, <1>3, <1>4 DEF RenameFile, FInv, Typed
  <2>2. exists' = (exists \ {i - 1}) \union {i}
    BY <1>4 DEF RenameFile
  <2>3. \A m : Holds(m)' <=> \E k \in Indexes \ {i} : m \in files[k]
    BY <1>1, <1>2, <1>3, <2>1 DEF Holds
  <2>4. Typed'
    BY <1>1, <1>2, <1>3, <1>4, <2>1, <2>2 DEF FInv, Typed, Places
  <2>5. \A m, n \in 1 .. Msg :
          Holds(m) /\ ~ Holds(m)' /\ m \notin lost' /\ Holds(n)' => m < n
    BY <1>1, <1>2, <2>3, TargetOldest DEF Holds
  <2>6. \A m \in 1 .. Msg : Holds(m)' => Holds(m)
    BY <2>3 DEF Holds
  <2>7. OldestOut'
    BY <1>1, <1>2, <2>4, <2>5, <2>6, Forget DEF FInv
  <2>8. Ordered'
    <3>1. ASSUME NEW j \in Indexes, NEW k \in Indexes, j < k,
                 NEW m \in files'[k], NEW n \in files'[j]
          PROVE  m < n
      <4>1. j # i - 1 /\ k # i - 1
        BY <2>1, <3>1
      <4>2. CASE j = i
        <5>1. n \in files[i - 1] /\ m \in files[k] /\ i - 1 < k
          BY <1>3, <2>1, <3>1, <4>1, <4>2
        <5> QED
          BY <1>3, <3>1, <5>1 DEF FInv, Ordered
      <4>3. CASE k = i
        <5>1. m \in files[i - 1] /\ n \in files[j] /\ j < i - 1
          BY <1>3, <2>1, <3>1, <4>1, <4>3
        <5> QED
          BY <1>3, <3>1, <5>1 DEF FInv, Ordered
      <4>4. CASE j # i /\ k # i
        BY <2>1, <3>1, <4>1, <4>4 DEF FInv, Ordered
      <4> QED
        BY <4>2, <4>3, <4>4
    <3> QED
      BY <1>1, <1>2, <3>1 DEF Ordered
  <2>9. HandNewest'
    BY <1>1, <1>2, <2>6 DEF HandNewest
  <2>10. Absent'
    <3>1. ASSUME NEW k \in Indexes \ exists' PROVE files'[k] = {}
      BY <1>3, <2>1, <2>2, <3>1 DEF FInv, Absent
    <3> QED
      BY <1>1, <1>2, <1>4, <3>1 DEF Absent
  <2>11. LoopFits' /\ Blamed'
    BY <1>1, <1>2, <1>3, <1>4, <2>2 DEF FInv, LoopFits, Blamed
  <2> QED
    BY <2>4, <2>7, <2>8, <2>9, <2>10, <2>11 DEF FInv
<1>5. CASE /\ Fault /\ UNCHANGED <<exists, files, i>>
           /\ IF retried THEN pc' = "giveUp" /\ retried' = FALSE
                         ELSE pc' = "rotate" /\ retried' = TRUE
  <2>1. faults' \in Nat /\ faults' = faults + 1 /\ faults \in Nat
    BY <1>5 DEF Fault, FInv, Typed
  <2>2. Typed'
    BY <1>1, <1>5, <2>1 DEF FInv, Typed, Places
  <2>3. Ordered' /\ OldestOut' /\ \A m : Holds(m)' <=> Holds(m)
    BY <1>1, <1>2, <1>5, <2>2, ContentsStay DEF FInv
  <2>4. HandNewest'
    BY <1>1, <1>2, <2>3 DEF HandNewest
  <2>5. Absent' /\ LoopFits' /\ Blamed'
    BY <1>1, <1>2, <1>3, <1>5, <2>1 DEF FInv, Absent, LoopFits, Blamed
  <2> QED
    BY <2>2, <2>3, <2>4, <2>5 DEF FInv
<1> QED
  BY <1>4, <1>5 DEF Rename

\* Truncating the current file in the loop or after it.
LEMMA Truncation ==
    ASSUME FInv, pc \in {"rotate", "giveUp"}, Typed',
           files' = [files EXCEPT ![0] = {}], buffer' = {}, length' = length,
           lost \subseteq lost', InHand \subseteq lost' \union InHand',
           truncated \subseteq truncated',
           files[0] \subseteq truncated' \/ (pc = "rotate" /\ i = 0)
    PROVE  /\ Ordered' /\ OldestOut'
           /\ \A m : Holds(m)' => Holds(m)
<1>1. files'[0] = {} /\ \A k \in Indexes \ {0} : files'[k] = files[k]
  BY ZeroIndex DEF FInv, Typed
<1>2. \A m : Holds(m)' <=> \E k \in Indexes \ {0} : m \in files[k]
  BY <1>1 DEF Holds
<1>3. \A m : Holds(m)' => Holds(m)
  BY <1>2 DEF Holds
<1>4. buffer = {} /\ Msg' = Msg
  BY Rotating DEF Msg
<1>5. ASSUME NEW m \in 1 .. Msg, NEW n \in 1 .. Msg,
             Holds(m), ~ Holds(m)', m \notin truncated', Holds(n)'
      PROVE  m < n
  <2>1. m \in files[0]
    BY <1>2, <1>4, <1>5 DEF Holds
  <2>2. pc = "rotate" /\ i = 0
    BY <1>5, <2>1
  <2> QED
    BY <1>2, <1>5, <2>1, <2>2, TargetOldest
<1>6. OldestOut'
  BY <1>3, <1>4, <1>5, Forget DEF FInv
<1>7. Ordered'
  BY <1>1 DEF FInv, Ordered
<1> QED
  BY <1>3, <1>6, <1>7

LEMMA ReopenStep ==
    ASSUME FInv, RotateEnds \/ GiveUp
    PROVE  FInv'
<1>1. /\ UNCHANGED <<buffer, length, i, retried>> /\ Msg' = Msg
      /\ pc \in {"rotate", "giveUp"} /\ (RotateEnds => pc = "rotate" /\ i = 0)
      /\ (pc = "giveUp" => faults > 1)
  BY DEF RotateEnds, GiveUp, loopVars, Msg, FInv, Blamed
<1>2. /\ ~ isOpen /\ buffer = {} /\ InHand = {Msg} /\ Msg > 0
      /\ \A m \in 1 .. Msg : Holds(m) => m < Msg
      /\ files[0] \subseteq 1 .. Msg
  BY <1>1, Rotating, ZeroIndex DEF FInv, Typed
<1>3. /\ RotateEnds => truncated' = truncated
      /\ GiveUp => pc = "giveUp" /\ truncated' = truncated \union (files[0] \ files'[0])
  BY DEF RotateEnds, GiveUp
<1>4. truncated \subseteq truncated' /\ truncated' \subseteq 1 .. Msg
  BY <1>2, <1>3 DEF FInv, Typed
<1>5. ASSUME files' = [files EXCEPT ![0] = {}]
      PROVE  files[0] \subseteq truncated' \/ (pc = "rotate" /\ i = 0)
  <2>1. files'[0] = {}
    BY <1>5, ZeroIndex DEF FInv, Typed
  <2> QED BY <1>1, <1>3, <2>1
<1>6. truncated' # {} /\ truncated' # truncated => faults > 1
  BY <1>1, <1>3
<1>7. CASE ReopenTruncated /\ pc' = "write" /\ UNCHANGED <<lost, faults>> /\ RotateEnds
  <2>1. /\ exists' = exists \union {0} /\ isOpen' = TRUE /\ InHand' = {Msg}
        /\ files' = [files EXCEPT ![0] = {}]
    BY <1>1, <1>7 DEF ReopenTruncated, OpenForAppend, InHand
  <2>2. Typed'
    BY <1>1, <1>2, <1>4, <1>7, <2>1, ZeroIndex DEF FInv, Typed, Places
  <2>3. Ordered' /\ OldestOut' /\ \A m : Holds(m)' => Holds(m)
    BY <1>1, <1>2, <1>4, <1>5, <1>7, <2>1, <2>2, Truncation
  <2>4. HandNewest'
    BY <1>1, <1>2, <2>3 DEF HandNewest
  <2>5. Absent' /\ LoopFits' /\ Blamed'
    BY <1>1, <1>2, <1>3, <1>7, <2>1, ZeroIndex
       DEF FInv, Typed, Absent, LoopFits, Blamed
  <2> QED
    BY <2>2, <2>3, <2>4, <2>5 DEF FInv
<1>8. CASE ReopenTruncated /\ Throw /\ UNCHANGED faults /\ GiveUp
  <2>1. /\ exists' = exists \union {0} /\ isOpen' = TRUE
        /\ files' = [files EXCEPT ![0] = {}] /\ faults > 1
    BY <1>1, <1>3, <1>8 DEF ReopenTruncated, OpenForAppend
  <2>2. /\ lost' \subseteq 1 .. Msg /\ lost \subseteq lost' /\ Msg \in lost'
        /\ pc' \in {"flush", "idle"} /\ InHand' = {}
    BY <1>2, <1>8, Thrown DEF FInv
  <2>3. Typed'
    BY <1>1, <1>2, <1>4, <1>8, <2>1, <2>2, ZeroIndex DEF FInv, Typed, Places
  <2>4. Ordered' /\ OldestOut'
    BY <1>1, <1>2, <1>4, <1>5, <2>1, <2>2, <2>3, Truncation
  <2>5. HandNewest' /\ Absent' /\ LoopFits' /\ Blamed'
    BY <1>1, <1>2, <1>8, <2>1, <2>2, ZeroIndex
       DEF FInv, Typed, HandNewest, Absent, LoopFits, Blamed
  <2> QED
    BY <2>3, <2>4, <2>5 DEF FInv
<1>9. CASE ReopenFails
  <2>1. isOpen' = isOpen /\ faults' \in Nat /\ faults' = faults + 1 /\ faults \in Nat
    BY <1>9 DEF ReopenFails, Fault, FInv, Typed
  <2>2. /\ lost' \subseteq 1 .. Msg /\ lost \subseteq lost' /\ Msg \in lost'
        /\ pc' \in {"flush", "idle"} /\ InHand' = {}
    BY <1>2, <1>9, Thrown DEF ReopenFails, FInv
  <2>3. Blamed'
    BY <1>1, <1>2, <1>6, <2>1, <2>2 DEF FInv, Blamed
  <2>4. CASE exists' = exists \union {0} /\ files' = [files EXCEPT ![0] = {}]
    <3>1. Typed'
      BY <1>1, <1>2, <1>4, <2>1, <2>2, <2>4, ZeroIndex DEF FInv, Typed, Places
    <3>2. Ordered' /\ OldestOut'
      BY <1>1, <1>2, <1>4, <1>5, <2>2, <2>4, <3>1, Truncation
    <3>3. HandNewest' /\ Absent' /\ LoopFits'
      BY <1>1, <1>2, <2>1, <2>2, <2>4, ZeroIndex
         DEF FInv, Typed, HandNewest, Absent, LoopFits
    <3> QED
      BY <2>3, <3>1, <3>2, <3>3 DEF FInv
  <2>5. CASE UNCHANGED <<exists, files>>
    <3>1. Typed'
      BY <1>1, <1>4, <2>1, <2>2, <2>5 DEF FInv, Typed, Places
    <3>2. Ordered' /\ OldestOut'
      BY <1>1, <1>2, <1>4, <2>2, <2>5, <3>1, ContentsStay DEF FInv
    <3>3. HandNewest' /\ Absent' /\ LoopFits'
      BY <1>1, <1>2, <2>1, <2>2, <2>5
         DEF FInv, HandNewest, Absent, LoopFits
    <3> QED
      BY <2>3, <3>1, <3>2, <3>3 DEF FInv
  <2> QED
    BY <1>9, <2>4, <2>5 DEF ReopenFails
<1> QED
  BY <1>7, <1>8, <1>9 DEF RotateEnds, GiveUp

-------------------------------------------------------------------------------
\* The invariant is inductive.
LEMMA SpecFInv == Spec => []FInv
<1>1. FInv /\ [Next]_vars => FInv'
  <2> SUFFICES ASSUME FInv, [Next]_vars PROVE FInv'
    OBVIOUS
  <2>1. CASE UNCHANGED vars
    <3>1. UNCHANGED <<exists, files, buffer, isOpen, length, lost, truncated, faults,
                      i, retried, pc>>
      BY <2>1 DEF vars, diskVars, loopVars, faultVars
    <3>2. FInv' <=> FInv
      BY <3>1 DEF FInv, Typed, Ordered, OldestOut, HandNewest, Absent, LoopFits,
         Blamed, Holds, InHand, Msg
    <3> QED
      BY <3>2
  <2> QED
    BY <2>1, QuietStep, LogStep, EndStep, FlushStep, MeasureStep, WriteStep,
       RemoveStep, RenameStep, ReopenStep DEF Next
<1> QED
  BY InitFInv, <1>1, PTL DEF Spec

(***************************************************************************)
(* For any number of files and any failures, crashes and restarts:         *)
(* rotating_file_sink keeps the files in order and throws away messages    *)
(* older than all it keeps - except in one case, when a rename fails twice *)
(* in a row and it truncates the current log, the newest. Without failures *)
(* nothing is lost but the oldest.                                         *)
(***************************************************************************)
THEOREM NewestAreKept == Spec => []KeepsNewest
<1>1. FInv => KeepsNewest
  <2> SUFFICES ASSUME FInv PROVE KeepsNewest
    OBVIOUS
  <2>1. ASSUME NEW m PROVE m \in Kept <=> Holds(m)
    <3>1. m \in UNION {files[k] : k \in Indexes} <=> \E k \in Indexes : m \in files[k]
      BY Zenon
    <3>2. m \in Kept <=> m \in UNION {files[k] : k \in Indexes} \/ m \in buffer
      BY DEF Kept
    <3> QED
      BY <3>1, <3>2, Zenon DEF Holds
  <2>2. ASSUME NEW m \in RotatedOut \ truncated, NEW n \in Kept PROVE m < n
    <3>1. /\ m \in 1 .. Msg /\ m \notin lost /\ m \notin InHand /\ m \notin truncated
          /\ ~ Holds(m) /\ Holds(n)
      BY <2>1, <2>2 DEF RotatedOut
    <3>2. n \in 1 .. Msg
      BY <3>1 DEF FInv, Typed, Holds
    <3> QED
      BY <3>1, <3>2 DEF FInv, OldestOut
  <2> QED
    BY <2>2 DEF FInv, Ordered, Blamed, KeepsNewest
<1> QED
  BY SpecFInv, <1>1, PTL

-------------------------------------------------------------------------------
(***************************************************************************)
(* Sizes.  Until a write fails in part, current_size_ is what is in the    *)
(* current file and its buffer, except while a rotated log waits for its   *)
(* first message; the size sink_it_ reckons with is that with the message. *)
(***************************************************************************)
Current == files[0] \union buffer

SizesKnown ==
    /\ pc \in {"idle", "flush", "measure"} => currentSize = Bytes(Current)
    /\ pc \in {"measure", "write"} => newSize = Bytes(Current) + length[Msg]
    /\ pc = "write" => newSize <= MaxSize \/ Current = {}

SInv == ~ torn => SizeLimit /\ (isOpen => SizesKnown)

LEMMA MessagesFinite ==
    ASSUME Typed, NEW A, A \subseteq 1 .. Msg
    PROVE  IsFiniteSet(A) /\ \A m \in A : length[m] \in Nat
<1>1. Msg \in Nat /\ length \in Seq(Lengths) /\ Lengths \subseteq Nat
  BY RotatingFilesAssumption, MsgNat DEF Typed
<1>2. IsFiniteSet(A)
  <2>1. IsFiniteSet(1 .. Msg)
    BY <1>1, FS_Interval
  <2> QED
    BY <2>1, FS_Subset
<1>3. \A m \in 1 .. Msg : length[m] \in Lengths
  BY <1>1 DEF Msg
<1> QED
  BY <1>1, <1>2, <1>3

LEMMA BytesFacts ==
    ASSUME Typed, NEW B, B \subseteq 1 .. Msg
    PROVE  /\ Bytes(B) \in Nat /\ Bytes({}) = 0
           /\ \A A \in SUBSET B : Bytes(A) <= Bytes(B)
           /\ \A m \in (1 .. Msg) \ B : Bytes(B \union {m}) = Bytes(B) + length[m]
<1>1. IsFiniteSet(B) /\ \A m \in B : length[m] \in Nat
  BY MessagesFinite
<1>2. SumFunctionOnSet(length, B) \in Nat
  BY <1>1, SumTakesAny
<1>3. ASSUME NEW A \in SUBSET B
      PROVE  SumFunctionOnSet(length, A) <= SumFunctionOnSet(length, B)
  <2> DEFINE C == B \ A
  <2>1. IsFiniteSet(A) /\ IsFiniteSet(C) /\ A \cap C = {} /\ A \union C = B
    BY <1>1, FS_Subset
  <2> HIDE DEF C
  <2>2. \A m \in A \union C : length[m] \in Nat
    BY <1>1, <2>1
  <2>3. /\ SumFunctionOnSet(length, A \union C)
             = SumFunctionOnSet(length, A) + SumFunctionOnSet(length, C)
        /\ SumFunctionOnSet(length, A) \in Nat /\ SumFunctionOnSet(length, C) \in Nat
    <3>1. SumFunctionOnSet(length, A) \in Nat /\ SumFunctionOnSet(length, C) \in Nat
      BY <2>1, <2>2, SumTakesAny
    <3> QED BY <2>1, <2>2, <3>1, SumOfUnion
  <2>4. SumFunctionOnSet(length, A) <= SumFunctionOnSet(length, A \union C)
    BY <2>3
  <2> QED
    BY <2>1, <2>4
<1>4. ASSUME NEW m \in (1 .. Msg) \ B
      PROVE  SumFunctionOnSet(length, B \union {m}) = SumFunctionOnSet(length, B) + length[m]
  <2>1. length[m] \in Nat
    BY MessagesFinite
  <2>2. \A n \in B \union {m} : length[n] \in Nat
    BY <1>1, <2>1
  <2>3. SumFunctionOnSet(length, B \union {m}) = length[m] + SumFunctionOnSet(length, B)
    BY <1>1, <2>2, SumAdds
  <2> QED
    BY <1>2, <2>1, <2>3
<1>5. SumFunctionOnSet(length, {}) = 0
  BY SumEmpty
<1> QED
  BY <1>2, <1>3, <1>4, <1>5 DEF Bytes

\* A part of a file within its limit is within it.
LEMMA LimitedSubset ==
    ASSUME Typed, NEW B, B \subseteq 1 .. Msg, Limited(B), NEW A \in SUBSET B
    PROVE  Limited(A)
<1>1. Bytes(A) \in Nat /\ Bytes(B) \in Nat /\ Bytes(A) <= Bytes(B) /\ Bytes({}) = 0
  <2>1. A \subseteq 1 .. Msg
    OBVIOUS
  <2> QED
    BY <2>1, BytesFacts
<1>2. MaxSize \in Nat
  BY RotatingFilesAssumption
<1>3. CASE Bytes(B) <= MaxSize
  BY <1>1, <1>2, <1>3 DEF Limited
<1>4. CASE Cardinality(B) = 1
  <2>1. IsFiniteSet(B)
    BY MessagesFinite
  <2>2. PICK m : B = {m}
    BY <1>4, <2>1, FS_Singleton
  <2>3. CASE A = {}
    BY <1>1, <1>2, <2>3 DEF Limited
  <2>4. CASE A = B
    BY <2>4
  <2> QED
    BY <2>2, <2>3, <2>4
<1> QED
  BY <1>3, <1>4 DEF Limited

\* Lengths of messages do not change.
LEMMA BytesStay ==
    ASSUME Typed, NEW A, A \subseteq 1 .. Msg, \A m \in 1 .. Msg : length'[m] = length[m]
    PROVE  SumFunctionOnSet(length', A) = Bytes(A)
<1>1. IsFiniteSet(A) /\ \A m \in A : length[m] \in Nat /\ length'[m] = length[m]
  BY MessagesFinite
<1> QED
  BY <1>1, SumSame DEF Bytes

\* Files that are cut, moved or filled from the buffer.
LEMMA SizesShrink ==
    ASSUME Typed, SizeLimit, ~ torn, length' = length,
           Current' \subseteq Current,
           \A k \in Indexes : \/ files'[k] \subseteq Current
                              \/ \E j \in Indexes : files'[k] \subseteq files[j]
    PROVE  SizeLimit'
<1>1. Current \subseteq 1 .. Msg /\ \A k \in Indexes : files[k] \subseteq 1 .. Msg
  BY ZeroIndex DEF Typed, Current
<1>2. Limited(Current) /\ \A k \in Indexes : Limited(files[k])
  BY DEF SizeLimit, Current
<1>3. Limited(Current')
  BY <1>1, <1>2, LimitedSubset
<1>4. ASSUME NEW k \in Indexes
      PROVE  Limited(files'[k])
  <2>1. CASE files'[k] \subseteq Current
    BY <1>1, <1>2, <2>1, LimitedSubset
  <2>2. CASE \E j \in Indexes : files'[k] \subseteq files[j]
    BY <1>1, <1>2, <2>2, LimitedSubset
  <2> QED
    BY <2>1, <2>2
<1> QED
  BY <1>3, <1>4 DEF SizeLimit, Limited, Bytes, Current

\* Nothing moves.
LEMMA QuietSizes ==
    ASSUME FInv, SInv, Start \/ SetLevel \/ FlushEvery \/ SkipFile
    PROVE  SInv'
<1> SUFFICES ASSUME ~ torn'
             PROVE  SizeLimit' /\ (isOpen' => SizesKnown')
  BY DEF SInv
<1>1. /\ UNCHANGED <<files, buffer, length, torn, newSize>> /\ Msg' = Msg
      /\ Current' = Current
  BY DEF Start, SetLevel, FlushEvery, SkipFile, diskVars, sizeVars, loopVars, faultVars,
     OpenForAppend, Msg, Current
<1>2. ~ torn /\ SizeLimit /\ (isOpen => SizesKnown)
  BY <1>1 DEF SInv
<1>3. SizeLimit'
  BY <1>1, <1>2, SizesShrink DEF FInv
<1>4. CASE Start
  <2>1. buffer = {} /\ currentSize' = Bytes(files[0]) /\ pc' = "idle"
    BY <1>4 DEF Start, FInv, Absent
  <2>2. Current' = files[0]
    BY <1>1, <2>1 DEF Current
  <2> QED
    BY <1>1, <1>3, <2>1, <2>2 DEF SizesKnown, Bytes
<1>5. CASE SetLevel \/ FlushEvery
  <2>1. /\ UNCHANGED <<isOpen, currentSize>>
        /\ pc' = pc \/ (pc = "idle" /\ pc' = "flush")
    BY <1>5 DEF SetLevel, FlushEvery, diskVars, sizeVars
  <2> QED
    BY <1>1, <1>2, <1>3, <2>1 DEF SizesKnown, Bytes
<1>6. CASE SkipFile
  <2>1. isOpen' = FALSE
    BY <1>6 DEF SkipFile, diskVars, FInv, Typed, Absent
  <2> QED
    BY <1>3, <2>1
<1> QED
  BY <1>4, <1>5, <1>6

LEMMA LogSizes ==
    ASSUME FInv, SInv, NEW n \in Lengths, Log(n)
    PROVE  SInv'
<1> SUFFICES ASSUME ~ torn'
             PROVE  SizeLimit' /\ (isOpen' => SizesKnown')
  BY DEF SInv
<1>1. /\ UNCHANGED <<files, buffer, torn, isOpen, currentSize>> /\ pc = "idle"
      /\ length' = Append(length, n) /\ newSize' = currentSize + n
      /\ pc' = IF newSize' > MaxSize THEN "measure" ELSE "write"
  BY DEF Log, diskVars, faultVars
<1>2. SizeLimit /\ (isOpen => SizesKnown) /\ Typed
  BY <1>1 DEF SInv, FInv
<1>3. /\ Msg \in Nat /\ Msg' = Msg + 1 /\ length'[Msg'] = n
      /\ \A m \in 1 .. Msg : length'[m] = length[m]
  BY <1>1, <1>2 DEF Typed, Msg
<1>4. Current \subseteq 1 .. Msg /\ \A k \in Indexes : files[k] \subseteq 1 .. Msg
  BY <1>2, ZeroIndex DEF Typed, Current
<1>5. /\ SumFunctionOnSet(length', Current) = Bytes(Current)
      /\ \A k \in Indexes : SumFunctionOnSet(length', files[k]) = Bytes(files[k])
  BY <1>2, <1>3, <1>4, BytesStay
<1>6. Current' = Current
  BY <1>1 DEF Current
<1>7. SizeLimit'
  <2>1. Limited(Current) /\ \A k \in Indexes : Limited(files[k])
    BY <1>1, <1>2 DEF SizeLimit, Current
  <2>2. Limited(Current)' /\ \A k \in Indexes : Limited(files[k])'
    BY <1>1, <1>5, <1>6, <2>1 DEF Limited, Bytes
  <2> QED
    BY <1>1, <2>2 DEF SizeLimit, Current
<1>8. ASSUME isOpen'
      PROVE  SizesKnown'
  <2>1. currentSize = Bytes(Current)
    BY <1>1, <1>2, <1>8 DEF SizesKnown
  <2>2. Bytes(Current)' = Bytes(Current)
    BY <1>5, <1>6 DEF Bytes
  <2>3. newSize' = Bytes(Current)' + length'[Msg']
    BY <1>1, <1>3, <2>1, <2>2
  <2>4. pc' = "write" => newSize' <= MaxSize
    <3>1. newSize' \in Nat /\ MaxSize \in Nat
      <4>1. Bytes(Current) \in Nat
        BY <1>2, <1>4, BytesFacts
      <4> QED
        BY <1>1, <2>1, <4>1, RotatingFilesAssumption
    <3> QED
      BY <1>1, <3>1
  <2>5. pc' \in {"measure", "write"}
    BY <1>1
  <2>6. currentSize' = Bytes(Current)'
    BY <1>1, <2>1, <2>2
  <2> QED
    BY <2>3, <2>4, <2>5, <2>6 DEF SizesKnown
<1> QED
  BY <1>7, <1>8

LEMMA EndSizes ==
    ASSUME FInv, SInv, Crash \/ Stop \/ WriteClosed
    PROVE  SInv'
<1> SUFFICES ASSUME ~ torn'
             PROVE  SizeLimit' /\ isOpen' = FALSE
  BY DEF SInv
<1>1. /\ UNCHANGED <<length, torn>> /\ buffer' = {} /\ isOpen' = FALSE
      /\ files' = files \/ files' = [files EXCEPT ![0] = @ \union buffer]
  BY DEF Crash, Stop, WriteClosed, EndProcess
<1>2. Typed /\ SizeLimit /\ ~ torn
  BY <1>1 DEF SInv, FInv
<1>3. files'[0] \subseteq Current /\ \A k \in Indexes \ {0} : files'[k] = files[k]
  BY <1>1, <1>2, ZeroIndex DEF Typed, Current
<1>4. Current' \subseteq Current
  BY <1>1, <1>3 DEF Current
<1> QED
  BY <1>1, <1>2, <1>3, <1>4, SizesShrink

\* A flush, in part or in full, leaves what file and buffer hold together.
LEMMA FlushedSizes ==
    ASSUME Typed, SizeLimit, ~ torn, length' = length, NEW written \in SUBSET buffer,
           files' = [files EXCEPT ![0] = @ \union written], buffer' = buffer \ written
    PROVE  Current' = Current /\ SizeLimit'
<1>1. files'[0] = files[0] \union written /\ \A k \in Indexes \ {0} : files'[k] = files[k]
  BY ZeroIndex DEF Typed
<1>2. Current' = Current
  BY <1>1 DEF Current
<1>3. files'[0] \subseteq Current
  BY <1>1 DEF Current
<1> QED
  BY <1>1, <1>2, <1>3, SizesShrink

LEMMA FlushSizes ==
    ASSUME FInv, SInv, Flush
    PROVE  SInv'
<1> SUFFICES ASSUME ~ torn'
             PROVE  SizeLimit' /\ (isOpen' => SizesKnown')
  BY DEF SInv
<1>1. /\ UNCHANGED <<length, torn, isOpen, currentSize>> /\ pc = "flush" /\ pc' = "idle"
  BY DEF Flush, sizeVars
<1>2. Typed /\ SizeLimit /\ ~ torn /\ (isOpen => SizesKnown)
  BY <1>1 DEF SInv, FInv
<1>3. Current' = Current /\ SizeLimit'
  <2>1. CASE FlushBuffer
    <3>1. /\ buffer \in SUBSET buffer /\ buffer' = buffer \ buffer
          /\ files' = [files EXCEPT ![0] = @ \union buffer]
      BY <2>1 DEF FlushBuffer
    <3> QED
      BY <1>1, <1>2, <3>1, FlushedSizes
  <2>2. CASE FlushFails
    BY <1>1, <1>2, <2>2, Prefix, FlushedSizes
  <2>3. CASE UNCHANGED <<files, buffer>>
    <3>1. Current' = Current
      BY <2>3 DEF Current
    <3> QED
      BY <1>1, <1>2, <2>3, <3>1, SizesShrink
  <2> QED
    BY <2>1, <2>2, <2>3 DEF Flush
<1> QED
  BY <1>1, <1>2, <1>3 DEF SizesKnown, Bytes

LEMMA MeasureSizes ==
    ASSUME FInv, SInv, Measure
    PROVE  SInv'
<1> SUFFICES ASSUME ~ torn'
             PROVE  SizeLimit' /\ (isOpen' => SizesKnown')
  BY DEF SInv
<1>1. UNCHANGED <<length, torn, currentSize, newSize>> /\ pc = "measure" /\ Msg' = Msg
  BY DEF Measure, sizeVars, Msg
<1>2. Typed /\ SizeLimit /\ ~ torn /\ (isOpen => SizesKnown)
  BY <1>1 DEF SInv, FInv
<1>3. CASE /\ isOpen /\ FlushBuffer
           /\ IF files'[0] # {}
                THEN pc' = "rotate" /\ i' = FirstTarget /\ isOpen' = FALSE
                ELSE pc' = "write" /\ UNCHANGED <<i, isOpen>>
  <2>1. /\ buffer \in SUBSET buffer /\ buffer' = buffer \ buffer /\ buffer' = {}
        /\ files' = [files EXCEPT ![0] = @ \union buffer]
    BY <1>3 DEF FlushBuffer
  <2>2. Current' = Current /\ SizeLimit'
    BY <1>1, <1>2, <2>1, FlushedSizes
  <2>3. isOpen' => pc' = "write" /\ Current' = {}
    BY <1>3, <2>1 DEF Current
  <2> QED
    BY <1>1, <1>2, <1>3, <2>2, <2>3 DEF SizesKnown, Bytes
<1>4. CASE isOpen /\ FlushFails /\ Throw /\ UNCHANGED isOpen
  <2>1. Current' = Current /\ SizeLimit'
    BY <1>1, <1>2, <1>4, Prefix, FlushedSizes
  <2>2. pc' \in {"flush", "idle"}
    BY <1>4 DEF Throw, AfterMessage
  <2> QED
    BY <1>1, <1>2, <1>4, <2>1, <2>2 DEF SizesKnown, Bytes
<1>5. CASE ~ isOpen /\ UNCHANGED <<files, buffer, isOpen>>
  <2>1. Current' = Current
    BY <1>5 DEF Current
  <2>2. SizeLimit'
    BY <1>1, <1>2, <1>5, <2>1, SizesShrink
  <2> QED
    BY <1>5, <2>2
<1> QED
  BY <1>3, <1>4, <1>5 DEF Measure

LEMMA WriteSizes ==
    ASSUME FInv, SInv, Write
    PROVE  SInv'
<1> SUFFICES ASSUME ~ torn'
             PROVE  SizeLimit' /\ SizesKnown'
  BY DEF SInv
<1>1. /\ UNCHANGED <<length, torn>> /\ Msg' = Msg /\ pc = "write" /\ isOpen
      /\ currentSize' = newSize /\ pc' \in {"flush", "idle"}
      /\ \/ files' = [files EXCEPT ![0] = @ \union buffer] /\ buffer' = {Msg}
         \/ buffer' = buffer \union {Msg} /\ files' = files
  BY DEF Write, WriteFails, AfterMessage, faultVars, Msg
<1>2. Typed /\ SizeLimit /\ ~ torn /\ SizesKnown
  BY <1>1 DEF SInv, FInv
<1>3. /\ files'[0] \subseteq Current /\ Current' = Current \union {Msg}
      /\ \A k \in Indexes \ {0} : files'[k] = files[k]
  BY <1>1, <1>2, ZeroIndex DEF Typed, Current
<1>4. /\ Current \subseteq 1 .. Msg /\ \A k \in Indexes : files[k] \subseteq 1 .. Msg
  BY <1>2, ZeroIndex DEF Typed, Current
<1>5. Msg \in (1 .. Msg) \ Current
  <2>1. Msg > 0 /\ \A m \in 1 .. Msg : Holds(m) => m < Msg
    BY <1>1 DEF FInv, HandNewest
  <2>2. Msg \in 1 .. Msg
    BY <1>2, <2>1, MsgNat DEF Typed
  <2>3. ~ Holds(Msg)
    BY <2>1, <2>2
  <2> QED
    BY <2>2, <2>3, ZeroIndex DEF Holds, Current
<1>6. Bytes(Current \union {Msg}) = newSize
  BY <1>1, <1>2, <1>4, <1>5, BytesFacts DEF SizesKnown
<1>7. SizesKnown'
  BY <1>1, <1>3, <1>6 DEF SizesKnown, Bytes
<1>8. Limited(Current \union {Msg})
  <2>1. CASE newSize <= MaxSize
    BY <1>6, <2>1 DEF Limited
  <2>2. CASE Current = {}
    <3>1. Current \union {Msg} = {Msg} /\ Cardinality({Msg}) = 1
      BY <2>2, FS_Singleton
    <3> QED
      BY <3>1 DEF Limited
  <2> QED
    BY <1>1, <1>2, <2>1, <2>2 DEF SizesKnown
<1>9. ASSUME NEW k \in Indexes
      PROVE  Limited(files'[k])
  <2>1. CASE k = 0
    BY <1>2, <1>3, <1>4, <2>1, LimitedSubset DEF SizeLimit, Current
  <2>2. CASE k # 0
    BY <1>2, <1>3, <2>2 DEF SizeLimit
  <2> QED
    BY <2>1, <2>2
<1>10. SizeLimit'
  BY <1>1, <1>3, <1>8, <1>9 DEF SizeLimit, Limited, Bytes, Current
<1> QED
  BY <1>7, <1>10

\* While it rotates, the current file is closed.
LEMMA RotateSizes ==
    ASSUME FInv, SInv, RemoveTarget \/ Rename
    PROVE  SInv'
<1> SUFFICES ASSUME ~ torn'
             PROVE  SizeLimit' /\ isOpen' = FALSE
  BY DEF SInv
<1>1. UNCHANGED <<length, torn, buffer, isOpen>> /\ pc \in {"rotate", "rename"}
  BY DEF RemoveTarget, Rename
<1>2. Typed /\ SizeLimit /\ ~ torn
  BY <1>1 DEF SInv, FInv
<1>3. ~ isOpen /\ buffer = {} /\ 0 \in Indexes
  BY <1>1, Rotating, ZeroIndex
<1>4. \A k \in Indexes : \E j \in Indexes : files'[k] \subseteq files[j]
  <2>1. CASE files' = [files EXCEPT ![i] = {}] \/ files' = files
    BY <1>2, <2>1 DEF Typed
  <2>2. CASE RenameFile
    <3>1. pc = "rename" /\ i \in Indexes /\ i - 1 \in exists
      BY <1>1, <2>2 DEF FInv, LoopFits, Typed, RemoveTarget, Rename, RenameFile
    <3>2. i - 1 \in Indexes /\ i - 1 # i /\ \A k \in Indexes : k \in Int
      BY <1>2, <3>1, RotatingFilesAssumption
         DEF Typed, Indexes, RotatingFilesAssumption
    <3>3. /\ files'[i] = files[i - 1] /\ files'[i - 1] = {}
          /\ \A k \in Indexes \ {i, i - 1} : files'[k] = files[k]
      BY <2>2, <3>1, <3>2 DEF RenameFile
    <3>4. ASSUME NEW k \in Indexes
          PROVE  \E j \in Indexes : files'[k] \subseteq files[j]
      <4>1. CASE k = i
        BY <3>2, <3>3, <4>1
      <4>2. CASE k # i
        BY <3>3, <4>2
      <4> QED
        BY <4>1, <4>2
    <3> QED
      BY <3>4
  <2> QED
    BY <2>1, <2>2 DEF RemoveTarget, Rename
<1>5. files'[0] \subseteq files[0]
  <2>1. CASE files' = [files EXCEPT ![i] = {}] \/ files' = files
    BY <1>2, <1>3, <2>1 DEF Typed
  <2>2. CASE RenameFile
    <3>1. i # 0
      BY <2>2 DEF FInv, LoopFits, Typed, RemoveTarget, Rename, RenameFile
    <3>2. files'[0] = IF 0 = i - 1 THEN {} ELSE files[0]
      BY <1>3, <2>2, <3>1 DEF RenameFile
    <3> QED
      BY <3>2
  <2> QED
    BY <2>1, <2>2 DEF RemoveTarget, Rename
<1>6. Current' \subseteq Current
  BY <1>1, <1>5 DEF Current
<1>7. SizeLimit'
  BY <1>1, <1>2, <1>4, <1>6, SizesShrink
<1> QED
  BY <1>1, <1>3, <1>7 DEF FInv, Typed

LEMMA ReopenSizes ==
    ASSUME FInv, SInv, RotateEnds \/ GiveUp
    PROVE  SInv'
<1> SUFFICES ASSUME ~ torn'
             PROVE  SizeLimit' /\ (isOpen' => SizesKnown')
  BY DEF SInv
<1>1. /\ UNCHANGED <<length, torn, buffer>> /\ pc \in {"rotate", "giveUp"} /\ Msg' = Msg
      /\ files' = files \/ files' = [files EXCEPT ![0] = {}]
  BY DEF RotateEnds, GiveUp, ReopenTruncated, ReopenFails, Msg
<1>2. Typed /\ SizeLimit /\ ~ torn
  BY <1>1 DEF SInv, FInv
<1>3. ~ isOpen /\ buffer = {} /\ 0 \in Indexes /\ Msg \in 1 .. Msg
  BY <1>1, Rotating, ZeroIndex
<1>4. \A k \in Indexes : files'[k] \subseteq files[k]
  BY <1>1, <1>2 DEF Typed
<1>5. SizeLimit'
  <2>1. Current' \subseteq Current
    BY <1>1, <1>3, <1>4 DEF Current
  <2> QED
    BY <1>1, <1>2, <1>4, <2>1, SizesShrink
<1>6. CASE ReopenFails
  <2>1. isOpen' = isOpen
    BY <1>6 DEF ReopenFails
  <2> QED
    BY <1>3, <1>5, <2>1
<1>7. CASE ReopenTruncated
  <2>1. Current' = {}
    BY <1>1, <1>2, <1>3, <1>7 DEF ReopenTruncated, Current, Typed
  <2>2. Bytes(Current)' = 0
    BY <2>1, SumEmpty DEF Bytes
  <2>3. length[Msg] \in Nat
    BY <1>2, <1>3, MessagesFinite
  <2>4. CASE RotateEnds /\ SizeOfMsg /\ pc' = "write"
    <3>1. newSize' = length[Msg] /\ 0 + length[Msg] = length[Msg]
      BY <2>3, <2>4 DEF SizeOfMsg
    <3>2. newSize' = Bytes(Current)' + length'[Msg']
      BY <1>1, <2>2, <3>1
    <3> QED
      BY <1>5, <2>1, <2>4, <3>2 DEF SizesKnown
  <2>5. CASE GiveUp /\ currentSize' = 0 /\ pc' \in {"flush", "idle"}
    BY <1>5, <2>2, <2>5 DEF SizesKnown
  <2>6. CASE ReopenFails
    BY <1>6, <2>6
  <2> QED
    BY <1>7, <2>4, <2>5, <2>6 DEF RotateEnds, GiveUp, Throw, AfterMessage
<1> QED
  BY <1>6, <1>7 DEF RotateEnds, GiveUp

(***************************************************************************)
(* No file grows beyond max_size_, except for one message that is longer,  *)
(* until a write fails in part: for any number of files, limit and         *)
(* lengths, and whatever renames, flushes and reopenings fail.             *)
(***************************************************************************)
THEOREM FilesStayInLimit == Spec => []SizeLimit
<1>1. Init => SInv
  <2> SUFFICES ASSUME Init
               PROVE  SizeLimit /\ ~ isOpen
    BY DEF SInv
  <2>1. Current = {} /\ \A k \in Indexes : files[k] = {}
    BY ZeroIndex DEF Init, Current
  <2>2. Bytes({}) = 0 /\ MaxSize \in Nat
    BY SumEmpty, RotatingFilesAssumption DEF Bytes
  <2>3. Limited({})
    BY <2>2 DEF Limited
  <2> QED
    BY <2>1, <2>3 DEF Init, SizeLimit, Current
<1>2. FInv /\ SInv /\ [Next]_vars => SInv'
  <2> SUFFICES ASSUME FInv, SInv, [Next]_vars PROVE SInv'
    OBVIOUS
  <2>1. CASE UNCHANGED vars
    BY <2>1 DEF vars, diskVars, sizeVars, loopVars, faultVars, SInv, SizeLimit, SizesKnown,
       Limited, Bytes, Current, Msg
  <2> QED
    BY <2>1, QuietSizes, LogSizes, EndSizes, FlushSizes, MeasureSizes, WriteSizes,
       RotateSizes, ReopenSizes DEF Next
<1>3. SInv => SizeLimit
  BY DEF SInv, SizeLimit
<1> QED
  BY SpecFInv, <1>1, <1>2, <1>3, PTL DEF Spec

-------------------------------------------------------------------------------
(***************************************************************************)
(* Without failures the files that exist are those up to some index, with  *)
(* a gap at i while rotate_ is at it, and none but a new log is empty; and *)
(* if a message was rotated out there is a file everywhere else.           *)
(***************************************************************************)
Gapless ==
    /\ \A k \in exists, j \in Indexes : j < k /\ j # i => j \in exists
    /\ \A k \in exists :
         k # 0 \/ pc \in {"rotate", "rename"} => files[k] # {}
    /\ RotatedOut # {} => Indexes \ {i} \subseteq exists
    /\ pc \notin {"rotate", "rename"} => i = 0

GInv == faults = 0 => Gapless

\* Messages that are not held, lost or in hand, before and after a step.
LEMMA OutMeans ==
    /\ \A m : m \in RotatedOut <=>
                m \in 1 .. Msg /\ ~ Holds(m) /\ m \notin lost /\ m \notin InHand
    /\ \A m : m \in RotatedOut' <=>
                m \in 1 .. Msg' /\ ~ Holds(m)' /\ m \notin lost' /\ m \notin InHand'
<1>1. \A m : m \in UNION {files[k] : k \in Indexes} <=> \E k \in Indexes : m \in files[k]
  BY Zenon
<1>2. \A m : m \in UNION {files'[k] : k \in Indexes} <=> \E k \in Indexes : m \in files'[k]
  BY Zenon
<1>3. ASSUME NEW m
      PROVE  /\ m \in Kept <=> Holds(m)
             /\ m \in Kept' <=> Holds(m)'
  <2>1. /\ m \in Kept <=> m \in buffer \/ m \in UNION {files[k] : k \in Indexes}
        /\ m \in Kept' <=> m \in buffer' \/ m \in UNION {files'[k] : k \in Indexes}
    BY DEF Kept
  <2> QED
    BY <1>1, <1>2, <2>1, Zenon DEF Holds
<1> QED
  BY <1>3, Zenon DEF RotatedOut

\* A step that keeps what there is rotates nothing out.
LEMMA OutShrinks ==
    ASSUME Msg' = Msg, lost \subseteq lost',
           \A m \in 1 .. Msg : Holds(m) => Holds(m)',
           \A m \in InHand : Holds(m)' \/ m \in lost' \/ m \in InHand'
    PROVE  RotatedOut' \subseteq RotatedOut
<1> SUFFICES ASSUME NEW m \in RotatedOut' PROVE m \in RotatedOut
  OBVIOUS
<1>1. m \in 1 .. Msg /\ ~ Holds(m)' /\ m \notin lost' /\ m \notin InHand'
  BY OutMeans
<1> QED
  BY <1>1, OutMeans

\* A failure is counted.
LEMMA NoFailure == Typed /\ faults' = 0 => ~ Fault
  BY DEF Typed, Fault

\* Steps that leave the loop and the disk alone, or end the loop's search.
LEMMA QuietGaps ==
    ASSUME FInv, GInv, Start \/ SetLevel \/ FlushEvery \/ SkipFile
    PROVE  GInv'
<1> SUFFICES ASSUME faults' = 0 PROVE Gapless'
  BY DEF GInv
<1>1. UNCHANGED <<files, buffer, length, lost, faults>> /\ Msg' = Msg
  BY DEF Start, SetLevel, FlushEvery, SkipFile, diskVars, faultVars, OpenForAppend, Msg
<1>2. Gapless /\ Typed
  BY <1>1 DEF GInv, FInv
<1>3. InHand' = InHand
  BY <1>1 DEF Start, SetLevel, FlushEvery, SkipFile, InHand
<1>4. RotatedOut' \subseteq RotatedOut
  BY <1>1, <1>3, OutShrinks DEF Holds
<1>5. CASE SetLevel \/ FlushEvery
  BY <1>1, <1>2, <1>4, <1>5 DEF SetLevel, FlushEvery, diskVars, loopVars, Gapless
<1>6. CASE Start
  <2>1. pc' = "idle" /\ i = 0 /\ i' = 0 /\ exists' = exists \union {0}
    BY <1>2, <1>6 DEF Start, OpenForAppend, loopVars, Gapless
  <2>2. \A j \in Indexes : ~ j < 0
    BY DEF Indexes
  <2> QED
    BY <1>1, <1>2, <1>4, <2>1, <2>2 DEF Gapless
<1>7. CASE SkipFile
  <2>1. /\ pc = "rotate" /\ pc' = "rotate" /\ exists' = exists
        /\ i > 0 /\ i' = i - 1 /\ i - 1 \notin exists
    BY <1>7 DEF SkipFile, diskVars
  <2>2. i - 1 \in Indexes \ {i} /\ i \in Indexes /\ \A k \in Indexes : k \in Int
    BY <1>2, <2>1, RotatingFilesAssumption DEF Typed, Indexes, RotatingFilesAssumption
  <2>3. RotatedOut = {}
    BY <1>2, <2>1, <2>2 DEF Gapless
  <2>4. ASSUME NEW k \in exists, NEW j \in Indexes, j < k, j # i - 1
        PROVE  j \in exists
    <3>1. k \in Int
      BY <1>2, <2>2 DEF Typed
    <3>2. CASE j # i
      BY <1>2, <2>4, <3>2 DEF Gapless
    <3>3. CASE j = i
      <4>1. i - 1 < k
        BY <2>2, <2>4, <3>1, <3>3
      <4> QED
        BY <1>2, <2>1, <2>2, <4>1 DEF Gapless
    <3> QED
      BY <3>2, <3>3
  <2> QED
    BY <1>1, <1>2, <1>4, <2>1, <2>3, <2>4 DEF Gapless
<1> QED
  BY <1>5, <1>6, <1>7

\* The next message is in hand; what there is stays.
LEMMA LogGaps ==
    ASSUME FInv, GInv, NEW n \in Lengths, Log(n)
    PROVE  GInv'
<1> SUFFICES ASSUME faults' = 0 PROVE Gapless'
  BY DEF GInv
<1>1. /\ UNCHANGED <<exists, files, buffer, lost, faults, i>> /\ length \in Seq(Lengths)
      /\ Msg \in Nat /\ Msg' = Msg + 1 /\ pc = "idle" /\ pc' \in {"measure", "write"}
  BY DEF FInv, Typed, Log, Msg, diskVars, loopVars, faultVars
<1>2. InHand = {} /\ InHand' = {Msg + 1}
  BY <1>1 DEF InHand
<1>3. ASSUME NEW m \in RotatedOut' PROVE m \in RotatedOut
  <2>1. m \in 1 .. Msg' /\ ~ Holds(m)' /\ m \notin lost' /\ m \notin InHand'
    BY OutMeans
  <2>2. m \in 1 .. Msg
    BY <1>1, <1>2, <2>1
  <2>3. ~ Holds(m)
    BY <1>1, <2>1 DEF Holds
  <2> QED
    BY <1>1, <1>2, <2>1, <2>2, <2>3, OutMeans
<1> QED
  BY <1>1, <1>3 DEF GInv, Gapless

\* Outside the loop the files only grow.
LEMMA GrowGaps ==
    ASSUME Typed, Gapless, pc \notin {"rotate", "rename"}, pc' \notin {"rotate", "rename"},
           UNCHANGED <<exists, i>>, \A k \in Indexes : files[k] \subseteq files'[k],
           RotatedOut' \subseteq RotatedOut
    PROVE  Gapless'
<1>1. \A k \in exists : files[k] # {} => files'[k] # {}
  BY DEF Typed
<1> QED
  BY <1>1 DEF Gapless

\* Writes, flushes and the ends of the process.
LEMMA WriteGaps ==
    ASSUME FInv, FInv', GInv,
           Write \/ Flush \/ Stop \/ Crash \/ WriteClosed \/ GiveUp
    PROVE  GInv'
<1> SUFFICES ASSUME faults' = 0 PROVE Gapless'
  BY DEF GInv
<1>1. ~ Fault
  BY NoFailure DEF FInv
<1>2. ~ Crash /\ ~ FlushFails /\ ~ WriteFails /\ ~ ReopenFails
  BY <1>1 DEF Crash, FlushFails, WriteFails, ReopenFails
<1>3. faults = 0
  BY <1>1, <1>2 DEF Write, Flush, Stop, WriteClosed, GiveUp, faultVars
<1>4. ~ WriteClosed /\ ~ GiveUp /\ (pc \in {"idle", "flush", "write"} => isOpen)
  BY <1>3 DEF WriteClosed, GiveUp, FInv, Blamed
<1>5. /\ Typed /\ Gapless /\ UNCHANGED <<exists, lost>> /\ Msg' = Msg
      /\ pc \in {"write", "flush", "idle"} /\ pc' \in {"flush", "idle", "down"}
  <2>1. Typed /\ Gapless
    BY <1>3 DEF GInv, FInv
  <2>2. CASE Write
    BY <1>2, <2>1, <2>2 DEF Write, AfterMessage, faultVars, Msg
  <2>3. CASE Flush
    BY <2>1, <2>3 DEF Flush, Msg
  <2>4. CASE Stop
    BY <1>1, <1>4, <2>1, <2>4 DEF Stop, EndProcess, Msg
  <2> QED
    BY <1>2, <1>4, <2>2, <2>3, <2>4
<1>6. i = 0 /\ i' = 0
  BY <1>2, <1>4, <1>5 DEF Gapless, Write, Flush, Stop, EndProcess, loopVars
<1>7. \A k \in Indexes : files[k] \subseteq files'[k]
  <2>1. files' = files \/ files' = [files EXCEPT ![0] = @ \union buffer]
    BY <1>1, <1>2, <1>4 DEF Write, Flush, Stop, FlushBuffer
  <2> QED
    BY <1>5, <2>1, ZeroIndex DEF Typed
<1>8. \A m \in buffer : m \in buffer' \/ m \in files'[0]
  BY <1>1, <1>2, <1>4, <1>5, ZeroIndex DEF Typed, Write, Flush, Stop, FlushBuffer, EndProcess
<1>9. \A m \in InHand : Holds(m)'
  <2>1. CASE Write
    <3>1. Msg \in buffer'
      BY <1>2, <2>1 DEF Write
    <3> QED
      BY <1>5, <3>1 DEF InHand, Holds
  <2>2. CASE Flush \/ Stop
    BY <2>2 DEF Flush, Stop, InHand
  <2> QED
    BY <1>2, <1>4, <2>1, <2>2
<1>10. \A m : Holds(m) => Holds(m)'
  BY <1>7, <1>8, ZeroIndex DEF Holds
<1>11. RotatedOut' \subseteq RotatedOut
  BY <1>5, <1>9, <1>10, OutShrinks
<1> QED
  BY <1>5, <1>6, <1>7, <1>11, GrowGaps

\* Rotation starts when a log that is not empty gets too large.
LEMMA MeasureGaps ==
    ASSUME FInv, GInv, Measure
    PROVE  GInv'
<1> SUFFICES ASSUME faults' = 0 PROVE Gapless'
  BY DEF GInv
<1>1. ~ Fault
  BY NoFailure DEF FInv
<1>2. ~ FlushFails
  BY <1>1 DEF FlushFails
<1>3. faults = 0
  BY <1>2 DEF Measure
<1>4. isOpen
  BY <1>3 DEF Measure, FInv, Blamed
<1>5. /\ FlushBuffer /\ UNCHANGED <<exists, lost>> /\ Msg' = Msg /\ pc = "measure"
      /\ IF files'[0] # {}
           THEN pc' = "rotate" /\ i' = MaxFiles
           ELSE pc' = "write" /\ i' = i
  BY <1>2, <1>4 DEF Measure, FirstTarget, Msg
<1>6. Gapless /\ Typed /\ 0 \in exists /\ i = 0
  BY <1>3, <1>4, <1>5 DEF GInv, Gapless, FInv, Absent
<1>7. /\ files'[0] = files[0] \union buffer
      /\ \A k \in Indexes \ {0} : files'[k] = files[k]
  BY <1>5, <1>6, ZeroIndex DEF Typed, FlushBuffer
<1>8. \A m : Holds(m) => Holds(m)'
  BY <1>7, ZeroIndex DEF Holds
<1>9. InHand' = InHand
  BY <1>5 DEF InHand
<1>10. RotatedOut' \subseteq RotatedOut
  BY <1>5, <1>8, <1>9, OutShrinks
<1>11. CASE files'[0] = {}
  <2>1. \A k \in Indexes : files[k] \subseteq files'[k]
    BY <1>7
  <2>2. pc' = "write" /\ i' = i
    BY <1>5, <1>11
  <2> QED
    BY <1>5, <1>6, <1>10, <2>1, <2>2, GrowGaps
<1>12. CASE files'[0] # {}
  <2>1. pc' = "rotate" /\ i' = MaxFiles
    BY <1>5, <1>12
  <2>2. \A k \in exists, j \in Indexes : j < k => j \in exists
    BY <1>6 DEF Gapless
  <2>3. \A k \in exists : files'[k] # {}
    BY <1>6, <1>7, <1>12 DEF Gapless, Typed
  <2>4. RotatedOut # {} => Indexes \subseteq exists
    BY <1>6 DEF Gapless
  <2> QED
    BY <1>5, <1>10, <2>1, <2>2, <2>3, <2>4 DEF Gapless
<1> QED
  BY <1>11, <1>12

\* A file at i holds something only if it is the last of a full set.
LEMMA FullSet ==
    ASSUME FInv, Gapless, pc \in {"rotate", "rename"}, files[i] # {}
    PROVE  Indexes \ {i} \subseteq exists
<1>1. i \in exists /\ ~ i < MaxFiles
  BY DEF FInv, Typed, Absent, LoopFits
<1>2. \A j \in Indexes \ {i} : j < i
  BY <1>1, RotatingFilesAssumption DEF FInv, Typed, Indexes, RotatingFilesAssumption
<1> QED
  BY <1>1, <1>2 DEF Gapless

\* The gap moves down, one file at a time.
LEMMA RotateGaps ==
    ASSUME FInv, GInv, RemoveTarget \/ Rename
    PROVE  GInv'
<1> SUFFICES ASSUME faults' = 0 PROVE Gapless'
  BY DEF GInv
<1>1. ~ Fault
  BY NoFailure DEF FInv
<1>2. /\ faults = 0 /\ pc \in {"rotate", "rename"} /\ pc' \in {"rotate", "rename"}
      /\ i > 0 /\ i - 1 \in exists /\ Msg' = Msg /\ UNCHANGED <<buffer, lost>>
  BY <1>1 DEF RemoveTarget, Rename, FInv, LoopFits, Msg
<1>3. Gapless /\ Typed
  BY <1>2 DEF GInv, FInv
<1>4. /\ i \in Indexes /\ i - 1 \in Indexes /\ i - 1 # i
      /\ \A k \in Indexes : k \in Int
  BY <1>2, <1>3 DEF Typed, Indexes
<1>5. InHand' = InHand
  BY <1>2 DEF InHand
<1>6. \A k \in exists : files[k] # {}
  BY <1>2, <1>3 DEF Gapless
<1>7. CASE RemoveTarget
  <2>1. exists' = exists \ {i} /\ files' = [files EXCEPT ![i] = {}] /\ i' = i
    BY <1>1, <1>7 DEF RemoveTarget, loopVars
  <2>2. files'[i] = {} /\ \A k \in Indexes \ {i} : files'[k] = files[k]
    BY <1>3, <2>1 DEF Typed
  <2>3. RotatedOut' # {} => Indexes \ {i} \subseteq exists
    <3>1. CASE files[i] = {}
      <4>1. \A m : Holds(m) => Holds(m)'
        BY <1>2, <1>4, <2>2, <3>1 DEF Holds
      <4>2. RotatedOut' \subseteq RotatedOut
        BY <1>2, <1>5, <4>1, OutShrinks
      <4> QED
        BY <1>3, <4>2 DEF Gapless
    <3>2. CASE files[i] # {}
      BY <1>2, <1>3, <3>2, FullSet
    <3> QED
      BY <3>1, <3>2
  <2>4. \A k \in exists' : files'[k] # {}
    BY <1>3, <1>6, <2>1, <2>2 DEF Typed
  <2>5. \A k \in exists', j \in Indexes : j < k /\ j # i => j \in exists'
    BY <1>3, <2>1 DEF Gapless
  <2> QED
    BY <1>2, <2>1, <2>3, <2>4, <2>5 DEF Gapless
<1>8. CASE Rename
  <2>1. RenameFile /\ i' = i - 1
    BY <1>1, <1>8 DEF Rename
  <2>2. /\ files'[i] = files[i - 1] /\ files'[i - 1] = {}
        /\ \A k \in Indexes \ {i, i - 1} : files'[k] = files[k]
        /\ exists' = (exists \ {i - 1}) \union {i}
    BY <1>4, <2>1 DEF RenameFile
  <2>3. RotatedOut' # {} => Indexes \ {i} \subseteq exists
    <3>1. CASE files[i] = {}
      <4>1. \A m : Holds(m) => Holds(m)'
        BY <1>2, <1>4, <2>2, <3>1 DEF Holds
      <4>2. RotatedOut' \subseteq RotatedOut
        BY <1>2, <1>5, <4>1, OutShrinks
      <4> QED
        BY <1>3, <4>2 DEF Gapless
    <3>2. CASE files[i] # {}
      BY <1>2, <1>3, <3>2, FullSet
    <3> QED
      BY <3>1, <3>2
  <2>4. ASSUME NEW k \in exists' PROVE files'[k] # {}
    <3>1. CASE k = i
      BY <1>2, <1>6, <2>2, <3>1
    <3>2. CASE k # i
      <4>1. k \in exists /\ k # i - 1 /\ k \in Indexes
        BY <1>3, <2>2, <3>2 DEF Typed
      <4> QED
        BY <1>6, <2>2, <3>2, <4>1
    <3> QED
      BY <3>1, <3>2
  <2>5. ASSUME NEW k \in exists', NEW j \in Indexes, j < k, j # i - 1
        PROVE  j \in exists'
    <3>1. CASE j = i
      BY <2>2, <3>1
    <3>2. CASE j # i /\ k # i
      BY <1>3, <2>2, <2>5, <3>2 DEF Gapless
    <3>3. CASE j # i /\ k = i
      <4>1. j < i - 1
        BY <1>4, <2>5, <3>3
      <4> QED
        BY <1>2, <1>3, <2>2, <2>5, <3>3, <4>1 DEF Gapless
    <3> QED
      BY <3>1, <3>2, <3>3
  <2>6. RotatedOut' # {} => Indexes \ {i - 1} \subseteq exists'
    BY <2>2, <2>3
  <2> QED
    BY <1>2, <2>1, <2>4, <2>5, <2>6 DEF Gapless
<1> QED
  BY <1>7, <1>8

\* The file that is truncated has been moved away, unless it is the only one.
LEMMA ReopenGaps ==
    ASSUME FInv, GInv, RotateEnds
    PROVE  GInv'
<1> SUFFICES ASSUME faults' = 0 PROVE Gapless'
  BY DEF GInv
<1>1. ~ Fault
  BY NoFailure DEF FInv
<1>2. /\ exists' = exists \union {0} /\ files' = [files EXCEPT ![0] = {}]
      /\ i = 0 /\ i' = 0 /\ pc = "rotate" /\ pc' = "write"
      /\ Msg' = Msg /\ UNCHANGED <<buffer, lost, faults>>
  BY <1>1 DEF RotateEnds, ReopenFails, ReopenTruncated, OpenForAppend, loopVars, Msg
<1>3. Gapless /\ Typed
  BY <1>2 DEF GInv, FInv
<1>4. files'[0] = {} /\ \A k \in Indexes \ {0} : files'[k] = files[k]
  BY <1>2, <1>3, ZeroIndex DEF Typed
<1>5. \A j \in Indexes : ~ j < 0
  BY DEF Indexes
<1>6. RotatedOut' # {} => Indexes \ {0} \subseteq exists
  <2>1. CASE files[0] = {}
    <3>1. \A m : Holds(m) => Holds(m)'
      BY <1>2, <1>4, <2>1 DEF Holds
    <3>2. InHand' = InHand
      BY <1>2 DEF InHand
    <3>3. RotatedOut' \subseteq RotatedOut
      BY <1>2, <3>1, <3>2, OutShrinks
    <3> QED
      BY <1>2, <1>3, <3>3 DEF Gapless
  <2>2. CASE files[0] # {}
    BY <1>2, <1>3, <2>2, FullSet
  <2> QED
    BY <2>1, <2>2
<1> QED
  BY <1>2, <1>3, <1>4, <1>5, <1>6 DEF Gapless, Typed

(***************************************************************************)
(* Without failures rotating_file_sink throws a message away only when     *)
(* there are max_files_ older logs, all of newer messages.                 *)
(***************************************************************************)
THEOREM EnoughIsKept == Spec => []KeepsEnough
<1>1. Init => GInv
  <2> SUFFICES ASSUME Init PROVE Gapless
    BY DEF GInv
  <2>1. 1 .. Msg = {}
    BY DEF Init, Msg
  <2>2. RotatedOut = {}
    BY <2>1 DEF RotatedOut
  <2> QED
    BY <2>2 DEF Init, Gapless
<1>2. FInv /\ FInv' /\ GInv /\ [Next]_vars => GInv'
  <2> SUFFICES ASSUME FInv, FInv', GInv, [Next]_vars PROVE GInv'
    OBVIOUS
  <2>1. CASE UNCHANGED vars
    <3>1. UNCHANGED <<exists, files, buffer, length, lost, faults, i, pc>>
      BY <2>1 DEF vars, diskVars, loopVars, faultVars
    <3>2. RotatedOut' = RotatedOut
      BY <3>1 DEF RotatedOut, Kept, InHand, Msg
    <3> QED
      BY <3>1, <3>2 DEF GInv, Gapless
  <2> QED
    BY <2>1, QuietGaps, LogGaps, WriteGaps, MeasureGaps, RotateGaps, ReopenGaps
       DEF Next
<1>3. FInv /\ GInv => KeepsEnough
  BY DEF FInv, Typed, GInv, Gapless, KeepsEnough
<1> QED
  BY SpecFInv, <1>1, <1>2, <1>3, PTL DEF Spec

(***************************************************************************)
(* file_helper::write hands fd_ to fwrite without a test.  Between log     *)
(* calls, and when the base sink writes, fd_ is null only after a fault:   *)
(* a log of which no operation fails is never written through a null       *)
(* pointer.                                                                *)
(***************************************************************************)
THEOREM ClosedOnlyByFault == Spec => [](faults = 0 => WritesHaveFile)
<1>1. FInv => (faults = 0 => WritesHaveFile)
  BY DEF FInv, Typed, Blamed, WritesHaveFile
<1> QED BY SpecFInv, <1>1, PTL
===============================================================================
