--------------------------- MODULE PacketPath_proofs ---------------------------
(***************************************************************************)
(* Theorems about PacketPath, for every burst size, ring, pool, number of  *)
(* signals and length of traffic.                                          *)
(***************************************************************************)
EXTENDS PacketPath, SequenceTheorems, TLAPS

-------------------------------------------------------------------------------
(* Facts about the two halves of a sequence.                               *)

LEMMA TakenLeft ==
    ASSUME NEW S, NEW s \in Seq(S), NEW n \in 0 .. Len(s)
    PROVE  /\ Taken(s, n) \in Seq(S)
           /\ Len(Taken(s, n)) = n
           /\ Left(s, n) \in Seq(S)
           /\ Len(Left(s, n)) = Len(s) - n
<1>1. /\ Taken(s, n) \in Seq(S)
      /\ Len(Taken(s, n)) = n
  BY SubSeqProperties DEF Taken
<1>2. /\ Left(s, n) \in Seq(S)
      /\ Len(Left(s, n)) = Len(s) - n
  BY SubSeqProperties, LenProperties DEF Left
<1> QED BY <1>1, <1>2

LEMMA LeastProperties ==
    ASSUME NEW m \in Nat, NEW n \in Nat
    PROVE  /\ Least(m, n) \in Nat
           /\ Least(m, n) <= m
           /\ Least(m, n) <= n
           /\ Least(m, n) = m \/ Least(m, n) = n
BY DEF Least

LEMMA PlusType ==
    ASSUME NEW m \in Nat, NEW n \in Nat
    PROVE  Plus(m, n) \in Counter
BY PacketPathAssumption DEF Plus, Counter

-------------------------------------------------------------------------------
(***************************************************************************)
(* Where mbufs may be: the capture thread holds some only between the      *)
(* burst it received and the last of them enqueued or freed, the decode    *)
(* thread only while it parses and releases them, and there are none in    *)
(* the process before it is initialised.                                   *)
(***************************************************************************)
Places ==
    /\ mainPc \notin {"count", "enqueue", "drop", "free"} => burst = <<>>
    /\ decPc \notin {"parse", "release"} => decBurst = <<>>
    /\ mainPc \in {"new", "init", "spawn"} => ring = <<>> /\ decPc = "none"

IInv == TypeOK /\ MbufsConserved /\ Places

THEOREM InitIInv == Init => IInv
<1> SUFFICES ASSUME Init
             PROVE  IInv
  OBVIOUS
<1>1. 0 \in Counter
  BY PacketPathAssumption DEF Counter
<1>2. NumBufs \in 0 .. NumBufs /\ 0 <= RingCap /\ 0 <= Burst
  BY PacketPathAssumption
<1>3. <<>> \in Seq(Nat) /\ Len(<<>>) = 0
  OBVIOUS
<1>4. summary \in [Signals -> [cap : Counter, drop : Counter, taken : BOOLEAN,
                               early : BOOLEAN]]
  BY <1>1 DEF Init
<1>5. TypeOK
  BY <1>1, <1>2, <1>3, <1>4 DEF Init, TypeOK, MainPcs, DecPcs, SigPcs, Hosts
<1>6. MbufsConserved /\ Places
  BY <1>3, PacketPathAssumption DEF Init, MbufsConserved, InDescriptors, Places
<1> QED BY <1>5, <1>6 DEF IInv

LEMMA Numbers ==
    ASSUME TypeOK
    PROVE  /\ Burst \in Nat /\ RingCap \in Nat /\ poolFree \in Nat
           /\ received \in Nat
           /\ Len(ring) \in Nat /\ RingCap - Len(ring) \in Nat
           /\ Len(burst) \in Nat /\ Len(decBurst) \in Nat
           /\ capPktCount \in Nat /\ dropPktCount \in Nat
BY PacketPathAssumption, LenProperties DEF TypeOK, Counter

LEMMA MainIInv ==
    ASSUME IInv, Main
    PROVE  IInv'
<1>a. TypeOK
  BY DEF IInv
<1>b. /\ Burst \in Nat /\ RingCap \in Nat /\ poolFree \in Nat /\ received \in Nat
      /\ Len(ring) \in Nat /\ RingCap - Len(ring) \in Nat
      /\ Len(burst) \in Nat /\ Len(decBurst) \in Nat
      /\ capPktCount \in Nat /\ dropPktCount \in Nat
  BY <1>a, Numbers
<1>c. Plus(capPktCount, Len(burst)) \in Counter /\ Plus(dropPktCount, Len(burst)) \in Counter
  BY <1>b, PlusType
<1>d. Least(Burst, poolFree) \in Nat /\ Least(Burst, poolFree) <= Burst
      /\ Least(Burst, poolFree) <= poolFree
  BY <1>b, LeastProperties
<1> DEFINE n == Least(Len(burst), RingCap - Len(ring))
<1>e. n \in Nat /\ n \in 0 .. Len(burst) /\ n <= RingCap - Len(ring)
  BY <1>b DEF Least
<1>f. /\ Taken(burst, n) \in Seq(Nat) /\ Len(Taken(burst, n)) = n
      /\ Left(burst, n) \in Seq(Nat) /\ Len(Left(burst, n)) = Len(burst) - n
  <2>1. burst \in Seq(Nat)
    BY <1>a DEF TypeOK
  <2> HIDE DEF n
  <2> QED BY <1>e, <2>1, TakenLeft
<1>g. /\ ring \o Taken(burst, n) \in Seq(Nat)
      /\ Len(ring \o Taken(burst, n)) = Len(ring) + n
  BY <1>a, <1>f, ConcatProperties DEF TypeOK
<1> HIDE DEF n
<1> USE PacketPathAssumption, <1>b DEF IInv, TypeOK, MbufsConserved, InDescriptors, Places,
        MainPcs, DecPcs, SigPcs, Hosts, MainAt, captureVars, decodeVars, lifeVars,
        signalVars
<1>1. CASE RegisterCapture
  BY <1>1 DEF RegisterCapture
<1>2. CASE InitSucceeds
  BY <1>2 DEF InitSucceeds
<1>3. CASE InitFails
  BY <1>3 DEF InitFails
<1>4. CASE StartDecode
  BY <1>4 DEF StartDecode
<1>5. CASE RegisterDecode
  BY <1>5 DEF RegisterDecode
<1>6. CASE Poll
  BY <1>6 DEF Poll
<1>7. CASE RxBurst
  <2>1. PICK k \in 0 .. Least(Burst, poolFree) :
          /\ MainAt("rx", IF k = 0 THEN "poll" ELSE "count")
          /\ burst' = [i \in 1 .. k |-> received + i]
          /\ received' = received + k
          /\ poolFree' = poolFree - k
    BY <1>7 DEF RxBurst
  <2>2. k \in Nat /\ k <= Burst /\ k <= poolFree
    BY <2>1, <1>d
  <2>3. burst' \in Seq(Nat) /\ Len(burst') = k
    BY <2>1, <2>2
  <2>4. k = 0 => burst' = <<>>
    BY <2>3, EmptySeq
  <2>5. burst = <<>> /\ Len(<<>>) = 0
    BY <2>1
  <2>6. TypeOK'
    BY <1>7, <2>1, <2>2, <2>3 DEF RxBurst
  <2>7. /\ poolFree + RxDesc + Len(ring) + Len(burst) + Len(decBurst) = NumBufs
        /\ mainPc' \notin {"new", "init", "spawn", "exited"}
        /\ ring' = ring /\ decBurst' = decBurst /\ decPc' = decPc
    BY <1>7, <2>1 DEF RxBurst
  <2>8. MbufsConserved'
    <3>1. poolFree' + RxDesc + Len(ring') + Len(burst') + Len(decBurst') = NumBufs
      <4> HIDE DEF IInv, TypeOK, MbufsConserved, Places, MainAt
      <4> QED BY <2>1, <2>2, <2>3, <2>5, <2>7
    <3> QED BY <2>7, <3>1
  <2>9. Places'
    BY <1>7, <2>1, <2>4, <2>7
  <2> QED BY <2>6, <2>8, <2>9
<1>8. CASE CountReceived
  BY <1>8, <1>c DEF CountReceived
<1>9. CASE Enqueue
  <2>1. n = Len(burst) => Left(burst, n) = <<>>
    BY <1>e, <1>f, EmptySeq
  <2>2. /\ MainAt("enqueue", IF n < Len(burst) THEN "drop" ELSE "poll")
        /\ ring' = ring \o Taken(burst, n)
        /\ burst' = Left(burst, n)
        /\ UNCHANGED <<decPc, lifeVars, poolFree, capPktCount, dropPktCount,
                       received>>
    BY <1>9 DEF Enqueue, n
  <2>3. /\ poolFree + RxDesc + Len(ring) + Len(burst) + Len(decBurst) = NumBufs
        /\ mainPc' \in {"drop", "poll"}
        /\ poolFree' = poolFree /\ decBurst' = decBurst /\ decPc' = decPc
    BY <2>2
  <2>4. /\ ring' \in Seq(Nat) /\ Len(ring') = Len(ring) + n /\ Len(ring') <= RingCap
        /\ burst' \in Seq(Nat) /\ Len(burst') = Len(burst) - n
        /\ Len(burst') <= Burst
    BY <1>e, <1>f, <1>g, <2>2
  <2>5. TypeOK'
    BY <2>2, <2>3, <2>4
  <2>6. MbufsConserved'
    <3>1. poolFree' + RxDesc + Len(ring') + Len(burst') + Len(decBurst') = NumBufs
      <4>1. /\ Len(ring') = Len(ring) + n /\ Len(burst') = Len(burst) - n
            /\ poolFree + RxDesc + Len(ring) + Len(burst) + Len(decBurst) = NumBufs
            /\ poolFree' = poolFree /\ Len(decBurst') = Len(decBurst)
        BY <2>3, <2>4
      <4>2. n \in Int /\ RxDesc \in Int
        BY <1>e
      <4> HIDE DEF IInv, TypeOK, MbufsConserved, Places, MainAt
      <4> QED BY <4>1, <4>2
    <3> QED BY <2>3, <3>1
  <2>7. Places'
    BY <1>e, <1>f, <2>1, <2>2, <2>3
  <2> QED BY <2>5, <2>6, <2>7
<1>10. CASE CountDropped
  BY <1>10, <1>c DEF CountDropped
<1>11. CASE FreeDropped
  BY <1>11 DEF FreeDropped
<1>12. CASE StopDevice
  BY <1>12 DEF StopDevice
<1>13. CASE CleanupEal
  BY <1>13 DEF CleanupEal
<1>14. CASE ReturnFromMain
  BY <1>14 DEF ReturnFromMain
<1> QED
  BY <1>1, <1>2, <1>3, <1>4, <1>5, <1>6, <1>7, <1>8, <1>9, <1>10, <1>11, <1>12,
     <1>13, <1>14
  DEF Main

LEMMA DecodeIInv ==
    ASSUME IInv, DecodeThread
    PROVE  IInv'
<1>a. TypeOK
  BY DEF IInv
<1>b. /\ Burst \in Nat /\ Len(ring) \in Nat /\ Len(decBurst) \in Nat /\ poolFree \in Nat
      /\ Len(burst) \in Nat
  BY <1>a, Numbers
<1> DEFINE n == Least(Burst, Len(ring))
<1>c. n \in 0 .. Len(ring) /\ n <= Burst
  BY <1>b DEF Least
<1>d. /\ Taken(ring, n) \in Seq(Nat) /\ Len(Taken(ring, n)) = n
      /\ Left(ring, n) \in Seq(Nat) /\ Len(Left(ring, n)) = Len(ring) - n
  BY <1>a, <1>c, TakenLeft DEF TypeOK
<1> HIDE DEF n
<1> USE PacketPathAssumption, <1>b DEF IInv, TypeOK, MbufsConserved, InDescriptors, Places,
        MainPcs, DecPcs, SigPcs, Hosts, DecAt, Runs, captureVars, decodeVars,
        lifeVars, signalVars
<1>1. CASE TestRunning
  BY <1>1 DEF TestRunning
<1>2. CASE TestEmpty
  BY <1>2 DEF TestEmpty
<1>3. CASE Dequeue
  <2>1. n = 0 => Taken(ring, n) = <<>>
    BY <1>c, <1>d, EmptySeq
  <2>2. decBurst = <<>> /\ mainPc \notin {"new", "init", "spawn"}
    BY <1>3 DEF Dequeue
  <2> QED BY <1>3, <1>c, <1>d, <2>1, <2>2, SMTT(30) DEF Dequeue, n
<1>4. CASE Parse
  BY <1>4, ConcatProperties DEF Parse
<1>5. CASE ReleasePkt
  BY <1>5 DEF ReleasePkt
<1>6. CASE Dump
  BY <1>6 DEF Dump
<1> QED
  BY <1>1, <1>2, <1>3, <1>4, <1>5, <1>6 DEF DecodeThread

LEMMA DeliverIInv ==
    ASSUME IInv, NEW s \in Signals, NEW thread \in Hosts, Deliver(s, thread)
    PROVE  IInv'
BY DEF IInv, TypeOK, MbufsConserved, InDescriptors, Places, SigPcs, Hosts, Deliver, captureVars,
       decodeVars, lifeVars

LEMMA SigHandleIInv ==
    ASSUME IInv, NEW s \in Signals, SigHandle(s)
    PROVE  IInv'
<1> DEFINE Totals == [cap : Counter, drop : Counter, taken : BOOLEAN, early : BOOLEAN]
<1>a. /\ sigPc \in [Signals -> SigPcs] /\ summary \in [Signals -> Totals]
      /\ capRunning \in BOOLEAN /\ decRunning \in BOOLEAN /\ capRegistered \in BOOLEAN
      /\ capPktCount \in Counter /\ dropPktCount \in Counter
  BY DEF IInv, TypeOK
<1>b. UNCHANGED <<mainPc, decPc, sigHost, capRegistered, decRegistered, ealUp,
                  ring, poolFree, captureVars, decodeVars>>
  BY DEF SigHandle, Enter, LogTotals, CaughtInLog, TestCapture, StopCapture,
         ReadCapCount, ReadDropCount, TestDecode, StopDecode, HandlerAt, lifeVars,
         captureVars, decodeVars
<1>c. sigPc' \in [Signals -> SigPcs]
  BY <1>a DEF SigHandle, Enter, LogTotals, CaughtInLog, TestCapture, StopCapture,
              ReadCapCount, ReadDropCount, TestDecode, StopDecode, HandlerAt, SigPcs,
              lifeVars, captureVars, decodeVars
<1>d. capRunning' \in BOOLEAN /\ decRunning' \in BOOLEAN
  BY <1>a DEF SigHandle, Enter, LogTotals, CaughtInLog, TestCapture, StopCapture,
              ReadCapCount, ReadDropCount, TestDecode, StopDecode, lifeVars,
              captureVars, decodeVars
<1>e. summary' \in [Signals -> Totals]
  <2>1. CASE TestCapture(s)
    BY <1>a, <2>1 DEF TestCapture
  <2>2. CASE ReadCapCount(s)
    BY <1>a, <2>2 DEF ReadCapCount
  <2>3. CASE ReadDropCount(s)
    BY <1>a, <2>3 DEF ReadDropCount
  <2>4. CASE \/ Enter(s) \/ LogTotals(s) \/ CaughtInLog(s)
             \/ StopCapture(s) \/ TestDecode(s) \/ StopDecode(s)
    BY <1>a, <2>4 DEF Enter, LogTotals, CaughtInLog, StopCapture, TestDecode, StopDecode
  <2> QED BY <2>1, <2>2, <2>3, <2>4 DEF SigHandle
<1>f. logStuck' \in BOOLEAN
  BY DEF IInv, TypeOK, SigHandle, Enter, LogTotals, CaughtInLog, TestCapture, StopCapture,
         ReadCapCount, ReadDropCount, TestDecode, StopDecode, HandlerAt
<1>1. TypeOK'
  BY <1>b, <1>c, <1>d, <1>e, <1>f DEF IInv, TypeOK, captureVars, decodeVars
<1>2. MbufsConserved' /\ Places'
  BY <1>b DEF IInv, MbufsConserved, InDescriptors, Places, captureVars, decodeVars
<1> QED BY <1>1, <1>2 DEF IInv

THEOREM NextIInv == IInv /\ [Next]_vars => IInv'
<1> SUFFICES ASSUME IInv, [Next]_vars
             PROVE  IInv'
  OBVIOUS
<1>1. CASE Next
  BY <1>1, MainIInv, DecodeIInv, DeliverIInv, SigHandleIInv DEF Next
<1>2. CASE UNCHANGED vars
  BY <1>2 DEF vars, IInv, TypeOK, MbufsConserved, InDescriptors, Places
<1> QED BY <1>1, <1>2

THEOREM SpecIInv == Spec => []IInv
BY InitIInv, NextIInv, PTL DEF Spec

(***************************************************************************)
(* Type correctness, with the bounds of the ring, the two bursts and the   *)
(* pool, and the conservation of mbufs: none leaks on any path.            *)
(***************************************************************************)
THEOREM TypeCorrect == Spec => []TypeOK
BY SpecIInv, PTL DEF IInv

THEOREM MbufsNeverLeak == Spec => []MbufsConserved
BY SpecIInv, PTL DEF IInv

(***************************************************************************)
(* NUM_BUFS suffices for descriptors, a full ring and two bursts, so the   *)
(* receive burst never runs out of mbufs.                                  *)
(***************************************************************************)
THEOREM RxAlwaysSupplied == Spec => []RxNeverStarved
<1>1. IInv => RxNeverStarved
  BY PacketPathAssumption
  DEF IInv, TypeOK, MbufsConserved, InDescriptors, Places, RxNeverStarved
<1> QED BY <1>1, SpecIInv, PTL
-------------------------------------------------------------------------------
(* Arithmetic modulo the width of a counter.                               *)

LEMMA DivMod ==
    ASSUME NEW x \in Nat, NEW m \in Nat \ {0}
    PROVE  /\ x \div m \in Nat /\ x % m \in Nat
           /\ x % m < m
           /\ x = m * (x \div m) + (x % m)
OBVIOUS

LEMMA UniqueRemainder ==
    ASSUME NEW m \in Nat \ {0}, NEW q \in Int, NEW p \in Int, NEW r \in Nat,
           NEW t \in Nat, r < m, t < m, m * q + r = m * p + t
    PROVE  r = t
<1>1. CASE q = p
  BY <1>1
<1>2. CASE q < p
  <2>1. PICK d \in Nat \ {0} : p = q + d
    <3>1. p - q \in Nat \ {0} /\ p = q + (p - q)
      BY <1>2
    <3> QED BY <3>1
  <2>2. m * p = m * q + m * d
    BY <2>1
  <2>3. m * d >= m
    BY <2>1
  <2>4. m * q \in Int /\ m * p \in Int /\ m * d \in Int
    BY <2>1
  <2> QED BY <2>2, <2>3, <2>4
<1>3. CASE p < q
  <2>1. PICK d \in Nat \ {0} : q = p + d
    <3>1. q - p \in Nat \ {0} /\ q = p + (q - p)
      BY <1>3
    <3> QED BY <3>1
  <2>2. m * q = m * p + m * d
    BY <2>1
  <2>3. m * d >= m
    BY <2>1
  <2>4. m * q \in Int /\ m * p \in Int /\ m * d \in Int
    BY <2>1
  <2> QED BY <2>2, <2>3, <2>4
<1> QED BY <1>1, <1>2, <1>3

LEMMA ModAdd ==
    ASSUME NEW a \in Nat, NEW b \in Nat, NEW m \in Nat \ {0}
    PROVE  ((a % m) + b) % m = (a + b) % m
<1> DEFINE r == a % m
           q == a \div m
           s == r + b
           u == a + b
<1>1. r \in Nat /\ r < m /\ q \in Nat /\ a = m * q + r
  BY DivMod
<1>2. s \in Nat /\ u \in Nat
  BY <1>1
<1>3. /\ s % m \in Nat /\ s % m < m /\ s \div m \in Nat /\ s = m * (s \div m) + (s % m)
      /\ u % m \in Nat /\ u % m < m /\ u \div m \in Nat /\ u = m * (u \div m) + (u % m)
  BY <1>2, DivMod
<1>4. u = m * q + s
  BY <1>1
<1>5. m * (q + (s \div m)) = m * q + m * (s \div m)
  BY <1>1, <1>3
<1>6. m * (u \div m) + (u % m) = m * (q + (s \div m)) + (s % m)
  BY <1>1, <1>3, <1>4, <1>5
<1>7. s % m = u % m
  <2> HIDE DEF s, u, q
  <2>1. q + (s \div m) \in Int /\ u \div m \in Int
    BY <1>1, <1>3
  <2> QED BY <1>3, <1>6, <2>1, UniqueRemainder
<1> QED BY <1>7

-------------------------------------------------------------------------------
(* The counters tell what happened.                                        *)

LEMMA InitAccounted == Init => CaptureAccounted
BY PacketPathAssumption DEF Init, CaptureAccounted, Kept, InParse, InHand

LEMMA KeptType ==
    ASSUME TypeOK
    PROVE  InParse \in Nat /\ InHand \in Nat /\ Kept \in Nat
<1>1. /\ Len(burst) \in Nat /\ Len(ring) \in Nat /\ Len(decBurst) \in Nat
      /\ Len(decoded) \in Nat
  BY LenProperties DEF TypeOK
<1>2. InParse \in Nat
  BY <1>1 DEF InParse
<1>3. InHand \in Nat
  BY <1>1 DEF InHand
<1> QED BY <1>1, <1>2, <1>3 DEF Kept

\* Only the two counting steps of the capture thread change the balance.
LEMMA MainKept ==
    ASSUME IInv, Main, ~ CountReceived, ~ CountDropped
    PROVE  Kept' = Kept /\ capPktCount' = capPktCount /\ dropPktCount' = dropPktCount
<1>a. TypeOK /\ Places
  BY DEF IInv
<1>b. /\ Len(burst) \in Nat /\ Len(ring) \in Nat /\ Len(decBurst) \in Nat
      /\ Len(decoded) \in Nat /\ RingCap - Len(ring) \in Nat
  BY <1>a, Numbers, LenProperties DEF TypeOK
<1>c. ring \in Seq(Nat) /\ burst \in Seq(Nat)
  BY <1>a DEF TypeOK
<1> USE DEF Places, MainAt, captureVars, decodeVars, Kept, InParse, InHand
<1>1. CASE RegisterCapture
  BY <1>1 DEF RegisterCapture
<1>2. CASE InitSucceeds
  BY <1>2 DEF InitSucceeds
<1>3. CASE InitFails
  BY <1>3 DEF InitFails
<1>4. CASE StartDecode
  BY <1>4, <1>a DEF StartDecode
<1>5. CASE RegisterDecode
  BY <1>5 DEF RegisterDecode
<1>6. CASE Poll
  BY <1>6 DEF Poll
<1>7. CASE RxBurst
  BY <1>7 DEF RxBurst
<1>8. CASE Enqueue
  <2> DEFINE n == Least(Len(burst), RingCap - Len(ring))
  <2>1. n \in Nat /\ n \in 0 .. Len(burst)
    BY <1>b DEF Least
  <2>2. /\ Taken(burst, n) \in Seq(Nat) /\ Len(Taken(burst, n)) = n
        /\ Len(Left(burst, n)) = Len(burst) - n
    BY <1>c, <2>1, TakenLeft
  <2>3. Len(ring \o Taken(burst, n)) = Len(ring) + n
    <3> HIDE DEF n
    <3> QED BY <1>c, <2>2, ConcatProperties
  <2>4. /\ mainPc = "enqueue"
        /\ mainPc' = IF n < Len(burst) THEN "drop" ELSE "poll"
        /\ Len(ring') = Len(ring) + n
        /\ Len(burst') = Len(burst) - n
        /\ UNCHANGED <<decPc, decBurst, decoded, capPktCount, dropPktCount>>
    BY <1>8, <2>2, <2>3 DEF Enqueue
  <2>5. InParse' = InParse /\ InHand = Len(burst)
    BY <2>4
  <2> HIDE DEF n
  <2>6. InHand' = Len(burst) - n
    BY <1>b, <2>1, <2>4
  <2>7. InParse \in Nat /\ InHand \in Nat /\ InHand' \in Int
    BY <1>a, <1>b, <2>1, <2>6, KeptType
  <2> HIDE DEF InParse, InHand
  <2> QED BY <1>b, <2>1, <2>4, <2>5, <2>6, <2>7
<1>9. CASE FreeDropped
  BY <1>9 DEF FreeDropped
<1>10. CASE StopDevice
  BY <1>10 DEF StopDevice
<1>11. CASE CleanupEal
  BY <1>11 DEF CleanupEal
<1>12. CASE ReturnFromMain
  BY <1>12 DEF ReturnFromMain
<1> QED
  BY <1>1, <1>2, <1>3, <1>4, <1>5, <1>6, <1>7, <1>8, <1>9, <1>10, <1>11, <1>12
  DEF Main

LEMMA DecodeKept ==
    ASSUME IInv, DecodeThread
    PROVE  Kept' = Kept /\ capPktCount' = capPktCount /\ dropPktCount' = dropPktCount
<1>a. TypeOK /\ Places
  BY DEF IInv
<1>b. /\ Burst \in Nat
      /\ Len(burst) \in Nat /\ Len(ring) \in Nat /\ Len(decBurst) \in Nat
      /\ Len(decoded) \in Nat
  BY <1>a, Numbers, LenProperties DEF TypeOK
<1> USE DEF Places, DecAt, captureVars, decodeVars, Kept, InParse, InHand
<1>1. CASE TestRunning
  BY <1>1 DEF TestRunning
<1>2. CASE TestEmpty
  BY <1>2 DEF TestEmpty
<1>3. CASE Dequeue
  <2> DEFINE n == Least(Burst, Len(ring))
  <2>1. n \in Nat /\ n \in 0 .. Len(ring)
    BY <1>b DEF Least
  <2>2. Len(Taken(ring, n)) = n /\ Len(Left(ring, n)) = Len(ring) - n
    <3>1. ring \in Seq(Nat)
      BY <1>a DEF TypeOK
    <3> HIDE DEF n
    <3> QED BY <2>1, <3>1, TakenLeft
  <2>3. /\ decPc = "dequeue"
        /\ decPc' = IF n = 0 THEN "running" ELSE "parse"
        /\ Len(decBurst') = n
        /\ Len(ring') = Len(ring) - n
        /\ UNCHANGED <<mainPc, burst, decoded, capPktCount, dropPktCount>>
    BY <1>3, <2>2 DEF Dequeue
  <2>4. InHand' = InHand /\ InParse = 0
    BY <2>3
  <2> HIDE DEF n
  <2>5. InParse' = n
    BY <1>b, <2>1, <2>3
  <2>6. InHand \in Nat
    BY <1>a, KeptType
  <2> HIDE DEF InParse, InHand
  <2> QED BY <1>b, <2>1, <2>3, <2>4, <2>5, <2>6
<1>4. CASE Parse
  <2>1. /\ decPc = "parse" /\ decPc' = "release"
        /\ Len(decoded') = Len(decoded) + Len(decBurst)
        /\ UNCHANGED <<mainPc, ring, burst, capPktCount, dropPktCount>>
    BY <1>4, <1>a, ConcatProperties DEF Parse, TypeOK
  <2> QED BY <1>b, <2>1
<1>5. CASE ReleasePkt
  BY <1>5 DEF ReleasePkt
<1>6. CASE Dump
  BY <1>6 DEF Dump
<1> QED
  BY <1>1, <1>2, <1>3, <1>4, <1>5, <1>6 DEF DecodeThread

LEMMA NextAccounted ==
    ASSUME IInv, CaptureAccounted, [Next]_vars
    PROVE  CaptureAccounted'
<1>a. TypeOK /\ Places
  BY DEF IInv
<1>b. /\ capPktCount \in Nat /\ dropPktCount \in Nat /\ Kept \in Nat
      /\ Len(burst) \in Nat /\ Len(ring) \in Nat /\ Len(decBurst) \in Nat
      /\ Len(decoded) \in Nat /\ UINT32 \in Nat \ {0}
  BY <1>a, Numbers, KeptType, LenProperties, PacketPathAssumption DEF TypeOK
<1>c. capPktCount = (dropPktCount + Kept) % UINT32
  BY DEF CaptureAccounted
<1>1. CASE CountReceived
  <2>1. Kept' = Kept + Len(burst)
    BY <1>1, <1>b DEF CountReceived, MainAt, decodeVars, Kept, InParse, InHand
  <2>2. capPktCount' = (capPktCount + Len(burst)) % UINT32 /\ dropPktCount' = dropPktCount
    BY <1>1 DEF CountReceived, Plus
  <2>3. (capPktCount + Len(burst)) % UINT32 = ((dropPktCount + Kept) + Len(burst)) % UINT32
    <3>1. dropPktCount + Kept \in Nat
      BY <1>b
    <3> QED BY <1>b, <1>c, <3>1, ModAdd
  <2>4. (dropPktCount + Kept) + Len(burst) = dropPktCount' + Kept'
    BY <1>b, <2>1, <2>2
  <2> QED BY <2>2, <2>3, <2>4 DEF CaptureAccounted
<1>2. CASE CountDropped
  <2>1. Kept' \in Nat /\ Kept = Kept' + Len(burst)
    BY <1>2, <1>b DEF CountDropped, MainAt, decodeVars, Kept, InParse, InHand
  <2>2. dropPktCount' = (dropPktCount + Len(burst)) % UINT32 /\ capPktCount' = capPktCount
    BY <1>2 DEF CountDropped, Plus
  <2>3. (((dropPktCount + Len(burst)) % UINT32) + Kept') % UINT32
          = ((dropPktCount + Len(burst)) + Kept') % UINT32
    <3>1. dropPktCount + Len(burst) \in Nat
      BY <1>b
    <3> QED BY <1>b, <2>1, <3>1, ModAdd
  <2>4. (dropPktCount + Len(burst)) + Kept' = dropPktCount + Kept
    BY <1>b, <2>1
  <2> QED BY <1>c, <2>2, <2>3, <2>4 DEF CaptureAccounted
<1>3. CASE Kept' = Kept /\ capPktCount' = capPktCount /\ dropPktCount' = dropPktCount
  BY <1>3 DEF CaptureAccounted
<1>4. ASSUME NEW s \in Signals, NEW thread \in Hosts, Deliver(s, thread)
      PROVE  Kept' = Kept /\ capPktCount' = capPktCount /\ dropPktCount' = dropPktCount
  BY <1>4 DEF Deliver, captureVars, decodeVars, Kept, InParse, InHand
<1>5. ASSUME NEW s \in Signals, SigHandle(s)
      PROVE  Kept' = Kept /\ capPktCount' = capPktCount /\ dropPktCount' = dropPktCount
  BY <1>5
  DEF SigHandle, Enter, LogTotals, CaughtInLog, TestCapture, StopCapture, ReadCapCount,
      ReadDropCount, TestDecode, StopDecode, HandlerAt, captureVars, decodeVars, Kept,
      InParse, InHand, lifeVars
<1>6. CASE UNCHANGED vars
  BY <1>6, <1>3 DEF vars, Kept, InParse, InHand
<1> QED
  BY <1>1, <1>2, <1>3, <1>4, <1>5, <1>6, MainKept, DecodeKept DEF Next

(***************************************************************************)
(* The two totals of the capture agree with the packets, at every moment:  *)
(* captured = dropped + decoded + on the way, modulo 2^32.                 *)
(***************************************************************************)
THEOREM CaptureAlwaysAccounted == Spec => []CaptureAccounted
BY InitAccounted, NextAccounted, SpecIInv, PTL DEF Spec

-------------------------------------------------------------------------------
(***************************************************************************)
(* What the decode thread leaves on the ring.  A handler that saw the      *)
(* capture stops it before it looks at the decoding, so the decode thread  *)
(* finds m_running false only when the capture flag is down; when it then  *)
(* finds the ring empty, main() has at most one burst left to enqueue.     *)
(***************************************************************************)
StopOrder ==
    /\ \A s \in Signals : sigPc[s] \in {"idle", "enter", "capRunning"} => ~ summary[s].early
    /\ NoneEarly =>
         /\ \A s \in Signals :
              sigPc[s] \in {"readCap", "readDrop", "logTotals", "decRunning", "decStop"}
                => ~ capRunning
         /\ decPc # "none" /\ ~ decRunning => ~ capRunning
         /\ decPc \in {"empty", "dump", "done"} => ~ capRunning
         /\ decPc \in {"dump", "done"} =>
              /\ Len(ring) <= Burst
              /\ mainPc \in {"rx", "count", "enqueue"} => ring = <<>>

LEMMA InitStopOrder == Init => StopOrder
BY DEF Init, StopOrder

LEMMA MainStopOrder ==
    ASSUME IInv, StopOrder, Main
    PROVE  StopOrder'
<1>a. /\ TypeOK
      /\ Len(burst) \in Nat /\ Len(ring) \in Nat /\ RingCap - Len(ring) \in Nat
      /\ Len(burst) <= Burst /\ Burst \in Nat
      /\ ring \in Seq(Nat) /\ burst \in Seq(Nat)
  BY Numbers DEF IInv, TypeOK
<1>b. sigPc' = sigPc /\ summary' = summary
  BY DEF Main, RegisterCapture, InitSucceeds, InitFails, StartDecode, RegisterDecode,
         Poll, RxBurst, CountReceived, Enqueue, CountDropped, FreeDropped, StopDevice,
         CleanupEal, ReturnFromMain, MainAt, signalVars
<1>c. NoneEarly' <=> NoneEarly
  BY <1>b DEF NoneEarly
<1>1. CASE StartDecode
  BY <1>1, <1>a, <1>b, <1>c DEF StartDecode, MainAt, captureVars, StopOrder
<1>2. CASE Poll
  BY <1>2, <1>a, <1>b, <1>c DEF Poll, MainAt, lifeVars, StopOrder
<1>3. CASE RxBurst
  <2>1. /\ mainPc = "rx" /\ UNCHANGED <<decPc, capRunning, decRunning, ring>>
    BY <1>3 DEF RxBurst, MainAt, lifeVars
  <2> QED BY <2>1, <1>b, <1>c DEF StopOrder
<1>4. CASE Enqueue
  <2> DEFINE n == Least(Len(burst), RingCap - Len(ring))
  <2>1. n \in Nat /\ n \in 0 .. Len(burst) /\ n <= Burst
    BY <1>a DEF Least
  <2>2. Taken(burst, n) \in Seq(Nat) /\ Len(Taken(burst, n)) = n
    BY <1>a, <2>1, TakenLeft
  <2>3. ring = <<>> => Len(ring \o Taken(burst, n)) = n
    <3> HIDE DEF n
    <3> QED BY <2>1, <2>2, ConcatProperties
  <2>4. /\ mainPc = "enqueue" /\ mainPc' \in {"drop", "poll"}
        /\ ring' = ring \o Taken(burst, n)
        /\ UNCHANGED <<decPc, capRunning, decRunning>>
    BY <1>4 DEF Enqueue, MainAt, lifeVars
  <2> HIDE DEF n
  <2> QED BY <1>b, <1>c, <2>1, <2>3, <2>4 DEF StopOrder
<1>5. CASE ~ StartDecode /\ ~ Poll /\ ~ RxBurst /\ ~ Enqueue
  <2>1. /\ UNCHANGED <<decPc, capRunning, decRunning, ring>>
        /\ mainPc' \in {"rx", "count", "enqueue"} => mainPc \in {"rx", "count", "enqueue"}
    BY <1>5
    DEF Main, RegisterCapture, InitSucceeds, InitFails, RegisterDecode, CountReceived,
        CountDropped, FreeDropped, StopDevice, CleanupEal, ReturnFromMain, MainAt,
        lifeVars
  <2> QED BY <1>b, <1>c, <2>1 DEF StopOrder
<1> QED BY <1>1, <1>2, <1>3, <1>4, <1>5

LEMMA DecodeStopOrder ==
    ASSUME IInv, StopOrder, DecodeThread
    PROVE  StopOrder'
<1>a. UNCHANGED <<mainPc, capRunning, decRunning, sigPc, summary>>
  BY DEF DecodeThread, TestRunning, TestEmpty, Dequeue, Parse, ReleasePkt, Dump, DecAt,
         lifeVars, signalVars
<1>b. NoneEarly' <=> NoneEarly
  BY <1>a DEF NoneEarly
<1>c. Len(<<>>) = 0 /\ Burst \in Nat
  BY PacketPathAssumption
<1>1. CASE TestRunning
  BY <1>1, <1>a, <1>b DEF TestRunning, DecAt, StopOrder
<1>2. CASE TestEmpty
  BY <1>2, <1>a, <1>b, <1>c DEF TestEmpty, DecAt, StopOrder
<1>3. CASE Dequeue \/ Parse \/ ReleasePkt
  <2>1. decPc # "none" /\ decPc' \in {"running", "parse", "release"}
    BY <1>3 DEF Dequeue, Parse, ReleasePkt, DecAt
  <2> QED BY <1>a, <1>b, <2>1 DEF StopOrder
<1>4. CASE Dump
  BY <1>4, <1>a, <1>b DEF Dump, DecAt, StopOrder
<1> QED BY <1>1, <1>2, <1>3, <1>4 DEF DecodeThread

LEMMA DeliverStopOrder ==
    ASSUME IInv, StopOrder, NEW s \in Signals, NEW thread \in Hosts, Deliver(s, thread)
    PROVE  StopOrder'
BY DEF IInv, TypeOK, StopOrder, NoneEarly, Deliver, lifeVars

LEMMA SigHandleStopOrder ==
    ASSUME IInv, StopOrder, NEW s \in Signals, SigHandle(s)
    PROVE  StopOrder'
<1> USE DEF IInv, TypeOK, StopOrder, NoneEarly, HandlerAt
<1>1. CASE TestCapture(s)
  BY <1>1 DEF TestCapture
<1>2. CASE StopCapture(s)
  BY <1>2 DEF StopCapture
<1>3. CASE ReadCapCount(s)
  BY <1>3 DEF ReadCapCount
<1>4. CASE ReadDropCount(s)
  BY <1>4 DEF ReadDropCount
<1>5. CASE TestDecode(s)
  BY <1>5 DEF TestDecode
<1>6. CASE StopDecode(s)
  BY <1>6 DEF StopDecode
<1>7. CASE Enter(s) \/ LogTotals(s)
  BY <1>7 DEF Enter, LogTotals
<1>8. CASE CaughtInLog(s)
  BY <1>8 DEF CaughtInLog, lifeVars
<1> QED
  BY <1>1, <1>2, <1>3, <1>4, <1>5, <1>6, <1>7, <1>8 DEF SigHandle

LEMMA NextStopOrder == IInv /\ StopOrder /\ [Next]_vars => StopOrder'
<1> SUFFICES ASSUME IInv, StopOrder, [Next]_vars
             PROVE  StopOrder'
  OBVIOUS
<1>1. CASE UNCHANGED vars
  BY <1>1 DEF vars, StopOrder, NoneEarly
<1> QED
  BY <1>1, MainStopOrder, DecodeStopOrder, DeliverStopOrder, SigHandleStopOrder DEF Next

(***************************************************************************)
(* Unless a handler ran before the capture was registered, the decode      *)
(* thread leaves at most one burst of packets on the ring when it ends,    *)
(* whatever threads the handlers interrupted.                              *)
(***************************************************************************)
THEOREM StrandsAtMostOneBurst == Spec => []AtMostOneBurstStranded
<1>1. StopOrder => AtMostOneBurstStranded
  BY DEF StopOrder, AtMostOneBurstStranded
<1> QED BY <1>1, InitStopOrder, NextStopOrder, SpecIInv, PTL DEF Spec

-------------------------------------------------------------------------------
(* The path implements LossyQueue.                                         *)

LEMMA HalvesOfConcat ==
    ASSUME NEW S, NEW s \in Seq(S), NEW t \in Seq(S)
    PROVE  /\ SubSeq(s \o t, 1, Len(s)) = s
           /\ SubSeq(s \o t, Len(s) + 1, Len(s \o t)) = t
<1>1. Len(s) \in Nat /\ Len(t) \in Nat /\ Len(s \o t) = Len(s) + Len(t)
  BY ConcatProperties, LenProperties
<1>2. SubSeq(s \o t, 1, Len(s)) = s
  <2>1. CASE Len(s) = 0
    BY <2>1, SubSeqEmpty, EmptySeq
  <2>2. CASE Len(s) # 0
    <3>1. 1 \in 1 .. Len(s) /\ Len(s) \in 1 .. Len(s)
      BY <1>1, <2>2
    <3> QED BY <3>1, SubSeqOfConcat1, SubSeqFull
  <2> QED BY <2>1, <2>2
<1>3. SubSeq(s \o t, Len(s) + 1, Len(s \o t)) = t
  <2>1. CASE Len(t) = 0
    <3>1. Len(s) + 1 \in Int /\ Len(s \o t) \in Int /\ Len(s \o t) < Len(s) + 1
      BY <1>1, <2>1
    <3>2. SubSeq(s \o t, Len(s) + 1, Len(s \o t)) = <<>>
      BY <3>1, SubSeqEmpty
    <3> QED BY <3>2, <2>1, EmptySeq
  <2>2. CASE Len(t) # 0
    <3> DEFINE m == Len(s) + 1
               n == Len(s) + Len(t)
    <3>1. m \in Len(s) + 1 .. Len(s) + Len(t) /\ n \in Len(s) + 1 .. Len(s) + Len(t)
      BY <1>1, <2>2
    <3>2. m - Len(s) = 1 /\ n - Len(s) = Len(t)
      BY <1>1
    <3>3. SubSeq(s \o t, m, n) = SubSeq(t, m - Len(s), n - Len(s))
      <4> HIDE DEF m, n
      <4> QED BY <3>1, SubSeqOfConcat2
    <3> QED BY <1>1, <3>2, <3>3, SubSeqFull
  <2> QED BY <2>1, <2>2
<1> QED BY <1>2, <1>3

LEMMA TakenThenLeft ==
    ASSUME NEW S, NEW s \in Seq(S), NEW n \in 0 .. Len(s)
    PROVE  Taken(s, n) \o Left(s, n) = s
<1>1. /\ Len(s) \in Nat
      /\ 1 \in 1 .. Len(s) + 1 /\ n \in 1 - 1 .. Len(s) /\ Len(s) \in n .. Len(s)
  BY LenProperties
<1> QED BY <1>1, ConcatAdjacentSubSeq, SubSeqFull DEF Taken, Left

LEMMA TakenMoved ==
    ASSUME NEW S, NEW r \in Seq(S), NEW s \in Seq(S), NEW n \in 0 .. Len(s)
    PROVE  (r \o Taken(s, n)) \o Left(s, n) = r \o s
<1>1. ASSUME NEW t \in Seq(S), NEW u \in Seq(S)
      PROVE  (r \o t) \o u = r \o (t \o u)
  BY ConcatAssociative
<1>2. (r \o Taken(s, n)) \o Left(s, n) = r \o (Taken(s, n) \o Left(s, n))
  BY <1>1, TakenLeft
<1> QED BY <1>2, TakenThenLeft

LEMMA NatConcat ==
    ASSUME NEW r \in Seq(Nat), NEW s \in Seq(Nat), NEW t \in Seq(Nat)
    PROVE  /\ r \o s \in Seq(Nat)
           /\ (r \o s) \o t = r \o (s \o t)
<1>1. r \o s \in Seq(Nat)
  BY ConcatProperties
<1>2. (r \o s) \o t = r \o (s \o t)
  BY ConcatAssociative, SMTT(30)
<1> QED BY <1>1, <1>2

\* The packets being decoded or about to be.
InParsing == IF decPc = "parse" THEN decBurst ELSE <<>>

LEMMA SeqTypes ==
    ASSUME TypeOK
    PROVE  /\ InParsing \in Seq(Nat) /\ ring \in Seq(Nat) /\ burst \in Seq(Nat)
           /\ InParsing \o ring \in Seq(Nat) /\ ring \o burst \in Seq(Nat)
           /\ Pending = (InParsing \o ring) \o burst
           /\ Pending = InParsing \o (ring \o burst)
           /\ Pending \in Seq(Nat)
<1>1. InParsing \in Seq(Nat) /\ ring \in Seq(Nat) /\ burst \in Seq(Nat)
  BY DEF TypeOK, InParsing
<1>2. InParsing \o ring \in Seq(Nat) /\ ring \o burst \in Seq(Nat)
  BY <1>1, ConcatProperties
<1>3. Pending = (InParsing \o ring) \o burst
  BY DEF Pending, InParsing
<1>4. (InParsing \o ring) \o burst = InParsing \o (ring \o burst)
  BY <1>1, NatConcat, SMTT(30)
<1>5. (InParsing \o ring) \o burst \in Seq(Nat)
  BY <1>1, <1>2, NatConcat
<1> QED BY <1>1, <1>2, <1>3, <1>4, <1>5

\* A burst received is offered.
LEMMA RxBurstIsOffer ==
    ASSUME IInv, RxBurst
    PROVE  [Queue!Next]_(Queue!vars)
<1>1. PICK n \in 0 .. Least(Burst, poolFree) :
        /\ MainAt("rx", IF n = 0 THEN "poll" ELSE "count")
        /\ burst' = [i \in 1 .. n |-> received + i]
        /\ received' = received + n
  BY DEF RxBurst
<1>2. n \in Nat /\ received \in Nat
  BY Numbers, LeastProperties DEF IInv
<1>3. burst = <<>> /\ UNCHANGED <<decPc, decBurst, ring, decoded>>
  BY <1>1 DEF RxBurst, MainAt, decodeVars, IInv, Places
<1>4. InParsing' = InParsing /\ Pending' = (InParsing \o ring) \o burst' /\ Pending = InParsing \o ring
  <2>1. Pending = InParsing \o ring
    BY <1>3, SeqTypes, ConcatEmptySeq DEF IInv
  <2> QED BY <1>3, <2>1 DEF Pending, InParsing
<1>5. CASE n = 0
  <2>1. burst' = <<>>
    BY <1>1, <1>5, <1>2
  <2>2. Pending' = Pending /\ received' = received
    BY <1>1, <1>2, <1>3, <1>4, <1>5, <2>1, SeqTypes, ConcatEmptySeq DEF IInv
  <2> QED BY <1>3, <2>2 DEF Queue!vars
<1>6. CASE n # 0
  <2>1. received' \in Nat /\ received' > received /\ received' - received = n
    BY <1>1, <1>2, <1>6
  <2>2. Pending' = Pending \o [i \in 1 .. received' - received |-> received + i]
    BY <1>1, <1>4, <2>1
  <2> QED BY <1>3, <2>1, <2>2 DEF Queue!Next, Queue!Offer
<1> QED BY <1>5, <1>6

\* Moving packets from a burst to the ring leaves the queue as it is.
LEMMA EnqueueStutters ==
    ASSUME IInv, Enqueue
    PROVE  UNCHANGED Queue!vars
<1> DEFINE n == Least(Len(burst), RingCap - Len(ring))
<1>1. n \in 0 .. Len(burst)
  BY Numbers DEF IInv, Least
<1>2. /\ ring' = ring \o Taken(burst, n) /\ burst' = Left(burst, n)
      /\ UNCHANGED <<decPc, decBurst, decoded, received>>
  BY DEF Enqueue, MainAt, decodeVars
<1> HIDE DEF n
<1>3. /\ InParsing \in Seq(Nat) /\ ring \in Seq(Nat) /\ burst \in Seq(Nat)
      /\ ring' \in Seq(Nat) /\ burst' \in Seq(Nat)
      /\ Taken(burst, n) \in Seq(Nat) /\ Left(burst, n) \in Seq(Nat)
  BY <1>1, <1>2, SeqTypes, TakenLeft, ConcatProperties DEF IInv
<1>4. ring' \o burst' = ring \o burst
  BY <1>1, <1>2, <1>3, TakenMoved
<1>5. Pending' = InParsing \o (ring' \o burst')
  <2>1. Pending' = (InParsing \o ring') \o burst'
    BY <1>2 DEF Pending, InParsing
  <2>2. (InParsing \o ring') \o burst' = InParsing \o (ring' \o burst')
    <3>1. InParsing \in Seq(Nat) /\ ring' \in Seq(Nat) /\ burst' \in Seq(Nat)
      BY <1>3
    <3> QED BY <3>1, NatConcat, SMTT(30)
  <2> QED BY <2>1, <2>2
<1>6. Pending' = Pending
  BY <1>4, <1>5, SeqTypes DEF IInv
<1> QED BY <1>2, <1>6 DEF Queue!vars

\* Packets that did not fit are lost, and they are the newest.
LEMMA FreeDroppedIsLose ==
    ASSUME IInv, FreeDropped
    PROVE  [Queue!Next]_(Queue!vars)
<1> DEFINE q == InParsing \o ring
<1>1. burst' = <<>> /\ UNCHANGED <<decPc, decBurst, ring, decoded, received>>
  BY DEF FreeDropped, MainAt, decodeVars
<1>2. /\ q \in Seq(Nat) /\ burst \in Seq(Nat) /\ Pending = q \o burst
  BY SeqTypes DEF IInv
<1>3. Pending' = q
  <2>1. Pending' = q \o <<>>
    BY <1>1 DEF Pending, InParsing
  <2> HIDE DEF q
  <2> QED BY <1>2, <2>1, ConcatEmptySeq
<1> HIDE DEF q
<1>4. CASE burst = <<>>
  BY <1>1, <1>2, <1>3, <1>4, ConcatEmptySeq DEF Queue!vars
<1>5. CASE burst # <<>>
  <2>1. Len(q) \in Nat /\ Len(burst) \in Nat /\ Len(burst) # 0
        /\ Len(Pending) = Len(q) + Len(burst)
    BY <1>2, <1>5, LenProperties, EmptySeq, ConcatProperties
  <2>2. Len(q) \in 0 .. Len(Pending) - 1
    BY <2>1
  <2>3. Pending' = SubSeq(Pending, 1, Len(q))
    BY <1>2, <1>3, HalvesOfConcat
  <2> QED BY <1>1, <2>2, <2>3 DEF Queue!Next, Queue!Lose
<1> QED BY <1>4, <1>5

\* Moving packets from the ring to a burst leaves the queue as it is.
LEMMA DequeueStutters ==
    ASSUME IInv, Dequeue
    PROVE  UNCHANGED Queue!vars
<1> DEFINE n == Least(Burst, Len(ring))
<1>1. n \in 0 .. Len(ring)
  BY Numbers DEF IInv, Least
<1>2. /\ decPc = "dequeue" /\ decPc' = (IF n = 0 THEN "running" ELSE "parse")
      /\ decBurst' = Taken(ring, n) /\ ring' = Left(ring, n)
      /\ UNCHANGED <<burst, decoded, received>>
  BY DEF Dequeue, DecAt, captureVars
<1> HIDE DEF n
<1>3. ring \in Seq(Nat) /\ Len(Taken(ring, n)) = n /\ Taken(ring, n) \in Seq(Nat)
  BY <1>1, SeqTypes, TakenLeft DEF IInv
<1>4. InParsing' = Taken(ring, n)
  <2>1. n = 0 => Taken(ring, n) = <<>>
    BY <1>3, EmptySeq
  <2> QED BY <1>2, <2>1 DEF InParsing
<1>5. InParsing' \o ring' = ring
  BY <1>1, <1>2, <1>3, <1>4, TakenThenLeft
<1>6. InParsing \o ring = ring
  BY <1>2, <1>3, ConcatEmptySeq DEF InParsing
<1>7. Pending' = Pending
  <2>1. Pending' = (InParsing' \o ring') \o burst' /\ Pending = (InParsing \o ring) \o burst
    BY DEF Pending, InParsing
  <2> QED BY <1>2, <1>5, <1>6, <2>1
<1> QED BY <1>2, <1>7 DEF Queue!vars

\* Decoding a burst delivers the oldest packets.
LEMMA ParseIsDeliver ==
    ASSUME IInv, Parse
    PROVE  [Queue!Next]_(Queue!vars)
<1> DEFINE q == ring \o burst
<1>1. /\ decPc = "parse" /\ decPc' = "release" /\ decoded' = decoded \o decBurst
      /\ UNCHANGED <<ring, burst, received>>
  BY DEF Parse, DecAt, captureVars
<1>2. /\ decBurst \in Seq(Nat) /\ q \in Seq(Nat) /\ Pending = decBurst \o q
      /\ decoded \in Seq(Nat) /\ ring \in Seq(Nat)
  BY <1>1, SeqTypes DEF IInv, TypeOK, InParsing
<1>3. Pending' = q
  <2>1. Pending' = (<<>> \o ring) \o burst
    BY <1>1 DEF Pending
  <2> QED BY <1>2, <2>1, ConcatEmptySeq
<1> HIDE DEF q
<1>4. CASE decBurst = <<>>
  BY <1>1, <1>2, <1>3, <1>4, ConcatEmptySeq DEF Queue!vars
<1>5. CASE decBurst # <<>>
  <2>1. Len(decBurst) \in Nat /\ Len(decBurst) # 0 /\ Len(q) \in Nat
        /\ Len(Pending) = Len(decBurst) + Len(q)
    BY <1>2, <1>5, LenProperties, EmptySeq, ConcatProperties
  <2>2. Len(decBurst) \in 1 .. Len(Pending)
    BY <2>1
  <2>3. /\ decoded' = decoded \o SubSeq(Pending, 1, Len(decBurst))
        /\ Pending' = SubSeq(Pending, Len(decBurst) + 1, Len(Pending))
    BY <1>1, <1>2, <1>3, HalvesOfConcat
  <2> QED BY <1>1, <2>2, <2>3 DEF Queue!Next, Queue!Deliver
<1> QED BY <1>4, <1>5

\* The other steps of the two threads move no packet.
LEMMA MainStutters ==
    ASSUME IInv, Main, ~ RxBurst, ~ Enqueue, ~ FreeDropped
    PROVE  UNCHANGED Queue!vars
<1>1. UNCHANGED <<ring, burst, decBurst, decoded, received>>
  BY DEF Main, RegisterCapture, InitSucceeds, InitFails, StartDecode, RegisterDecode,
         Poll, CountReceived, CountDropped, StopDevice, CleanupEal, ReturnFromMain,
         MainAt, captureVars, decodeVars
<1>2. decPc' = decPc \/ (decPc = "none" /\ decPc' = "running")
  BY DEF Main, RegisterCapture, InitSucceeds, InitFails, StartDecode, RegisterDecode,
         Poll, CountReceived, CountDropped, StopDevice, CleanupEal, ReturnFromMain,
         MainAt, IInv, Places
<1> QED BY <1>1, <1>2 DEF Queue!vars, Pending

LEMMA DecodeStutters ==
    ASSUME DecodeThread, ~ Dequeue, ~ Parse
    PROVE  UNCHANGED Queue!vars
<1>1. UNCHANGED <<ring, burst, decoded, received>>
  BY DEF DecodeThread, TestRunning, TestEmpty, ReleasePkt, Dump, DecAt, captureVars,
         decodeVars
<1>2. decPc # "parse" /\ decPc' # "parse"
  BY DEF DecodeThread, TestRunning, TestEmpty, ReleasePkt, Dump, DecAt
<1> QED BY <1>1, <1>2 DEF Queue!vars, Pending

LEMMA HandlersStutter ==
    ASSUME NEW s \in Signals,
           SigHandle(s) \/ \E thread \in Hosts : Deliver(s, thread)
    PROVE  UNCHANGED Queue!vars
<1>1. UNCHANGED <<decPc, ring, burst, decBurst, decoded, received>>
  BY DEF SigHandle, Enter, LogTotals, CaughtInLog, TestCapture, StopCapture,
         ReadCapCount, ReadDropCount, TestDecode, StopDecode, HandlerAt, Deliver,
         captureVars, decodeVars, lifeVars
<1> QED BY <1>1 DEF Queue!vars, Pending

(***************************************************************************)
(* Whatever the threads, the ring and its size: no packet reaches the      *)
(* decoder twice or out of order, and only the newest are ever lost, as    *)
(* LossyQueue promises.                                                    *)
(***************************************************************************)
THEOREM PathImplementsQueue == Spec => ImplementsQueue
<1>1. Init => Queue!Init
  <2>1. <<>> \o <<>> \o <<>> = <<>>
    BY ConcatEmptySeq
  <2> QED BY <2>1 DEF Init, Queue!Init, Pending
<1>2. ASSUME IInv, [Next]_vars
      PROVE  [Queue!Next]_(Queue!vars)
  <2>1. CASE Main
    BY <1>2, <2>1, RxBurstIsOffer, EnqueueStutters, FreeDroppedIsLose, MainStutters
  <2>2. CASE DecodeThread
    BY <1>2, <2>2, DequeueStutters, ParseIsDeliver, DecodeStutters
  <2>3. CASE \E s \in Signals, thread \in Hosts : Deliver(s, thread)
    BY <2>3, HandlersStutter
  <2>4. CASE \E s \in Signals : SigHandle(s)
    BY <2>4, HandlersStutter
  <2>5. CASE UNCHANGED vars
    BY <2>5 DEF vars, Queue!vars, Pending
  <2> QED BY <1>2, <2>1, <2>2, <2>3, <2>4, <2>5 DEF Next
<1> QED BY <1>1, <1>2, SpecIInv, PTL DEF Spec, ImplementsQueue, Queue!Spec

-------------------------------------------------------------------------------
(***************************************************************************)
(* What a handler logs.  When it reads a total the capture flag is down    *)
(* for good, so main() counts at most the burst it has in hand.            *)
(***************************************************************************)
CapRead(s) == sigPc[s] = "readDrop" \/ summary[s].taken

SummaryGap ==
    \A s \in Signals :
        /\ sigPc[s] = "readCap" \/ CapRead(s) => ~ capRunning
        /\ CapRead(s) =>
             /\ \E d \in 0 .. Burst : capPktCount = Plus(summary[s].cap, d)
             /\ mainPc \in {"rx", "count"} => capPktCount = summary[s].cap
        /\ summary[s].taken =>
             /\ \E d \in 0 .. Burst : dropPktCount = Plus(summary[s].drop, d)
             /\ mainPc \in {"rx", "count", "enqueue", "drop"} =>
                  dropPktCount = summary[s].drop

LEMMA PlusZero ==
    ASSUME NEW c \in Counter
    PROVE  c = Plus(c, 0)
<1>1. c \in Nat /\ c < UINT32 /\ UINT32 \in Nat \ {0}
  BY PacketPathAssumption DEF Counter
<1>2. c % UINT32 = c
  BY <1>1
<1> QED BY <1>1, <1>2 DEF Plus

\* A total that grew by d since it was read is d ahead of what was read.
LEMMA GapBounded ==
    ASSUME NEW c \in Counter, NEW d \in 0 .. Burst
    PROVE  (Plus(c, d) + UINT32 - c) % UINT32 <= Burst
<1>1. /\ c \in Nat /\ d \in Nat /\ UINT32 \in Nat \ {0} /\ Burst \in Nat /\ d <= Burst
      /\ UINT32 - c \in Nat /\ c + d \in Nat
  BY PacketPathAssumption DEF Counter
<1>2. (((c + d) % UINT32) + (UINT32 - c)) % UINT32 = ((c + d) + (UINT32 - c)) % UINT32
  BY <1>1, ModAdd
<1>3. (c + d) + (UINT32 - c) = UINT32 + d
  BY <1>1
<1>4. (UINT32 + d) % UINT32 = d % UINT32
  <2>1. UINT32 \in Nat /\ UINT32 % UINT32 = 0
    BY <1>1
  <2>2. ((UINT32 % UINT32) + d) % UINT32 = (UINT32 + d) % UINT32
    BY <1>1, <2>1, ModAdd
  <2> QED BY <1>1, <2>1, <2>2
<1>5. d % UINT32 <= d
  <2>1. d % UINT32 \in Nat /\ d \div UINT32 \in Nat
        /\ d = UINT32 * (d \div UINT32) + (d % UINT32)
    BY <1>1, DivMod
  <2>2. UINT32 * (d \div UINT32) \in Nat
    BY <1>1, <2>1
  <2> QED BY <1>1, <2>1, <2>2
<1>6. ((c + d) % UINT32) \in Nat
  BY <1>1
<1>7. Plus(c, d) + UINT32 - c = ((c + d) % UINT32) + (UINT32 - c)
  BY <1>1, <1>6 DEF Plus
<1>8. d % UINT32 \in Nat
  BY <1>1
<1> QED BY <1>1, <1>2, <1>3, <1>4, <1>5, <1>7, <1>8

LEMMA InitSummaryGap == Init => SummaryGap
BY DEF Init, SummaryGap, CapRead

LEMMA MainSummaryGap ==
    ASSUME IInv, SummaryGap, Main
    PROVE  SummaryGap'
<1>a. sigPc' = sigPc /\ summary' = summary /\ capRunning' = capRunning
  BY DEF Main, RegisterCapture, InitSucceeds, InitFails, StartDecode, RegisterDecode,
         Poll, RxBurst, CountReceived, Enqueue, CountDropped, FreeDropped, StopDevice,
         CleanupEal, ReturnFromMain, MainAt, signalVars, lifeVars
<1>b. Len(burst) \in 0 .. Burst
  BY Numbers DEF IInv, TypeOK
<1>1. CASE CountReceived
  <2>1. /\ mainPc = "count" /\ mainPc' = "enqueue"
        /\ capPktCount' = Plus(capPktCount, Len(burst)) /\ dropPktCount' = dropPktCount
    BY <1>1 DEF CountReceived, MainAt
  <2> QED BY <1>a, <1>b, <2>1 DEF SummaryGap, CapRead
<1>2. CASE CountDropped
  <2>1. /\ mainPc = "drop" /\ mainPc' = "free"
        /\ dropPktCount' = Plus(dropPktCount, Len(burst)) /\ capPktCount' = capPktCount
    BY <1>2 DEF CountDropped, MainAt
  <2> QED BY <1>a, <1>b, <2>1 DEF SummaryGap, CapRead
<1>3. CASE Poll
  <2>1. /\ UNCHANGED <<capPktCount, dropPktCount>>
        /\ mainPc' \in {"rx", "devStop"} /\ (mainPc' = "rx" => capRunning)
    BY <1>3 DEF Poll, MainAt, captureVars
  <2> QED BY <1>a, <2>1 DEF SummaryGap, CapRead
<1>4. CASE ~ CountReceived /\ ~ CountDropped /\ ~ Poll
  <2>1. /\ UNCHANGED <<capPktCount, dropPktCount>>
        /\ mainPc' \in {"rx", "count"} => mainPc \in {"rx", "count"}
        /\ mainPc' \in {"rx", "count", "enqueue", "drop"} =>
             mainPc \in {"rx", "count", "enqueue", "drop"}
    BY <1>4
    DEF Main, RegisterCapture, InitSucceeds, InitFails, StartDecode, RegisterDecode,
        RxBurst, Enqueue, FreeDropped, StopDevice, CleanupEal, ReturnFromMain, MainAt,
        captureVars
  <2> QED BY <1>a, <2>1 DEF SummaryGap, CapRead
<1> QED BY <1>1, <1>2, <1>3, <1>4

LEMMA SigHandleSummaryGap ==
    ASSUME IInv, SummaryGap, NEW s \in Signals, SigHandle(s)
    PROVE  SummaryGap'
<1>a. UNCHANGED <<mainPc, capPktCount, dropPktCount>>
  BY DEF SigHandle, Enter, LogTotals, CaughtInLog, TestCapture, StopCapture,
         ReadCapCount, ReadDropCount, TestDecode, StopDecode, HandlerAt, captureVars,
         lifeVars, decodeVars
<1>b. /\ sigPc \in [Signals -> SigPcs] /\ 0 \in 0 .. Burst
      /\ summary \in [Signals -> [cap : Counter, drop : Counter, taken : BOOLEAN,
                                  early : BOOLEAN]]
  BY Numbers DEF IInv, TypeOK
<1>c. capPktCount = Plus(capPktCount, 0) /\ dropPktCount = Plus(dropPktCount, 0)
  BY PlusZero DEF IInv, TypeOK
<1>1. CASE TestCapture(s) \/ TestDecode(s) \/ Enter(s) \/ LogTotals(s)
  <2>1. /\ UNCHANGED capRunning
        /\ sigPc' = [sigPc EXCEPT ![s] = sigPc'[s]]
        /\ sigPc'[s] \in {"capRunning", "capStop", "logTotals", "decRunning", "decStop", "done"}
        /\ \A t \in Signals : /\ summary'[t].cap = summary[t].cap
                              /\ summary'[t].drop = summary[t].drop
                              /\ summary'[t].taken = summary[t].taken
    BY <1>1, <1>b DEF TestCapture, TestDecode, Enter, LogTotals, HandlerAt
  <2>2. \A t \in Signals : /\ sigPc'[t] = "readCap" => sigPc[t] = "readCap"
                           /\ CapRead(t)' => CapRead(t)
    BY <1>b, <2>1 DEF CapRead
  <2> QED BY <1>a, <2>1, <2>2 DEF SummaryGap
<1>2. CASE StopCapture(s) \/ StopDecode(s)
  <2>1. /\ UNCHANGED summary /\ (capRunning' => capRunning)
        /\ \A t \in Signals : /\ sigPc'[t] = "readCap" => sigPc[t] = "readCap" \/ ~ capRunning'
                              /\ CapRead(t)' => CapRead(t)
    BY <1>2, <1>b DEF StopCapture, StopDecode, HandlerAt, CapRead
  <2> QED BY <1>a, <2>1 DEF SummaryGap
<1>3. CASE ReadCapCount(s)
  <2>1. /\ UNCHANGED capRunning /\ sigPc[s] = "readCap"
        /\ summary'[s].cap = capPktCount
        /\ summary'[s].drop = summary[s].drop /\ summary'[s].taken = summary[s].taken
        /\ \A t \in Signals \ {s} : summary'[t] = summary[t] /\ sigPc'[t] = sigPc[t]
        /\ sigPc'[s] = "readDrop"
    BY <1>3, <1>b DEF ReadCapCount, HandlerAt
  <2> QED BY <1>a, <1>b, <1>c, <2>1 DEF SummaryGap, CapRead
<1>4. CASE ReadDropCount(s)
  <2>1. /\ UNCHANGED capRunning /\ sigPc[s] = "readDrop"
        /\ summary'[s].drop = dropPktCount
        /\ summary'[s].cap = summary[s].cap
        /\ \A t \in Signals \ {s} : summary'[t] = summary[t] /\ sigPc'[t] = sigPc[t]
        /\ sigPc'[s] = "logTotals"
    BY <1>4, <1>b DEF ReadDropCount, HandlerAt
  <2> QED BY <1>a, <1>b, <1>c, <2>1 DEF SummaryGap, CapRead
<1>5. CASE CaughtInLog(s)
  BY <1>5, <1>a DEF CaughtInLog, lifeVars, SummaryGap, CapRead
<1> QED BY <1>1, <1>2, <1>3, <1>4, <1>5 DEF SigHandle

LEMMA NextSummaryGap ==
    ASSUME IInv, SummaryGap, [Next]_vars
    PROVE  SummaryGap'
<1>1. CASE DecodeThread \/ UNCHANGED vars
  <2>1. UNCHANGED <<mainPc, capRunning, capPktCount, dropPktCount, sigPc, summary>>
    BY <1>1
    DEF vars, DecodeThread, TestRunning, TestEmpty, Dequeue, Parse, ReleasePkt, Dump,
        DecAt, lifeVars, signalVars, captureVars
  <2> QED BY <2>1 DEF SummaryGap, CapRead
<1>2. ASSUME NEW s \in Signals, NEW thread \in Hosts, Deliver(s, thread)
      PROVE  SummaryGap'
  <2>1. UNCHANGED <<mainPc, capRunning, capPktCount, dropPktCount, summary>>
    BY <1>2 DEF Deliver, lifeVars, captureVars
  <2>2. \A t \in Signals : sigPc'[t] = sigPc[t] \/ sigPc'[t] = "enter"
    BY <1>2 DEF Deliver, IInv, TypeOK
  <2> QED BY <2>1, <2>2 DEF SummaryGap, CapRead
<1> QED BY <1>1, <1>2, MainSummaryGap, SigHandleSummaryGap DEF Next

(***************************************************************************)
(* The totals a handler logs miss at most one burst of captured and one of *)
(* dropped packets, whenever it runs and for every burst size.             *)
(***************************************************************************)
THEOREM SummaryNearlyComplete == Spec => []SummaryWithinOneBurst
<1>1. IInv /\ SummaryGap => SummaryWithinOneBurst
  <2> SUFFICES ASSUME IInv, SummaryGap, NEW s \in Signals, summary[s].taken
               PROVE  /\ (capPktCount + UINT32 - summary[s].cap) % UINT32 <= Burst
                      /\ (dropPktCount + UINT32 - summary[s].drop) % UINT32 <= Burst
    BY DEF SummaryWithinOneBurst
  <2>1. summary[s].cap \in Counter /\ summary[s].drop \in Counter
    BY DEF IInv, TypeOK
  <2>2. /\ \E d \in 0 .. Burst : capPktCount = Plus(summary[s].cap, d)
        /\ \E d \in 0 .. Burst : dropPktCount = Plus(summary[s].drop, d)
    BY DEF SummaryGap, CapRead
  <2> QED BY <2>1, <2>2, GapBounded
<1> QED BY <1>1, InitSummaryGap, NextSummaryGap, SpecIInv, PTL DEF Spec

-------------------------------------------------------------------------------
(***************************************************************************)
(* Until a counter can wrap, the totals are exact, and dropped is at most  *)
(* captured even across the two reads of a handler: what main() drops of   *)
(* the burst it has in hand is outnumbered by packets already counted that *)
(* are on the ring.                                                        *)
(***************************************************************************)
Uncounted == IF mainPc = "count" THEN Len(burst) ELSE 0

CountsExact ==
    received < UINT32 =>
        /\ capPktCount = received - Uncounted
        /\ dropPktCount + Kept = capPktCount

AtDrop == IF mainPc = "drop" THEN Len(burst) ELSE 0

\* The packets counted, and kept for good.
Safe == Len(decoded) + InParse + Len(ring)

ReadsOrdered ==
    /\ \A s \in Signals :
         sigPc[s] \in {"idle", "enter", "capRunning", "capStop", "readCap", "readDrop"} =>
           ~ summary[s].taken
    /\ received < UINT32 => \A s \in Signals :
         /\ CapRead(s) =>
              /\ dropPktCount + AtDrop <= summary[s].cap
              /\ mainPc \in {"rx", "count", "enqueue"} =>
                   dropPktCount + Safe <= summary[s].cap
         /\ summary[s].taken => summary[s].drop <= summary[s].cap

LEMMA InitCountsExact == Init => CountsExact /\ ReadsOrdered
BY PacketPathAssumption
DEF Init, CountsExact, ReadsOrdered, Uncounted, Kept, InParse, InHand, CapRead

LEMMA CountTypes ==
    ASSUME TypeOK
    PROVE  /\ Kept \in Nat /\ Uncounted \in Nat /\ AtDrop \in Nat /\ Safe \in Nat
           /\ Len(burst) \in Nat /\ received \in Nat /\ UINT32 \in Nat \ {0}
           /\ capPktCount \in Nat /\ dropPktCount \in Nat
           /\ Kept = Safe + InHand /\ InHand \in Nat
<1>1. /\ Len(burst) \in Nat /\ Len(ring) \in Nat /\ Len(decoded) \in Nat /\ received \in Nat
      /\ capPktCount \in Nat /\ dropPktCount \in Nat
  BY Numbers, LenProperties DEF TypeOK
<1>2. InParse \in Nat /\ InHand \in Nat /\ Kept \in Nat
  BY KeptType
<1>3. Uncounted \in Nat /\ AtDrop \in Nat
  BY <1>1 DEF Uncounted, AtDrop
<1>4. Safe \in Nat /\ Kept = Safe + InHand
  BY <1>1, <1>2 DEF Safe, Kept
<1> QED BY <1>1, <1>2, <1>3, <1>4, PacketPathAssumption

LEMMA NoWrap ==
    ASSUME NEW m \in Nat, NEW n \in Nat, m + n < UINT32
    PROVE  Plus(m, n) = m + n
BY PacketPathAssumption DEF Plus

LEMMA MainCountsExact ==
    ASSUME IInv, CountsExact, Main
    PROVE  CountsExact'
<1>t. /\ TypeOK
      /\ Kept \in Nat /\ Uncounted \in Nat /\ AtDrop \in Nat /\ Safe \in Nat
      /\ Len(burst) \in Nat /\ received \in Nat /\ UINT32 \in Nat \ {0}
      /\ capPktCount \in Nat /\ dropPktCount \in Nat
      /\ Kept = Safe + InHand /\ InHand \in Nat
  BY CountTypes DEF IInv
<1>1. CASE RxBurst
  <2>1. PICK n \in 0 .. Least(Burst, poolFree) :
          /\ MainAt("rx", IF n = 0 THEN "poll" ELSE "count")
          /\ burst' = [i \in 1 .. n |-> received + i]
          /\ received' = received + n
    BY <1>1 DEF RxBurst
  <2>2. n \in Nat /\ Len(burst') = n
    BY <2>1, <1>t, Numbers, LeastProperties
  <2>3. Uncounted = 0 /\ Uncounted' = n
    BY <2>1, <2>2 DEF Uncounted, MainAt
  <2>4. Kept' = Kept /\ capPktCount' = capPktCount /\ dropPktCount' = dropPktCount
    <3>1. ~ CountReceived /\ ~ CountDropped
      BY <2>1 DEF CountReceived, CountDropped, MainAt
    <3> QED BY <3>1, MainKept
  <2> QED BY <1>t, <2>1, <2>2, <2>3, <2>4 DEF CountsExact
<1>2. CASE CountReceived
  <2>1. /\ Kept' = Kept + Len(burst) /\ Uncounted = Len(burst) /\ Uncounted' = 0
        /\ capPktCount' = Plus(capPktCount, Len(burst))
        /\ dropPktCount' = dropPktCount /\ received' = received
    <3>1. Len(decoded) \in Nat /\ Len(ring) \in Nat /\ Len(decBurst) \in Nat
      BY <1>t, Numbers, LenProperties DEF TypeOK
    <3> QED BY <1>2, <1>t, <3>1
        DEF CountReceived, MainAt, decodeVars, Kept, InParse, InHand, Uncounted
  <2>2. received < UINT32 => capPktCount + Len(burst) < UINT32
    BY <1>t, <2>1 DEF CountsExact
  <2> QED BY <1>t, <2>1, <2>2, NoWrap DEF CountsExact
<1>3. CASE CountDropped
  <2>1. /\ Kept' \in Nat /\ Kept = Kept' + Len(burst) /\ Uncounted = 0 /\ Uncounted' = 0
        /\ dropPktCount' = Plus(dropPktCount, Len(burst))
        /\ capPktCount' = capPktCount /\ received' = received
    <3>1. Len(decoded) \in Nat /\ Len(ring) \in Nat /\ Len(decBurst) \in Nat
      BY <1>t, Numbers, LenProperties DEF TypeOK
    <3> QED BY <1>3, <1>t, <3>1
        DEF CountDropped, MainAt, decodeVars, Kept, InParse, InHand, Uncounted
  <2>2. received < UINT32 => dropPktCount + Len(burst) < UINT32
    BY <1>t, <2>1 DEF CountsExact
  <2>3. received < UINT32 => dropPktCount' = dropPktCount + Len(burst)
    BY <1>t, <2>1, <2>2, NoWrap
  <2> QED BY <1>t, <2>1, <2>3 DEF CountsExact
<1>4. CASE ~ RxBurst /\ ~ CountReceived /\ ~ CountDropped
  <2>1. Kept' = Kept /\ capPktCount' = capPktCount /\ dropPktCount' = dropPktCount
    BY <1>4, MainKept
  <2>2. received' = received /\ Uncounted = 0 /\ Uncounted' = 0
    BY <1>4
    DEF Main, RegisterCapture, InitSucceeds, InitFails, StartDecode, RegisterDecode,
        Poll, Enqueue, FreeDropped, StopDevice, CleanupEal, ReturnFromMain, MainAt,
        captureVars, Uncounted
  <2> QED BY <2>1, <2>2 DEF CountsExact
<1> QED BY <1>1, <1>2, <1>3, <1>4

LEMMA MainReadsOrdered ==
    ASSUME IInv, SummaryGap, CountsExact, ReadsOrdered, Main
    PROVE  ReadsOrdered'
<1>t. /\ TypeOK
      /\ Kept \in Nat /\ Uncounted \in Nat /\ AtDrop \in Nat /\ Safe \in Nat
      /\ Len(burst) \in Nat /\ received \in Nat /\ UINT32 \in Nat \ {0}
      /\ capPktCount \in Nat /\ dropPktCount \in Nat
      /\ Kept = Safe + InHand /\ InHand \in Nat
  BY CountTypes DEF IInv
<1>a. sigPc' = sigPc /\ summary' = summary /\ capRunning' = capRunning
  BY DEF Main, RegisterCapture, InitSucceeds, InitFails, StartDecode, RegisterDecode,
         Poll, RxBurst, CountReceived, Enqueue, CountDropped, FreeDropped, StopDevice,
         CleanupEal, ReturnFromMain, MainAt, signalVars, lifeVars
<1>b. received <= received' /\ received' \in Nat
  <2>1. CASE RxBurst
    <3>1. PICK n \in 0 .. Least(Burst, poolFree) : received' = received + n
      BY <2>1 DEF RxBurst
    <3>2. n \in Nat
      BY <1>t, <3>1, Numbers, LeastProperties
    <3> QED BY <1>t, <3>1, <3>2
  <2>2. CASE ~ RxBurst
    <3>1. received' = received
      BY <2>2
      DEF Main, RegisterCapture, InitSucceeds, InitFails, StartDecode, RegisterDecode,
          Poll, CountReceived, Enqueue, CountDropped, FreeDropped, StopDevice,
          CleanupEal, ReturnFromMain, MainAt, captureVars
    <3> QED BY <1>t, <3>1
  <2> QED BY <2>1, <2>2
<1> SUFFICES ASSUME received' < UINT32, NEW s \in Signals, CapRead(s)
             PROVE  /\ dropPktCount' + AtDrop' <= summary[s].cap
                    /\ mainPc' \in {"rx", "count", "enqueue"} =>
                         dropPktCount' + Safe' <= summary[s].cap
  <2>1. received' < UINT32 => received < UINT32
    BY <1>t, <1>b
  <2> QED BY <1>a, <2>1 DEF ReadsOrdered, CapRead
<1>c. /\ received < UINT32 /\ ~ capRunning
      /\ dropPktCount + AtDrop <= summary[s].cap
      /\ mainPc \in {"rx", "count", "enqueue"} => dropPktCount + Safe <= summary[s].cap
      /\ summary[s].cap \in Nat
  <2>1. received < UINT32
    BY <1>t, <1>b
  <2>2. summary[s].cap \in Nat
    BY <1>t DEF TypeOK, Counter
  <2>3. ~ capRunning
    BY DEF SummaryGap
  <2> QED BY <2>1, <2>2, <2>3 DEF ReadsOrdered
<1>1. CASE Enqueue
  <2> DEFINE n == Least(Len(burst), RingCap - Len(ring))
  <2>1. /\ Len(ring) \in Nat /\ Len(decoded) \in Nat /\ RingCap - Len(ring) \in Nat
        /\ Len(burst) <= Burst /\ Burst <= RingCap /\ Burst \in Nat /\ RingCap \in Nat
        /\ InParse \in Nat
    BY <1>t, Numbers, KeptType, LenProperties, PacketPathAssumption DEF TypeOK
  <2>2. n \in 0 .. Len(burst) /\ (n = Len(burst) \/ n = RingCap - Len(ring))
    BY <1>t, <2>1 DEF Least
  <2>3. Len(Left(burst, n)) = Len(burst) - n
    <3>1. burst \in Seq(Nat)
      BY <1>t DEF TypeOK
    <3> HIDE DEF n
    <3> QED BY <2>2, <3>1, TakenLeft
  <2>4. /\ mainPc = "enqueue" /\ mainPc' = (IF n < Len(burst) THEN "drop" ELSE "poll")
        /\ Len(burst') = Len(burst) - n /\ dropPktCount' = dropPktCount
    BY <1>1, <2>3 DEF Enqueue, MainAt
  <2> HIDE DEF n
  <2>5. dropPktCount + Safe <= summary[s].cap
    BY <1>c, <2>4
  <2>6. CASE n < Len(burst)
    <3>1. AtDrop' = Len(burst) - n /\ n = RingCap - Len(ring)
      BY <2>2, <2>4, <2>6 DEF AtDrop
    <3>2. AtDrop' <= Len(ring) /\ AtDrop' \in Int
      BY <1>t, <2>1, <2>2, <3>1
    <3>3. Len(ring) <= Safe
      BY <2>1 DEF Safe
    <3>4. dropPktCount + AtDrop' <= summary[s].cap
      <4>1. AtDrop' <= Safe
        BY <1>t, <2>1, <3>2, <3>3
      <4> QED BY <1>c, <1>t, <2>5, <3>2, <4>1
    <3> QED BY <2>4, <2>6, <3>4
  <2>7. CASE ~ (n < Len(burst))
    <3>1. AtDrop' = 0 /\ mainPc' = "poll"
      BY <2>4, <2>7 DEF AtDrop
    <3> QED BY <1>c, <1>t, <2>4, <2>5, <3>1
  <2> QED BY <2>6, <2>7
<1>2. CASE CountDropped
  <2>1. /\ mainPc' = "free" /\ AtDrop = Len(burst) /\ AtDrop' = 0
        /\ dropPktCount' = Plus(dropPktCount, Len(burst))
    BY <1>2 DEF CountDropped, MainAt, AtDrop
  <2>2. Kept = Safe + Len(burst) /\ Uncounted = 0
    BY <1>2, <1>t DEF CountDropped, MainAt, InHand, Uncounted
  <2>3. dropPktCount + Len(burst) < UINT32
    BY <1>c, <1>t, <2>2 DEF CountsExact
  <2>4. dropPktCount' = dropPktCount + Len(burst)
    BY <1>t, <2>1, <2>3, NoWrap
  <2> QED BY <1>c, <1>t, <2>1, <2>4
<1>3. CASE ~ Enqueue /\ ~ CountDropped
  <2>1. /\ UNCHANGED dropPktCount
        /\ mainPc' \in {"rx", "count", "enqueue"} => mainPc \in {"rx", "count", "enqueue"}
        /\ mainPc' # "drop"
    BY <1>3, <1>c
    DEF Main, RegisterCapture, InitSucceeds, InitFails, StartDecode, RegisterDecode,
        Poll, RxBurst, CountReceived, FreeDropped, StopDevice, CleanupEal,
        ReturnFromMain, MainAt, captureVars
  <2>2. AtDrop' = 0
    BY <2>1 DEF AtDrop
  <2>3. mainPc' \in {"rx", "count", "enqueue"} => Safe' = Safe
    BY <1>3, <2>1
    DEF Main, RegisterCapture, InitSucceeds, InitFails, StartDecode, RegisterDecode,
        Poll, RxBurst, CountReceived, FreeDropped, StopDevice, CleanupEal,
        ReturnFromMain, MainAt, decodeVars, Safe, InParse
  <2> QED BY <1>c, <1>t, <2>1, <2>2, <2>3
<1> QED BY <1>1, <1>2, <1>3

LEMMA SigHandleReadsOrdered ==
    ASSUME IInv, CountsExact, ReadsOrdered, NEW s \in Signals, SigHandle(s)
    PROVE  ReadsOrdered' /\ CountsExact'
<1>t. /\ TypeOK
      /\ Kept \in Nat /\ Uncounted \in Nat /\ AtDrop \in Nat /\ Safe \in Nat
      /\ Len(burst) \in Nat /\ received \in Nat /\ UINT32 \in Nat \ {0}
      /\ capPktCount \in Nat /\ dropPktCount \in Nat
      /\ Kept = Safe + InHand /\ InHand \in Nat
  BY CountTypes DEF IInv
<1>a. UNCHANGED <<mainPc, decPc, capPktCount, dropPktCount, ring, burst, decBurst, decoded,
                  received>>
  BY DEF SigHandle, Enter, LogTotals, CaughtInLog, TestCapture, StopCapture,
         ReadCapCount, ReadDropCount, TestDecode, StopDecode, HandlerAt, captureVars,
         decodeVars, lifeVars
<1>b. /\ sigPc \in [Signals -> SigPcs]
      /\ summary \in [Signals -> [cap : Counter, drop : Counter, taken : BOOLEAN,
                                  early : BOOLEAN]]
  BY <1>t DEF TypeOK
<1>c. UNCHANGED <<Safe, AtDrop, Kept, Uncounted>>
  BY <1>a DEF Safe, AtDrop, Kept, Uncounted, InParse, InHand
<1>d. CountsExact'
  BY <1>a, <1>c DEF CountsExact
<1>1. CASE \/ TestCapture(s) \/ TestDecode(s) \/ StopCapture(s) \/ StopDecode(s)
           \/ Enter(s) \/ LogTotals(s) \/ CaughtInLog(s)
  <2>1. \A t \in Signals :
          /\ summary'[t].cap = summary[t].cap
          /\ summary'[t].drop = summary[t].drop
          /\ summary'[t].taken = summary[t].taken
          /\ CapRead(t)' => CapRead(t)
          /\ sigPc'[t] \in {"idle", "enter", "capRunning", "capStop", "readCap", "readDrop"} =>
               sigPc[t] \in {"idle", "enter", "capRunning", "capStop", "readCap", "readDrop"}
    BY <1>1, <1>b DEF TestCapture, TestDecode, StopCapture, StopDecode, Enter, LogTotals,
                      CaughtInLog, HandlerAt, CapRead
  <2> QED BY <1>a, <1>c, <1>d, <2>1 DEF ReadsOrdered
<1>2. CASE ReadCapCount(s)
  <2>1. /\ sigPc[s] = "readCap" /\ sigPc'[s] = "readDrop"
        /\ summary'[s].cap = capPktCount /\ summary'[s].taken = summary[s].taken
        /\ \A t \in Signals \ {s} : summary'[t] = summary[t] /\ sigPc'[t] = sigPc[t]
    BY <1>2, <1>b DEF ReadCapCount, HandlerAt
  <2>2. AtDrop <= InHand
    BY <1>t DEF AtDrop, InHand
  <2>3. received < UINT32 => /\ dropPktCount + AtDrop <= capPktCount
                             /\ dropPktCount + Safe <= capPktCount
    BY <1>t, <2>2 DEF CountsExact
  <2>4. ~ summary'[s].taken
    BY <2>1 DEF ReadsOrdered
  <2> QED BY <1>a, <1>c, <1>d, <2>1, <2>3, <2>4 DEF ReadsOrdered, CapRead
<1>3. CASE ReadDropCount(s)
  <2>1. /\ sigPc[s] = "readDrop" /\ sigPc'[s] = "logTotals"
        /\ summary'[s].cap = summary[s].cap /\ summary'[s].drop = dropPktCount
        /\ \A t \in Signals \ {s} : summary'[t] = summary[t] /\ sigPc'[t] = sigPc[t]
    BY <1>3, <1>b DEF ReadDropCount, HandlerAt
  <2>2. summary[s].cap \in Nat
    BY <1>b DEF Counter
  <2>3. received < UINT32 => dropPktCount <= summary[s].cap
    BY <1>t, <2>1, <2>2 DEF ReadsOrdered, CapRead
  <2> QED BY <1>a, <1>c, <1>d, <2>1, <2>3 DEF ReadsOrdered, CapRead
<1> QED BY <1>1, <1>2, <1>3 DEF SigHandle

LEMMA DecodeReadsOrdered ==
    ASSUME IInv, CountsExact, ReadsOrdered, DecodeThread
    PROVE  ReadsOrdered' /\ CountsExact'
<1>t. /\ TypeOK
      /\ Kept \in Nat /\ Uncounted \in Nat /\ AtDrop \in Nat /\ Safe \in Nat
      /\ Len(burst) \in Nat /\ received \in Nat /\ UINT32 \in Nat \ {0}
      /\ capPktCount \in Nat /\ dropPktCount \in Nat
      /\ Kept = Safe + InHand /\ InHand \in Nat
  BY CountTypes DEF IInv
<1>1. Kept' = Kept
  BY DecodeKept
<1>2. UNCHANGED <<mainPc, burst, capPktCount, dropPktCount, received, sigPc, summary>>
  BY DEF DecodeThread, TestRunning, TestEmpty, Dequeue, Parse, ReleasePkt, Dump, DecAt,
         captureVars, signalVars
<1>3. UNCHANGED <<InHand, AtDrop, Uncounted>>
  BY <1>2 DEF InHand, AtDrop, Uncounted
<1>4. Safe' = Safe
  <2>1. TypeOK'
    BY DecodeIInv DEF IInv
  <2>2. Len(decoded') \in Nat /\ Len(ring') \in Nat /\ Len(decBurst') \in Nat
    BY <2>1, LenProperties DEF TypeOK
  <2>3. InParse' \in Nat
    BY <2>2 DEF InParse
  <2>4. Safe' \in Nat
    BY <2>2, <2>3 DEF Safe
  <2>5. Kept' = Safe' + InHand'
    BY DEF Kept, Safe
  <2>6. InHand' = InHand
    BY <1>3
  <2>7. Safe' + InHand = Safe + InHand /\ Safe \in Nat /\ InHand \in Nat
    BY <1>1, <1>t, <2>5, <2>6
  <2>8. \A a, b, c \in Nat : a + c = b + c => a = b
    OBVIOUS
  <2> QED BY <2>4, <2>7, <2>8
<1> QED BY <1>1, <1>2, <1>3, <1>4 DEF ReadsOrdered, CountsExact, CapRead

LEMMA NextReadsOrdered ==
    ASSUME IInv, SummaryGap, CountsExact, ReadsOrdered, [Next]_vars
    PROVE  CountsExact' /\ ReadsOrdered'
<1>1. CASE UNCHANGED vars
  BY <1>1 DEF vars, CountsExact, ReadsOrdered, Uncounted, AtDrop, Safe, Kept, InParse,
              InHand, CapRead
<1>2. ASSUME NEW s \in Signals, NEW thread \in Hosts, Deliver(s, thread)
      PROVE  CountsExact' /\ ReadsOrdered'
  <2>1. UNCHANGED <<mainPc, decPc, capPktCount, dropPktCount, ring, burst, decBurst,
                    decoded, received, summary>>
    BY <1>2 DEF Deliver, captureVars, decodeVars
  <2>2. UNCHANGED <<Safe, AtDrop, Kept, Uncounted>>
    BY <2>1 DEF Safe, AtDrop, Kept, Uncounted, InParse, InHand
  <2>3. \A t \in Signals : sigPc'[t] = sigPc[t] \/ (sigPc[t] = "idle" /\ sigPc'[t] = "enter")
    BY <1>2 DEF Deliver, IInv, TypeOK
  <2> QED BY <2>1, <2>2, <2>3 DEF CountsExact, ReadsOrdered, CapRead
<1> QED
  BY <1>1, <1>2, MainCountsExact, MainReadsOrdered, SigHandleReadsOrdered,
     DecodeReadsOrdered DEF Next

(***************************************************************************)
(* Although the handler reads the two totals one after the other while     *)
(* main() goes on, it never logs more dropped than captured packets, until *)
(* a counter can wrap.                                                     *)
(***************************************************************************)
THEOREM SummaryNeverInverted == Spec => []SummaryConsistent
<1>1. ReadsOrdered => SummaryConsistent
  BY DEF ReadsOrdered, SummaryConsistent
<1>2. Spec => [](IInv /\ SummaryGap)
  BY SpecIInv, InitSummaryGap, NextSummaryGap, PTL DEF Spec
<1> QED BY <1>1, <1>2, InitCountsExact, NextReadsOrdered, PTL DEF Spec
-------------------------------------------------------------------------------
(***************************************************************************)
(* What a handler logs, and what is decoded in the end.  Once the capture  *)
(* flag is down, main() has at most one burst to dispose of: what it then  *)
(* drops, what it still has in hand, and what it leaves on the ring behind *)
(* a decode thread that has ended are parts of that burst.                 *)
(***************************************************************************)
Ended == decPc \in {"dump", "done"}

\* The most that main() may still enqueue or drop before it tests the flag.
Rest == IF mainPc = "rx" THEN Burst
        ELSE IF mainPc \in {"count", "enqueue", "drop"} THEN Len(burst) ELSE 0

Stranded == IF NoneEarly /\ Ended THEN Len(ring) ELSE 0

CloseToTotals(s) ==
    /\ CapRead(s) =>
         summary[s].cap <= capPktCount /\ capPktCount <= summary[s].cap + Burst
    /\ summary[s].taken =>
         /\ summary[s].drop <= dropPktCount
         /\ dropPktCount + Rest + Stranded <= summary[s].drop + Burst

LastBurst ==
    /\ Stranded + Rest <= Burst
    /\ received < UINT32 => \A s \in Signals : CloseToTotals(s)

LEMMA RestTypes ==
    ASSUME TypeOK
    PROVE  /\ Rest \in Nat /\ Rest <= Burst /\ Stranded \in Nat /\ Burst \in Nat
           /\ Len(ring) \in Nat /\ Len(burst) \in Nat /\ Len(burst) <= Burst
           /\ received \in Nat /\ capPktCount \in Nat /\ dropPktCount \in Nat
           /\ UINT32 \in Nat
           /\ \A s \in Signals : summary[s].cap \in Nat /\ summary[s].drop \in Nat
<1>1. /\ Len(burst) \in Nat /\ Len(ring) \in Nat /\ Len(burst) <= Burst
      /\ Burst \in Nat /\ UINT32 \in Nat
  BY Numbers, PacketPathAssumption DEF TypeOK
<1>2. Rest \in Nat /\ Rest <= Burst
  BY <1>1 DEF Rest
<1>3. Stranded \in Nat
  BY <1>1 DEF Stranded
<1>4. /\ received \in Nat /\ capPktCount \in Nat /\ dropPktCount \in Nat
      /\ \A s \in Signals : summary[s].cap \in Nat /\ summary[s].drop \in Nat
  BY <1>1 DEF TypeOK, Counter
<1> QED BY <1>1, <1>2, <1>3, <1>4

\* Two shares of a burst that shrink.
LEMMA SharesShrink ==
    ASSUME NEW a \in Nat, NEW b \in Nat, NEW c \in Nat, NEW d \in Nat, a <= c, b <= d
    PROVE  a + b <= c + d /\ \A n \in Nat : c + d <= n => a + b <= n
OBVIOUS

\* A total that stays within a burst while the shares shrink.
LEMMA TotalStaysClose ==
    ASSUME NEW a \in Nat, NEW b \in Nat, NEW c \in Nat, NEW d \in Nat,
           NEW m \in Nat, NEW n \in Nat, d + c <= b + a, m + a + b <= n
    PROVE  m + c + d <= n
OBVIOUS

LEMMA InitLastBurst == Init => LastBurst
<1> SUFFICES ASSUME Init PROVE LastBurst
  OBVIOUS
<1>1. Rest = 0 /\ Stranded = 0 /\ Burst \in Nat
  BY PacketPathAssumption DEF Init, Rest, Stranded, Ended
<1>2. \A s \in Signals : ~ CapRead(s) /\ ~ summary[s].taken
  BY DEF Init, CapRead
<1> QED BY <1>1, <1>2 DEF LastBurst, CloseToTotals

\* main() leaves what the handlers read alone, and packets only come in.
LEMMA MainLeaves ==
    ASSUME IInv, Main
    PROVE  /\ UNCHANGED <<sigPc, summary, capRunning>>
           /\ received' < UINT32 => received < UINT32
<1>1. UNCHANGED <<sigPc, summary, capRunning>>
  BY DEF Main, RegisterCapture, InitSucceeds, InitFails, StartDecode, RegisterDecode,
         Poll, RxBurst, CountReceived, Enqueue, CountDropped, FreeDropped, StopDevice,
         CleanupEal, ReturnFromMain, MainAt, signalVars, lifeVars
<1>2. received \in Nat /\ UINT32 \in Nat
  BY RestTypes DEF IInv
<1>3. CASE RxBurst
  <2>1. PICK n \in 0 .. Least(Burst, poolFree) : received' = received + n
    BY <1>3 DEF RxBurst
  <2>2. n \in Nat
    BY <2>1, Numbers, LeastProperties DEF IInv
  <2> QED BY <1>1, <1>2, <2>1, <2>2
<1>4. CASE ~ RxBurst
  <2>1. received' = received
    BY <1>4
    DEF Main, RegisterCapture, InitSucceeds, InitFails, StartDecode, RegisterDecode,
        Poll, CountReceived, Enqueue, CountDropped, FreeDropped, StopDevice,
        CleanupEal, ReturnFromMain, MainAt, captureVars
  <2> QED BY <1>1, <2>1
<1> QED BY <1>3, <1>4

\* A step of main(), other than one that counts, only uses the burst up.
LEMMA RestDecreases ==
    ASSUME IInv, Main, ~ Poll, ~ CountDropped
    PROVE  Stranded' + Rest' <= Stranded + Rest
<1>t. /\ TypeOK /\ TypeOK'
      /\ Rest \in Nat /\ Rest <= Burst /\ Stranded \in Nat /\ Burst \in Nat
      /\ Len(ring) \in Nat /\ Len(burst) \in Nat /\ Len(burst) <= Burst
      /\ RingCap - Len(ring) \in Nat
  BY RestTypes, Numbers, MainIInv DEF IInv
<1>u. /\ Rest' \in Nat /\ Stranded' \in Nat
      /\ Len(ring)' \in Nat /\ Len(burst)' \in Nat /\ Len(burst)' <= Burst
  <2>1. Len(ring)' \in Nat /\ Len(burst)' \in Nat /\ Len(burst)' <= Burst
    BY <1>t DEF TypeOK
  <2>2. Rest' \in Nat
    BY <1>t, <2>1 DEF Rest
  <2>3. Stranded' \in Nat
    BY <2>1 DEF Stranded
  <2> QED BY <2>1, <2>2, <2>3
<1>n. NoneEarly' <=> NoneEarly
  BY MainLeaves DEF NoneEarly
<1>1. CASE Enqueue
  <2> DEFINE n == Least(Len(burst), RingCap - Len(ring))
  <2>1. n \in 0 .. Len(burst) /\ n \in Nat
    BY <1>t DEF Least
  <2>2. /\ mainPc = "enqueue" /\ mainPc' = (IF n < Len(burst) THEN "drop" ELSE "poll")
        /\ ring' = ring \o Taken(burst, n) /\ burst' = Left(burst, n) /\ decPc' = decPc
    BY <1>1 DEF Enqueue, MainAt
  <2> HIDE DEF n
  <2>3. Len(burst') = Len(burst) - n /\ Len(ring') = Len(ring) + n
    <3>1. burst \in Seq(Nat) /\ ring \in Seq(Nat)
      BY <1>t DEF TypeOK
    <3>2. /\ Taken(burst, n) \in Seq(Nat) /\ Len(Taken(burst, n)) = n
          /\ Len(Left(burst, n)) = Len(burst) - n
      BY <2>1, <3>1, TakenLeft
    <3> QED BY <2>2, <3>1, <3>2, ConcatProperties
  <2>4. Rest = Len(burst) /\ Rest' = Len(burst) - n
    BY <1>t, <2>1, <2>2, <2>3 DEF Rest
  <2>5. Stranded' <= Stranded + n
    BY <1>t, <1>n, <2>1, <2>2, <2>3 DEF Stranded, Ended
  <2> QED BY <1>t, <1>u, <2>1, <2>4, <2>5
<1>2. CASE RxBurst
  <2>1. /\ mainPc = "rx" /\ mainPc' \in {"poll", "count"} /\ UNCHANGED <<ring, decPc>>
    BY <1>2 DEF RxBurst, MainAt
  <2>2. Rest' <= Rest
    BY <1>t, <1>u, <2>1 DEF Rest
  <2>3. Stranded' = Stranded
    BY <1>n, <2>1 DEF Stranded, Ended
  <2>4. /\ Stranded \in Nat /\ Rest \in Nat /\ Stranded' \in Nat /\ Rest' \in Nat
        /\ Stranded' <= Stranded
    BY <1>t, <1>u, <2>3
  <2> QED BY <2>2, <2>4, SharesShrink
<1>3. CASE CountReceived
  <2>1. /\ mainPc = "count" /\ mainPc' = "enqueue" /\ UNCHANGED <<ring, decPc, burst>>
    BY <1>3 DEF CountReceived, MainAt
  <2>2. Rest' = Rest /\ Stranded' = Stranded
    BY <1>n, <2>1 DEF Rest, Stranded, Ended
  <2> QED BY <1>t, <2>2
<1>4. CASE ~ Enqueue /\ ~ RxBurst /\ ~ CountReceived
  <2>1. /\ mainPc' \notin {"rx", "count", "enqueue", "drop"} /\ UNCHANGED ring
        /\ Ended' <=> Ended
    BY <1>4
    DEF Main, RegisterCapture, InitSucceeds, InitFails, StartDecode, RegisterDecode,
        FreeDropped, StopDevice, CleanupEal, ReturnFromMain, MainAt, Ended, IInv, Places
  <2>2. Rest' = 0 /\ Stranded' = Stranded
    BY <1>n, <2>1 DEF Rest, Stranded
  <2> QED BY <1>t, <2>2
<1> QED BY <1>1, <1>2, <1>3, <1>4

LEMMA MainLastBurst ==
    ASSUME IInv, StopOrder, SummaryGap, CountsExact, LastBurst, Main
    PROVE  LastBurst'
<1>t. /\ TypeOK
      /\ Rest \in Nat /\ Rest <= Burst /\ Stranded \in Nat /\ Burst \in Nat
      /\ Len(ring) \in Nat /\ Len(burst) \in Nat /\ Len(burst) <= Burst
      /\ received \in Nat /\ capPktCount \in Nat /\ dropPktCount \in Nat
      /\ UINT32 \in Nat
      /\ \A s \in Signals : summary[s].cap \in Nat /\ summary[s].drop \in Nat
  BY RestTypes DEF IInv
<1>u. Rest' \in Nat /\ Stranded' \in Nat
  <2>1. TypeOK'
    BY MainIInv DEF IInv
  <2>2. Len(ring)' \in Nat /\ Len(burst)' \in Nat
    BY <2>1 DEF TypeOK
  <2> QED BY <1>t, <2>2 DEF Rest, Stranded
<1>v. /\ UNCHANGED <<sigPc, summary, capRunning>>
      /\ received' < UINT32 => received < UINT32
  BY MainLeaves
<1>n. NoneEarly' <=> NoneEarly
  BY <1>v DEF NoneEarly
<1>r. \A s \in Signals : CapRead(s)' = CapRead(s)
  BY <1>v DEF CapRead
<1>1. CASE Poll
  <2>1. /\ mainPc = "poll" /\ mainPc' = (IF capRunning THEN "rx" ELSE "devStop")
        /\ UNCHANGED <<ring, decPc, capPktCount, dropPktCount>>
    BY <1>1 DEF Poll, MainAt, captureVars
  <2>2. Stranded' = Stranded /\ Rest = 0
    BY <1>n, <2>1 DEF Stranded, Ended, Rest
  <2>3. CASE capRunning
    <3>1. Stranded = 0
      BY <2>3 DEF StopOrder, Stranded, Ended
    <3>2. Rest' = Burst
      BY <2>1, <2>3 DEF Rest
    <3>3. \A s \in Signals : ~ CapRead(s)' /\ ~ summary'[s].taken
      BY <1>v, <2>3 DEF SummaryGap, CapRead
    <3> QED BY <1>t, <2>2, <3>1, <3>2, <3>3 DEF LastBurst, CloseToTotals
  <2>4. CASE ~ capRunning
    <3>1. Rest' = Rest
      BY <2>1, <2>2, <2>4 DEF Rest
    <3> QED BY <1>v, <1>r, <2>1, <2>2, <3>1 DEF LastBurst, CloseToTotals
  <2> QED BY <2>3, <2>4
<1>2. CASE CountDropped
  <2>1. /\ mainPc = "drop" /\ mainPc' = "free"
        /\ dropPktCount' = Plus(dropPktCount, Len(burst))
        /\ UNCHANGED <<ring, decPc, capPktCount, received>>
    BY <1>2 DEF CountDropped, MainAt
  <2>2. Stranded' = Stranded /\ Rest = Len(burst) /\ Rest' = 0
    BY <1>n, <2>1 DEF Stranded, Ended, Rest
  <2>3. received < UINT32 => dropPktCount' = dropPktCount + Len(burst)
    <3>1. /\ Len(decoded) \in Nat /\ InParse \in Nat
          /\ InHand = Len(burst) /\ Uncounted = 0
      BY <1>t, <2>1, KeptType, LenProperties DEF TypeOK, InHand, Uncounted
    <3>2. received < UINT32 => dropPktCount + Len(burst) < UINT32
      BY <1>t, <3>1 DEF CountsExact, Kept
    <3> QED BY <1>t, <2>1, <3>2, NoWrap
  <2>4. Stranded' + Rest' <= Burst
    BY <1>t, <2>2 DEF LastBurst
  <2>5. ASSUME received' < UINT32, NEW s \in Signals
        PROVE  CloseToTotals(s)'
    <3>1. CloseToTotals(s) /\ dropPktCount' = dropPktCount + Len(burst)
      BY <2>1, <2>3, <2>5 DEF LastBurst
    <3>2. summary[s].cap \in Nat /\ summary[s].drop \in Nat
      BY <1>t
    <3>3. summary[s].taken =>
            /\ summary[s].drop <= dropPktCount'
            /\ dropPktCount' + Rest' + Stranded' <= summary[s].drop + Burst
      BY <1>t, <2>2, <3>1, <3>2 DEF CloseToTotals
    <3> QED BY <1>v, <1>r, <2>1, <3>1, <3>3 DEF CloseToTotals
  <2> QED BY <2>4, <2>5 DEF LastBurst
<1>3. CASE ~ Poll /\ ~ CountDropped
  <2>1. Stranded' + Rest' <= Stranded + Rest
    BY <1>3, RestDecreases
  <2>2. dropPktCount' = dropPktCount
    BY <1>3
    DEF Main, RegisterCapture, InitSucceeds, InitFails, StartDecode, RegisterDecode,
        RxBurst, CountReceived, Enqueue, FreeDropped, StopDevice, CleanupEal,
        ReturnFromMain, MainAt, captureVars
  <2>3. Stranded' + Rest' <= Burst
    <3>1. Stranded + Rest <= Burst
      BY DEF LastBurst
    <3>2. \A a, b, c, d, e \in Nat : a + b <= c + d /\ c + d <= e => a + b <= e
      OBVIOUS
    <3> QED BY <1>t, <1>u, <2>1, <3>1, <3>2
  <2>4. ASSUME received' < UINT32, NEW s \in Signals, CapRead(s)
        PROVE  summary[s].cap <= capPktCount' /\ capPktCount' <= summary[s].cap + Burst
    <3>1. received < UINT32 /\ summary[s].cap \in Nat
      BY <1>t, <1>v, <2>4
    <3>2. CASE CountReceived
      <4>1. /\ mainPc = "count" /\ capPktCount' = Plus(capPktCount, Len(burst))
        BY <3>2 DEF CountReceived, MainAt
      <4>2. capPktCount = summary[s].cap
        BY <2>4, <4>1 DEF SummaryGap
      <4>3. capPktCount + Len(burst) < UINT32
        BY <1>t, <3>1, <4>1 DEF CountsExact, Uncounted
      <4>4. capPktCount' = capPktCount + Len(burst)
        BY <1>t, <4>1, <4>3, NoWrap
      <4> QED BY <1>t, <4>2, <4>4
    <3>3. CASE ~ CountReceived
      <4>1. capPktCount' = capPktCount
        BY <1>3, <3>3
        DEF Main, RegisterCapture, InitSucceeds, InitFails, StartDecode, RegisterDecode,
            RxBurst, Enqueue, FreeDropped, StopDevice, CleanupEal, ReturnFromMain,
            MainAt, captureVars
      <4> QED BY <2>4, <3>1, <4>1 DEF LastBurst, CloseToTotals
    <3> QED BY <3>2, <3>3
  <2>5. ASSUME received' < UINT32, NEW s \in Signals, summary[s].taken
        PROVE  /\ summary[s].drop <= dropPktCount'
               /\ dropPktCount' + Rest' + Stranded' <= summary[s].drop + Burst
    <3>1. summary[s].drop <= dropPktCount
          /\ dropPktCount + Rest + Stranded <= summary[s].drop + Burst
      BY <1>v, <2>5 DEF LastBurst, CloseToTotals
    <3>2. summary[s].drop \in Nat
      BY <1>t
    <3>3. summary[s].drop + Burst \in Nat /\ dropPktCount \in Nat
      BY <1>t, <3>2
    <3>4. dropPktCount + Rest' + Stranded' <= summary[s].drop + Burst
      <4>1. Rest \in Nat /\ Stranded \in Nat /\ Rest' \in Nat /\ Stranded' \in Nat
        BY <1>t, <1>u
      <4>2. PICK r \in Nat, t \in Nat : r = Rest' /\ t = Stranded'
        BY <4>1
      <4>3. t + r <= Stranded + Rest
        BY <2>1, <4>2
      <4>4. dropPktCount + r + t <= summary[s].drop + Burst
        BY <3>1, <3>3, <4>1, <4>3, TotalStaysClose
      <4> QED BY <4>2, <4>4
    <3> QED BY <2>2, <3>1, <3>4
  <2>6. received' < UINT32 => \A s \in Signals : CloseToTotals(s)'
    BY <1>v, <1>r, <2>4, <2>5 DEF CloseToTotals
  <2> QED BY <2>3, <2>6 DEF LastBurst
<1> QED BY <1>1, <1>2, <1>3

LEMMA DecodeLastBurst ==
    ASSUME IInv, LastBurst, DecodeThread
    PROVE  LastBurst'
<1>t. /\ Rest \in Nat /\ Rest <= Burst /\ Stranded \in Nat /\ Burst \in Nat
      /\ dropPktCount \in Nat
      /\ \A s \in Signals : summary[s].cap \in Nat /\ summary[s].drop \in Nat
  BY RestTypes DEF IInv
<1>1. UNCHANGED <<mainPc, burst, capPktCount, dropPktCount, received, sigPc, summary>>
  BY DEF DecodeThread, TestRunning, TestEmpty, Dequeue, Parse, ReleasePkt, Dump, DecAt,
         captureVars, signalVars
<1>2. Rest' = Rest /\ (NoneEarly' <=> NoneEarly)
  BY <1>1 DEF Rest, NoneEarly
<1>3. Stranded' = Stranded \/ Stranded' = 0
  <2>1. CASE TestEmpty \/ Dequeue
    <3>1. Ended' => ring' = <<>>
      BY <2>1 DEF TestEmpty, Dequeue, DecAt, Ended
    <3> QED BY <3>1 DEF Stranded
  <2>2. CASE ~ TestEmpty /\ ~ Dequeue
    <3>1. (Ended' <=> Ended) /\ ring' = ring
      BY <2>2 DEF DecodeThread, TestRunning, Parse, ReleasePkt, Dump, DecAt, Ended
    <3> QED BY <1>2, <3>1 DEF Stranded
  <2> QED BY <2>1, <2>2
<1>4. Stranded' \in Nat /\ Stranded' <= Stranded
  BY <1>t, <1>3
<1>5. Stranded' + Rest' <= Burst
  BY <1>t, <1>2, <1>4 DEF LastBurst
<1>6. ASSUME received' < UINT32, NEW s \in Signals
      PROVE  CloseToTotals(s)'
  <2>1. CloseToTotals(s) /\ summary[s].drop \in Nat
    BY <1>t, <1>1, <1>6 DEF LastBurst
  <2>2. summary[s].taken => dropPktCount + Rest + Stranded' <= summary[s].drop + Burst
    BY <1>t, <1>4, <2>1 DEF CloseToTotals
  <2> QED BY <1>1, <1>2, <2>1, <2>2 DEF CloseToTotals, CapRead
<1> QED BY <1>5, <1>6 DEF LastBurst

LEMMA DeliverLastBurst ==
    ASSUME IInv, LastBurst, NEW s \in Signals, NEW thread \in Hosts, Deliver(s, thread)
    PROVE  LastBurst'
<1>1. UNCHANGED <<mainPc, decPc, burst, ring, capPktCount, dropPktCount, received, summary>>
  BY DEF Deliver, captureVars
<1>2. Rest' = Rest /\ Stranded' = Stranded
  BY <1>1 DEF Rest, Stranded, NoneEarly, Ended
<1>3. \A t \in Signals : CapRead(t)' => CapRead(t)
  BY DEF Deliver, IInv, TypeOK, CapRead
<1> QED BY <1>1, <1>2, <1>3 DEF LastBurst, CloseToTotals

LEMMA SigHandleLastBurst ==
    ASSUME IInv, StopOrder, ReadsOrdered, LastBurst, NEW s \in Signals, SigHandle(s)
    PROVE  LastBurst'
<1>t. /\ Rest \in Nat /\ Rest <= Burst /\ Stranded \in Nat /\ Burst \in Nat
      /\ dropPktCount \in Nat /\ capPktCount \in Nat /\ Len(ring) \in Nat
      /\ \A t \in Signals : summary[t].cap \in Nat /\ summary[t].drop \in Nat
  BY RestTypes DEF IInv
<1>b. /\ sigPc \in [Signals -> SigPcs]
      /\ summary \in [Signals -> [cap : Counter, drop : Counter, taken : BOOLEAN,
                                  early : BOOLEAN]]
  BY DEF IInv, TypeOK
<1>1. UNCHANGED <<mainPc, decPc, burst, ring, capPktCount, dropPktCount, received>>
  BY DEF SigHandle, Enter, LogTotals, CaughtInLog, TestCapture, StopCapture,
         ReadCapCount, ReadDropCount, TestDecode, StopDecode, HandlerAt, captureVars,
         lifeVars, decodeVars
<1>2. Rest' = Rest /\ (Ended' <=> Ended)
  BY <1>1 DEF Rest, Ended
<1>3. NoneEarly' => NoneEarly
  <2>1. \A t \in Signals : t # s => summary'[t] = summary[t]
    BY <1>b DEF SigHandle, Enter, LogTotals, CaughtInLog, TestCapture, StopCapture,
                ReadCapCount, ReadDropCount, TestDecode, StopDecode, lifeVars,
                captureVars, decodeVars
  <2>2. CASE TestCapture(s)
    <3>1. ~ summary[s].early
      BY <2>2 DEF TestCapture, HandlerAt, StopOrder
    <3> QED BY <2>1, <3>1 DEF NoneEarly
  <2>3. CASE ~ TestCapture(s)
    <3>1. summary'[s].early = summary[s].early
      BY <1>b, <2>3 DEF SigHandle, Enter, LogTotals, CaughtInLog, StopCapture,
                        ReadCapCount, ReadDropCount, TestDecode, StopDecode, lifeVars,
                        captureVars, decodeVars
    <3> QED BY <2>1, <3>1 DEF NoneEarly
  <2> QED BY <2>2, <2>3
<1>4. Stranded' \in Nat /\ Stranded' <= Stranded
  BY <1>t, <1>1, <1>2, <1>3 DEF Stranded
<1>5. Stranded' + Rest' <= Burst
  <2>1. Stranded + Rest <= Burst
    BY DEF LastBurst
  <2>2. Rest <= Rest
    BY <1>t
  <2>3. Stranded' + Rest <= Burst
    BY <1>t, <1>4, <2>1, <2>2, SharesShrink
  <2> QED BY <1>2, <2>3
<1>6. ASSUME received < UINT32, NEW t \in Signals
      PROVE  CloseToTotals(t)'
  <2>1. CloseToTotals(t)
    BY <1>6 DEF LastBurst
  <2>2. CapRead(t)' => summary'[t].cap <= capPktCount
                       /\ capPktCount <= summary'[t].cap + Burst
    <3>1. CASE t = s /\ ReadCapCount(s)
      <4>1. summary'[t].cap = capPktCount
        BY <1>b, <3>1 DEF ReadCapCount
      <4> QED BY <1>t, <4>1
    <3>2. CASE ~ (t = s /\ ReadCapCount(s))
      <4>1. summary'[t].cap = summary[t].cap /\ (CapRead(t)' => CapRead(t))
        BY <1>b, <3>2
        DEF SigHandle, Enter, LogTotals, CaughtInLog, TestCapture, StopCapture,
            ReadCapCount, ReadDropCount, TestDecode, StopDecode, HandlerAt, CapRead,
            lifeVars, captureVars, decodeVars
      <4> QED BY <2>1, <4>1 DEF CloseToTotals
    <3> QED BY <3>1, <3>2
  <2>3. summary'[t].taken =>
          /\ summary'[t].drop <= dropPktCount
          /\ dropPktCount + Rest + Stranded' <= summary'[t].drop + Burst
    <3>1. CASE t = s /\ ReadDropCount(s)
      <4>1. summary'[t].drop = dropPktCount
        BY <1>b, <3>1 DEF ReadDropCount
      <4>2. Stranded' + Rest <= Burst
        BY <1>2, <1>5
      <4> QED BY <1>t, <1>4, <4>1, <4>2
    <3>2. CASE ~ (t = s /\ ReadDropCount(s))
      <4>1. summary'[t].drop = summary[t].drop /\ summary'[t].taken = summary[t].taken
        BY <1>b, <3>2
        DEF SigHandle, Enter, LogTotals, CaughtInLog, TestCapture, StopCapture,
            ReadCapCount, ReadDropCount, TestDecode, StopDecode, lifeVars, captureVars,
            decodeVars
      <4>2. summary[t].drop \in Nat
        BY <1>t
      <4> QED BY <1>t, <1>4, <2>1, <4>1, <4>2 DEF CloseToTotals
    <3> QED BY <3>1, <3>2
  <2> QED BY <1>1, <1>2, <2>2, <2>3 DEF CloseToTotals
<1> QED BY <1>1, <1>5, <1>6 DEF LastBurst

LEMMA NextLastBurst ==
    ASSUME IInv, StopOrder, SummaryGap, CountsExact, ReadsOrdered, LastBurst, [Next]_vars
    PROVE  LastBurst'
<1>1. CASE UNCHANGED vars
  BY <1>1 DEF vars, LastBurst, CloseToTotals, CapRead, Rest, Stranded, Ended, NoneEarly
<1> QED
  BY <1>1, MainLastBurst, DecodeLastBurst, DeliverLastBurst, SigHandleLastBurst DEF Next

(***************************************************************************)
(* The totals a handler logs foretell what is decoded: until a counter can *)
(* wrap, and unless a handler ran before the capture was registered, the   *)
(* packets captured and not dropped are those that a decode thread has     *)
(* decoded when it comes to its end, give or take the last burst.          *)
(***************************************************************************)
SummaryMatchesDecoded ==
    received < UINT32 /\ NoneEarly /\ decPc = "done" =>
      \A s \in Signals :
        summary[s].taken =>
          LET kept == summary[s].cap - summary[s].drop
          IN  kept <= Len(decoded) + Burst /\ Len(decoded) <= kept + Burst

LEMMA LastBurstMatches ==
    ASSUME IInv, CountsExact, LastBurst
    PROVE  SummaryMatchesDecoded
<1> SUFFICES ASSUME received < UINT32, NoneEarly, decPc = "done", NEW s \in Signals,
                    summary[s].taken
             PROVE  /\ summary[s].cap - summary[s].drop <= Len(decoded) + Burst
                    /\ Len(decoded) <= (summary[s].cap - summary[s].drop) + Burst
  BY DEF SummaryMatchesDecoded
<1>t. /\ Rest \in Nat /\ Stranded \in Nat /\ Burst \in Nat /\ Len(ring) \in Nat
      /\ capPktCount \in Nat /\ dropPktCount \in Nat /\ Len(decoded) \in Nat
      /\ summary[s].cap \in Nat /\ summary[s].drop \in Nat /\ InHand \in Nat
  BY RestTypes, KeptType, LenProperties DEF IInv, TypeOK
<1>1. InHand <= Rest /\ Stranded = Len(ring) /\ InParse = 0
  <2>1. Len(burst) \in Nat
    BY RestTypes DEF IInv
  <2> QED BY <1>t, <2>1 DEF InHand, Rest, Stranded, Ended, InParse
<1>2. dropPktCount + (Len(decoded) + Stranded + InHand) = capPktCount
  BY <1>t, <1>1 DEF CountsExact, Kept
<1>3. /\ summary[s].cap <= capPktCount /\ capPktCount <= summary[s].cap + Burst
      /\ summary[s].drop <= dropPktCount
      /\ dropPktCount + Rest + Stranded <= summary[s].drop + Burst
  BY DEF LastBurst, CloseToTotals, CapRead
<1>4. summary[s].cap <= summary[s].drop + Len(decoded) + Burst
  <2>1. dropPktCount + Stranded + InHand <= summary[s].drop + Burst
    BY <1>t, <1>1, <1>3
  <2>2. capPktCount <= summary[s].drop + Burst + Len(decoded)
    BY <1>t, <1>2, <2>1
  <2>3. summary[s].cap <= capPktCount
    BY <1>3
  <2>4. /\ summary[s].drop \in Nat /\ Len(decoded) \in Nat /\ capPktCount \in Nat
        /\ summary[s].cap \in Nat /\ Burst \in Nat
    BY <1>t
  <2> QED BY <2>2, <2>3, <2>4
<1>5. summary[s].drop + Len(decoded) <= summary[s].cap + Burst
  <2>1. dropPktCount + Len(decoded) <= capPktCount
    BY <1>t, <1>2
  <2>2. /\ summary[s].drop \in Nat /\ Len(decoded) \in Nat /\ dropPktCount \in Nat
        /\ capPktCount \in Nat /\ summary[s].cap \in Nat /\ Burst \in Nat
    BY <1>t
  <2>3. summary[s].drop <= dropPktCount /\ capPktCount <= summary[s].cap + Burst
    BY <1>3
  <2>4. summary[s].drop + Len(decoded) <= capPktCount
    BY <2>1, <2>2, <2>3
  <2> QED BY <2>2, <2>3, <2>4
<1> QED BY <1>t, <1>4, <1>5

(***************************************************************************)
(* The invariants of the counters together: until m_capPktCount can wrap,  *)
(* it and m_dropPktCount are exact, whichever handler reads them when.     *)
(***************************************************************************)
CountInv == IInv /\ StopOrder /\ SummaryGap /\ CountsExact /\ ReadsOrdered /\ LastBurst

\* No step of main, of DecodeProcess or of a handler of SIGINT breaks them.
THEOREM SpecCountInv == Spec => []CountInv
<1>1. Init => CountInv
  BY InitIInv, InitStopOrder, InitSummaryGap, InitCountsExact, InitLastBurst DEF CountInv
<1>2. CountInv /\ [Next]_vars => CountInv'
  BY NextIInv, NextStopOrder, NextSummaryGap, NextReadsOrdered, NextLastBurst DEF CountInv
<1> QED BY <1>1, <1>2, PTL DEF Spec

(***************************************************************************)
(* What QcapExit logs foretells what DecodeProcess will have decoded when  *)
(* it returns: captured minus dropped, up to one burst either way, though  *)
(* the totals are read while the capture goes on, and some packets may be  *)
(* left on the ring.                                                       *)
(***************************************************************************)
THEOREM SummaryForetells == Spec => []SummaryMatchesDecoded
<1>1. CountInv => SummaryMatchesDecoded
  BY LastBurstMatches DEF CountInv
<1> QED BY <1>1, SpecCountInv, PTL
===============================================================================
