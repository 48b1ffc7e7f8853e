----------------------------- MODULE StartUp_proofs -----------------------------
(***************************************************************************)
(* What StartUp promises, for every set of files, every card and every     *)
(* width of the integers.  The invariant says, stage by stage, what has    *)
(* become of the file: configData holds the last text of each key among    *)
(* the lines read, m_configMap the conversion of those FillConfig visited, *)
(* and the loggers, the card and the decoders what m_configMap held.       *)
(***************************************************************************)
EXTENDS StartUp, TLAPS

Early == {"openLogs", "greet", "open"}

\* The places after FillConfig, after SetLogLevel and so on.
Filled  == Pcs \ (Early \union {"read", "fill", "ended", "crashed"})
Leveled == Filled \ {"setLevel", "aborted", "looping"}
Flushed == Leveled \ {"setFlush"}
Made    == Flushed \ {"coreDpdk"}
Before  == Early \union {"read", "fill", "setLevel", "setFlush", "coreDpdk",
                         "eal", "pool", "ports", "clamp", "configure"}
Queued  == {"queue", "ring"}
Ready   == {"start", "enable", "decode", "capture"}
Running == {"decode", "capture"}

\* Line i of file f sets key k; its first n lines give k the text t, or none.
SetBy(f, i, k) == f[i].kind = "set" /\ f[i].key = k
TextAfter(f, n, k, t) ==
    \/ /\ t = None
       /\ \A i \in 1 .. n : ~ SetBy(f, i, k)
    \/ /\ t # None
       /\ \E i \in 1 .. n :
             /\ SetBy(f, i, k)
             /\ t = f[i].text
             /\ \A j \in 1 .. n : SetBy(f, j, k) => j =< i

ReadInv ==
    /\ pc \in Early =>
          /\ data = [k \in Keys |-> None]
          /\ todo = {} /\ config = Defaults
    /\ pc = "read" =>
          /\ file # NoFile /\ at =< Len(file)
          /\ todo = {} /\ config = Defaults
          /\ \A k \in Keys : TextAfter(file, at, k, data[k])
    /\ pc \in Filled \union {"fill"} =>
          /\ file # NoFile
          /\ \A k \in Keys : TextAfter(file, Len(file), k, data[k])

\* Key k is converted, or at its default for one of two reasons.
Taken(k) ==
    \/ data[k] # None /\ config[k] = Converted(k, data[k])
    \/ config[k] = Defaults[k] /\ (k \in todo \/ data[k] = None)

TodoHasText == \A k \in Keys : k \in todo => data[k] # None

FillInv ==
    pc \in Filled \union {"fill"} =>
        /\ TodoHasText
        /\ \A k \in Known : Taken(k)
        /\ pc # "fill" => todo = {} \/ data[Unknown] # None

LogInv ==
    /\ pc \in Before \ {"setFlush", "coreDpdk", "eal", "pool", "ports", "clamp",
                       "configure"}
          => level = "info" /\ flushOn = "off"
    /\ pc \in Leveled =>
          /\ Readable("logLevel")
          /\ IF Value("logLevel") \in Levels
             THEN level = Value("logLevel") /\ flushOn = Value("logLevel")
             ELSE level = "info" /\ flushOn = "off"
    /\ pc \in Flushed =>
          Readable("realTimeFlushLog") /\ flusher = Value("realTimeFlushLog")
    /\ pc \in Made => Readable("isPromiscuous")
    /\ pc \in Running => (promiscuous => Value("isPromiscuous"))

CardInv ==
    /\ pc \in Before => rings = << >> /\ (pc # "read" => at = 0)
    /\ pc \in Queued => at = Len(rings) /\ at < rxQueNumber
    /\ pc \in Ready => Len(rings) = rxQueNumber

DecodeInv ==
    /\ pc \notin Running => decoders = << >>
    /\ \A d \in 1 .. Len(decoders) :
          /\ \A k \in Numbers : Readable(k)
          /\ decoders[d].timeout = FlowOutTime(Value("flowOutTime"))
          /\ decoders[d].mode = Value("decodeMode") % UINT32

IInv == /\ TypeOK /\ ReadInv /\ FillInv /\ LogInv /\ CardInv /\ DecodeInv
        /\ FailsWithReason

-----------------------------------------------------------------------------

\* The parts of a line.
LEMMA LineTyped ==
    ASSUME NEW l \in Lines
    PROVE  /\ l.kind \in {"skip", "bad", "set"}
           /\ l.key \in Keys
           /\ l.kind = "set" => l.text \in Texts
<1>1. CASE l = Skip \/ l = NoEqual
  BY <1>1 DEF Skip, NoEqual, Keys
<1>2. CASE \E k \in Keys, t \in Texts : l = Setting(k, t)
  BY <1>2 DEF Setting
<1> QED
  BY <1>1, <1>2 DEF Lines

\* What a line adds to the text of a key.
LEMMA NextText ==
    ASSUME NEW f \in Seq(Lines), NEW n \in Nat, n < Len(f), NEW k \in Keys,
           NEW t, TextAfter(f, n, k, t)
    PROVE  /\ SetBy(f, n + 1, k) => TextAfter(f, n + 1, k, f[n + 1].text)
           /\ ~ SetBy(f, n + 1, k) => TextAfter(f, n + 1, k, t)
<1>1. n + 1 \in 1 .. Len(f) /\ f[n + 1] \in Lines
  OBVIOUS
<1>2. \A i \in 1 .. n + 1 : i \in 1 .. n \/ i = n + 1
  OBVIOUS
<1>3. ASSUME SetBy(f, n + 1, k)
      PROVE  TextAfter(f, n + 1, k, f[n + 1].text)
  <2>1. f[n + 1].text \in Texts
    BY <1>1, <1>3, LineTyped DEF SetBy
  <2>2. f[n + 1].text # None
    BY <2>1, StartUpAssumption
  <2> QED
    BY <1>2, <1>3, <2>2 DEF TextAfter
<1>4. ASSUME ~ SetBy(f, n + 1, k)
      PROVE  TextAfter(f, n + 1, k, t)
  <2>1. CASE t = None
    BY <1>2, <1>4, <2>1 DEF TextAfter
  <2>2. CASE t # None
    BY <1>2, <1>4, <2>2 DEF TextAfter
  <2> QED
    BY <2>1, <2>2
<1> QED
  BY <1>3, <1>4

\* The file that is read is one of Files.
LEMMA FileTyped ==
    ASSUME TypeOK, file # NoFile
    PROVE  /\ file \in Seq(Lines)
           /\ Len(file) \in Nat
           /\ \A i \in 1 .. Len(file) : file[i] \in Lines
BY StartUpAssumption DEF TypeOK

\* The types of the values a key may have.
LEMMA ValuesTyped ==
    ASSUME IInv, pc \in Filled \union {"fill"}
    PROVE  /\ \A k \in Switches : Readable(k) /\ Value(k) \in BOOLEAN
           /\ \A k \in Numbers : Readable(k) => Value(k) \in Nat
<1>1. \A k \in Known : Taken(k)
  BY DEF IInv, FillInv
<1>2. \A k \in Keys : data[k] \in Texts \union {None}
  BY DEF IInv, TypeOK
<1>3. ASSUME NEW k \in Switches
      PROVE  Readable(k) /\ Value(k) \in BOOLEAN
  <2>0. TypeOf(k) = "bool" /\ k \notin Numbers /\ k # "logLevel"
    BY <1>3 DEF TypeOf, Switches, Numbers
  <2>1. CASE config[k] = Defaults[k]
    <3>1. Defaults[k] = [type |-> "bool", value |-> TRUE]
      BY <1>3, <2>0 DEF Defaults, Known, Numbers
    <3> QED
      BY <2>0, <2>1, <3>1 DEF Readable, Value
  <2>2. CASE config[k] = Converted(k, data[k])
    <3>1. Converted(k, data[k]) = [type |-> "bool", value |-> IsOn(data[k])]
      BY <1>3, <2>0 DEF Converted
    <3>2. config[k].type = "bool" /\ config[k].value = IsOn(data[k])
      BY <2>2, <3>1
    <3>3. IsOn(data[k]) \in BOOLEAN
      BY DEF IsOn
    <3> QED
      BY <2>0, <3>2, <3>3 DEF Readable, Value
  <2> QED
    BY <1>1, <2>1, <2>2 DEF Taken, Known
<1>4. ASSUME NEW k \in Numbers, Readable(k)
      PROVE  Value(k) \in Nat
  <2>1. CASE config[k] = Defaults[k]
    <3>1. Defaults[k].type # "uint64_t"
      BY <1>4 DEF Defaults, Known, Numbers
    <3> QED
      BY <1>4, <2>1, <3>1 DEF Readable, TypeOf
  <2>2. CASE data[k] # None /\ config[k] = Converted(k, data[k])
    <3>1. data[k] \in Texts
      BY <1>2, <2>2 DEF Keys, Known
    <3>2. Atol[data[k]] \in Int
      BY <3>1, StartUpAssumption
    <3>3. Atol[data[k]] % UINT64 \in Nat
      BY <3>2, StartUpAssumption
    <3> QED
      BY <2>2, <3>3 DEF Converted, Value
  <2> QED
    BY <1>1, <2>1, <2>2 DEF Taken, Known
<1> QED
  BY <1>3, <1>4

\* A narrowed timeout is a number, at least a second.
LEMMA TimeoutTyped ==
    ASSUME NEW n \in Nat
    PROVE  /\ FlowOutTime(n) \in Nat
           /\ FlowOutTime(n) >= Second
           /\ n \in Second .. UINT32 - 1 => FlowOutTime(n) = n
<1>1. n % UINT32 \in Nat
  BY StartUpAssumption
<1>2. n < UINT32 => n % UINT32 = n
  BY StartUpAssumption
<1> QED
  BY <1>1, <1>2, StartUpAssumption DEF FlowOutTime

\* The decoder that main makes next.
NewDecoder(created) ==
    [timeout |-> FlowOutTime(Value("flowOutTime")),
     mode |-> Value("decodeMode") % UINT32,
     ring |-> rings[Len(decoders) + 1],
     core |-> core[Len(decoders) + 1],
     thread |-> created]

\* It is one, for it has a ring and a core.
LEMMA DecoderTyped ==
    ASSUME IInv, pc = "decode", MoreQueues, \A k \in Numbers : Readable(k),
           NEW created \in BOOLEAN
    PROVE  NewDecoder(created) \in Decoder
<1>1. Value("flowOutTime") \in Nat /\ Value("decodeMode") \in Nat
  BY ValuesTyped DEF Filled, Pcs, Ends, Early, Numbers
<1>2. FlowOutTime(Value("flowOutTime")) \in Nat
  BY <1>1, TimeoutTyped
<1>3. Value("decodeMode") % UINT32 \in Nat
  BY <1>1, StartUpAssumption
<1>4. /\ Len(decoders) \in Nat /\ Len(decoders) < Len(rings)
      /\ rings \in Seq(Nat) /\ Len(rings) =< 4
  BY StartUpAssumption DEF IInv, TypeOK, CardInv, Ready, MoreQueues, core
<1>5. rings[Len(decoders) + 1] \in Nat
  BY <1>4
<1>6. core[Len(decoders) + 1] \in Nat
  BY <1>4 DEF core
<1> QED
  BY <1>2, <1>3, <1>5, <1>6 DEF NewDecoder, Decoder

\* A setting without a usable default was not taken: the file does not name
\* it, or names an unknown key.
LEMMA UnreadableReason ==
    ASSUME IInv, pc \in Filled, NEW k \in Known, ~ Readable(k)
    PROVE  ~ Named(k) \/ Named(Unknown)
<1>1. Taken(k)
  BY DEF IInv, FillInv
<1>2. data[k] = None \/ k \in todo
  BY <1>1 DEF Taken, Converted, Readable
<1>3. data[k] = None \/ data[Unknown] # None
  BY <1>2 DEF IInv, FillInv, Filled
<1>4. /\ file # NoFile
      /\ TextAfter(file, Len(file), k, data[k])
      /\ TextAfter(file, Len(file), Unknown, data[Unknown])
  BY DEF IInv, ReadInv, Keys
<1> QED
  BY <1>3, <1>4 DEF TextAfter, Named, SetBy, Sets

\* Every step leaves a well-typed state.
LEMMA TypeOKStep ==
    ASSUME IInv, [Next]_vars
    PROVE  TypeOK'
<1> USE StartUpAssumption DEF IInv, Early, Filled, Leveled, Flushed, Made,
    Before, Queued, Ready, Running, Pcs, Ends
<1>1. CASE OpenLogs \/ Greet \/ OpenFile
  BY <1>1 DEF OpenLogs, Greet, OpenFile, configVars, logVars, cardVars, TypeOK
<1>2. CASE ReadLine
  <2>1. file # NoFile
    BY <1>2 DEF ReadLine, ReadInv
  <2>2. file[at + 1] \in Lines
    BY <1>2, <2>1, FileTyped DEF ReadLine, TypeOK
  <2>3. data' \in [Keys -> Texts \union {None}]
    BY <1>2, <2>2, LineTyped DEF ReadLine, Keep, TypeOK
  <2> QED
    BY <1>2, <2>3 DEF ReadLine, TypeOK, logVars, cardVars
<1>3. CASE ReadEnd
  BY <1>3 DEF ReadEnd, configVars, logVars, cardVars, TypeOK
<1>4. CASE FillKey
  <2>1. /\ DOMAIN config' = Known
        /\ \A k \in Known : \/ config'[k] = Defaults[k]
                            \/ config'[k].type = TypeOf(k)
    BY <1>4 DEF FillKey, TypeOK, Converted
  <2> QED
    BY <1>4, <2>1 DEF FillKey, TypeOK, logVars, cardVars
<1>5. CASE FillEnd
  BY <1>5 DEF FillEnd, configVars, logVars, cardVars, TypeOK
<1>6. CASE SetLogLevel
  BY <1>6 DEF SetLogLevel, Throw, configVars, logVars, cardVars, TypeOK
<1>7. CASE SetRealTimeFlush \/ NewCoreDpdk
  <2>1. CASE SetRealTimeFlush
    <3>1. flusher' \in BOOLEAN
      BY <2>1, ValuesTyped DEF SetRealTimeFlush, Throw, logVars, Switches,
         TypeOK
    <3> QED
      BY <2>1, <3>1 DEF SetRealTimeFlush, Throw, configVars, logVars, cardVars,
         TypeOK
  <2>2. CASE NewCoreDpdk
    BY <2>2 DEF NewCoreDpdk, Throw, configVars, logVars, cardVars, TypeOK
  <2> QED
    BY <1>7, <2>1, <2>2
<1>8. CASE EalInit \/ PoolCreate \/ CountPorts \/ Configure \/ SetupQueue
        \/ StartDevice
  BY <1>8 DEF EalInit, PoolCreate, CountPorts, Configure, SetupQueue,
     StartDevice, Call, NextQueue, configVars, logVars, cardVars, TypeOK
<1>9. CASE Clamp
  <2>1. PICK max \in MaxRxQueues :
           rxQueNumber' = IF rxQueNumber > max THEN max ELSE rxQueNumber
    BY <1>9 DEF Clamp
  <2>2. max \in Nat /\ RxQueNumber \in Nat
    BY DEF core
  <2>3. rxQueNumber' \in 0 .. RxQueNumber
    BY <2>1, <2>2 DEF TypeOK
  <2> QED
    BY <1>9, <2>3 DEF Clamp, TypeOK, DecodeInv, configVars, logVars
<1>10. CASE RingCreate
  <2>1. rings' \in Seq(Nat) /\ Len(rings') =< RxQueNumber /\ at' \in Nat
    BY <1>10 DEF RingCreate, TypeOK, CardInv
  <2> QED
    BY <1>10, <2>1 DEF RingCreate, NextQueue, TypeOK, configVars, logVars
<1>11. CASE EnablePromiscuous
  <2>1. promiscuous' \in BOOLEAN
    BY <1>11, ValuesTyped DEF EnablePromiscuous, Switches
  <2> QED
    BY <1>11, <2>1 DEF EnablePromiscuous, TypeOK, configVars, logVars
<1>12. CASE NewDecode
  <2>1. CASE \E k \in Numbers : ~ Readable(k)
    BY <1>12, <2>1 DEF NewDecode, Throw, TypeOK, configVars, logVars, cardVars
  <2>2. CASE \A k \in Numbers : Readable(k)
    <3>1. PICK created \in BOOLEAN :
             decoders' = Append(decoders, NewDecoder(created))
      BY <1>12, <2>2 DEF NewDecode, Throw, NewDecoder
    <3>2. NewDecoder(created) \in Decoder
      BY <1>12, <2>2, DecoderTyped DEF NewDecode
    <3>3. Len(decoders) < rxQueNumber
      BY <1>12 DEF NewDecode, MoreQueues
    <3>4. decoders' \in Seq(Decoder) /\ Len(decoders') =< rxQueNumber
      BY <3>1, <3>2, <3>3 DEF TypeOK
    <3> QED
      BY <1>12, <2>2, <3>4 DEF NewDecode, TypeOK, configVars, logVars, cardVars
  <2> QED
    BY <2>1, <2>2
<1>13. CASE StartCapture
  BY <1>13 DEF StartCapture, configVars, logVars, cardVars, TypeOK
<1>14. CASE Rest
  BY <1>14 DEF Rest, vars, configVars, logVars, cardVars, TypeOK
<1>15. CASE UNCHANGED vars
  BY <1>15 DEF vars, configVars, logVars, cardVars, TypeOK
<1> QED
  BY <1>1, <1>2, <1>3, <1>4, <1>5, <1>6, <1>7, <1>8, <1>9, <1>10, <1>11, <1>12,
     <1>13, <1>14, <1>15 DEF Next

\* What has been read follows the lines of the file.
LEMMA ReadInvStep ==
    ASSUME IInv, [Next]_vars
    PROVE  ReadInv'
<1> USE StartUpAssumption DEF IInv, Early, Filled, Leveled, Flushed, Made,
    Before, Queued, Ready, Running, Pcs, Ends
<1>1. CASE OpenLogs \/ Greet \/ OpenFile
  <2>1. \A k \in Keys : TextAfter(file, 0, k, None)
    BY DEF TextAfter
  <2> QED
    BY <1>1, <2>1, FileTyped DEF OpenLogs, Greet, OpenFile, ReadInv, CardInv,
       configVars, logVars, cardVars
<1>2. CASE ReadLine
  <2>1. file # NoFile /\ at \in Nat /\ at < Len(file)
    BY <1>2 DEF ReadLine, ReadInv, TypeOK
  <2>2. file \in Seq(Lines) /\ file[at + 1] \in Lines
    BY <2>1, FileTyped
  <2>3. ASSUME NEW k \in Keys
        PROVE  /\ SetBy(file, at + 1, k)
                     => TextAfter(file, at + 1, k, file[at + 1].text)
               /\ ~ SetBy(file, at + 1, k)
                     => TextAfter(file, at + 1, k, data[k])
    BY <1>2, <2>1, <2>2, NextText DEF ReadLine, ReadInv
  <2>4. CASE file[at + 1].kind = "set"
    <3>1. file[at + 1].key \in Keys
      BY <2>2, LineTyped
    <3>2. /\ pc' = "read" /\ file' = file /\ at' = at + 1
          /\ todo' = todo /\ config' = config
          /\ data' = [data EXCEPT ![file[at + 1].key] = file[at + 1].text]
      BY <1>2, <2>4 DEF ReadLine, Keep, Ignored
    <3>3. \A k \in Keys : TextAfter(file', at', k, data'[k])
      BY <2>3, <2>4, <3>1, <3>2 DEF SetBy, TypeOK
    <3> QED
      BY <1>2, <2>1, <2>2, <3>2, <3>3 DEF ReadLine, ReadInv
  <2>5. CASE file[at + 1].kind # "set"
    <3>1. \A k \in Keys : TextAfter(file, at + 1, k, data[k])
      BY <2>3, <2>5 DEF SetBy
    <3> QED
      BY <1>2, <2>1, <2>2, <2>5, <3>1 DEF ReadLine, ReadInv
  <2> QED
    BY <2>4, <2>5
<1>3. CASE ReadEnd
  BY <1>3 DEF ReadEnd, ReadInv, TypeOK
<1>4. CASE FillKey
  BY <1>4 DEF FillKey, configVars, logVars, cardVars, ReadInv
<1>5. CASE FillEnd
  BY <1>5 DEF FillEnd, configVars, logVars, cardVars, ReadInv
<1>6. CASE SetLogLevel
  BY <1>6 DEF SetLogLevel, Throw, configVars, logVars, cardVars, ReadInv
<1>7. CASE SetRealTimeFlush \/ NewCoreDpdk
  BY <1>7 DEF SetRealTimeFlush, NewCoreDpdk, Throw, configVars, logVars,
     cardVars, ReadInv
<1>8. CASE EalInit \/ PoolCreate \/ CountPorts \/ Configure \/ SetupQueue
        \/ StartDevice
  BY <1>8 DEF EalInit, PoolCreate, CountPorts, Configure, SetupQueue,
     StartDevice, Call, NextQueue, configVars, logVars, cardVars, ReadInv
<1>9. CASE Clamp
  BY <1>9 DEF Clamp, configVars, logVars, cardVars, ReadInv
<1>10. CASE RingCreate
  BY <1>10 DEF RingCreate, NextQueue, configVars, logVars, cardVars, ReadInv
<1>11. CASE EnablePromiscuous
  BY <1>11 DEF EnablePromiscuous, configVars, logVars, cardVars, ReadInv
<1>12. CASE NewDecode
  BY <1>12 DEF NewDecode, Throw, configVars, logVars, cardVars, ReadInv
<1>13. CASE StartCapture
  BY <1>13 DEF StartCapture, configVars, logVars, cardVars, ReadInv
<1>14. CASE Rest
  BY <1>14 DEF Rest, vars, configVars, logVars, cardVars, ReadInv
<1>15. CASE UNCHANGED vars
  BY <1>15 DEF vars, configVars, logVars, cardVars, ReadInv
<1> QED
  BY <1>1, <1>2, <1>3, <1>4, <1>5, <1>6, <1>7, <1>8, <1>9, <1>10, <1>11, <1>12,
     <1>13, <1>14, <1>15 DEF Next

\* m_configMap follows configData, key by key.
LEMMA FillInvStep ==
    ASSUME IInv, [Next]_vars
    PROVE  FillInv'
<1> USE StartUpAssumption DEF IInv, Early, Filled, Leveled, Flushed, Made,
    Before, Queued, Ready, Running, Pcs, Ends
<1>1. CASE OpenLogs \/ Greet \/ OpenFile
  BY <1>1 DEF OpenLogs, Greet, OpenFile, configVars, logVars, cardVars,
     FillInv, TodoHasText, Taken
<1>2. CASE ReadLine
  BY <1>2 DEF ReadLine, configVars, logVars, cardVars, FillInv, TodoHasText,
     Taken
<1>3. CASE ReadEnd
  <2>1. /\ todo' = {k \in Keys : data[k] # None} /\ data' = data
        /\ config' = Defaults /\ pc' = "fill"
    BY <1>3 DEF ReadEnd, ReadInv
  <2> QED
    BY <2>1 DEF FillInv, TodoHasText, Taken, Keys
<1>4. CASE FillKey
  <2>1. PICK k \in todo :
           \/ /\ k \in Known
              /\ config' = [config EXCEPT ![k] = Converted(k, data[k])]
              /\ todo' = todo \ {k}
              /\ pc' = pc
           \/ k \notin Known /\ pc' = "setLevel" /\ config' = config
                /\ todo' = todo
    BY <1>4 DEF FillKey
  <2>2. data' = data /\ k \in Keys /\ pc = "fill"
    BY <1>4 DEF FillKey, TypeOK
  <2>3. data[k] # None
    BY <2>2 DEF TodoHasText, FillInv
  <2>4. CASE k \in Known
    <3>1. ASSUME NEW l \in Known
          PROVE  Taken(l)'
      <4>1. CASE l = k
        <5>1. config'[l] = Converted(l, data[l])
          BY <2>1, <2>4, <4>1 DEF TypeOK
        <5> QED
          BY <2>2, <2>3, <4>1, <5>1 DEF Taken, Converted
      <4>2. CASE l # k
        <5>1. config'[l] = config[l] /\ (l \in todo' <=> l \in todo)
          BY <2>1, <2>4, <4>2 DEF TypeOK
        <5>2. Taken(l)
          BY <2>2 DEF FillInv
        <5> QED
          BY <2>2, <5>1, <5>2 DEF Taken, Converted
      <4> QED
        BY <4>1, <4>2
    <3>2. /\ pc' = "fill"
          /\ \A l \in Keys : l \in todo' => data'[l] # None
      BY <2>1, <2>2, <2>4 DEF FillInv, TodoHasText
    <3> QED
      BY <3>1, <3>2 DEF FillInv, TodoHasText
  <2>5. CASE k \notin Known
    <3>1. k = Unknown
      BY <2>2, <2>5 DEF Keys
    <3> QED
      BY <2>1, <2>2, <2>3, <2>5, <3>1 DEF FillInv, Taken, TodoHasText, Converted
  <2> QED
    BY <2>4, <2>5
<1>5. CASE FillEnd
  BY <1>5 DEF FillEnd, configVars, logVars, cardVars, FillInv, TodoHasText,
     Taken
<1>6. CASE SetLogLevel
  BY <1>6 DEF SetLogLevel, Throw, configVars, logVars, cardVars, FillInv,
     TodoHasText, Taken
<1>7. CASE SetRealTimeFlush \/ NewCoreDpdk
  BY <1>7 DEF SetRealTimeFlush, NewCoreDpdk, Throw, configVars, logVars,
     cardVars, FillInv, TodoHasText, Taken
<1>8. CASE EalInit \/ PoolCreate \/ CountPorts \/ Configure \/ SetupQueue
        \/ StartDevice
  BY <1>8 DEF EalInit, PoolCreate, CountPorts, Configure, SetupQueue,
     StartDevice, Call, NextQueue, configVars, logVars, cardVars, FillInv,
     TodoHasText, Taken
<1>9. CASE Clamp
  BY <1>9 DEF Clamp, configVars, logVars, cardVars, FillInv, TodoHasText, Taken
<1>10. CASE RingCreate
  BY <1>10 DEF RingCreate, NextQueue, configVars, logVars, cardVars, FillInv,
     TodoHasText, Taken
<1>11. CASE EnablePromiscuous
  BY <1>11 DEF EnablePromiscuous, configVars, logVars, cardVars, FillInv,
     TodoHasText, Taken
<1>12. CASE NewDecode
  BY <1>12 DEF NewDecode, Throw, configVars, logVars, cardVars, FillInv,
     TodoHasText, Taken
<1>13. CASE StartCapture
  BY <1>13 DEF StartCapture, configVars, logVars, cardVars, FillInv,
     TodoHasText, Taken
<1>14. CASE Rest
  BY <1>14 DEF Rest, vars, configVars, logVars, cardVars, FillInv, TodoHasText,
     Taken
<1>15. CASE UNCHANGED vars
  BY <1>15 DEF vars, configVars, logVars, cardVars, FillInv, TodoHasText, Taken
<1> QED
  BY <1>1, <1>2, <1>3, <1>4, <1>5, <1>6, <1>7, <1>8, <1>9, <1>10, <1>11, <1>12,
     <1>13, <1>14, <1>15 DEF Next

\* The loggers and the card follow m_configMap.
LEMMA LogInvStep ==
    ASSUME IInv, [Next]_vars
    PROVE  LogInv'
<1> USE StartUpAssumption DEF IInv, Early, Filled, Leveled, Flushed, Made,
    Before, Queued, Ready, Running, Pcs, Ends
<1>1. CASE SetLogLevel
  BY <1>1 DEF SetLogLevel, Throw, configVars, logVars, cardVars, LogInv,
     Readable, Value
<1>2. CASE SetRealTimeFlush \/ NewCoreDpdk
  BY <1>2 DEF SetRealTimeFlush, NewCoreDpdk, Throw, configVars, logVars,
     cardVars, LogInv, Readable, Value
<1>3. CASE OpenLogs \/ Greet \/ OpenFile \/ ReadLine \/ ReadEnd
        \/ FillKey \/ FillEnd
  BY <1>3 DEF OpenLogs, Greet, OpenFile, ReadLine, ReadEnd, FillKey, FillEnd,
     configVars, logVars, cardVars, LogInv, Readable, Value
<1>4. CASE EalInit \/ PoolCreate \/ CountPorts \/ Configure \/ SetupQueue
        \/ StartDevice \/ Clamp \/ RingCreate \/ EnablePromiscuous
  BY <1>4 DEF EalInit, PoolCreate, CountPorts, Configure, SetupQueue,
     StartDevice, Clamp, RingCreate, EnablePromiscuous, Call, NextQueue,
     configVars, logVars, cardVars, LogInv, Readable, Value
<1>5. CASE NewDecode \/ StartCapture \/ Rest
  BY <1>5 DEF NewDecode, StartCapture, Rest, Throw, vars, configVars, logVars,
     cardVars, LogInv, Readable, Value
<1>6. CASE UNCHANGED vars
  BY <1>6 DEF vars, configVars, logVars, cardVars, LogInv, Readable, Value
<1> QED
  BY <1>1, <1>2, <1>3, <1>4, <1>5, <1>6 DEF Next

\* One ring for each queue that has been set up.
LEMMA CardInvStep ==
    ASSUME IInv, [Next]_vars
    PROVE  CardInv'
<1> USE StartUpAssumption DEF IInv, Early, Filled, Leveled, Flushed, Made,
    Before, Queued, Ready, Running, Pcs, Ends
<1>1. CASE EalInit \/ PoolCreate \/ CountPorts \/ Configure \/ SetupQueue
        \/ StartDevice
  <2>1. CASE Configure
    <3>1. rings = << >> /\ at = 0 /\ rxQueNumber \in Nat
      BY <2>1 DEF Configure, Call, CardInv, TypeOK
    <3> QED
      BY <2>1, <3>1 DEF Configure, Call, NextQueue, CardInv, cardVars
  <2>2. CASE EalInit \/ PoolCreate \/ CountPorts \/ SetupQueue \/ StartDevice
    BY <2>2 DEF EalInit, PoolCreate, CountPorts, SetupQueue, StartDevice, Call,
       CardInv, cardVars
  <2> QED
    BY <1>1, <2>1, <2>2
<1>2. CASE Clamp
  BY <1>2 DEF Clamp, configVars, logVars, cardVars, CardInv
<1>3. CASE RingCreate
  <2>1. at \in Nat /\ at = Len(rings) /\ at < rxQueNumber /\ rings \in Seq(Nat)
    BY <1>3 DEF RingCreate, CardInv, TypeOK
  <2>2. CASE rings = << >> /\ rings' = Append(rings, at)
    BY <1>3, <2>1, <2>2 DEF RingCreate, NextQueue, CardInv, cardVars, TypeOK
  <2>3. CASE rings' = rings /\ pc' = "ended"
    BY <2>3 DEF CardInv
  <2> QED
    BY <1>3, <2>2, <2>3 DEF RingCreate
<1>4. CASE EnablePromiscuous
  BY <1>4 DEF EnablePromiscuous, configVars, logVars, cardVars, CardInv
<1>5. CASE OpenLogs \/ Greet \/ OpenFile \/ ReadLine \/ ReadEnd
        \/ FillKey \/ FillEnd
  BY <1>5 DEF OpenLogs, Greet, OpenFile, ReadLine, ReadEnd, FillKey, FillEnd,
     configVars, logVars, cardVars, CardInv
<1>6. CASE SetLogLevel \/ SetRealTimeFlush \/ NewCoreDpdk
  BY <1>6 DEF SetLogLevel, SetRealTimeFlush, NewCoreDpdk, Throw, configVars,
     logVars, cardVars, CardInv
<1>7. CASE NewDecode \/ StartCapture \/ Rest
  BY <1>7 DEF NewDecode, StartCapture, Rest, Throw, vars, configVars, logVars,
     cardVars, CardInv
<1>8. CASE UNCHANGED vars
  BY <1>8 DEF vars, configVars, logVars, cardVars, CardInv
<1> QED
  BY <1>1, <1>2, <1>3, <1>4, <1>5, <1>6, <1>7, <1>8 DEF Next

\* The decoders follow m_configMap.
LEMMA DecodeInvStep ==
    ASSUME IInv, [Next]_vars
    PROVE  DecodeInv'
<1> USE StartUpAssumption DEF IInv, Early, Filled, Leveled, Flushed, Made,
    Before, Queued, Ready, Running, Pcs, Ends
<1>1. CASE EalInit \/ PoolCreate \/ CountPorts \/ Configure \/ SetupQueue
        \/ StartDevice
  BY <1>1 DEF EalInit, PoolCreate, CountPorts, Configure, SetupQueue,
     StartDevice, Call, NextQueue, configVars, logVars, cardVars, DecodeInv,
     Readable, Value
<1>2. CASE NewDecode
  <2>1. CASE \E k \in Numbers : ~ Readable(k)
    <3>1. decoders = << >>
      BY <1>2, <2>1 DEF NewDecode, DecodeInv, TypeOK
    <3> QED
      BY <1>2, <2>1, <3>1 DEF NewDecode, Throw, DecodeInv
  <2>2. CASE \A k \in Numbers : Readable(k)
    <3>1. PICK created \in BOOLEAN :
             decoders' = Append(decoders, NewDecoder(created))
      BY <1>2, <2>2 DEF NewDecode, Throw, NewDecoder
    <3> DEFINE n == Len(decoders)
    <3>2. /\ pc = "decode" /\ pc' = pc /\ config' = config
          /\ decoders \in Seq(Decoder) /\ n \in Nat /\ n < rxQueNumber
          /\ rxQueNumber \in Nat /\ rxQueNumber =< 4
      BY <1>2, <2>2 DEF NewDecode, Throw, configVars, MoreQueues, TypeOK, core
    <3>3. Len(decoders') = n + 1 /\ decoders'[n + 1] = NewDecoder(created)
      BY <3>1, <3>2
    <3>4. \A d \in 1 .. n : decoders'[d] = decoders[d]
      BY <3>1, <3>2
    <3>5. ASSUME NEW d \in 1 .. Len(decoders')
          PROVE  /\ decoders'[d].timeout = FlowOutTime(Value("flowOutTime"))
                 /\ decoders'[d].mode = Value("decodeMode") % UINT32
      <4>1. CASE d = n + 1
        BY <3>3, <4>1 DEF NewDecoder
      <4>2. CASE d # n + 1
        <5>1. d \in 1 .. n
          BY <3>2, <3>3, <4>2
        <5> QED
          BY <3>4, <5>1 DEF DecodeInv
      <4> QED
        BY <4>1, <4>2
    <3> QED
      BY <2>2, <3>2, <3>5 DEF DecodeInv, Readable, Value
  <2> QED
    BY <2>1, <2>2
<1>3. CASE StartCapture
  BY <1>3 DEF StartCapture, MoreQueues, DecodeInv, TypeOK, Readable, Value,
     configVars, cardVars
<1>4. CASE Rest
  BY <1>4 DEF Rest, vars, configVars, logVars, cardVars, DecodeInv, Readable,
     Value
<1>5. CASE OpenLogs \/ Greet \/ OpenFile \/ ReadLine \/ ReadEnd
        \/ FillKey \/ FillEnd
  BY <1>5 DEF OpenLogs, Greet, OpenFile, ReadLine, ReadEnd, FillKey, FillEnd,
     configVars, logVars, cardVars, DecodeInv, Readable, Value
<1>6. CASE SetLogLevel \/ SetRealTimeFlush \/ NewCoreDpdk
  BY <1>6 DEF SetLogLevel, SetRealTimeFlush, NewCoreDpdk, Throw, configVars,
     logVars, cardVars, DecodeInv, Readable, Value
<1>7. CASE Clamp
  BY <1>7 DEF Clamp, configVars, logVars, cardVars, DecodeInv, Readable, Value
<1>8. CASE RingCreate \/ EnablePromiscuous
  BY <1>8 DEF RingCreate, EnablePromiscuous, NextQueue, configVars, logVars,
     cardVars, DecodeInv, Readable, Value
<1>9. CASE UNCHANGED vars
  BY <1>9 DEF vars, configVars, logVars, cardVars, DecodeInv, Readable, Value
<1> QED
  BY <1>1, <1>2, <1>3, <1>4, <1>5, <1>6, <1>7, <1>8, <1>9 DEF Next

\* Every step that ends the start has a reason.
LEMMA FailsWithReasonStep ==
    ASSUME IInv, [Next]_vars
    PROVE  FailsWithReason'
<1> USE StartUpAssumption DEF IInv, Early, Filled, Leveled, Flushed, Made,
    Before, Queued, Ready, Running, Pcs, Ends
<1>1. CASE OpenLogs \/ Greet \/ OpenFile
  BY <1>1 DEF OpenLogs, Greet, OpenFile, configVars, logVars, cardVars,
     FailsWithReason, OutsideCause, Named, Sets
<1>2. CASE ReadLine
  <2>1. file # NoFile /\ at \in Nat /\ at < Len(file)
    BY <1>2 DEF ReadLine, ReadInv, TypeOK
  <2>2. at + 1 \in 1 .. Len(file) /\ file[at + 1] \in Lines
    BY <2>1, FileTyped
  <2>3. CASE pc' = "ended"
    <3>1. file[at + 1].kind = "bad"
      BY <1>2, <2>2, <2>3, LineTyped DEF ReadLine, Ignored
    <3> QED
      BY <1>2, <2>2, <2>3, <3>1 DEF ReadLine, FailsWithReason, OutsideCause
  <2>4. CASE pc' = "read"
    BY <2>4 DEF FailsWithReason, OutsideCause
  <2> QED
    BY <1>2, <2>3, <2>4 DEF ReadLine
<1>3. CASE SetLogLevel
  <2>1. CASE ~ Readable("logLevel")
    BY <1>3, <2>1, UnreadableReason DEF SetLogLevel, Throw, FailsWithReason,
       Named, Sets, Known
  <2>2. CASE Readable("logLevel")
    BY <1>3, <2>2 DEF SetLogLevel, FailsWithReason
  <2> QED
    BY <2>1, <2>2
<1>4. CASE SetRealTimeFlush \/ NewCoreDpdk
  BY <1>4, ValuesTyped DEF SetRealTimeFlush, NewCoreDpdk, Throw,
     FailsWithReason, Switches
<1>5. CASE EalInit \/ PoolCreate \/ CountPorts \/ Configure \/ SetupQueue
        \/ StartDevice
  BY <1>5 DEF EalInit, PoolCreate, CountPorts, Configure, SetupQueue,
     StartDevice, Call, NextQueue, configVars, logVars, cardVars,
     FailsWithReason, OutsideCause, Named, Sets
<1>6. CASE NewDecode
  <2>1. CASE \E k \in Numbers : ~ Readable(k)
    BY <1>6, <2>1, UnreadableReason DEF NewDecode, Throw, FailsWithReason,
       Named, Sets, Known
  <2>2. CASE \A k \in Numbers : Readable(k)
    BY <1>6, <2>2 DEF NewDecode, FailsWithReason
  <2> QED
    BY <2>1, <2>2
<1>7. CASE StartCapture
  BY <1>7 DEF StartCapture, configVars, logVars, cardVars, FailsWithReason,
     Named, Sets
<1>8. CASE Rest
  BY <1>8 DEF Rest, vars, logVars, cardVars, FailsWithReason, OutsideCause,
     Named, Sets
<1>9. CASE ReadEnd \/ FillKey \/ FillEnd
  BY <1>9 DEF ReadEnd, FillKey, FillEnd, configVars, logVars, cardVars,
     FailsWithReason, OutsideCause, Named, Sets
<1>10. CASE Clamp
  BY <1>10 DEF Clamp, configVars, logVars, cardVars, FailsWithReason, Named,
     Sets
<1>11. CASE RingCreate \/ EnablePromiscuous
  <2>1. CASE RingCreate /\ rings # << >>
    <3>1. rxQueNumber > 1
      BY <2>1 DEF RingCreate, CardInv, TypeOK
    <3> QED
      BY <2>1, <3>1 DEF RingCreate, FailsWithReason
  <2>2. CASE RingCreate /\ rings = << >>
    BY <2>2 DEF RingCreate, NextQueue, FailsWithReason, OutsideCause
  <2>3. CASE EnablePromiscuous
    BY <2>3 DEF EnablePromiscuous, FailsWithReason
  <2> QED
    BY <1>11, <2>1, <2>2, <2>3
<1>12. CASE UNCHANGED vars
  BY <1>12 DEF vars, configVars, logVars, cardVars, FailsWithReason,
     OutsideCause, Named, Sets
<1> QED
  BY <1>1, <1>2, <1>3, <1>4, <1>5, <1>6, <1>7, <1>8, <1>9, <1>10, <1>11,
     <1>12 DEF Next

-----------------------------------------------------------------------------

\* The program starts in the invariant.
LEMMA Start == Init => IInv
<1> SUFFICES ASSUME Init
             PROVE  IInv
  OBVIOUS
<1> USE DEF Init
<1>1. TypeOK
  <2>1. RxQueNumber \in 0 .. RxQueNumber
    BY StartUpAssumption DEF core
  <2>2. DOMAIN config = Known /\ \A k \in Known : config[k] = Defaults[k]
    BY DEF Defaults
  <2>3. level \in Levels /\ flushOn \in Levels \union {"off"} /\ pc \in Pcs
    BY DEF Levels, Pcs
  <2>4. /\ rings \in Seq(Nat) /\ Len(rings) = 0
        /\ decoders \in Seq(Decoder) /\ Len(decoders) = 0
    OBVIOUS
  <2>5. RxQueNumber \in Nat
    BY StartUpAssumption DEF core
  <2> HIDE DEF Init
  <2>6. /\ at = 0 /\ data = [k \in Keys |-> None] /\ todo = {} /\ logs = {}
        /\ rxQueNumber = RxQueNumber /\ file \in Files \union {NoFile}
        /\ flusher = FALSE /\ promiscuous = FALSE /\ failed = FALSE
    BY DEF Init
  <2>7. /\ data \in [Keys -> Texts \union {None}]
        /\ \A k \in Known : config[k] = Defaults[k] \/ config[k].type = TypeOf(k)
    BY <2>2, <2>6
  <2>8. /\ at \in Nat /\ todo \subseteq Keys
        /\ rxQueNumber \in 0 .. RxQueNumber
        /\ Len(rings) =< RxQueNumber /\ Len(decoders) =< rxQueNumber
    BY <2>1, <2>4, <2>5, <2>6
  <2>9. /\ flusher \in BOOLEAN /\ promiscuous \in BOOLEAN /\ failed \in BOOLEAN
        /\ logs \in {{}, {"system"}, {"system", "packet"}}
    BY <2>6
  <2> QED
    BY <2>2, <2>3, <2>4, <2>6, <2>7, <2>8, <2>9 DEF TypeOK
<1>2. ReadInv /\ FillInv
  BY DEF ReadInv, FillInv, Early, Filled, Pcs
<1>3. LogInv
  BY DEF LogInv, Before, Early, Leveled, Flushed, Made, Running, Filled
<1>4. CardInv /\ DecodeInv
  BY DEF CardInv, DecodeInv, Queued, Ready, Running
<1>5. FailsWithReason
  BY DEF FailsWithReason
<1> QED
  BY <1>1, <1>2, <1>3, <1>4, <1>5 DEF IInv

\* It never leaves it.
LEMMA SpecIInv == Spec => []IInv
<1>1. IInv /\ [Next]_vars => IInv'
  BY TypeOKStep, ReadInvStep, FillInvStep, LogInvStep, CardInvStep,
     DecodeInvStep, FailsWithReasonStep DEF IInv
<1> QED
  BY Start, <1>1, PTL DEF Spec

\* The state of the start is well typed, whatever the file and the card.
THEOREM TypeCorrect == Spec => []TypeOK
BY SpecIInv, PTL DEF IInv

\* For every file, card and number of queues: a start that fails does so for an
\* outside cause, or by one of the two defects FailsWithReason names.
THEOREM NoFailureWithoutReason == Spec => []FailsWithReason
BY SpecIInv, PTL DEF IInv

\* After FillConfig a key holds what its last line stands for, or its default.
LEMMA KeyFollowsFile ==
    ASSUME IInv, pc = "capture", NEW k \in Known
    PROVE  /\ FromFile(k, Value(k))
           /\ Readable(k) /\ k \notin Switches =>
                 \E i \in 1 .. Len(file) :
                    /\ LastSets(i, k)
                    /\ Value(k) = Converted(k, file[i].text).value
<1>1. /\ Taken(k)
      /\ todo = {} \/ data[Unknown] # None
      /\ file # NoFile
      /\ \A l \in Keys : TextAfter(file, Len(file), l, data[l])
  BY DEF IInv, FillInv, ReadInv, Filled, Pcs, Ends, Early
<1>2. k \in Keys /\ Unknown \in Keys
  BY DEF Keys
<1>3. CASE data[k] # None /\ config[k] = Converted(k, data[k])
  <2>1. PICK i \in 1 .. Len(file) :
           /\ SetBy(file, i, k)
           /\ data[k] = file[i].text
           /\ \A j \in 1 .. Len(file) : SetBy(file, j, k) => j =< i
    BY <1>1, <1>2, <1>3 DEF TextAfter
  <2>2. LastSets(i, k)
    BY <2>1 DEF LastSets, Sets, SetBy
  <2>3. Value(k) = Converted(k, file[i].text).value
    BY <1>3, <2>1 DEF Value
  <2> QED
    BY <2>2, <2>3 DEF FromFile
<1>4. CASE config[k] = Defaults[k] /\ (k \in todo \/ data[k] = None)
  <2>1. ~ Named(k) \/ Named(Unknown)
    BY <1>1, <1>2, <1>4 DEF TextAfter, Named, Sets, SetBy
  <2>2. k \notin Switches => ~ Readable(k)
    <3>1. k \notin Switches => Defaults[k].type # TypeOf(k)
      BY DEF Defaults, TypeOf, Known, Numbers
    <3> QED
      BY <1>4, <3>1 DEF Readable
  <2> QED
    BY <1>4, <2>1, <2>2 DEF FromFile, Value
<1> QED
  BY <1>1, <1>3, <1>4 DEF Taken

\* What the flusher, the logs and the decoders do while the program captures is
\* what config.conf says, and the card is not in promiscuous mode against it.
THEOREM FileIsInForce == Spec => []SettingsFollowFile
<1>1. IInv => SettingsFollowFile
  <2> SUFFICES ASSUME IInv, pc = "capture"
               PROVE  SettingsFollowFile
    BY DEF SettingsFollowFile
  <2>1. /\ flusher = Value("realTimeFlushLog")
        /\ promiscuous => Value("isPromiscuous")
        /\ Readable("logLevel")
        /\ IF Value("logLevel") \in Levels
           THEN level = Value("logLevel") /\ flushOn = Value("logLevel")
           ELSE level = "info" /\ flushOn = "off"
    BY DEF IInv, LogInv, Running, Flushed, Leveled, Filled, Pcs, Ends, Early
  <2>2. /\ FromFile("realTimeFlushLog", flusher)
        /\ FromFile("isPromiscuous", Value("isPromiscuous"))
        /\ Value("isPromiscuous") \in BOOLEAN
    BY <2>1, KeyFollowsFile, ValuesTyped
       DEF Known, Switches, Filled, Pcs, Ends, Early
  <2>3. \E i \in 1 .. Len(file) :
           /\ LastSets(i, "logLevel")
           /\ IF file[i].text \in Levels
              THEN level = file[i].text /\ flushOn = file[i].text
              ELSE level = "info" /\ flushOn = "off"
    <3>1. PICK i \in 1 .. Len(file) :
             /\ LastSets(i, "logLevel")
             /\ Value("logLevel") = Converted("logLevel", file[i].text).value
      BY <2>1, KeyFollowsFile DEF Known, Switches
    <3>2. Value("logLevel") = file[i].text
      BY <3>1 DEF Converted, Numbers, Switches
    <3> QED
      BY <2>1, <3>1, <3>2
  <2>4. ASSUME NEW d \in 1 .. Len(decoders)
        PROVE  \E i, j \in 1 .. Len(file) :
                  /\ LastSets(i, "flowOutTime")
                  /\ LastSets(j, "decodeMode")
                  /\ decoders[d].timeout =
                        FlowOutTime(Atol[file[i].text] % UINT64)
                  /\ decoders[d].mode =
                        (Atol[file[j].text] % UINT64) % UINT32
    <3>1. /\ Readable("flowOutTime") /\ Readable("decodeMode")
          /\ decoders[d].timeout = FlowOutTime(Value("flowOutTime"))
          /\ decoders[d].mode = Value("decodeMode") % UINT32
      BY DEF IInv, DecodeInv, Numbers
    <3>2. PICK i \in 1 .. Len(file) :
             /\ LastSets(i, "flowOutTime")
             /\ Value("flowOutTime") =
                   Converted("flowOutTime", file[i].text).value
      BY <3>1, KeyFollowsFile DEF Known, Numbers, Switches
    <3>3. PICK j \in 1 .. Len(file) :
             /\ LastSets(j, "decodeMode")
             /\ Value("decodeMode") =
                   Converted("decodeMode", file[j].text).value
      BY <3>1, KeyFollowsFile DEF Known, Numbers, Switches
    <3>4. /\ Value("flowOutTime") = Atol[file[i].text] % UINT64
          /\ Value("decodeMode") = Atol[file[j].text] % UINT64
      BY <3>2, <3>3 DEF Converted, Numbers
    <3> QED
      BY <3>1, <3>2, <3>3, <3>4
  <2> QED
    BY <2>1, <2>2, <2>3, <2>4 DEF SettingsFollowFile
<1> QED
  BY SpecIInv, <1>1, PTL

\* No number in the file makes a flow time out in less than a second.
THEOREM TimeoutsAreInRange == Spec => []TimeoutInRange
<1>1. IInv => TimeoutInRange
  <2> SUFFICES ASSUME IInv, NEW d \in 1 .. Len(decoders)
               PROVE  /\ decoders[d].timeout >= Second
                      /\ Value("flowOutTime") \in Second .. UINT32 - 1 =>
                            decoders[d].timeout = Value("flowOutTime")
    BY DEF TimeoutInRange
  <2>1. /\ Readable("flowOutTime")
        /\ decoders[d].timeout = FlowOutTime(Value("flowOutTime"))
    BY DEF IInv, DecodeInv, Numbers
  <2>2. decoders # << >>
    OBVIOUS
  <2>3. pc \in Filled \union {"fill"}
    BY <2>2 DEF IInv, DecodeInv, Running, Filled, Pcs, Ends, Early
  <2>4. Value("flowOutTime") \in Nat
    BY <2>1, <2>3, ValuesTyped DEF Numbers
  <2> QED
    BY <2>1, <2>4, TimeoutTyped
<1> QED
  BY SpecIInv, <1>1, PTL

==============================================================================
