-------------------------------- MODULE StartUp --------------------------------
(***************************************************************************)
(* main() from its first line to the capture loop: the logs are opened,    *)
(* config.conf is read and converted, the settings are given to the        *)
(* loggers, the card is set up by CoreDpdk::Init and one decoder is made   *)
(* per receive queue.  One thread does all of it; what varies is the file, *)
(* the order in which a hash map is walked, the card, and which of the     *)
(* calls to the outside fail.                                              *)
(*                                                                         *)
(* A line of the file is what the parser tells apart: one it skips (blank  *)
(* or '#'), one without '=', or a key and a text, trimmed.  Numbers are    *)
(* scaled: Second is the 1000 ms of decode.cpp.                            *)
(***************************************************************************)
EXTENDS Integers, Sequences

CONSTANTS
    Files,          \* the files that may be there: sequences of lines
    NoFile,         \* no config.conf
    Texts,          \* the texts that stand behind a '='
    Atol,           \* the number the C library reads at the start of a text
    UINT32, UINT64, \* the number of values of these types
    Second,         \* 1000 ms, the least timeout that is taken
    DefaultTimeout, \* DEFAULT_FLOW_OUT_TIME
    RxQueNumber,    \* the queues the constructor of CoreDpdk asks for
    MaxRxQueues     \* the numbers of queues a card may have

Numbers  == {"decodeMode", "flowOutTime"}
Switches == {"realTimeFlushLog", "isPromiscuous"}
Known    == Numbers \union Switches \union {"logLevel"}
Unknown  == "other"
Keys     == Known \union {Unknown}
Levels   == {"trace", "debug", "info", "warn", "error", "critical"}
core     == <<1, 2, 3, 4>>

None == "none"  \* no text: the key has not been read

\* A line of the file.
Skip    == [kind |-> "skip", key |-> Unknown, text |-> None]
NoEqual == [kind |-> "bad", key |-> Unknown, text |-> None]
Setting(key, text) == [kind |-> "set", key |-> key, text |-> text]
Lines == {Skip, NoEqual} \union {Setting(k, t) : k \in Keys, t \in Texts}

ASSUME StartUpAssumption ==
    /\ \A f \in Files : f \in Seq(Lines)
    /\ NoFile \notin Files
    /\ None \notin Texts
    /\ Atol \in [Texts -> Int]
    /\ UINT32 \in Nat \ {0} /\ UINT64 \in Nat \ {0}
    /\ Second \in Nat /\ DefaultTimeout \in Nat
    /\ Second =< DefaultTimeout
    /\ RxQueNumber \in 0 .. Len(core)
    /\ MaxRxQueues \subseteq Nat

VARIABLES
    pc,
    file,       \* config.conf, or NoFile
    at,         \* the lines read so far, then the queues set up so far
    data,       \* configData
    todo,       \* the keys of data FillConfig has still to visit
    config,     \* m_configMap: a type and a value for each key
    logs,       \* the logs that could be opened
    level,      \* the level both loggers have, and the one they flush on
    flushOn,
    flusher,    \* flush_every was called
    rxQueNumber,\* m_rxQueNumber
    rings,      \* m_pktRings: the rings created, by queue
    promiscuous,\* the card is in promiscuous mode
    decoders,   \* g_decodes
    failed      \* history: a call to the outside that sets up the card failed

logVars    == <<logs, level, flushOn, flusher>>
configVars == <<data, todo, config>>
cardVars   == <<rxQueNumber, rings, promiscuous>>
vars == <<pc, file, at, configVars, logVars, cardVars, decoders, failed>>

Ends == {"capture", "ended", "aborted", "crashed", "looping"}
Pcs  == Ends \union {"openLogs", "greet", "open", "read", "fill", "setLevel",
                     "setFlush", "coreDpdk", "eal", "pool", "ports", "clamp",
                     "configure", "queue", "ring", "start", "enable", "decode"}

Decoder == [timeout : Nat, mode : Nat, ring : Nat, core : Nat,
            thread : BOOLEAN]

\* m_configType, and the type a value is read as.
TypeOf(k) == IF k \in Numbers THEN "uint64_t"
             ELSE IF k \in Switches THEN "bool" ELSE "string"

\* The initialiser of m_configMap: the types are those of its literals.
Defaults ==
    [k \in Known |->
        IF k = "decodeMode" THEN [type |-> "DecodeMode", value |-> 1]
        ELSE IF k = "flowOutTime"
             THEN [type |-> "long long", value |-> DefaultTimeout]
        ELSE IF k = "logLevel"
             THEN [type |-> "const char*", value |-> "info"]
        ELSE [type |-> "bool", value |-> TRUE]]

\* Each key holds a value of the type that goes with it, or its default; the
\* counts and lists of the card's set-up stay within their bounds.
TypeOK ==
    /\ pc \in Pcs
    /\ file \in Files \union {NoFile}
    /\ at \in Nat
    /\ data \in [Keys -> Texts \union {None}]
    /\ todo \subseteq Keys
    /\ DOMAIN config = Known
    /\ \A k \in Known :
          \/ config[k] = Defaults[k]
          \/ config[k].type = TypeOf(k)
    /\ logs \in {{}, {"system"}, {"system", "packet"}}
    /\ level \in Levels /\ flushOn \in Levels \union {"off"}
    /\ flusher \in BOOLEAN
    /\ rxQueNumber \in 0 .. RxQueNumber
    /\ rings \in Seq(Nat) /\ Len(rings) =< RxQueNumber
    /\ promiscuous \in BOOLEAN
    /\ decoders \in Seq(Decoder) /\ Len(decoders) =< rxQueNumber
    /\ failed \in BOOLEAN

-----------------------------------------------------------------------------

Init ==
    /\ pc = "openLogs"
    /\ file \in Files \union {NoFile}
    /\ at = 0
    /\ data = [k \in Keys |-> None]
    /\ todo = {}
    /\ config = Defaults
    /\ logs = {}
    /\ level = "info" /\ flushOn = "off"    \* spdlog's own
    /\ flusher = FALSE
    /\ rxQueNumber = RxQueNumber
    /\ rings = << >>
    /\ promiscuous = FALSE
    /\ decoders = << >>
    /\ failed = FALSE

\* The constructor of Logger, run by the first LOG_INFO: the second log is not
\* tried when the first cannot be opened, and the exception goes no further.
OpenLogs ==
    /\ pc = "openLogs"
    /\ logs' \in {{}, {"system"}, {"system", "packet"}}
    /\ pc' = "greet"
    /\ UNCHANGED <<file, at, configVars, level, flushOn, flusher, cardVars,
                   decoders, failed>>

\* LOG_INFO("Qcap start") through the logger, which may be null, and
\* SignalRegister.
Greet ==
    /\ pc = "greet"
    /\ pc' = IF "system" \in logs THEN "open" ELSE "crashed"
    /\ UNCHANGED <<file, at, configVars, logVars, cardVars, decoders, failed>>

\* ParseConfigFile opens the file.
OpenFile ==
    /\ pc = "open"
    /\ pc' = IF file = NoFile THEN "ended" ELSE "read"
    /\ UNCHANGED <<file, at, configVars, logVars, cardVars, decoders, failed>>

\* A key that has a text keeps it.
KeepFirst(k, t) == IF data[k] = None THEN [data EXCEPT ![k] = t] ELSE data

\* configData[key] = value.
Keep(k, t) == [data EXCEPT ![k] = t]

\* Only the comments before the first setting are skipped.
IgnoredAtTop(line) == line.kind = "skip" /\ \A k \in Keys : data[k] = None

\* A blank line or a comment.
Ignored(line) == line.kind = "skip"

\* One turn of the loop of ParseConfigFile.
ReadLine ==
    /\ pc = "read"
    /\ at < Len(file)
    /\ at' = at + 1
    /\ LET line == file[at + 1] IN
       \/ /\ Ignored(line)
          /\ UNCHANGED <<pc, data>>
       \/ /\ ~ Ignored(line)
          /\ line.kind # "set"
          /\ pc' = "ended"
          /\ UNCHANGED data
       \/ /\ line.kind = "set"
          /\ data' = Keep(line.key, line.text)
          /\ UNCHANGED pc
    /\ UNCHANGED <<file, todo, config, logVars, cardVars, decoders, failed>>

\* The end of the file.
ReadEnd ==
    /\ pc = "read"
    /\ at = Len(file)
    /\ at' = 0
    /\ todo' = {k \in Keys : data[k] # None}
    /\ pc' = "fill"
    /\ UNCHANGED <<file, data, config, logVars, cardVars, decoders, failed>>

\* The text of a key as FillConfig converts it.
IsOn(t) == t \notin {"false", "0"}
Converted(k, t) ==
    [type |-> TypeOf(k),
     value |-> IF k \in Numbers THEN Atol[t] % UINT64
               ELSE IF k \in Switches THEN IsOn(t) ELSE t]

\* One turn of the loop of FillConfig, which visits the keys in the order of
\* the hash map and returns at the first it does not know.
FillKey ==
    /\ pc = "fill"
    /\ \E k \in todo :
          \/ /\ k \in Known
             /\ config' = [config EXCEPT ![k] = Converted(k, data[k])]
             /\ todo' = todo \ {k}
             /\ UNCHANGED pc
          \/ /\ k \notin Known
             /\ pc' = "setLevel"
             /\ UNCHANGED <<config, todo>>
    /\ UNCHANGED <<file, at, data, logVars, cardVars, decoders, failed>>

FillEnd ==
    /\ pc = "fill"
    /\ todo = {}
    /\ pc' = "setLevel"
    /\ UNCHANGED <<file, at, configVars, logVars, cardVars, decoders, failed>>

-----------------------------------------------------------------------------

\* Whether getValue<T>(k) returns, and does not throw bad_any_cast.
Readable(k) == config[k].type = TypeOf(k)
Value(k)    == config[k].value

\* Nobody catches the exception.
Throw ==
    /\ pc' = "aborted"
    /\ UNCHANGED <<file, at, configVars, logVars, cardVars, decoders, failed>>

\* SetLogLevel, on both loggers in turn.  A level by another name changes
\* neither; one that is known faults at a logger that is null, and the handler
\* of SIGSEGV returns to the faulting instruction.
SetLogLevel ==
    /\ pc = "setLevel"
    /\ \/ /\ ~ Readable("logLevel")
          /\ Throw
       \/ /\ Readable("logLevel")
          /\ IF Value("logLevel") \in Levels
             THEN /\ level' = Value("logLevel")
                  /\ flushOn' = Value("logLevel")
                  /\ pc' = IF "packet" \in logs THEN "setFlush" ELSE "looping"
             ELSE /\ pc' = "setFlush"
                  /\ UNCHANGED <<level, flushOn>>
          /\ UNCHANGED <<file, at, configVars, logs, flusher, cardVars,
                         decoders, failed>>

\* SetRealTimeFlush.
SetRealTimeFlush ==
    /\ pc = "setFlush"
    /\ \/ /\ ~ Readable("realTimeFlushLog")
          /\ Throw
       \/ /\ Readable("realTimeFlushLog")
          /\ flusher' = Value("realTimeFlushLog")
          /\ pc' = "coreDpdk"
          /\ UNCHANGED <<file, at, configVars, logs, level, flushOn, cardVars,
                         decoders, failed>>

\* The constructor of CoreDpdk.
NewCoreDpdk ==
    /\ pc = "coreDpdk"
    /\ \/ /\ ~ Readable("isPromiscuous")
          /\ Throw
       \/ /\ Readable("isPromiscuous")
          /\ pc' = "eal"
          /\ UNCHANGED <<file, at, configVars, logVars, cardVars, decoders,
                         failed>>

\* A call Init makes at `here`: it fails, and main returns, or Init goes on.
Call(here, next) ==
    /\ pc = here
    /\ \/ pc' = next /\ UNCHANGED failed
       \/ pc' = "ended" /\ failed' = TRUE
    /\ UNCHANGED <<file, at, configVars, logVars, cardVars, decoders>>

EalInit    == Call("eal", "pool")
PoolCreate == Call("pool", "ports")
CountPorts == Call("ports", "clamp")

\* What the card supports limits m_rxQueNumber.
Clamp ==
    /\ pc = "clamp"
    /\ \E max \in MaxRxQueues :
          rxQueNumber' = IF rxQueNumber > max THEN max ELSE rxQueNumber
    /\ pc' = "configure"
    /\ UNCHANGED <<file, at, configVars, logVars, rings, promiscuous, decoders,
                   failed>>

NextQueue(n) == IF n < rxQueNumber THEN "queue" ELSE "start"

Configure == Call("configure", NextQueue(0))
SetupQueue == Call("queue", "ring")

\* rte_ring_create may find no memory, and refuses a name that is taken: the
\* name is the same for every queue.
RingCreate ==
    /\ pc = "ring"
    /\ \/ /\ rings = << >>
          /\ rings' = Append(rings, at)
          /\ at' = at + 1
          /\ pc' = NextQueue(at + 1)
          /\ UNCHANGED failed
       \/ /\ pc' = "ended"
          /\ failed' = (rings = << >>)
          /\ UNCHANGED <<rings, at>>
    /\ UNCHANGED <<file, configVars, logVars, rxQueNumber, promiscuous,
                   decoders>>

StartDevice == Call("start", "enable")

\* The last step of Init does not look at what rte_eth_promiscuous_enable
\* returns.
EnablePromiscuous ==
    /\ pc = "enable"
    /\ promiscuous' \in {FALSE, Value("isPromiscuous")}
    /\ pc' = "decode"
    /\ UNCHANGED <<file, at, configVars, logVars, rxQueNumber, rings, decoders,
                   failed>>

\* The timeout is tested before it is narrowed.
FlowOutTimeWide(value) == IF value >= Second THEN value % UINT32
                          ELSE DefaultTimeout

\* The constructor of Decode takes a uint32_t.
FlowOutTime(value) ==
    LET flowOutTime == value % UINT32 IN
    IF flowOutTime >= Second THEN flowOutTime ELSE DefaultTimeout

\* The loop of main has another turn to run.
MoreQueues == Len(decoders) < rxQueNumber

\* One turn of the loop of main that makes the decoders; that a thread cannot
\* be created is only logged.
NewDecode ==
    /\ pc = "decode"
    /\ MoreQueues
    /\ \/ /\ \E k \in Numbers : ~ Readable(k)
          /\ Throw
       \/ /\ \A k \in Numbers : Readable(k)
          /\ \E created \in BOOLEAN :
                decoders' = Append(decoders,
                    [timeout |-> FlowOutTime(Value("flowOutTime")),
                     mode |-> Value("decodeMode") % UINT32,
                     ring |-> rings[Len(decoders) + 1],
                     core |-> core[Len(decoders) + 1],
                     thread |-> created])
          /\ UNCHANGED <<pc, file, at, configVars, logVars, cardVars, failed>>

\* The loop is over: cap->Start().
StartCapture ==
    /\ pc = "decode"
    /\ ~ MoreQueues
    /\ pc' = "capture"
    /\ UNCHANGED <<file, at, configVars, logVars, cardVars, decoders, failed>>

Rest == pc \in Ends /\ UNCHANGED vars

Next ==
    \/ OpenLogs \/ Greet \/ OpenFile \/ ReadLine \/ ReadEnd
    \/ FillKey \/ FillEnd
    \/ SetLogLevel \/ SetRealTimeFlush \/ NewCoreDpdk
    \/ EalInit \/ PoolCreate \/ CountPorts \/ Clamp \/ Configure
    \/ SetupQueue \/ RingCreate \/ StartDevice \/ EnablePromiscuous
    \/ NewDecode \/ StartCapture
    \/ Rest

Spec == Init /\ [][Next]_vars

-----------------------------------------------------------------------------

\* Line i is the last one of the file that sets k.
Sets(i, k) == file[i].kind = "set" /\ file[i].key = k
LastSets(i, k) ==
    Sets(i, k) /\ \A j \in 1 .. Len(file) : Sets(j, k) => j =< i
Named(k) == file # NoFile /\ \E i \in 1 .. Len(file) : Sets(i, k)

\* Value v of key k is the conversion of the text of its last line; the
\* default stands when the file does not name k, or names an unknown key that
\* the hash map happened to yield first.
FromFile(k, v) ==
    \/ \E i \in 1 .. Len(file) :
          LastSets(i, k) /\ v = Converted(k, file[i].text).value
    \/ /\ ~ Named(k) \/ Named(Unknown)
       /\ v = Defaults[k].value

\* When the program captures, the flusher, the log levels and every decoder
\* follow the file: what the text of a key's last line stands for is in force,
\* through the conversions of config.h, the setters of log.cpp and the casts
\* of main (main.cpp:93-124).  Only the switches may be at their default.  The
\* card is in promiscuous mode only if the file, or the default, says so.
SettingsFollowFile ==
    pc = "capture" =>
        /\ FromFile("realTimeFlushLog", flusher)
        /\ promiscuous => FromFile("isPromiscuous", TRUE)
        /\ \E i \in 1 .. Len(file) :
              /\ LastSets(i, "logLevel")
              /\ IF file[i].text \in Levels
                 THEN level = file[i].text /\ flushOn = file[i].text
                 ELSE level = "info" /\ flushOn = "off"
        /\ \A d \in 1 .. Len(decoders) :
              \E i, j \in 1 .. Len(file) :
                 /\ LastSets(i, "flowOutTime")
                 /\ LastSets(j, "decodeMode")
                 /\ decoders[d].timeout =
                       FlowOutTime(Atol[file[i].text] % UINT64)
                 /\ decoders[d].mode = (Atol[file[j].text] % UINT64) % UINT32

\* Something outside the program ended the start: a call failed, or the file
\* is not there or has a line without '='.
OutsideCause ==
    \/ failed
    \/ file = NoFile
    \/ \E i \in 1 .. Len(file) : file[i].kind = "bad"

\* A start that does not reach the capture ends for an outside cause or by one
\* of two defects of the code, and there is no third: rings of one name, when
\* there are several queues (core_dpdk.cpp:88); defaults of a type that getValue
\* does not take, when the file leaves a key out or an unknown key keeps one
\* from being taken (config.h:193-200).  A fault, or the endless loop of its
\* handler, takes a log that could not be opened (log.cpp:30).
FailsWithReason ==
    /\ pc = "ended" => OutsideCause \/ (rings # << >> /\ rxQueNumber > 1)
    /\ pc = "aborted" =>
          \/ Named(Unknown)
          \/ \E k \in Numbers \union {"logLevel"} : ~ Named(k)
    /\ pc \in {"crashed", "looping"} => logs # {"system", "packet"}

\* Whatever number the file holds, negative, huge or none, the timeout of a
\* decoder is at least a second, fits 32 bits, and is the number of the file
\* when that is in range (decode.cpp:4-15, main.cpp:118).
TimeoutInRange ==
    \A d \in 1 .. Len(decoders) :
        LET n == Value("flowOutTime") IN
        /\ decoders[d].timeout >= Second
        /\ n \in Second .. UINT32 - 1 => decoders[d].timeout = n

=============================================================================
