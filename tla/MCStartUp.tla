------------------------------- MODULE MCStartUp -------------------------------
(***************************************************************************)
(* Files for StartUp: the shipped config.conf, and every way of adding to  *)
(* it, or leaving out, a line or two that a user may write.                *)
(***************************************************************************)
EXTENDS StartUp

MCTexts == {"1", "3", "20", "17", "-1", "", "0", "true", "false", "off",
            "info", "error"}

\* The numbers, scaled: 2 is a second, 4 the default, 16 is 2^32, 64 is 2^64.
MCAtol ==
    [t \in MCTexts |->
        CASE t = "1" -> 1 [] t = "3" -> 3 [] t = "20" -> 20 [] t = "17" -> 17
          [] t = "-1" -> -1 [] OTHER -> 0]

Shipped ==
    <<Skip, Setting("decodeMode", "1"), Setting("flowOutTime", "3"),
      Setting("logLevel", "info"), Setting("realTimeFlushLog", "true"),
      Setting("isPromiscuous", "true")>>

\* What a user may add at the end, or put in the place of a line.
Edits ==
    {Skip, NoEqual, Setting(Unknown, "1")}
        \union {Setting("flowOutTime", t) :
                    t \in {"1", "3", "20", "17", "-1", ""}}
        \union {Setting("decodeMode", t) : t \in {"3", "true"}}
        \union {Setting("logLevel", t) : t \in {"error", "off", ""}}
        \union {Setting(k, t) : k \in Switches, t \in {"false", "0", "1", ""}}

Without(i) == SubSeq(Shipped, 1, i - 1) \o SubSeq(Shipped, i + 1, 6)
Replaced(i, line) == [Shipped EXCEPT ![i] = line]
MCFiles ==
    {<< >>, Shipped} \union {Without(i) : i \in 1 .. 6}
        \union {Replaced(i, l) : i \in 1 .. 6, l \in Edits}
        \union {Append(Shipped, l) : l \in Edits}
        \union {<<l>> \o Shipped : l \in Edits}
        \union {Shipped \o <<l, m>> : l \in Edits, m \in Edits}
=============================================================================
