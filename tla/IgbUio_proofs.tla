----------------------------- MODULE IgbUio_proofs -----------------------------
(***************************************************************************)
(* Proofs about IgbUio, for any number of files, any card and either kind  *)
(* of UIO core.                                                            *)
(***************************************************************************)
EXTENDS IgbUio, FiniteSetTheorems, TLAPS

\* What probe and remove hold at each of their places.
ResourcesAt(place) ==
    CASE place = "unbound"                                 -> {}
      [] place \in {"enable", "failFree"}                  -> {"udev"}
      [] place \in {"bars", "dma", "sysfs", "failIomem",
                    "free"}                                -> {"udev", "enabled"}
      [] place \in {"register", "failGroup"}  -> {"udev", "enabled", "sysfs"}
      [] place = "unregister"                 -> {"udev", "enabled", "uio"}
      [] OTHER                                -> Resources

HeldFits == held = ResourcesAt(devPc)

MapsFit ==
    /\ mapped <= iom
    /\ devPc \in {"unbound", "enable", "failFree"} => mapped = 0

\* No file is in the driver unless the UIO device exists, and none is open
\* while probe has not got there.
CallsFit ==
    /\ "uio" \notin held => \A f \in Files : pc[f] \in Resting
    /\ devPc \in ProbePcs \ {"drvdata"} => \A f \in Files : pc[f] = "closed"

CountStartsAtZero == devPc = "register" => refcnt = 0

IInv ==
    /\ CardTypeOK /\ HeldFits /\ MapsFit /\ CallsFit
    /\ CountStartsAtZero /\ RefcntIsOpeners /\ OneEnabler

-------------------------------------------------------------------------------
\* Holders is a finite set.
LEMMA HoldersFinite ==
    ASSUME NEW p
    PROVE  IsFiniteSet(Holders(p)) /\ Cardinality(Holders(p)) \in Nat
<1>1. Holders(p) \subseteq Files
  BY DEF Holders
<1> QED
  BY <1>1, FS_Subset, FS_CardinalityType, IgbUioAssumption DEF IgbUioAssumption

\* A file that gets a reference adds one to the holders.
LEMMA HoldersEnter ==
    ASSUME NEW p \in [Callers -> CallPcs], NEW f \in Files,
           f \notin Holders(p), NEW label \in Enabling \union {"open"}
    PROVE  Cardinality(Holders([p EXCEPT ![f] = label])) =
             Cardinality(Holders(p)) + 1
<1>1. Holders([p EXCEPT ![f] = label]) = Holders(p) \union {f}
  BY DEF Holders, Callers
<1> QED
  BY <1>1, HoldersFinite, FS_AddElement

\* A file that gives its reference back takes one from the holders.
LEMMA HoldersLeave ==
    ASSUME NEW p \in [Callers -> CallPcs], NEW f \in Files,
           f \in Holders(p), NEW label, label \notin Enabling \union {"open"}
    PROVE  Cardinality(Holders([p EXCEPT ![f] = label])) =
             Cardinality(Holders(p)) - 1
<1>1. Holders([p EXCEPT ![f] = label]) = Holders(p) \ {f}
  BY DEF Holders, Callers
<1> QED
  BY <1>1, HoldersFinite, FS_RemoveElement

\* Any other step of a caller leaves the holders alone.
LEMMA HoldersStay ==
    ASSUME NEW p \in [Callers -> CallPcs], NEW c \in Callers, NEW label,
           c \in Files =>
             (c \in Holders(p) <=> label \in Enabling \union {"open"})
    PROVE  Holders([p EXCEPT ![c] = label]) = Holders(p)
  BY DEF Holders, Callers

\* Nobody holds a reference when the count is zero.
LEMMA NoHolders ==
    ASSUME NEW p, Cardinality(Holders(p)) = 0
    PROVE  \A f \in Files : p[f] \notin Enabling \union {"open"}
<1>1. Holders(p) = {}
  BY HoldersFinite, FS_EmptySet
<1> QED
  BY <1>1 DEF Holders

-------------------------------------------------------------------------------
LEMMA InitIInv == Init => IInv
<1> SUFFICES ASSUME Init PROVE IInv
  OBVIOUS
<1>1. CardTypeOK
  <2>1. /\ bar \in 0 .. Bars /\ iom \in 0 .. MaxMaps /\ iop \in 0 .. MaxPorts
        /\ mapped \in 0 .. MaxMaps /\ refcnt \in Int
    BY IgbUioAssumption DEF Init, IgbUioAssumption
  <2>2. pc \in [Callers -> CallPcs]
    BY DEF Init, CallPcs
  <2> QED
    BY <2>1, <2>2 DEF Init, CardTypeOK, Modes
<1>2. held = {} /\ devPc = "unbound" /\ mapped = 0 /\ iom = 0
  BY DEF Init
<1>3. \A f \in Files : pc[f] = "closed"
  BY DEF Init, Callers
<1>4. HeldFits /\ MapsFit /\ CountStartsAtZero
  BY <1>2 DEF HeldFits, MapsFit, CountStartsAtZero, ResourcesAt
<1>5. CallsFit /\ RefcntIsOpeners /\ OneEnabler
  BY <1>2, <1>3 DEF CallsFit, RefcntIsOpeners, OneEnabler, Bound, Resting
<1> QED
  BY <1>1, <1>4, <1>5 DEF IInv

-------------------------------------------------------------------------------
\* The part of the invariant that is about the card alone.
CardFits == CardTypeOK /\ HeldFits /\ MapsFit

\* Probe keeps the card's part, and the places of the callers.
LEMMA ProbeKeepsCard ==
    ASSUME CardFits, ProbeNext
    PROVE  /\ CardFits' /\ pc' = pc
           /\ "uio" \in held => devPc = "drvdata" /\ refcnt' = refcnt
           /\ "uio" \in held' => devPc' \in {"drvdata", "bound"}
           /\ "uio" \in held' /\ "uio" \notin held => devPc = "register" /\ refcnt' = refcnt
           /\ devPc' = "register" => refcnt' = 0
           /\ devPc' \in ProbePcs =>
                devPc \in ProbePcs \/ \A f \in Files : pc[f] = "closed"
           /\ devPc' = "drvdata" => devPc = "register"
           /\ devPc = "drvdata" <=> devPc' = "bound"
           /\ "uio" \in held => "uio" \in held'
<1> USE IgbUioAssumption
        DEF CardFits, CardTypeOK, HeldFits, MapsFit, ResourcesAt, Resources,
            ProbePcs, RemovePcs, IgbUioAssumption, cardVars, irqVars, barVars,
            bindVars, maskVars
<1>1. CASE Probe
  <2>1. /\ bar' = 0 /\ iom' = 0 /\ iop' = 0 /\ mapped' = 0 /\ refcnt' = 0
        /\ devPc = "unbound" /\ devPc' = "enable" /\ held' = {"udev"}
        /\ irq' = FALSE /\ mode' = "NONE"
        /\ \A f \in Files : pc[f] = "closed"
    BY <1>1 DEF Probe
  <2>2. /\ bar' \in 0 .. Bars /\ iom' \in 0 .. MaxMaps /\ iop' \in 0 .. MaxPorts
        /\ mapped' \in 0 .. MaxMaps /\ mapped' <= iom' /\ refcnt' \in Int
    BY <2>1
  <2>3. CardTypeOK'
    BY <1>1, <2>1, <2>2 DEF Probe, Modes, maskVars
  <2> QED
    BY <1>1, <2>1, <2>2, <2>3 DEF Probe
<1>2. CASE EnableDevice
  <2>1. /\ devPc = "enable" /\ held = {"udev"}
        /\ UNCHANGED <<barVars, refcnt, preferred, pc, irqVars, orderly>>
    BY <1>2 DEF EnableDevice, ProbeCall
  <2>2. \/ devPc' = "bars" /\ held' = {"udev", "enabled"} /\ master' = TRUE
        \/ devPc' = "failFree" /\ held' = {"udev"} /\ master' = master
    BY <1>2, <2>1 DEF EnableDevice, ProbeCall
  <2>3. HeldFits' /\ MapsFit'
    BY <2>1, <2>2 DEF HeldFits, MapsFit
  <2>4. CardTypeOK'
    BY <2>1, <2>2
  <2> QED BY <2>1, <2>2, <2>3, <2>4
<1>3. CASE SetupBar
  BY <1>3 DEF SetupBar, SetupIomem, SetupIoport, MapsFull
<1>4. CASE SetupBarsEnds
  BY <1>4 DEF SetupBarsEnds, barVars
<1>5. CASE SetDmaMask
  BY <1>5 DEF SetDmaMask, ProbeCall
<1>6. CASE CreateGroup
  BY <1>6 DEF CreateGroup, ProbeCall
<1>7. CASE RegisterUio
  BY <1>7 DEF RegisterUio, ProbeCall
<1>8. CASE SetDrvdata
  BY <1>8 DEF SetDrvdata
<1>9. CASE FailGroup
  BY <1>9 DEF FailGroup, barVars
<1>10. CASE FailIomem
  <2>1. /\ devPc = "failIomem" /\ devPc' = "failFree" /\ mapped' = 0
        /\ held' = held \ {"enabled"}
    BY <1>10 DEF FailIomem
  <2>2. held' = {"udev"}
    BY <2>1
  <2>3. mapped' \in 0 .. MaxMaps /\ mapped' <= iom'
    BY <1>10, <2>1 DEF FailIomem
  <2>4. CardTypeOK'
    BY <1>10, <2>2, <2>3 DEF FailIomem
  <2> QED
    BY <1>10, <2>1, <2>2, <2>3, <2>4 DEF FailIomem
<1>11. CASE FailFree
  BY <1>11 DEF FailFree, barVars
<1> QED
  BY <1>1, <1>2, <1>3, <1>4, <1>5, <1>6, <1>7, <1>8, <1>9, <1>10, <1>11 DEF ProbeNext

\* Probe keeps the invariant: no file is in the driver before the device is
\* registered, and then the count is zero.
LEMMA ProbeStep == IInv /\ ProbeNext => IInv'
<1> SUFFICES ASSUME IInv, ProbeNext PROVE IInv'
  OBVIOUS
<1>1. CardFits
  BY DEF IInv, CardFits
<1>2. /\ CardFits' /\ pc' = pc
      /\ "uio" \in held => devPc = "drvdata" /\ refcnt' = refcnt
      /\ "uio" \in held' => devPc' \in {"drvdata", "bound"}
      /\ "uio" \in held' /\ "uio" \notin held => devPc = "register" /\ refcnt' = refcnt
      /\ devPc' = "register" => refcnt' = 0
      /\ devPc' \in ProbePcs =>
           devPc \in ProbePcs \/ \A f \in Files : pc[f] = "closed"
      /\ devPc' = "drvdata" => devPc = "register"
      /\ devPc = "drvdata" <=> devPc' = "bound"
      /\ "uio" \in held => "uio" \in held'
  BY <1>1, ProbeKeepsCard
<1>3. Holders(pc)' = Holders(pc)
  BY <1>2 DEF Holders
<1>4. devPc \in ProbePcs \ {"drvdata"} \/ "uio" \notin held' \/ "uio" \in held
  BY <1>2 DEF ProbePcs
<1>5. CallsFit'
  BY <1>2, <1>4 DEF IInv, CallsFit, Resting, ProbePcs
<1>6. RefcntIsOpeners'
  <2>1. CASE "uio" \in held /\ "uio" \in held'
    BY <1>2, <1>3, <2>1 DEF IInv, RefcntIsOpeners, RemovePcs
  <2>2. CASE "uio" \notin held /\ "uio" \in held'
    <3>1. Holders(pc) = {}
      BY <1>2, <2>2 DEF IInv, CallsFit, Holders, ProbePcs, Enabling
    <3>2. Cardinality(Holders(pc)) = 0 /\ refcnt' = 0
      BY <1>2, <2>2, <3>1, FS_EmptySet DEF IInv, CountStartsAtZero
    <3> QED
      BY <1>2, <1>3, <2>2, <3>2 DEF RefcntIsOpeners, RemovePcs
  <2>3. CASE "uio" \notin held'
    BY <2>3 DEF RefcntIsOpeners
  <2> QED
    BY <2>1, <2>2, <2>3
<1>7. OneEnabler'
  BY <1>2 DEF IInv, OneEnabler, Bound, CallsFit, Enabling, ProbePcs
<1> QED
  BY <1>2, <1>5, <1>6, <1>7 DEF IInv, CardFits, CountStartsAtZero

-------------------------------------------------------------------------------
\* A step of a caller, when the count moves as the holders do and only a caller
\* that finds the count at zero starts to set up interrupts.
LEMMA CallerMoves ==
    ASSUME IInv, NEW c \in Callers, NEW label \in CallPcs,
           pc' = [pc EXCEPT ![c] = label], UNCHANGED <<devPc, cardVars>>,
           c \in Files => "uio" \in held,
           refcnt' \in Int,
           refcnt' - refcnt = Cardinality(Holders(pc')) - Cardinality(Holders(pc)),
           c \in Files /\ label \in Enabling => pc[c] \in Enabling \/ refcnt = 0
    PROVE  CallsFit' /\ CountStartsAtZero' /\ RefcntIsOpeners' /\ OneEnabler'
<1> USE DEF cardVars, barVars, bindVars
<1>1. /\ \A f \in Files : f # c => pc'[f] = pc[f]
      /\ pc'[c] = label
  BY DEF IInv, CardTypeOK, Callers
<1>2. devPc \in ProbePcs \ {"drvdata"} => "uio" \notin held
  BY DEF IInv, HeldFits, ResourcesAt, ProbePcs
<1>3. CallsFit'
  BY <1>1, <1>2 DEF IInv, CallsFit
<1>4. /\ Cardinality(Holders(pc)) \in Nat /\ Cardinality(Holders(pc')) \in Nat
      /\ refcnt \in Int
  BY HoldersFinite DEF IInv, CardTypeOK
<1>5. RefcntIsOpeners'
  BY <1>4 DEF IInv, RefcntIsOpeners
<1>6. CountStartsAtZero'
  <2>1. ASSUME devPc = "register" PROVE refcnt' = 0
    <3>1. "uio" \notin held /\ refcnt = 0 /\ c \notin Files
      BY <2>1, <1>2 DEF IInv, CountStartsAtZero, ProbePcs
    <3>2. Holders(pc') = Holders(pc)
      BY <1>1, <3>1 DEF Holders
    <3> QED
      BY <1>4, <3>1, <3>2
  <2> QED
    BY <2>1 DEF CountStartsAtZero
<1>7. OneEnabler'
  <2>1. ASSUME Bound, c \in Files, label \in Enabling, refcnt = 0
        PROVE  \A f \in Files : pc[f] \notin Enabling
    <3>1. Cardinality(Holders(pc)) = 0
      BY <2>1, <1>4 DEF IInv, RefcntIsOpeners, Bound, RemovePcs
    <3> QED
      BY <3>1, NoHolders
  <2> QED
    BY <1>1, <2>1 DEF IInv, OneEnabler, Bound
<1> QED
  BY <1>3, <1>5, <1>6, <1>7

\* A caller that moves without touching the count, and holds a reference after
\* the step exactly if it did before.
LEMMA CallerStays ==
    ASSUME IInv, NEW c \in Callers, NEW label \in CallPcs,
           pc' = [pc EXCEPT ![c] = label], UNCHANGED <<devPc, cardVars, refcnt>>,
           pc[c] # "closed", c \in Files => pc[c] # "open",
           c \in Files =>
             (pc[c] \in Enabling \union {"open"} <=> label \in Enabling \union {"open"})
    PROVE  CallsFit' /\ CountStartsAtZero' /\ RefcntIsOpeners' /\ OneEnabler'
<1>1. Holders(pc') = Holders(pc)
  BY HoldersStay DEF IInv, CardTypeOK, Holders
<1>2. c \in Files => "uio" \in held
  BY DEF IInv, CallsFit, Resting
<1>3. c \in Files /\ label \in Enabling => pc[c] \in Enabling
  OBVIOUS
<1>4. refcnt' \in Int /\ refcnt' - refcnt = 0
  BY DEF IInv, CardTypeOK
<1>5. Cardinality(Holders(pc)) - Cardinality(Holders(pc)) = 0
  BY HoldersFinite
<1> QED
  BY <1>1, <1>2, <1>3, <1>4, <1>5, CallerMoves

-------------------------------------------------------------------------------
\* Each action of a caller.
LEMMA CallerStep ==
    ASSUME IInv, NEW c \in Callers,
           ReleaseNext(c) \/ (c \in Files /\ OpenNext(c))
    PROVE  IInv'
<1> USE DEF Goto
<1>1. CASE c \in Files /\ Open(c)
  <2> DEFINE label == IF refcnt + 1 = 1 THEN "master" ELSE "open"
  <2>1. /\ "uio" \in held /\ pc[c] = "closed" /\ refcnt' = refcnt + 1
        /\ pc' = [pc EXCEPT ![c] = label] /\ UNCHANGED <<devPc, cardVars>>
    BY <1>1 DEF Open, MayCall, bindVars, FirstOpener
  <2>2. refcnt \in Int /\ pc \in [Callers -> CallPcs]
    BY DEF IInv, CardTypeOK
  <2>3. label \in Enabling \union {"open"} /\ label \in CallPcs
        /\ (label \in Enabling => refcnt = 0)
    BY <2>2 DEF Enabling, CallPcs
  <2>4. c \notin Holders(pc)
    BY <2>1 DEF Holders, Enabling
  <2> HIDE DEF label
  <2>5. Cardinality(Holders(pc')) = Cardinality(Holders(pc)) + 1
    BY <1>1, <2>1, <2>2, <2>3, <2>4, HoldersEnter
  <2>6. refcnt' \in Int /\ refcnt' - refcnt = Cardinality(Holders(pc')) - Cardinality(Holders(pc))
    BY <2>1, <2>2, <2>5, HoldersFinite
  <2>7. CallsFit' /\ CountStartsAtZero' /\ RefcntIsOpeners' /\ OneEnabler'
    BY <2>1, <2>3, <2>6, CallerMoves
  <2>8. CardTypeOK'
    BY <1>1, <2>1, <2>2, <2>3, <2>6 DEF IInv, CardTypeOK, Open, cardVars, irqVars,
       barVars, bindVars, maskVars
  <2> QED
    BY <2>1, <2>7, <2>8 DEF IInv, HeldFits, MapsFit, cardVars, barVars
<1>2. CASE c \in Files /\ SetMaster(c)
  <2>1. CallsFit' /\ CountStartsAtZero' /\ RefcntIsOpeners' /\ OneEnabler'
    BY <1>2, CallerStays, "vector" \in CallPcs DEF SetMaster, Enabling, CallPcs,
       bindVars
  <2>2. CardTypeOK'
    BY <1>2 DEF SetMaster, IInv, CardTypeOK, cardVars, irqVars, CallPcs, barVars,
       bindVars, maskVars
  <2> QED
    BY <1>2, <2>1, <2>2 DEF SetMaster, IInv, HeldFits, MapsFit, cardVars,
       barVars, bindVars
<1>3. CASE c \in Files /\ EnableInterrupts(c)
  <2>1. CallsFit' /\ CountStartsAtZero' /\ RefcntIsOpeners' /\ OneEnabler'
    BY <1>3, CallerStays, "request" \in CallPcs DEF EnableInterrupts, Enabling,
       CallPcs, bindVars
  <2>2. PICK m \in Modes :
          /\ mode' = m
          /\ irq' = (m # "NONE")
          /\ vectors' = IF m \in Vectored THEN m ELSE vectors
          /\ vecMasked' = IF m \in Vectored THEN FALSE ELSE vecMasked
    BY <1>3 DEF EnableInterrupts
  <2>3. irq' \in BOOLEAN /\ mode' \in Modes
    BY <2>2
  <2>4. vectors' \in Vectored \union {"none"} /\ vecMasked' \in BOOLEAN
    BY <2>2 DEF IInv, CardTypeOK
  <2>5. CardTypeOK'
    BY <1>3, <2>3, <2>4 DEF EnableInterrupts, IInv, CardTypeOK, cardVars, CallPcs,
       barVars, bindVars
  <2> QED
    BY <1>3, <2>1, <2>5 DEF EnableInterrupts, IInv, HeldFits, MapsFit, cardVars,
       barVars, bindVars
<1>4. CASE c \in Files /\ RequestIrq(c)
  <2>1. PICK label \in {"open", "undo"} : pc' = [pc EXCEPT ![c] = label]
    BY <1>4 DEF RequestIrq
  <2>2. label \in CallPcs /\ label \in Enabling \union {"open"} /\ pc[c] = "request"
    BY <1>4 DEF RequestIrq, CallPcs, Enabling
  <2>3. CallsFit' /\ CountStartsAtZero' /\ RefcntIsOpeners' /\ OneEnabler'
    BY <1>4, <2>1, <2>2, CallerStays DEF RequestIrq, Enabling, bindVars
  <2>4. handler' \in BOOLEAN
    BY <1>4 DEF RequestIrq, IInv, CardTypeOK
  <2>5. CardTypeOK'
    BY <1>4, <2>1, <2>2, <2>4 DEF RequestIrq, IInv, CardTypeOK, cardVars, barVars,
       bindVars, maskVars
  <2> QED
    BY <1>4, <2>3, <2>5 DEF RequestIrq, IInv, HeldFits, MapsFit, cardVars,
       barVars, bindVars
<1>5. CASE c \in Files /\ (OpenFails(c) \/ Release(c))
  <2>1. PICK label \in {"closed", "freeIrq"} : pc' = [pc EXCEPT ![c] = label]
    BY <1>5 DEF OpenFails, Release, DecAndTest
  <2>2. label \in CallPcs /\ label \notin Enabling \union {"open"}
    BY DEF CallPcs, Enabling
  <2>3. /\ pc[c] \in Enabling \union {"open"} /\ refcnt' = refcnt - 1
        /\ UNCHANGED <<devPc, cardVars, irqVars>>
    BY <1>5 DEF OpenFails, Release, DecAndTest, Enabling, bindVars
  <2>4. "uio" \in held
    <3>1. CASE OpenFails(c)
      BY <1>5, <3>1 DEF OpenFails, IInv, CallsFit, Resting
    <3>2. CASE Release(c)
      BY <3>2 DEF Release, MayCall
    <3> QED
      BY <1>5, <3>1, <3>2
  <2>5. refcnt \in Int /\ pc \in [Callers -> CallPcs]
    BY DEF IInv, CardTypeOK
  <2>6. c \in Holders(pc)
    BY <1>5, <2>3 DEF Holders
  <2>7. Cardinality(Holders(pc')) = Cardinality(Holders(pc)) - 1
    BY <1>5, <2>1, <2>2, <2>5, <2>6, HoldersLeave
  <2>8. refcnt' \in Int /\ refcnt' - refcnt = Cardinality(Holders(pc')) - Cardinality(Holders(pc))
    BY <2>3, <2>5, <2>7, HoldersFinite
  <2>9. CallsFit' /\ CountStartsAtZero' /\ RefcntIsOpeners' /\ OneEnabler'
    BY <2>1, <2>2, <2>3, <2>4, <2>8, CallerMoves
  <2>10. CardTypeOK'
    BY <1>5, <2>1, <2>2, <2>3, <2>8
       DEF OpenFails, Release, IInv, CardTypeOK, cardVars, irqVars, barVars,
           bindVars, maskVars
  <2> QED
    BY <2>3, <2>9, <2>10 DEF IInv, HeldFits, MapsFit, cardVars, barVars
<1>6. CASE c \in Files /\ CloseStale(c)
  <2>1. /\ "uio" \notin held /\ pc' = [pc EXCEPT ![c] = "closed"]
        /\ UNCHANGED <<preferred, devPc, cardVars, refcnt, irqVars, master, orderly>>
    BY <1>6 DEF CloseStale, bindVars
  <2>2. CardTypeOK'
    BY <2>1 DEF IInv, CardTypeOK, cardVars, irqVars, CallPcs, barVars, maskVars
  <2>3. CallsFit'
    BY <1>6, <2>1 DEF IInv, CardTypeOK, CallsFit, Resting, cardVars
  <2>4. ~ Bound
    BY <2>1 DEF IInv, HeldFits, ResourcesAt, Resources, Bound
  <2> QED
    BY <2>1, <2>2, <2>3, <2>4 DEF IInv, HeldFits, MapsFit, CountStartsAtZero,
       RefcntIsOpeners, OneEnabler, Bound, cardVars, barVars
<1>7. CASE \E on \in BOOLEAN : c \in Files /\ IrqControl(c, on)
  <2>1. PICK on \in BOOLEAN : IrqControl(c, on)
    BY <1>7
  <2>2. (~ on) \in BOOLEAN
    OBVIOUS
  <2>3. vecMasked' \in BOOLEAN
    BY <2>1, <2>2 DEF IrqControl, MaskIrq, IInv, CardTypeOK
  <2>4. intxDisabled' \in BOOLEAN
    BY <2>1, <2>2 DEF IrqControl, IInv, CardTypeOK, Intx
  <2>5. silenced' \in BOOLEAN
    BY <2>1, <2>2 DEF IrqControl
  <2>6. UNCHANGED <<preferred, devPc, cardVars, pc, refcnt, irq, mode, vectors,
                    handler, master, orderly>>
    BY <2>1 DEF IrqControl, bindVars
  <2> HIDE <1>7
  <2> QED
    BY <2>3, <2>4, <2>5, <2>6 DEF IInv, CardTypeOK, HeldFits, MapsFit, CallsFit,
       CountStartsAtZero, RefcntIsOpeners, OneEnabler, Bound, Holders, cardVars,
       barVars
<1>8. CASE ReleaseNext(c)
  <2>1. PICK label \in {"freeVectors", "clearMaster", "closed"} :
          pc' = [pc EXCEPT ![c] = label]
    BY <1>8 DEF ReleaseNext, FreeIrq, FreeVectors, ClearMaster
  <2>2. /\ pc[c] \in {"freeIrq", "freeVectors", "clearMaster"}
        /\ UNCHANGED <<preferred, devPc, cardVars, refcnt, mode, intxDisabled,
                       vecMasked, orderly>>
    BY <1>8 DEF ReleaseNext, FreeIrq, FreeVectors, ClearMaster, irqVars,
       bindVars, maskVars
  <2>3. label \in CallPcs /\ label \notin Enabling \union {"open"}
        /\ pc[c] \notin Enabling \union {"open"} /\ pc[c] # "closed"
    BY <2>2 DEF CallPcs, Enabling
  <2>4. CallsFit' /\ CountStartsAtZero' /\ RefcntIsOpeners' /\ OneEnabler'
    BY <2>1, <2>2, <2>3, CallerStays
  <2>5. /\ irq' \in BOOLEAN /\ handler' \in BOOLEAN /\ master' \in BOOLEAN
    BY <1>8 DEF ReleaseNext, FreeIrq, FreeVectors, ClearMaster, irqVars, IInv, CardTypeOK
  <2>6. vectors' \in Vectored \union {"none"}
    BY <1>8 DEF ReleaseNext, FreeIrq, FreeVectors, ClearMaster, irqVars, IInv, CardTypeOK
  <2>7. silenced' \in BOOLEAN
    <3>1. silenced' = FALSE \/ silenced' = silenced
      BY <1>8 DEF ReleaseNext, FreeIrq, FreeVectors, ClearMaster, irqVars, maskVars
    <3> QED BY <3>1 DEF IInv, CardTypeOK
  <2>8. CardTypeOK'
    BY <2>1, <2>2, <2>3, <2>5, <2>6, <2>7 DEF IInv, CardTypeOK, cardVars, barVars
  <2> QED
    BY <2>2, <2>4, <2>8 DEF IInv, HeldFits, MapsFit, cardVars, barVars
<1> QED
  BY <1>1, <1>2, <1>3, <1>4, <1>5, <1>6, <1>7, <1>8 DEF OpenNext

-------------------------------------------------------------------------------
\* The steps of remove that follow its release: the callers stay where they are.
LEMMA RemoveStep == IInv /\ RemoveNext => IInv'
<1> SUFFICES ASSUME IInv, RemoveNext PROVE IInv'
  OBVIOUS
<1> USE DEF ResourcesAt, Resources
<1>1. CASE Remove
  <2>1. PICK label \in {"freeIrq", "closed"} : pc' = [pc EXCEPT ![Remover] = label]
    BY <1>1 DEF Remove, DecAndTest, Goto
  <2>2. /\ devPc = "bound" /\ devPc' = "release" /\ refcnt' = refcnt - 1
        /\ UNCHANGED <<preferred, cardVars, irqVars, master>>
        /\ orderly' = InOrder
    BY <1>1 DEF Remove, DecAndTest
  <2>3. /\ refcnt \in Int /\ pc \in [Callers -> CallPcs]
        /\ label \in CallPcs /\ Remover \in Callers /\ Remover \notin Files
    BY IgbUioAssumption DEF IInv, CardTypeOK, CallPcs, Callers, IgbUioAssumption
  <2>4. \A f \in Files : pc'[f] = pc[f]
    BY <2>1, <2>3 DEF Callers
  <2>5. Holders(pc') = Holders(pc)
    BY <2>4 DEF Holders
  <2>6. held = Resources /\ held' = held
    BY <2>2 DEF IInv, HeldFits, cardVars
  <2>7. refcnt = Cardinality(Holders(pc))
    BY <2>2, <2>3, <2>6, HoldersFinite DEF IInv, RefcntIsOpeners, RemovePcs
  <2>8. RefcntIsOpeners'
    BY <2>2, <2>3, <2>5, <2>7 DEF RefcntIsOpeners, RemovePcs
  <2>9. orderly' \in BOOLEAN
    BY <2>2 DEF InOrder
  <2>10. CardTypeOK'
    BY <2>1, <2>2, <2>3, <2>9
       DEF IInv, CardTypeOK, cardVars, irqVars, RemovePcs, ProbePcs, barVars,
           maskVars
  <2>11. HeldFits' /\ MapsFit' /\ CallsFit' /\ CountStartsAtZero' /\ OneEnabler'
    BY <2>2, <2>4, <2>6 DEF HeldFits, IInv, MapsFit, CallsFit,
       CountStartsAtZero, OneEnabler, Bound, ProbePcs, cardVars, barVars
  <2> QED
    BY <2>8, <2>10, <2>11 DEF IInv
<1>2. CASE RemoveGroup
  <2>1. /\ devPc = "release" /\ devPc' = "unregister" /\ held' = held \ {"sysfs"}
        /\ UNCHANGED <<preferred, bar, iom, iop, mapped, pc, refcnt, irqVars,
                       master, orderly>>
    BY <1>2 DEF RemoveGroup, barVars
  <2>2. held = Resources /\ held' = {"udev", "enabled", "uio"}
    BY <2>1 DEF IInv, HeldFits
  <2>3. CardTypeOK'
    BY <2>1, <2>2 DEF IInv, CardTypeOK, irqVars, RemovePcs, maskVars
  <2> QED
    BY <2>1, <2>2, <2>3 DEF IInv, HeldFits, MapsFit, CallsFit, CountStartsAtZero,
       RefcntIsOpeners, OneEnabler, Bound, RemovePcs, ProbePcs
<1>3. CASE UnregisterUio
  <2>1. /\ devPc = "unregister" /\ devPc' = "free" /\ held' = held \ {"uio"}
        /\ \A f \in Files : pc[f] \in Resting
        /\ UNCHANGED <<preferred, bar, iom, iop, mapped, pc, refcnt, irqVars,
                       master, orderly>>
    BY <1>3 DEF UnregisterUio, barVars
  <2>2. held' = {"udev", "enabled"}
    BY <2>1 DEF IInv, HeldFits
  <2>3. CardTypeOK'
    BY <2>1, <2>2 DEF IInv, CardTypeOK, irqVars, RemovePcs, maskVars
  <2> QED
    BY <2>1, <2>2, <2>3 DEF IInv, HeldFits, MapsFit, CallsFit, CountStartsAtZero,
       RefcntIsOpeners, OneEnabler, Bound, ProbePcs
<1>4. CASE RemoveFrees
  <2>1. /\ devPc = "free" /\ devPc' = "unbound" /\ held' = held \ {"enabled", "udev"}
        /\ mapped' = 0 /\ master' = FALSE
        /\ UNCHANGED <<preferred, bar, iom, iop, pc, refcnt, irqVars, orderly>>
    BY <1>4 DEF RemoveFrees
  <2>2. held' = {} /\ "uio" \notin held
    BY <2>1 DEF IInv, HeldFits
  <2>3. mapped' \in 0 .. MaxMaps /\ mapped' <= iom'
    BY <2>1, IgbUioAssumption DEF IInv, CardTypeOK, IgbUioAssumption
  <2>4. CardTypeOK'
    BY <2>1, <2>2, <2>3 DEF IInv, CardTypeOK, irqVars, maskVars
  <2> QED
    BY <2>1, <2>2, <2>3, <2>4 DEF IInv, HeldFits, MapsFit, CallsFit,
       CountStartsAtZero, RefcntIsOpeners, OneEnabler, Bound, ProbePcs
<1> QED
  BY <1>1, <1>2, <1>3, <1>4 DEF RemoveNext

\* Loading and unloading the module, and interrupts, move neither card nor callers.
LEMMA OtherStep ==
    ASSUME IInv,
           \/ \E intrStr \in {"null", "msix", "msi", "legacy", "none"} :
                InitModule(intrStr)
           \/ ExitModule
           \/ Interrupt
    PROVE  IInv'
<1>1. UNCHANGED <<devPc, cardVars, pc, refcnt, irq, mode, vectors, handler,
                  vecMasked, master, orderly>>
  BY DEF InitModule, ExitModule, Interrupt, irqVars, bindVars, maskVars
<1>2. preferred' \in Modes \union {"unloaded"}
  BY DEF InitModule, ExitModule, Interrupt, ConfigIntrMode, Modes, IInv, CardTypeOK,
     bindVars
<1>3. intxDisabled' \in BOOLEAN
  BY IgbUioAssumption DEF InitModule, ExitModule, Interrupt, CheckAndMaskIntx,
     irqVars, IInv, CardTypeOK, IgbUioAssumption, maskVars
<1>4. silenced' \in BOOLEAN
  BY DEF InitModule, ExitModule, Interrupt, irqVars, IInv, CardTypeOK, maskVars
<1> QED
  BY <1>1, <1>2, <1>3, <1>4 DEF IInv, CardTypeOK, HeldFits, MapsFit, CallsFit,
     CountStartsAtZero, RefcntIsOpeners, OneEnabler, Bound, Holders, cardVars,
     barVars

\* A stutter.
LEMMA StutterStep == IInv /\ UNCHANGED vars => IInv'
  BY DEF vars, cardVars, irqVars, IInv, CardTypeOK, HeldFits, MapsFit, CallsFit,
     CountStartsAtZero, RefcntIsOpeners, OneEnabler, Bound, Holders, barVars,
     bindVars, maskVars

\* The kernel is of one kind or the other.
KernelFits == uioLocks \in BOOLEAN

\* The invariant is inductive.
LEMMA SpecIInv == Spec => [](IInv /\ KernelFits)
<1>1. IInv /\ [Next]_vars => IInv'
  <2> SUFFICES ASSUME IInv, [Next]_vars PROVE IInv'
    OBVIOUS
  <2>1. CASE \E c \in Callers : ReleaseNext(c)
    BY <2>1, CallerStep
  <2>2. CASE \E f \in Files : OpenNext(f)
    BY <2>2, CallerStep DEF Callers
  <2> QED
    BY <2>1, <2>2, ProbeStep, RemoveStep, OtherStep, StutterStep
       DEF Next, UioNext
<1> QED
  <2>1. KernelFits /\ [Next]_vars => KernelFits'
    BY DEF KernelFits, Next, vars
  <2>2. Init => KernelFits
    BY DEF KernelFits, Init
  <2> QED
    BY InitIInv, <1>1, <2>1, <2>2, PTL DEF Spec

-------------------------------------------------------------------------------
(***************************************************************************)
(* Every variable keeps its type; in particular igbuio_setup_bars fills no *)
(* entry of mem[] or port[] that does not exist.                           *)
(***************************************************************************)
THEOREM TypeCorrect == Spec => []TypeOK
<1>1. IInv /\ KernelFits => TypeOK
  BY DEF IInv, KernelFits, TypeOK
<1> QED
  BY SpecIInv, <1>1, PTL

(***************************************************************************)
(* igbuio_pci_open, its failure, igbuio_pci_release and igbuio_pci_remove  *)
(* keep the atomic count equal to the files that hold a reference, for any *)
(* interleaving and whether or not the UIO core serialises the files.      *)
(***************************************************************************)
THEOREM CountIsExact == Spec => []RefcntIsOpeners
<1>1. IInv => RefcntIsOpeners
  BY DEF IInv
<1> QED
  BY SpecIInv, <1>1, PTL

(***************************************************************************)
(* The test of the count in igbuio_pci_open lets one file at a time set up *)
(* the interrupts of a bound card.                                         *)
(***************************************************************************)
THEOREM EnablersExclude == Spec => []OneEnabler
<1>1. IInv => OneEnabler
  BY DEF IInv
<1> QED
  BY SpecIInv, <1>1, PTL

(***************************************************************************)
(* Every failure path of igbuio_pci_probe, and igbuio_pci_remove, give     *)
(* back all that probe acquired.                                           *)
(***************************************************************************)
THEOREM ProbeUnwinds == Spec => []NothingKept
<1>1. IInv => NothingKept
  BY DEF IInv, HeldFits, MapsFit, ResourcesAt, NothingKept
<1> QED
  BY SpecIInv, <1>1, PTL

-------------------------------------------------------------------------------
(***************************************************************************)
(* What holds of the interrupts of a card when the UIO core serves its     *)
(* files one at a time, for any number of files and any card.              *)
(***************************************************************************)
\* The card of an open file is set up.
Up ==
    /\ master
    /\ handler <=> mode # "NONE"
    /\ irq <=> handler
    /\ mode \in Vectored => vectors = mode

\* The only handler without an open file is one that is about to be freed, and a
\* file is in the driver's way only while no file is open.
Served ==
    /\ (\E f \in Files : pc[f] = "open") => Up /\ \A f \in Files : pc[f] \in Resting
    /\ (\A f \in Files : pc[f] = "closed") => ~ handler
    /\ \A f, g \in Files : pc[f] \notin Resting /\ pc[g] \notin Resting => f = g
    /\ \A f \in Files :
         /\ pc[f] \notin Resting \union {"freeIrq"} => ~ handler
         /\ pc[f] = "freeIrq" => (irq <=> handler)
         /\ pc[f] \in {"vector", "request"} => master
         /\ pc[f] = "request" => /\ irq <=> mode # "NONE"
                                 /\ mode \in Vectored => vectors = mode

\* The only handler after an orderly remove is one that remove is about to free.
Leaving ==
    /\ handler => devPc = "release" /\ pc[Remover] = "freeIrq" /\ irq
    /\ devPc \in RemovePcs => refcnt <= 0 /\ \A f \in Files : pc[f] \in Resting

RemoverFits ==
    pc[Remover] # "closed" =>
      /\ devPc = "release"
      /\ pc[Remover] \in {"freeIrq", "freeVectors", "clearMaster"}

JInv ==
    /\ RemoverFits
    /\ devPc \in ProbePcs \union {"bound"} => Served
    /\ devPc \in RemovePcs \union {"unbound"} /\ orderly => Leaving

-------------------------------------------------------------------------------
LEMMA InitJInv == Init => JInv
<1> SUFFICES ASSUME Init PROVE JInv
  OBVIOUS
<1>1. pc[Remover] = "closed" /\ devPc = "unbound" /\ ~ orderly
  BY DEF Init, Callers
<1> QED
  BY <1>1 DEF JInv, RemoverFits, ProbePcs

\* A step that moves none of the variables the invariant is about.
LEMMA JInvFrame ==
    ASSUME JInv, UNCHANGED <<devPc, pc, refcnt, irq, mode, vectors, handler,
                             master, orderly>>
    PROVE  JInv'
  BY DEF JInv, RemoverFits, Served, Up, Leaving

\* While probe works, no file is in the driver and no handler is installed.
LEMMA ProbeJInv == IInv /\ JInv /\ ProbeNext => JInv'
<1> SUFFICES ASSUME IInv, JInv, ProbeNext PROVE JInv'
  OBVIOUS
<1>1. /\ pc' = pc /\ handler' = handler /\ orderly' = orderly
      /\ devPc \in ProbePcs \union {"unbound"}
      /\ devPc' \in ProbePcs \union {"unbound", "bound"}
      /\ devPc = "unbound" => ~ handler /\ \A f \in Files : pc[f] = "closed"
  BY DEF ProbeNext, Probe, EnableDevice, SetupBar, SetupIomem, SetupIoport,
     SetupBarsEnds, SetDmaMask, CreateGroup, RegisterUio, SetDrvdata, FailGroup,
     FailIomem, FailFree, irqVars, ProbePcs, ProbeCall
<1>2. devPc # "unbound" /\ devPc # "drvdata" => \A f \in Files : pc[f] = "closed"
  BY <1>1 DEF IInv, CallsFit
<1>3. devPc = "drvdata" => devPc' = "bound" /\ UNCHANGED <<irqVars, master>>
  BY DEF ProbeNext, Probe, EnableDevice, SetupBar, SetupBarsEnds, SetDmaMask,
     CreateGroup, RegisterUio, SetDrvdata, FailGroup, FailIomem, FailFree,
     ProbeCall
<1>4. RemoverFits'
  BY <1>1 DEF JInv, RemoverFits, ProbePcs
<1>5. CASE devPc = "drvdata"
  BY <1>1, <1>3, <1>4, <1>5 DEF JInv, Served, Up, irqVars, ProbePcs, RemovePcs
<1>6. CASE devPc # "drvdata"
  <2>1. (\A f \in Files : pc'[f] = "closed") /\ ~ handler'
    BY <1>1, <1>2, <1>6 DEF JInv, Served
  <2>2. Served'
    BY <2>1 DEF Served, Resting
  <2>3. devPc' \notin RemovePcs
    BY <1>1 DEF ProbePcs, RemovePcs
  <2> QED
    BY <1>4, <2>1, <2>2, <2>3 DEF JInv, Leaving
<1> QED
  BY <1>5, <1>6

-------------------------------------------------------------------------------
\* An orderly remove meets a count of at most one, and one only if a file is open.
LEMMA OrderlyCount ==
    ASSUME IInv, devPc = "bound", InOrder
    PROVE  /\ refcnt \in Int /\ refcnt <= 1
           /\ refcnt = 1 \/ \A f \in Files : pc[f] = "closed"
<1>1. refcnt = Cardinality(Holders(pc)) /\ refcnt \in Int
  <2>1. "uio" \in held
    BY DEF IInv, HeldFits, ResourcesAt, Resources
  <2> QED
    BY <2>1, HoldersFinite DEF IInv, CardTypeOK, RefcntIsOpeners, RemovePcs
<1>2. Holders(pc) = {f \in Files : pc[f] = "open"}
  BY DEF InOrder, Holders, Resting, Enabling
<1>3. Cardinality(Holders(pc)) <= 1
  BY <1>2 DEF InOrder
<1>4. CASE Cardinality(Holders(pc)) = 0
  <2>1. \A f \in Files : pc[f] = "closed"
    BY <1>4, NoHolders DEF InOrder, Resting
  <2> QED
    BY <1>1, <1>4, <2>1
<1> QED
  BY <1>1, <1>3, <1>4, HoldersFinite

LEMMA RemoveJInv == IInv /\ JInv /\ RemoveNext => JInv'
<1> SUFFICES ASSUME IInv, JInv, RemoveNext PROVE JInv'
  OBVIOUS
<1>1. CASE Remove
  <2> DEFINE label == IF refcnt - 1 = 0 THEN "freeIrq" ELSE "closed"
  <2>1. /\ devPc = "bound" /\ devPc' = "release" /\ refcnt' = refcnt - 1
        /\ pc' = [pc EXCEPT ![Remover] = label]
        /\ UNCHANGED irqVars /\ orderly' = InOrder
    BY <1>1 DEF Remove, DecAndTest, Goto
  <2>2. /\ pc'[Remover] = label
        /\ \A f \in Files : pc'[f] = pc[f]
    BY <2>1, IgbUioAssumption DEF IInv, CardTypeOK, Callers, IgbUioAssumption
  <2>3. Served
    BY <2>1 DEF JInv
  <2>4. RemoverFits'
    BY <2>1, <2>2 DEF RemoverFits
  <2>5. ASSUME InOrder PROVE Leaving'
    <3>1. refcnt \in Int /\ refcnt <= 1 /\ (refcnt = 1 \/ \A f \in Files : pc[f] = "closed")
      BY <2>1, <2>5, OrderlyCount
    <3>2. \A f \in Files : pc[f] \in Resting
      BY <2>5 DEF InOrder
    <3>3. handler => irq /\ refcnt = 1
      BY <2>3, <3>1, <3>2 DEF Served, Up, Resting
    <3>4. handler' => label = "freeIrq" /\ irq'
      BY <2>1, <3>3 DEF irqVars
    <3> QED
      BY <2>1, <2>2, <3>1, <3>2, <3>4 DEF Leaving
  <2> QED
    BY <2>1, <2>4, <2>5 DEF JInv, ProbePcs
<1>2. CASE RemoveGroup
  <2>1. /\ devPc = "release" /\ pc[Remover] = "closed" /\ devPc' = "unregister"
        /\ UNCHANGED <<pc, refcnt, irqVars, orderly>>
    BY <1>2 DEF RemoveGroup
  <2> QED
    BY <2>1 DEF JInv, RemoverFits, Leaving, ProbePcs, RemovePcs, irqVars
<1>3. CASE UnregisterUio
  <2>1. /\ devPc = "unregister" /\ devPc' = "free"
        /\ UNCHANGED <<pc, refcnt, irqVars, orderly>>
    BY <1>3 DEF UnregisterUio
  <2> QED
    BY <2>1 DEF JInv, RemoverFits, Leaving, ProbePcs, RemovePcs, irqVars
<1>4. CASE RemoveFrees
  <2>1. /\ devPc = "free" /\ devPc' = "unbound"
        /\ UNCHANGED <<pc, refcnt, irqVars, orderly>>
    BY <1>4 DEF RemoveFrees
  <2> QED
    BY <2>1 DEF JInv, RemoverFits, Leaving, ProbePcs, RemovePcs, irqVars
<1> QED
  BY <1>1, <1>2, <1>3, <1>4 DEF RemoveNext

-------------------------------------------------------------------------------
\* The Remover's way through igbuio_pci_disable_interrupts.
LEMMA RemoverJInv == IInv /\ JInv /\ ReleaseNext(Remover) => JInv'
<1> SUFFICES ASSUME IInv, JInv, ReleaseNext(Remover) PROVE JInv'
  OBVIOUS
<1>1. PICK label \in {"freeVectors", "clearMaster", "closed"} :
        pc' = [pc EXCEPT ![Remover] = label]
  BY DEF ReleaseNext, FreeIrq, FreeVectors, ClearMaster, Goto
<1>2. /\ pc[Remover] # "closed" /\ devPc' = devPc /\ refcnt' = refcnt
      /\ orderly' = orderly
      /\ handler' => handler
      /\ pc[Remover] = "freeIrq" /\ irq => ~ handler'
  <2>1. CASE FreeIrq(Remover)
    <3>1. CASE irq
      BY <2>1, <3>1 DEF FreeIrq, bindVars
    <3>2. CASE ~ irq
      BY <2>1, <3>2 DEF FreeIrq, bindVars
    <3> QED
      BY <3>1, <3>2
  <2>2. CASE FreeVectors(Remover)
    BY <2>2 DEF FreeVectors, bindVars
  <2>3. CASE ClearMaster(Remover)
    BY <2>3 DEF ClearMaster, irqVars, bindVars
  <2> QED
    BY <2>1, <2>2, <2>3 DEF ReleaseNext
<1>3. /\ pc'[Remover] = label
      /\ \A f \in Files : pc'[f] = pc[f]
  BY <1>1, IgbUioAssumption DEF IInv, CardTypeOK, Callers, IgbUioAssumption
<1>4. devPc = "release"
  BY <1>2 DEF JInv, RemoverFits
<1>5. orderly => Leaving
  BY <1>4 DEF JInv, RemovePcs
<1>6. orderly => Leaving'
  BY <1>2, <1>3, <1>5 DEF Leaving
<1> QED
  BY <1>2, <1>3, <1>4, <1>6 DEF JInv, RemoverFits, ProbePcs

-------------------------------------------------------------------------------
\* A file that is in the driver's way is alone.
LEMMA Alone ==
    ASSUME Served, NEW f \in Files, pc[f] \notin Resting
    PROVE  \A g \in Files : g # f => pc[g] = "closed"
  BY DEF Served, Resting

\* A file that moves while the others are closed keeps Served if the interrupts
\* suit its new place.
LEMMA AloneKeepsServed ==
    ASSUME NEW f \in Files, NEW label, pc \in [Callers -> CallPcs],
           pc' = [pc EXCEPT ![f] = label],
           \A g \in Files : g # f => pc[g] = "closed",
           label = "open" => Up',
           label \notin {"open", "freeIrq"} => ~ handler',
           label \in CallPcs,
           label = "freeIrq" => (irq' <=> handler'),
           label \in {"vector", "request"} => master',
           label = "request" => /\ irq' <=> mode' # "NONE"
                                /\ mode' \in Vectored => vectors' = mode'
    PROVE  Served'
<1>1. /\ pc'[f] = label
      /\ \A g \in Files : g # f => pc'[g] = "closed"
  BY DEF Callers
<1>2. \A g \in Files : pc'[g] # "closed" => g = f
  BY <1>1
<1>3. (\E g \in Files : pc'[g] = "open") => label = "open"
  BY <1>1
<1> QED
  BY <1>1, <1>2, <1>3 DEF Served, Resting

\* In the driver of a bound card the count is that of the files holding it.
LEMMA CountHolders ==
    ASSUME IInv, devPc \in ProbePcs \union {"bound"}, "uio" \in held
    PROVE  refcnt = Cardinality(Holders(pc)) /\ refcnt \in Int
<1>1. devPc \notin RemovePcs
  BY DEF ProbePcs, RemovePcs
<1> QED
  BY <1>1, HoldersFinite DEF IInv, CardTypeOK, RefcntIsOpeners

\* A file opens the device of a card that is bound.
LEMMA OpenServed ==
    ASSUME IInv, Served, uioLocks, devPc \in ProbePcs \union {"bound"},
           NEW f \in Files, Open(f)
    PROVE  Served'
<1>1. /\ "uio" \in held /\ pc[f] = "closed"
      /\ \A g \in Files : pc[g] \in Resting
      /\ pc' = [pc EXCEPT ![f] = IF refcnt + 1 = 1 THEN "master" ELSE "open"]
      /\ UNCHANGED <<irqVars, master>>
  BY DEF Open, MayCall, Goto, FirstOpener
<1>2. refcnt = Cardinality(Holders(pc)) /\ refcnt \in Int /\ pc \in [Callers -> CallPcs]
  BY <1>1, CountHolders DEF IInv, CardTypeOK
<1>3. CASE refcnt = 0
  <2>1. \A g \in Files : pc[g] = "closed"
    BY <1>1, <1>2, <1>3, NoHolders DEF Resting
  <2>2. ~ handler'
    BY <1>1, <2>1 DEF Served, irqVars
  <2>3. pc' = [pc EXCEPT ![f] = "master"]
    BY <1>1, <1>3
  <2> QED
    BY <1>2, <2>1, <2>2, <2>3, AloneKeepsServed DEF CallPcs
<1>4. CASE refcnt # 0
  <2>1. pc' = [pc EXCEPT ![f] = "open"]
    <3>1. refcnt + 1 # 1
      BY <1>2, <1>4
    <3> QED
      BY <1>1, <3>1
  <2>2. PICK g \in Files : pc[g] = "open"
    <3>1. Holders(pc) # {}
      BY <1>2, <1>4, FS_EmptySet
    <3> QED
      BY <1>1, <3>1 DEF Holders, Resting, Enabling
  <2>3. Up'
    BY <1>1, <2>2 DEF Served, Up, irqVars
  <2>4. (\A h \in Files : pc'[h] \in Resting) /\ pc'[f] = "open"
    BY <1>1, <1>2, <2>1 DEF Resting, Callers
  <2> QED
    BY <2>3, <2>4 DEF Served, Resting
<1> QED
  BY <1>3, <1>4

\* A file closes the device of a card that is bound.
LEMMA ReleaseServed ==
    ASSUME IInv, Served, uioLocks, devPc \in ProbePcs \union {"bound"},
           NEW f \in Files, Release(f)
    PROVE  Served'
<1>1. /\ "uio" \in held /\ pc[f] = "open"
      /\ \A g \in Files : pc[g] \in Resting
      /\ pc' = [pc EXCEPT ![f] = IF refcnt - 1 = 0 THEN "freeIrq" ELSE "closed"]
      /\ UNCHANGED <<irqVars, master>>
  BY DEF Release, MayCall, DecAndTest, Goto
<1>2. refcnt = Cardinality(Holders(pc)) /\ refcnt \in Int /\ pc \in [Callers -> CallPcs]
  BY <1>1, CountHolders DEF IInv, CardTypeOK
<1>3. Up /\ f \in Holders(pc)
  BY <1>1 DEF Served, Holders
<1>4. refcnt = 1 <=> Holders(pc) = {f}
  BY <1>2, <1>3, HoldersFinite, FS_Singleton
<1>5. CASE refcnt = 1
  <2>1. \A g \in Files : g # f => pc[g] = "closed"
    BY <1>1, <1>4, <1>5 DEF Holders, Resting
  <2>2. pc' = [pc EXCEPT ![f] = "freeIrq"] /\ (irq' <=> handler')
    BY <1>1, <1>3, <1>5 DEF Up, irqVars
  <2> QED
    BY <1>2, <2>1, <2>2, AloneKeepsServed DEF CallPcs
<1>6. CASE refcnt # 1
  <2>1. PICK g \in Files : g # f /\ pc[g] = "open"
    BY <1>1, <1>3, <1>4, <1>6 DEF Holders, Resting, Enabling
  <2>2. pc' = [pc EXCEPT ![f] = "closed"]
    <3>1. refcnt - 1 # 0
      BY <1>2, <1>6
    <3> QED
      BY <1>1, <3>1
  <2>3. (\A h \in Files : pc'[h] \in Resting) /\ pc'[g] = "open"
    BY <1>1, <1>2, <2>1, <2>2 DEF Resting, Callers
  <2>4. Up'
    BY <1>1, <1>3 DEF Up, irqVars
  <2> QED
    BY <2>3, <2>4 DEF Served, Resting
<1> QED
  BY <1>5, <1>6

\* Every other step of a file below a bound card is one of a file that is alone.
LEMMA FileServed ==
    ASSUME IInv, Served, uioLocks, devPc \in ProbePcs \union {"bound"},
           NEW f \in Files, OpenNext(f) \/ ReleaseNext(f)
    PROVE  Served'
<1> USE DEF Goto
<1>1. pc \in [Callers -> CallPcs] /\ handler \in BOOLEAN
  BY DEF IInv, CardTypeOK
<1>2. pc[f] \notin Resting => \A g \in Files : g # f => pc[g] = "closed"
  BY Alone
<1>3. CASE Open(f)
  BY <1>3, OpenServed
<1>4. CASE Release(f)
  BY <1>4, ReleaseServed
<1>5. CASE SetMaster(f)
  <2>1. /\ pc[f] = "master" /\ pc' = [pc EXCEPT ![f] = "vector"]
        /\ master' /\ handler' = handler
    BY <1>5 DEF SetMaster, irqVars
  <2>2. ~ handler /\ \A g \in Files : g # f => pc[g] = "closed"
    BY <1>2, <2>1 DEF Served, Resting
  <2> QED
    BY <1>1, <2>1, <2>2, AloneKeepsServed DEF CallPcs
<1>6. CASE EnableInterrupts(f)
  <2>1. /\ pc[f] = "vector" /\ pc' = [pc EXCEPT ![f] = "request"]
        /\ handler' = handler /\ master' = master
        /\ irq' <=> mode' # "NONE"
        /\ mode' \in Vectored => vectors' = mode'
    BY <1>6 DEF EnableInterrupts
  <2>2. ~ handler /\ master /\ \A g \in Files : g # f => pc[g] = "closed"
    BY <1>2, <2>1 DEF Served, Resting
  <2> QED
    BY <1>1, <2>1, <2>2, AloneKeepsServed DEF CallPcs
<1>7. CASE RequestIrq(f)
  <2>1. /\ pc[f] = "request" /\ UNCHANGED <<irq, mode, vectors, master>>
        /\ \/ pc' = [pc EXCEPT ![f] = "open"] /\ (handler' <=> irq \/ handler)
           \/ pc' = [pc EXCEPT ![f] = "undo"] /\ handler' = handler
    BY <1>1, <1>7 DEF RequestIrq
  <2>2. /\ ~ handler /\ master /\ (irq <=> mode # "NONE")
        /\ mode \in Vectored => vectors = mode
        /\ \A g \in Files : g # f => pc[g] = "closed"
    BY <1>2, <2>1 DEF Served, Resting
  <2>3. CASE pc' = [pc EXCEPT ![f] = "open"] /\ (handler' <=> irq \/ handler)
    BY <1>1, <2>1, <2>2, <2>3, AloneKeepsServed DEF CallPcs, Up
  <2>4. CASE pc' = [pc EXCEPT ![f] = "undo"] /\ handler' = handler
    BY <1>1, <2>2, <2>4, AloneKeepsServed DEF CallPcs
  <2> QED
    BY <2>1, <2>3, <2>4
<1>8. CASE OpenFails(f)
  <2>1. /\ pc[f] = "undo" /\ pc' = [pc EXCEPT ![f] = "closed"] /\ handler' = handler
    BY <1>8 DEF OpenFails, irqVars
  <2>2. ~ handler /\ \A g \in Files : g # f => pc[g] = "closed"
    BY <1>2, <2>1 DEF Served, Resting
  <2> QED
    BY <1>1, <2>1, <2>2, AloneKeepsServed DEF CallPcs
<1>9. CASE CloseStale(f)
  <2>1. "uio" \notin held /\ pc[f] = "open"
    BY <1>9 DEF CloseStale
  <2>2. devPc \in ProbePcs \ {"drvdata"}
    BY <2>1 DEF IInv, HeldFits, ResourcesAt, Resources
  <2> QED
    BY <2>1, <2>2 DEF IInv, CallsFit
<1>10. CASE \E on \in BOOLEAN : IrqControl(f, on)
  BY <1>10 DEF IrqControl, Served, Up
<1>11. CASE FreeIrq(f)
  <2>1. pc[f] = "freeIrq" /\ pc' = [pc EXCEPT ![f] = "freeVectors"]
    BY <1>11 DEF FreeIrq
  <2>2. (irq <=> handler) /\ \A g \in Files : g # f => pc[g] = "closed"
    BY <1>2, <2>1 DEF Served, Resting
  <2>3. ~ handler'
    BY <1>11, <2>2 DEF FreeIrq
  <2> QED
    BY <1>1, <2>1, <2>2, <2>3, AloneKeepsServed DEF CallPcs
<1>12. CASE FreeVectors(f)
  <2>1. /\ pc[f] = "freeVectors" /\ pc' = [pc EXCEPT ![f] = "clearMaster"]
        /\ handler' = handler
    BY <1>12 DEF FreeVectors
  <2>2. ~ handler /\ \A g \in Files : g # f => pc[g] = "closed"
    BY <1>2, <2>1 DEF Served, Resting
  <2> QED
    BY <1>1, <2>1, <2>2, AloneKeepsServed DEF CallPcs
<1>13. CASE ClearMaster(f)
  <2>1. /\ pc[f] = "clearMaster" /\ pc' = [pc EXCEPT ![f] = "closed"]
        /\ handler' = handler
    BY <1>13 DEF ClearMaster, irqVars
  <2>2. ~ handler /\ \A g \in Files : g # f => pc[g] = "closed"
    BY <1>2, <2>1 DEF Served, Resting
  <2> QED
    BY <1>1, <2>1, <2>2, AloneKeepsServed DEF CallPcs
<1> QED
  BY <1>3, <1>4, <1>5, <1>6, <1>7, <1>8, <1>9, <1>10, <1>11, <1>12, <1>13
     DEF OpenNext, ReleaseNext

\* A file's step after an orderly remove has begun: nothing but a close.
LEMMA FileLeaving ==
    ASSUME IInv, Leaving, orderly', devPc \in RemovePcs \union {"unbound"},
           NEW f \in Files, OpenNext(f) \/ ReleaseNext(f)
    PROVE  Leaving'
<1> USE DEF Goto
<1>1. /\ pc \in [Callers -> CallPcs] /\ refcnt \in Int
      /\ Remover \in Callers /\ Remover # f
  BY IgbUioAssumption DEF IInv, CardTypeOK, Callers, IgbUioAssumption
<1>2. \A g \in Files : pc[g] \in Resting
  <2>1. CASE devPc = "unbound"
    BY <2>1 DEF IInv, HeldFits, ResourcesAt, CallsFit
  <2> QED
    BY <2>1 DEF Leaving
<1>3. Release(f) \/ CloseStale(f) \/ \E on \in BOOLEAN : IrqControl(f, on)
  BY <1>2 DEF OpenNext, ReleaseNext, Open, SetMaster, EnableInterrupts, RequestIrq,
     OpenFails, FreeIrq, FreeVectors, ClearMaster, Resting
<1>4. UNCHANGED <<devPc, handler, irq>>
  BY <1>3 DEF Release, CloseStale, IrqControl, irqVars, bindVars
<1>5. CASE Release(f)
  <2>1. "uio" \in held
    BY <1>5 DEF Release, MayCall
  <2>2. devPc \in RemovePcs
    BY <2>1 DEF IInv, HeldFits, ResourcesAt
  <2>3. refcnt <= 0
    BY <2>2 DEF Leaving
  <2>4. refcnt - 1 # 0 /\ refcnt - 1 <= 0
    BY <1>1, <2>3
  <2>5. pc' = [pc EXCEPT ![f] = "closed"] /\ refcnt' = refcnt - 1
    BY <1>5, <2>4 DEF Release, DecAndTest
  <2>6. pc'[Remover] = pc[Remover] /\ \A g \in Files : pc'[g] \in Resting
    BY <1>1, <1>2, <2>5 DEF Resting, Callers
  <2> QED
    BY <1>4, <2>4, <2>5, <2>6 DEF Leaving
<1>6. CASE CloseStale(f)
  <2>1. pc' = [pc EXCEPT ![f] = "closed"] /\ refcnt' = refcnt
    BY <1>6 DEF CloseStale
  <2>2. pc'[Remover] = pc[Remover] /\ \A g \in Files : pc'[g] \in Resting
    BY <1>1, <1>2, <2>1 DEF Resting, Callers
  <2> QED
    BY <1>4, <2>1, <2>2 DEF Leaving
<1>7. CASE \E on \in BOOLEAN : IrqControl(f, on)
  <2>1. pc' = pc /\ refcnt' = refcnt
    BY <1>7 DEF IrqControl
  <2> QED
    BY <1>4, <2>1 DEF Leaving
<1> QED
  BY <1>3, <1>5, <1>6, <1>7

\* A step of a file keeps the invariant.
LEMMA FileJInv ==
    ASSUME IInv, JInv, uioLocks, NEW f \in Files, OpenNext(f) \/ ReleaseNext(f)
    PROVE  JInv'
<1>1. devPc' = devPc /\ (orderly' => orderly)
  <2>1. CASE Open(f)
    BY <2>1 DEF Open, bindVars
  <2>2. CASE EnableInterrupts(f)
    BY <2>2 DEF EnableInterrupts, bindVars
  <2>3. CASE \E on \in BOOLEAN : IrqControl(f, on)
    BY <2>3 DEF IrqControl, bindVars
  <2>4. CASE SetMaster(f) \/ RequestIrq(f) \/ OpenFails(f) \/ Release(f) \/ CloseStale(f)
    BY <2>4 DEF SetMaster, RequestIrq, OpenFails, Release, CloseStale, bindVars
  <2>5. CASE ReleaseNext(f)
    <3>1. UNCHANGED <<devPc, orderly>>
      BY <2>5, Zenon DEF ReleaseNext, FreeIrq, FreeVectors, ClearMaster,
         bindVars
    <3> QED
      BY <3>1
  <2> QED
    BY <2>1, <2>2, <2>3, <2>4, <2>5 DEF OpenNext
<1>2. pc'[Remover] = pc[Remover]
  <2>1. pc' = pc \/ \E label \in CallPcs : pc' = [pc EXCEPT ![f] = label]
    BY DEF OpenNext, ReleaseNext, Open, SetMaster, EnableInterrupts, RequestIrq,
       OpenFails, Release, CloseStale, IrqControl, FreeIrq, FreeVectors,
       ClearMaster, DecAndTest, Goto, CallPcs
  <2> QED
    BY <2>1, IgbUioAssumption DEF IInv, CardTypeOK, Callers, IgbUioAssumption
<1>3. devPc \in ProbePcs \union {"bound"} => Served'
  BY FileServed DEF JInv
<1>4. devPc \in RemovePcs \union {"unbound"} /\ orderly' => Leaving'
  BY <1>1, FileLeaving DEF JInv
<1> QED
  BY <1>1, <1>2, <1>3, <1>4 DEF JInv, RemoverFits

\* The invariant is inductive beside that of IgbUio_proofs.
LEMMA SpecJInv ==
    Spec => [](uioLocks => JInv)
<1>1. IInv /\ (uioLocks => JInv) /\ [Next]_vars => (uioLocks' => JInv')
  <2> SUFFICES ASSUME IInv, uioLocks => JInv, [Next]_vars, uioLocks' PROVE JInv'
    OBVIOUS
  <2> uioLocks /\ JInv
    BY DEF Next, vars
  <2>1. CASE \E f \in Files : OpenNext(f)
    BY <2>1, FileJInv
  <2>2. CASE \E c \in Callers : ReleaseNext(c)
    BY <2>2, FileJInv, RemoverJInv DEF Callers
  <2>3. CASE \/ \E intrStr \in {"null", "msix", "msi", "legacy", "none"} :
                InitModule(intrStr)
             \/ ExitModule
             \/ Interrupt
    BY <2>3, JInvFrame DEF InitModule, ExitModule, Interrupt, irqVars, bindVars
  <2>4. CASE UNCHANGED vars
    BY <2>4, JInvFrame DEF vars, irqVars, bindVars
  <2> QED
    BY <2>1, <2>2, <2>3, <2>4, ProbeJInv, RemoveJInv DEF Next, UioNext
<1> QED
  BY SpecIInv, InitJInv, <1>1, PTL DEF Spec

-------------------------------------------------------------------------------
(***************************************************************************)
(* igbuio_pci_open and igbuio_pci_release, served one at a time, leave a   *)
(* bound card set up if a file is open and without a handler if none is,   *)
(* whatever opens failed before.                                           *)
(***************************************************************************)
THEOREM OpenFilesHaveInterrupts ==
    Spec => []OpenMeansEnabled
<1>1. IInv /\ (uioLocks => JInv) => OpenMeansEnabled
  <2> SUFFICES ASSUME IInv, JInv, Bound,
                      \A f \in Files : pc[f] \in Resting
               PROVE  IF \E f \in Files : pc[f] = "open"
                        THEN /\ master
                             /\ handler <=> mode # "NONE"
                             /\ mode \in Vectored => vectors = mode
                        ELSE ~ handler
    BY DEF OpenMeansEnabled
  <2>1. Served
    BY DEF JInv, Bound, ProbePcs
  <2> QED
    BY <2>1 DEF Served, Up, Resting
<1> QED
  BY SpecIInv, SpecJInv, <1>1, PTL

(***************************************************************************)
(* igbuio_pci_enable_interrupts never requests an interrupt that is        *)
(* requested, and igbuio_pci_disable_interrupts, called for a file, frees  *)
(* one that is.                                                            *)
(***************************************************************************)
THEOREM RequestsAndFreesPair ==
    Spec => []IrqPaired
<1>1. (uioLocks => JInv) => IrqPaired
  <2> SUFFICES ASSUME JInv, Bound, NEW f \in Files
               PROVE  /\ pc[f] = "request" /\ irq => ~ handler
                      /\ pc[f] = "freeIrq" /\ irq => handler
    BY DEF IrqPaired
  <2>1. Served
    BY DEF JInv, Bound, ProbePcs
  <2> QED
    BY <2>1 DEF Served, Resting
<1> QED
  BY SpecJInv, <1>1, PTL

(***************************************************************************)
(* igbuio_pci_remove of a card that at most one file has open frees the    *)
(* interrupt handler before it frees the device.                           *)
(***************************************************************************)
THEOREM OrderlyRemoveFreesHandler ==
    Spec => []OrderlyRemoveQuiesces
<1>1. (uioLocks => JInv) => OrderlyRemoveQuiesces
  BY DEF JInv, Leaving, OrderlyRemoveQuiesces
<1> QED
  BY SpecJInv, <1>1, PTL

-------------------------------------------------------------------------------
\* Only interrupts of a session can be off, and they are masked in the way of the
\* mode that the session has.
Quiet ==
    /\ silenced => handler
    /\ NativeIntx /\ silenced /\ mode = "LEGACY" => intxDisabled
    /\ (MsiMaskBit \/ mode # "MSI") /\ silenced /\ mode \in Vectored => vecMasked

QInv == devPc \in ProbePcs \union {"bound"} => Quiet

\* No session begins while the interrupts of another one are off.
LEMMA FileQuiet ==
    ASSUME IInv, Served, Quiet, uioLocks, NEW f \in Files, OpenNext(f) \/ ReleaseNext(f)
    PROVE  Quiet'
<1>1. CASE EnableInterrupts(f)
  <2>1. ~ handler
    BY <1>1 DEF EnableInterrupts, Served, Resting
  <2> QED BY <1>1, <2>1 DEF EnableInterrupts, Quiet
<1>2. CASE RequestIrq(f)
  <2>1. handler => handler'
    BY <1>2 DEF RequestIrq
  <2> QED BY <1>2, <2>1 DEF RequestIrq, maskVars, Quiet
<1>3. ASSUME NEW on \in BOOLEAN, IrqControl(f, on) PROVE Quiet'
  <2>1. handler <=> mode # "NONE"
    BY <1>3 DEF IrqControl, Served, Up
  <2>2. /\ UNCHANGED <<mode, handler>> /\ silenced' = (~ on /\ mode # "NONE")
        /\ mode = "LEGACY" => intxDisabled' = ~ on
        /\ mode = "MSIX" \/ (mode = "MSI" /\ MsiMaskBit) => vecMasked' = ~ on
    BY <1>3 DEF IrqControl, Intx, MaskIrq
  <2> QED BY <2>1, <2>2 DEF Quiet, Vectored
<1>4. CASE FreeIrq(f)
  BY <1>4 DEF FreeIrq, Quiet
<1>5. CASE FreeVectors(f)
  BY <1>5 DEF FreeVectors, maskVars, Quiet
<1>6. CASE \/ Open(f) \/ SetMaster(f) \/ OpenFails(f) \/ Release(f) \/ CloseStale(f)
           \/ ClearMaster(f)
  <2>1. UNCHANGED irqVars
    BY <1>6 DEF Open, SetMaster, OpenFails, Release, CloseStale, ClearMaster
  <2> QED BY <2>1 DEF irqVars, maskVars, Quiet
<1> QED
  BY <1>1, <1>2, <1>3, <1>4, <1>5, <1>6 DEF OpenNext, ReleaseNext

LEMMA ProbeQuiet ==
    ASSUME QInv, ProbeNext
    PROVE  Quiet'
<1>1. CASE Probe
  BY <1>1 DEF Probe, Quiet
<1>2. CASE ~ Probe
  <2>1. devPc \in ProbePcs
    BY <1>2
    DEF ProbeNext, EnableDevice, SetupBar, SetupBarsEnds, SetDmaMask, CreateGroup,
        RegisterUio, SetDrvdata, FailGroup, FailIomem, FailFree, ProbeCall, ProbePcs
  <2>2. UNCHANGED irqVars
    BY <1>2
    DEF ProbeNext, EnableDevice, SetupBar, SetupBarsEnds, SetDmaMask, CreateGroup,
        RegisterUio, SetDrvdata, FailGroup, FailIomem, FailFree, ProbeCall
  <2> QED BY <2>1, <2>2 DEF QInv, Quiet, irqVars, maskVars
<1> QED BY <1>1, <1>2

LEMMA NextQuiet ==
    ASSUME IInv, uioLocks, JInv, QInv, [Next]_vars
    PROVE  QInv'
<1>1. CASE ProbeNext
  BY <1>1, ProbeQuiet DEF QInv
<1>2. CASE RemoveNext
  BY <1>2
  DEF RemoveNext, Remove, RemoveGroup, UnregisterUio, RemoveFrees, QInv, ProbePcs
<1>3. ASSUME NEW f \in Files, OpenNext(f) \/ ReleaseNext(f)
      PROVE  QInv'
  <2>1. devPc' = devPc
    BY <1>3, Zenon
    DEF OpenNext, ReleaseNext, Open, SetMaster, EnableInterrupts, RequestIrq, OpenFails,
        Release, CloseStale, IrqControl, FreeIrq, FreeVectors, ClearMaster, bindVars
  <2> QED BY <1>3, <2>1, FileQuiet DEF QInv, JInv
<1>4. CASE ReleaseNext(Remover)
  <2>1. devPc = "release"
    BY <1>4
    DEF ReleaseNext, FreeIrq, FreeVectors, ClearMaster, JInv, RemoverFits
  <2>2. devPc' = devPc
    BY <1>4, Zenon DEF ReleaseNext, FreeIrq, FreeVectors, ClearMaster, bindVars
  <2> QED BY <2>1, <2>2 DEF QInv, ProbePcs
<1>5. CASE Interrupt
  <2>1. /\ handler /\ UNCHANGED <<devPc, handler, mode, vecMasked>>
        /\ mode = "LEGACY" => intxDisabled' = NativeIntx
        /\ mode \in Vectored => UNCHANGED <<intxDisabled, silenced>>
        /\ mode = "LEGACY" \/ mode \in Vectored
    BY <1>5 DEF Interrupt, CheckAndMaskIntx, bindVars, Vectored
  <2> QED BY <2>1 DEF QInv, Quiet, Vectored
<1>6. CASE \/ \E intrStr \in {"null", "msix", "msi", "legacy", "none"} :
                InitModule(intrStr)
           \/ ExitModule \/ UNCHANGED vars
  <2>1. UNCHANGED <<devPc, irqVars>>
    BY <1>6 DEF InitModule, ExitModule, vars, bindVars
  <2> QED BY <2>1 DEF QInv, Quiet, irqVars, maskVars
<1> QED
  BY <1>1, <1>2, <1>3, <1>4, <1>5, <1>6 DEF Next, UioNext, Callers

(***************************************************************************)
(* With files served one at a time, igbuio_pci_irqcontrol and              *)
(* igbuio_pci_irqhandler switch interrupts off until they are switched on  *)
(* or the device is closed, for any number of files that open, fail to     *)
(* open and close meanwhile, and for every card and kernel but for the     *)
(* MSI vectors without a mask bit and the legacy interrupts of compat.h.   *)
(***************************************************************************)
THEOREM OffMeansSilent == Spec => []StaysSilent
<1>1. Init => QInv
  BY DEF Init, QInv, ProbePcs
<1>2. /\ IInv /\ (uioLocks => JInv) /\ (uioLocks => QInv) /\ [Next]_vars
      => (uioLocks' => QInv')
  <2> SUFFICES ASSUME IInv, uioLocks => JInv, uioLocks => QInv, [Next]_vars, uioLocks'
               PROVE  QInv'
    OBVIOUS
  <2>1. uioLocks
    BY DEF Next, vars
  <2> QED BY <2>1, NextQuiet
<1>3. (uioLocks => QInv) => StaysSilent
  BY DEF QInv, Quiet, StaysSilent, VectorsStayOff, LegacyStaysOff, Bound, ProbePcs
<1> QED
  BY SpecIInv, SpecJInv, <1>1, <1>2, <1>3, PTL DEF Spec
===============================================================================
