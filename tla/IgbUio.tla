-------------------------------- MODULE IgbUio --------------------------------
(***************************************************************************)
(* The kernel module that hands a network card to DPDK (igb_uio.c): one    *)
(* card, from probe to remove, and the processes that open its UIO device  *)
(* and switch its interrupts.                                              *)
(*                                                                         *)
(* remove calls the driver's own release, so both are callers with a       *)
(* program counter: a file per open of the device, and Remover.            *)
(* uio_unregister_device waits for calls under way and lets none in later; *)
(* whether the UIO core also serialises the calls of the files depends on  *)
(* the kernel (uioLocks), and the driver's atomic count suggests it did    *)
(* not rely on it.  A failed driver call undoes itself; PCI calls may      *)
(* fail.                                                                   *)
(***************************************************************************)
EXTENDS Integers, FiniteSets

CONSTANTS
    Files,        \* opens of the UIO device
    Remover,      \* the thread that unbinds the card
    Supported,    \* interrupt modes of the card
    MsiMaskBit,   \* msi_attrib.maskbit: its MSI vectors can be masked
    NativeIntx,   \* the kernel has pci_check_and_mask_intx; compat.h otherwise
    WcActivate,   \* the module parameter wc_activate is set
    Bars,         \* PCI_STD_RESOURCE_END + 1
    MaxMaps,      \* MAX_UIO_MAPS
    MaxPorts      \* MAX_UIO_PORT_REGIONS

ASSUME IgbUioAssumption ==
    /\ Remover \notin Files
    /\ IsFiniteSet(Files)
    /\ MsiMaskBit \in BOOLEAN
    /\ NativeIntx \in BOOLEAN /\ WcActivate \in BOOLEAN
    /\ Supported \subseteq {"MSIX", "MSI", "LEGACY"}
    /\ Bars \in Nat /\ MaxMaps \in Nat /\ MaxPorts \in Nat

VARIABLES
    uioLocks,     \* this kernel's UIO core lets one file at a time into the driver
    preferred,    \* igbuio_intr_mode_preferred, "unloaded" without the module
    devPc,        \* where probe or remove is
    held,         \* what probe has acquired and not given back
    bar, iom, iop,  \* locals of igbuio_setup_bars
    mapped,       \* the number of mem[i].internal_addr that are mapped
    pc,           \* where each caller of open or release is
    refcnt, irq, mode,   \* members of rte_uio_pci_dev; irq: info.irq is not 0
    vectors,      \* the kind of message vectors the PCI core has enabled
    handler,      \* igbuio_pci_irqhandler is installed
    master,       \* the card may do DMA
    intxDisabled, vecMasked,     \* mask bits of the card
    silenced,     \* history: the interrupts that the open device has were
                  \* switched off, and not on again
    orderly       \* history: remove met at most one file, at rest, and no
                  \* file was opened after that

barVars  == <<bar, iom, iop, mapped>>
cardVars == <<held, barVars>>
bindVars == <<preferred, devPc, cardVars>>
maskVars == <<intxDisabled, vecMasked, silenced>>
irqVars  == <<irq, mode, vectors, handler, maskVars>>
vars == <<uioLocks, bindVars, pc, refcnt, irqVars, master, orderly>>

Callers  == Files \union {Remover}
Modes    == {"MSIX", "MSI", "LEGACY", "NONE"}
Vectored == {"MSIX", "MSI"}
ProbePcs == {"enable", "bars", "dma", "sysfs", "register", "drvdata",
             "failGroup", "failIomem", "failFree"}
RemovePcs == {"release", "unregister", "free"}
Resources == {"udev", "enabled", "sysfs", "uio"}
CallPcs  == {"closed", "master", "vector", "request", "undo", "open",
             "freeIrq", "freeVectors", "clearMaster"}

Enabling == {"master", "vector", "request", "undo"}
Resting  == {"closed", "open"}

\* The files that hold a reference when the callers are at p.
Holders(p) == {f \in Files : p[f] \in Enabling \union {"open"}}

CardTypeOK ==
    /\ preferred \in Modes \union {"unloaded"}
    /\ devPc \in {"unbound", "bound"} \union ProbePcs \union RemovePcs
    /\ held \subseteq Resources
    /\ bar \in 0 .. Bars /\ iom \in 0 .. MaxMaps /\ iop \in 0 .. MaxPorts
    /\ mapped \in 0 .. MaxMaps
    /\ pc \in [Callers -> CallPcs]
    /\ refcnt \in Int
    /\ irq \in BOOLEAN /\ mode \in Modes
    /\ vectors \in Vectored \union {"none"}
    /\ handler \in BOOLEAN /\ master \in BOOLEAN
    /\ intxDisabled \in BOOLEAN /\ vecMasked \in BOOLEAN
    /\ silenced \in BOOLEAN /\ orderly \in BOOLEAN

TypeOK == CardTypeOK /\ uioLocks \in BOOLEAN

Init ==
    /\ uioLocks \in BOOLEAN
    /\ preferred = "unloaded"
    /\ devPc = "unbound"
    /\ held = {}
    /\ bar = 0 /\ iom = 0 /\ iop = 0 /\ mapped = 0
    /\ pc = [c \in Callers |-> "closed"]
    /\ refcnt = 0 /\ irq = FALSE /\ mode = "NONE"
    /\ vectors = "none" /\ handler = FALSE
    /\ master = FALSE /\ intxDisabled = FALSE /\ vecMasked = FALSE
    /\ silenced = FALSE /\ orderly = FALSE

-------------------------------------------------------------------------------
\* The module

\* igbuio_config_intr_mode: no parameter is MSI-X, and "none" is refused.
ConfigIntrMode(intrStr) ==
    CASE intrStr \in {"null", "msix"} -> "MSIX"
      [] intrStr = "msi"              -> "MSI"
      [] intrStr = "legacy"           -> "LEGACY"
      [] OTHER                        -> "unloaded"

InitModule(intrStr) ==
    /\ preferred = "unloaded"
    /\ preferred' = ConfigIntrMode(intrStr)
    /\ UNCHANGED <<devPc, cardVars, pc, refcnt, irqVars, master, orderly>>

\* Unregistering the driver removes its cards first; an open file keeps the
\* module in memory.
ExitModule ==
    /\ preferred # "unloaded"
    /\ devPc = "unbound"
    /\ \A f \in Files : pc[f] = "closed"
    /\ preferred' = "unloaded"
    /\ UNCHANGED <<devPc, cardVars, pc, refcnt, irqVars, master, orderly>>

-------------------------------------------------------------------------------
\* igbuio_pci_probe, one action per call that may fail

\* A new rte_uio_pci_dev, all zero.  The files of an earlier binding are gone by
\* the time the card is bound again, and so is its handler: behaviour after an
\* interrupt that finds its device freed is not modelled.
Probe ==
    /\ preferred # "unloaded"
    /\ devPc = "unbound"
    /\ ~ handler
    /\ \A f \in Files : pc[f] = "closed"
    /\ devPc' = "enable"
    /\ held' = {"udev"}
    /\ bar' = 0 /\ iom' = 0 /\ iop' = 0 /\ mapped' = 0
    /\ refcnt' = 0 /\ irq' = FALSE /\ mode' = "NONE"
    /\ silenced' = FALSE
    /\ UNCHANGED <<preferred, pc, vectors, handler, master, intxDisabled, vecMasked,
                   orderly>>

\* A call of probe that acquires some resource, or fails and jumps to a label.
ProbeCall(place, resource, next, label) ==
    /\ devPc = place
    /\ \/ devPc' = next /\ held' = held \union resource
       \/ devPc' = label /\ UNCHANGED held
    /\ UNCHANGED <<preferred, pc, irqVars, orderly>>

EnableDevice ==
    /\ ProbeCall("enable", {"enabled"}, "bars", "failFree")
    /\ master' = IF devPc' = "bars" THEN TRUE ELSE master
    /\ UNCHANGED <<barVars, refcnt>>

\* A bound that lets one BAR too many in.
MapsFullLate == iom > MaxMaps

MapsFull == iom >= MaxMaps

\* igbuio_pci_setup_iomem: too many memory BARs, or ioremap fails.
SetupIomem ==
    \/ /\ ~ MapsFull
       /\ mapped' = IF WcActivate THEN mapped ELSE mapped + 1
       /\ iom' = iom + 1
       /\ UNCHANGED <<devPc, iop>>
    \/ /\ MapsFull \/ ~ WcActivate
       /\ devPc' = "failIomem"
       /\ UNCHANGED <<iom, iop, mapped>>

SetupIoport ==
    /\ IF iop < MaxPorts
         THEN iop' = iop + 1 /\ UNCHANGED devPc
         ELSE devPc' = "failIomem" /\ UNCHANGED iop
    /\ UNCHANGED <<iom, mapped>>

\* One turn of the loop of igbuio_setup_bars: a BAR is memory, I/O or unused.
SetupBar ==
    /\ devPc = "bars"
    /\ bar < Bars
    /\ bar' = bar + 1
    /\ \/ SetupIomem
       \/ SetupIoport
       \/ UNCHANGED <<devPc, iom, iop, mapped>>
    /\ UNCHANGED <<preferred, held, pc, refcnt, irqVars, master, orderly>>

\* A card without BARs is refused (-ENOENT).
SetupBarsEnds ==
    /\ devPc = "bars"
    /\ bar = Bars
    /\ devPc' = IF iom # 0 \/ iop # 0 THEN "dma" ELSE "failIomem"
    /\ UNCHANGED <<preferred, cardVars, pc, refcnt, irqVars, master, orderly>>

SetDmaMask ==
    /\ ProbeCall("dma", {}, "sysfs", "failIomem")
    /\ UNCHANGED <<barVars, refcnt, master>>

CreateGroup ==
    /\ refcnt' = 0
    /\ ProbeCall("sysfs", {"sysfs"}, "register", "failIomem")
    /\ UNCHANGED <<barVars, master>>

\* A sysfs group that is forgotten when UIO refuses the device.
RegisterUioKeepsGroup ==
    /\ ProbeCall("register", {"uio"}, "drvdata", "failIomem")
    /\ UNCHANGED <<barVars, refcnt, master>>

RegisterUio ==
    /\ ProbeCall("register", {"uio"}, "drvdata", "failGroup")
    /\ UNCHANGED <<barVars, refcnt, master>>

\* pci_set_drvdata; the DMA mapping that follows is undone at once.
SetDrvdata ==
    /\ devPc = "drvdata"
    /\ devPc' = "bound"
    /\ UNCHANGED <<preferred, cardVars, pc, refcnt, irqVars, master, orderly>>

\* The labels at the end of probe.
FailGroup ==
    /\ devPc = "failGroup"
    /\ devPc' = "failIomem"
    /\ held' = held \ {"sysfs"}
    /\ UNCHANGED <<preferred, barVars, pc, refcnt, irqVars, master, orderly>>

FailIomem ==
    /\ devPc = "failIomem"
    /\ devPc' = "failFree"
    /\ mapped' = 0
    /\ held' = held \ {"enabled"}
    /\ master' = FALSE
    /\ UNCHANGED <<preferred, bar, iom, iop, pc, refcnt, irqVars, orderly>>

FailFree ==
    /\ devPc = "failFree"
    /\ devPc' = "unbound"
    /\ held' = held \ {"udev"}
    /\ UNCHANGED <<preferred, barVars, pc, refcnt, irqVars, master, orderly>>

-------------------------------------------------------------------------------
\* igbuio_pci_open

\* The UIO device exists, and the core lets f into the driver.
MayCall(f) ==
    /\ "uio" \in held
    /\ uioLocks => \A g \in Files : pc[g] \in Resting

Goto(c, label) == pc' = [pc EXCEPT ![c] = label]

\* A count that is not tested.
AnyOpener == TRUE

FirstOpener == refcnt + 1 = 1

Open(f) ==
    /\ MayCall(f)
    /\ pc[f] = "closed"
    /\ refcnt' = refcnt + 1
    /\ Goto(f, IF FirstOpener THEN "master" ELSE "open")
    /\ orderly' = FALSE
    /\ UNCHANGED <<bindVars, irqVars, master>>

SetMaster(f) ==
    /\ pc[f] = "master"
    /\ master' = TRUE
    /\ Goto(f, "vector")
    /\ UNCHANGED <<bindVars, refcnt, irqVars, orderly>>

Rank == [MSIX |-> 1, MSI |-> 2, LEGACY |-> 3, NONE |-> 4]

\* The modes the switch of igbuio_pci_enable_interrupts can end in: it falls
\* through from the preferred one, since a call for vectors or the test of INTX
\* may fail.  One kind of vectors excludes the other.
Reachable(m) ==
    /\ Rank[m] >= Rank[preferred]
    /\ m \in Supported \union {"NONE"}
    /\ m \in Vectored => vectors \in {"none", m}

EnableInterrupts(f) ==
    /\ pc[f] = "vector"
    /\ \E m \in Modes :
         /\ Reachable(m)
         /\ mode' = m
         /\ irq' = (m # "NONE")
         /\ vectors' = IF m \in Vectored THEN m ELSE vectors
         /\ vecMasked' = IF m \in Vectored THEN FALSE ELSE vecMasked
    /\ Goto(f, "request")
    /\ UNCHANGED <<bindVars, refcnt, handler, intxDisabled, silenced, master, orderly>>

RequestIrq(f) ==
    /\ pc[f] = "request"
    /\ \/ irq  /\ handler' = TRUE /\ Goto(f, "open")
       \/ irq  /\ Goto(f, "undo") /\ UNCHANGED handler
       \/ ~irq /\ Goto(f, "open") /\ UNCHANGED handler
    /\ UNCHANGED <<bindVars, refcnt, irq, mode, vectors,
                   maskVars, master, orderly>>

\* An open that fails and keeps its reference.
OpenFailsKeepsRef(f) ==
    /\ pc[f] = "undo"
    /\ Goto(f, "closed")
    /\ UNCHANGED <<bindVars, refcnt, irqVars, master, orderly>>

OpenFails(f) ==
    /\ pc[f] = "undo"
    /\ refcnt' = refcnt - 1
    /\ Goto(f, "closed")
    /\ UNCHANGED <<bindVars, irqVars, master, orderly>>

-------------------------------------------------------------------------------
\* igbuio_pci_release

\* A count that is not tested after the decrement but before it.
DecAndTestLate(c) ==
    /\ refcnt' = refcnt - 1
    /\ Goto(c, IF refcnt = 0 THEN "freeIrq" ELSE "closed")

DecAndTest(c) ==
    /\ refcnt' = refcnt - 1
    /\ Goto(c, IF refcnt - 1 = 0 THEN "freeIrq" ELSE "closed")

Release(f) ==
    /\ MayCall(f)
    /\ pc[f] = "open"
    /\ DecAndTest(f)
    /\ UNCHANGED <<bindVars, irqVars, master, orderly>>

\* A file that outlives its device: the UIO core does not call the driver.
CloseStale(f) ==
    /\ pc[f] = "open"
    /\ "uio" \notin held
    /\ Goto(f, "closed")
    /\ UNCHANGED <<bindVars, refcnt, irqVars, master, orderly>>

FreeIrq(c) ==
    /\ pc[c] = "freeIrq"
    /\ handler' = IF irq THEN FALSE ELSE handler
    /\ irq' = FALSE
    /\ silenced' = FALSE
    /\ Goto(c, "freeVectors")
    /\ UNCHANGED <<bindVars, refcnt, mode, vectors, intxDisabled, vecMasked, master,
                   orderly>>

\* mode keeps its value.
FreeVectors(c) ==
    /\ pc[c] = "freeVectors"
    /\ vectors' = IF mode = vectors THEN "none" ELSE vectors
    /\ Goto(c, "clearMaster")
    /\ UNCHANGED <<bindVars, refcnt, irq, mode, handler,
                   maskVars, master, orderly>>

ClearMaster(c) ==
    /\ pc[c] = "clearMaster"
    /\ master' = FALSE
    /\ Goto(c, "closed")
    /\ UNCHANGED <<bindVars, refcnt, irqVars, orderly>>

-------------------------------------------------------------------------------
\* igbuio_pci_remove

\* Whether remove meets at most one file, and no call under way.
InOrder ==
    /\ \A f \in Files : pc[f] \in Resting
    /\ Cardinality({f \in Files : pc[f] = "open"}) <= 1

Remove ==
    /\ devPc = "bound"
    /\ devPc' = "release"
    /\ DecAndTest(Remover)
    /\ orderly' = InOrder
    /\ UNCHANGED <<preferred, cardVars, irqVars, master>>

RemoveGroup ==
    /\ devPc = "release"
    /\ pc[Remover] = "closed"
    /\ devPc' = "unregister"
    /\ held' = held \ {"sysfs"}
    /\ UNCHANGED <<preferred, barVars, pc, refcnt, irqVars, master, orderly>>

UnregisterUio ==
    /\ devPc = "unregister"
    /\ \A f \in Files : pc[f] \in Resting
    /\ devPc' = "free"
    /\ held' = held \ {"uio"}
    /\ UNCHANGED <<preferred, barVars, pc, refcnt, irqVars, master, orderly>>

RemoveFrees ==
    /\ devPc = "free"
    /\ devPc' = "unbound"
    /\ mapped' = 0
    /\ master' = FALSE
    /\ held' = held \ {"enabled", "udev"}
    /\ UNCHANGED <<preferred, bar, iom, iop, pc, refcnt, irqVars, orderly>>

-------------------------------------------------------------------------------
\* Interrupts

\* igbuio_msix_mask_irq, igbuio_msi_mask_irq: MSI only where the card has a bit.
MaskIrq(on) ==
    vecMasked' = IF mode = "MSIX" \/ (mode = "MSI" /\ MsiMaskBit)
                   THEN ~ on
                   ELSE vecMasked

Intx(on) ==
    intxDisabled' = IF mode = "LEGACY" THEN ~ on ELSE intxDisabled

\* igbuio_pci_irqcontrol, a write to the UIO device.
IrqControl(f, on) ==
    /\ pc[f] = "open"
    /\ "uio" \in held
    /\ MaskIrq(on)
    /\ Intx(on)
    /\ silenced' = (~ on /\ mode # "NONE")
    /\ UNCHANGED <<bindVars, pc, refcnt, irq, mode, vectors,
                   handler, master, orderly>>

\* pci_check_and_mask_intx for an interrupt of this card.  The version in
\* compat.h sets the bit only if the whole status is 0, which it is not when the
\* interrupt is pending, and clears it otherwise.
CheckAndMaskIntx == intxDisabled' = NativeIntx

\* The card raises an interrupt, and igbuio_pci_irqhandler notifies UIO.
Interrupt ==
    /\ handler
    /\ "udev" \in held
    /\ \/ /\ mode = "LEGACY"
          /\ ~ intxDisabled
          /\ CheckAndMaskIntx
          /\ silenced' = TRUE
       \/ /\ mode \in Vectored
          /\ ~ vecMasked
          /\ UNCHANGED <<intxDisabled, silenced>>
    /\ UNCHANGED <<bindVars, pc, refcnt, irq, mode, vectors,
                   handler, vecMasked, master, orderly>>

-------------------------------------------------------------------------------
ProbeNext ==
    \/ Probe \/ EnableDevice \/ SetupBar \/ SetupBarsEnds \/ SetDmaMask
    \/ CreateGroup \/ RegisterUio \/ SetDrvdata
    \/ FailGroup \/ FailIomem \/ FailFree

RemoveNext == Remove \/ RemoveGroup \/ UnregisterUio \/ RemoveFrees

OpenNext(f) ==
    \/ Open(f) \/ SetMaster(f) \/ EnableInterrupts(f) \/ RequestIrq(f)
    \/ OpenFails(f) \/ Release(f) \/ CloseStale(f)
    \/ \E on \in BOOLEAN : IrqControl(f, on)

ReleaseNext(c) == FreeIrq(c) \/ FreeVectors(c) \/ ClearMaster(c)

UioNext ==
    \/ \E intrStr \in {"null", "msix", "msi", "legacy", "none"} :
         InitModule(intrStr)
    \/ ExitModule
    \/ ProbeNext
    \/ RemoveNext
    \/ \E f \in Files : OpenNext(f)
    \/ \E c \in Callers : ReleaseNext(c)
    \/ Interrupt

\* The kernel stays the one that was booted.
Next == UioNext /\ UNCHANGED uioLocks

Spec == Init /\ [][Next]_vars

-------------------------------------------------------------------------------
(***************************************************************************)
(* The atomic count is the number of files that the driver owes a release, *)
(* less the one release that remove makes, however calls overlap, fail and *)
(* race with remove.                                                       *)
(***************************************************************************)
RefcntIsOpeners ==
    "uio" \in held =>
      refcnt + (IF devPc \in RemovePcs THEN 1 ELSE 0) =
        Cardinality(Holders(pc))

Bound == devPc \in {"drvdata", "bound"}

(***************************************************************************)
(* Two files never set up interrupts at the same time, with or without a   *)
(* lock in the UIO core.                                                   *)
(***************************************************************************)
OneEnabler ==
    Bound => \A f, g \in Files :
      {pc[f], pc[g]} \subseteq Enabling => f = g

(***************************************************************************)
(* With files served one at a time, a file that is open has a working card *)
(* below it - DMA, vectors, and a handler unless there are no interrupts - *)
(* and no handler is left behind by the last one, even after failed opens. *)
(***************************************************************************)
OpenMeansEnabled ==
    uioLocks /\ Bound /\ (\A f \in Files : pc[f] \in Resting) =>
      IF \E f \in Files : pc[f] = "open"
        THEN /\ master
             /\ handler <=> mode # "NONE"
             /\ mode \in Vectored => vectors = mode
        ELSE ~ handler

(***************************************************************************)
(* With files served one at a time, request_irq meets no handler of this   *)
(* card, and free_irq frees one that was requested.                        *)
(***************************************************************************)
IrqPaired ==
    uioLocks /\ Bound => \A f \in Files :
      /\ pc[f] = "request" /\ irq => ~ handler
      /\ pc[f] = "freeIrq" /\ irq => handler

(***************************************************************************)
(* Whatever call of probe fails, and after remove: nothing that probe      *)
(* acquired is kept.                                                       *)
(***************************************************************************)
NothingKept == devPc = "unbound" => held = {} /\ mapped = 0

(***************************************************************************)
(* A card that is unbound in good order (at most one file, at rest, and no *)
(* later open) leaves no interrupt handler with a freed device.            *)
(***************************************************************************)
OrderlyRemoveQuiesces ==
    uioLocks /\ devPc = "unbound" /\ orderly => ~ handler

(***************************************************************************)
(* "It can be used to disable/enable interrupt from user space processes": *)
(* vectors that irqcontrol switched off are masked until it switches them  *)
(* on or the device is closed.                                             *)
(***************************************************************************)
VectorsStayOff ==
    uioLocks /\ Bound /\ silenced /\ mode \in Vectored => vecMasked

(***************************************************************************)
(* "If yes, disable it here and will be enable later": a legacy interrupt  *)
(* that the handler or irqcontrol switched off is masked until irqcontrol  *)
(* switches it on or the device is closed.                                 *)
(***************************************************************************)
LegacyStaysOff ==
    uioLocks /\ Bound /\ silenced /\ mode = "LEGACY" => intxDisabled

(***************************************************************************)
(* What the code does keep, with files served one at a time: interrupts    *)
(* that are off stay off, whatever other files open, fail to open, close   *)
(* and switch meanwhile, except MSI vectors without a mask bit and legacy  *)
(* interrupts of a kernel that needs compat.h.                             *)
(***************************************************************************)
StaysSilent ==
    /\ MsiMaskBit \/ mode # "MSI" => VectorsStayOff
    /\ NativeIntx => LegacyStaysOff
===============================================================================
