------------------------------ MODULE PcieProbe ------------------------------
(***************************************************************************)
(* The life of one device of the PCIe driver: module load, probe_one with  *)
(* all that xdma_device_open acquires, the sha256 nodes, resets by the PCI *)
(* error handlers, remove_one and module unload; any step may fail.  One   *)
(* thread does all this under the device lock; programs open the nodes and *)
(* write at the same time, and interrupts and work items come in between.  *)
(*                                                                         *)
(* hold counts what is acquired, so that a second release shows.  Of the   *)
(* transfers of a channel only one is seen: XdmaEngine has the details.    *)
(***************************************************************************)
EXTENDS Integers, FiniteSetsExt

CONSTANTS
  Channels,    \* XDMA_CHANNEL_NUM_MAX (4): engines in each direction, at most
  UserMax,     \* MAX_USER_IRQ (16)
  ProbeFaults, \* what may go wrong, see FaultNames
  MaxProbes    \* bound: times the device is probed

(* Steps that may fail, then things that may happen: a card without a user *)
(* BAR, removal of a device that is down, a reset in poll mode, a program  *)
(* that closes while the engine has work for it, one that uses a node      *)
(* before sha256_create is through, removal while a node is open.          *)
FaultNames ==
  {"cache", "register", "xpdev", "xdev", "threads", "enable", "regions",
   "map", "config", "mask", "engine", "vectors", "chan_irq", "user_irq",
   "shared_irq", "chrdev", "cdev_add", "node", "online_irq",
   "nouser", "lost", "poll_reset", "hasty", "early", "unplug"}

ASSUME ProbeAssumption ==
  /\ Channels \in Nat \ {0} /\ UserMax \in Nat /\ MaxProbes \in Nat
  /\ ProbeFaults \subseteq FaultNames

VARIABLES
  card,        \* what is fixed: poll_mode, interrupt mode, BARs, engines
  place, index, \* where the probing thread is, and its loop counter
  hold,        \* how often each resource is held
  xdev, xpdev, \* struct xdma_dev and struct xdma_pci_dev
  chan_int,    \* the channel interrupts are enabled in the card
  file,        \* channels whose node is open
  dma,         \* the transfer of each channel: "idle", "running", "over" for
               \* the hardware, "stopped" by a reset
  nowait,      \* channels whose transfer was submitted with O_NONBLOCK
  queued,      \* channels whose work item is queued
  probes, refused   \* probes so far, and those that found the regions taken

devVars == <<xdev, xpdev, chan_int>>
fileVars == <<file, dma, nowait, queued>>
countVars == <<probes, refused>>
probeVars == <<card, place, index, hold, devVars, fileVars, countVars>>

-----------------------------------------------------------------------------
(* Engine e is H2C channel e below Channels and C2H channel e - Channels   *)
(* above.  MSI-X gives a line to each engine and to each user interrupt,   *)
(* MSI and legacy interrupts share one.                                    *)
Engines == 0..(2 * Channels - 1)
UserLines == (2 * Channels)..(2 * Channels + UserMax - 1)
SharedLine == 2 * Channels + UserMax
BarSlots == 0..5

Single(name) == <<name, 0>>

DeviceResources ==
  (({"xpdev", "xdev", "list", "threads", "enable", "regions", "vectors",
     "chrdev"} \X {0})
   \cup ({"bar"} \X BarSlots)
   \cup ({"desc", "writeback"} \X Engines)
   \cup ({"irq"} \X (0..SharedLine))
   \cup ({"cdev", "node"} \X (0..(Channels - 1))))

Resources == DeviceResources \cup ({"class", "cache"} \X {0})

Held(name, n) == hold[<<name, n>>] > 0

Acquire(rs) ==
  hold' = [r \in Resources |-> IF r \in rs THEN hold[r] + 1 ELSE hold[r]]

Release(rs) ==
  hold' = [r \in Resources |-> IF r \in rs THEN hold[r] - 1 ELSE hold[r]]

NewXdev ==
  [bars |-> {}, user_bar |-> -1, got_regions |-> FALSE,
   regions_in_use |-> FALSE, h2c |-> Channels, c2h |-> Channels,
   magic |-> {}, msix |-> FALSE, msi |-> FALSE, irq_line |-> FALSE,
   lines |-> {}, offline |-> TRUE]

NewXpdev ==
  [xdev |-> FALSE, closing |-> FALSE, h2c |-> Channels, major |-> FALSE,
   magic |-> {}, sys |-> {}, wqh |-> {}]

(* The BARs a card may have, in their order; 64-bit BARs take two slots. *)
Layouts ==
  {<<"user", "config">>, <<"user", "config", "bypass">>} \cup
  IF "nouser" \in ProbeFaults
  THEN {<<"config">>, <<"config", "bypass">>} ELSE {}

Cards ==
  [poll : BOOLEAN, mode : {"msix", "msi", "legacy"}, h2c : 0..Channels,
   c2h : 0..Channels, bars : Layouts, wide : BOOLEAN]

ProbeInit ==
  /\ card \in Cards
  /\ place = "out" /\ index = 0
  /\ hold = [r \in Resources |-> 0]
  /\ xdev = NewXdev /\ xpdev = NewXpdev /\ chan_int = FALSE
  /\ file = {} /\ nowait = {} /\ queued = {}
  /\ dma = [c \in 0..(Channels - 1) |-> "idle"]
  /\ probes = 0 /\ refused = 0

(* A step of the probing thread, from one place to another. *)
At(l) == place = l
Go(l) == place' = l /\ index' = 0
Loop == place' = place /\ index' = index + 1

Fails(f) == f \in ProbeFaults

-----------------------------------------------------------------------------
(* xdma_mod_init and xdma_mod_exit.  A class left behind by a load that    *)
(* failed makes class_create refuse the next one.                          *)

ModInit ==
  /\ At("out") /\ ~Held("class", 0)
  /\ \/ /\ Acquire({Single("class"), Single("cache")})
        /\ Go("unbound")
     \/ /\ Fails("cache")
        /\ Acquire({Single("class")})
        /\ Go("out")
     \/ /\ Fails("register")
        /\ Acquire({Single("class"), Single("cache")})
        /\ Go("out")
  /\ UNCHANGED <<card, devVars, fileVars, countVars>>

ModExit ==
  /\ At("unbound")
  /\ Release({Single("class"), Single("cache")})
  /\ Go("out")
  /\ UNCHANGED <<card, devVars, fileVars, countVars>>

-----------------------------------------------------------------------------
(* xdma_device_open *)

(* probe_one allocates the outer structure. *)
XpdevAlloc ==
  /\ At("unbound") /\ probes < MaxProbes
  /\ probes' = probes + 1
  /\ \/ /\ Acquire({Single("xpdev")})
        /\ xpdev' = NewXpdev
        /\ Go("xdev")
     \/ /\ Fails("xpdev")
        /\ Go("unbound")
        /\ UNCHANGED <<hold, xpdev>>
  /\ UNCHANGED <<card, xdev, chan_int, fileVars, refused>>

(* The device is offline until everything is there. *)
AllocDevInstance ==
  /\ At("xdev")
  /\ \/ /\ Acquire({Single("xdev")})
        /\ xdev' = NewXdev
        /\ Go("list")
     \/ /\ Fails("xdev")
        /\ Go("err_out")
        /\ UNCHANGED <<hold, xdev>>
  /\ UNCHANGED <<card, xpdev, chan_int, fileVars, countVars>>

(* The first device of the list creates the threads of poll mode. *)
XdevListAdd ==
  /\ At("list")
  /\ \/ /\ Acquire({Single("list")} \cup
                   IF card.poll THEN {Single("threads")} ELSE {})
        /\ Go("enable")
     \/ /\ card.poll /\ Fails("threads")
        /\ Go("free_xdev")
        /\ UNCHANGED hold
  /\ UNCHANGED <<card, devVars, fileVars, countVars>>

PciEnableDevice ==
  /\ At("enable")
  /\ \/ /\ Acquire({Single("enable")})
        /\ Go("regions")
     \/ /\ Fails("enable")
        /\ Go("err_enable")
        /\ UNCHANGED hold
  /\ UNCHANGED <<card, devVars, fileVars, countVars>>

RequestRegions ==
  /\ At("regions")
  /\ \/ /\ Acquire({Single("regions")})
        /\ xdev' = [xdev EXCEPT !.got_regions = TRUE]
        /\ Go("map")
        /\ UNCHANGED refused
     \/ /\ Fails("regions")
        /\ xdev' = [xdev EXCEPT !.regions_in_use = TRUE]
        /\ refused' = refused + 1
        /\ Go("err_regions")
        /\ UNCHANGED hold
  /\ UNCHANGED <<card, xpdev, chan_int, fileVars, probes>>

(* The slot of the nth BAR of the card. *)
Slot(n) == IF card.wide THEN 2 * (n - 1) ELSE n - 1

Present == {Slot(n) : n \in DOMAIN card.bars}

MappedBars == {<<"bar", b>> : b \in xdev.bars}

UnmapBars ==
  /\ Release(MappedBars)
  /\ xdev' = [xdev EXCEPT !.bars = {}]

(* map_single_bar, for the slots in turn. *)
MapSingleBar ==
  /\ At("map") /\ index \in BarSlots
  /\ \/ /\ index \notin Present
        /\ Loop
        /\ UNCHANGED <<hold, xdev>>
     \/ /\ index \in Present
        /\ Acquire({<<"bar", index>>})
        /\ xdev' = [xdev EXCEPT !.bars = @ \cup {index}]
        /\ Loop
     \/ /\ index \in Present /\ Fails("map")
        /\ UnmapBars
        /\ Go("err_map")
  /\ UNCHANGED <<card, xpdev, chan_int, fileVars, countVars>>

(* identify_bars: the slot of the user BAR, found from the number of BARs  *)
(* and the position of the configuration BAR among them (from 0).          *)
UserBar(bars) ==
  LET num == Cardinality(DOMAIN bars)
      pos == (CHOOSE n \in DOMAIN bars : bars[n] = "config") - 1
  IN  IF (num = 2 /\ pos = 1) \/ (num \in {3, 4} /\ pos \in {1, 2})
      THEN Slot(1) ELSE -1

MapBars ==
  /\ At("map") /\ index \notin BarSlots
  /\ \/ /\ xdev' = [xdev EXCEPT !.user_bar = UserBar(card.bars)]
        /\ Go("mask")
        /\ UNCHANGED hold
     \/ /\ Fails("config")
        /\ UnmapBars
        /\ Go("err_map")
  /\ UNCHANGED <<card, xpdev, chan_int, fileVars, countVars>>

(* Mutant of SetDmaMask: a failure leaves by the label after the BARs. *)
SetDmaMaskLabel ==
  /\ At("mask")
  /\ \/ Go("engines") /\ chan_int' = FALSE
     \/ Fails("mask") /\ Go("err_map") /\ UNCHANGED chan_int
  /\ UNCHANGED <<card, hold, xdev, xpdev, fileVars, countVars>>

(* A card may come with interrupts enabled: they are turned off. *)
SetDmaMask ==
  /\ At("mask")
  /\ \/ Go("engines") /\ chan_int' = FALSE
     \/ Fails("mask") /\ Go("err_mask") /\ UNCHANGED chan_int
  /\ UNCHANGED <<card, hold, xdev, xpdev, fileVars, countVars>>

EngineResources(e) ==
  {<<"desc", e>>} \cup IF card.poll THEN {<<"writeback", e>>} ELSE {}

EngineFound ==
  index % Channels < (IF index < Channels THEN card.h2c ELSE card.c2h)

(* engine_init, with the loop of probe_engines over both directions; what  *)
(* engine_alloc_resource got before it failed it has freed again, but the  *)
(* engine keeps its magic.                                                 *)
ProbeForEngine ==
  /\ At("engines") /\ index \in Engines /\ EngineFound
  /\ Acquire(EngineResources(index))
  /\ xdev' = [xdev EXCEPT !.magic = @ \cup {index}]
  /\ Loop
  /\ UNCHANGED <<card, xpdev, chan_int, fileVars, countVars>>

(* The first channel that is not there, or fails, ends a direction. *)
ProbeEnginesBreak ==
  /\ At("engines") /\ index \in Engines
  /\ ~EngineFound \/ Fails("engine")
  /\ LET x == IF EngineFound THEN [xdev EXCEPT !.magic = @ \cup {index}] ELSE xdev
     IN  IF index < Channels
         THEN /\ xdev' = [x EXCEPT !.h2c = index]
              /\ index' = Channels /\ place' = place
         ELSE /\ xdev' = [x EXCEPT !.c2h = index - Channels]
              /\ Go("vectors")
  /\ UNCHANGED <<card, hold, xpdev, chan_int, fileVars, countVars>>

ProbeEnginesEnd ==
  /\ At("engines") /\ index \notin Engines
  /\ Go("vectors")
  /\ UNCHANGED <<card, hold, devVars, fileVars, countVars>>

(* pci_alloc_irq_vectors or pci_enable_msi; the flag is set in any case. *)
EnableMsiMsix ==
  /\ At("vectors")
  /\ xdev' = [xdev EXCEPT !.msix = card.mode = "msix", !.msi = card.mode = "msi"]
  /\ \/ /\ Acquire(IF card.mode = "legacy" THEN {} ELSE {Single("vectors")})
        /\ Go("irqs")
     \/ /\ Fails("vectors") /\ card.mode # "legacy"
        /\ Go("err_engines")
        /\ UNCHANGED hold
  /\ UNCHANGED <<card, xpdev, chan_int, fileVars, countVars>>

-----------------------------------------------------------------------------
(* irq_setup and irq_teardown.                                             *)

(* The engines the loops over the channels reach. *)
Served == (0..(xdev.h2c - 1)) \cup (Channels..(Channels + xdev.c2h - 1))

Lines(ls) == {"irq"} \X ls

(* Lines are asked for in ascending order. *)
Wanted == IF xdev.msix THEN Served \cup UserLines ELSE {SharedLine}

(* Lines ls are there: an engine knows its own, xdev the shared one. *)
WithLines(ls) ==
  [xdev EXCEPT !.lines = @ \cup (ls \cap Engines), !.irq_line = @ \/ ~xdev.msix]

IrqSetup ==
  /\ Acquire(Lines(Wanted))
  /\ xdev' = WithLines(Wanted)

(* Line l is refused.  The user lines before it are given back, the lines  *)
(* of engines are not.                                                     *)
IrqSetupFails(l) ==
  LET got == {m \in Wanted \cap Engines : m < l}
  IN  /\ Acquire(Lines(got))
      /\ xdev' = WithLines(got)

LineFault(l) ==
  IF l \in Engines THEN "chan_irq"
  ELSE IF l \in UserLines THEN "user_irq" ELSE "shared_irq"

(* Of the engines, those before the first one without a line. *)
IrqTeardown ==
  Release(Lines(
    IF xdev.msix
    THEN UserLines \cup
         {e \in Served : \A d \in Served :
             (d < Channels <=> e < Channels) /\ d <= e => d \in xdev.lines}
    ELSE IF xdev.irq_line THEN {SharedLine} ELSE {}))

OpenIrqs ==
  /\ At("irqs")
  /\ \/ IrqSetup /\ Go("up")
     \/ \E l \in Wanted :
          Fails(LineFault(l)) /\ IrqSetupFails(l) /\ Go("err_msix")
  /\ UNCHANGED <<card, xpdev, chan_int, fileVars, countVars>>

(* The end of xdma_device_open, and probe_one up to the interfaces. *)
OpenDone ==
  /\ At("up")
  /\ chan_int' = ~card.poll
  /\ xdev' = [xdev EXCEPT !.offline = FALSE]
  /\ xpdev' = [xpdev EXCEPT !.xdev = TRUE, !.h2c = xdev.h2c]
  /\ Go("create")
  /\ UNCHANGED <<card, hold, fileVars, countVars>>

-----------------------------------------------------------------------------
(* The error labels of xdma_device_open, which xdma_device_close goes      *)
(* through as well.                                                        *)

(* Mutant of DeviceClose: the lines are not given back. *)
DeviceCloseKeepsLines ==
  /\ At("close")
  /\ chan_int' = FALSE
  /\ Go("err_msix")
  /\ UNCHANGED <<card, hold, xdev, xpdev, fileVars, countVars>>

(* channel_interrupts_disable and irq_teardown. *)
DeviceClose ==
  /\ At("close")
  /\ chan_int' = FALSE
  /\ IrqTeardown
  /\ Go("err_msix")
  /\ UNCHANGED <<card, xdev, xpdev, fileVars, countVars>>

DisableMsiMsix ==
  /\ At("err_msix")
  /\ Release(IF xdev.msix \/ xdev.msi THEN {Single("vectors")} ELSE {})
  /\ xdev' = [xdev EXCEPT !.msix = FALSE, !.msi = @ /\ xdev.msix]
  /\ Go("err_engines")
  /\ UNCHANGED <<card, xpdev, chan_int, fileVars, countVars>>

(* Engines past the channel count are not looked at. *)
RemoveEngines ==
  /\ At("err_engines")
  /\ Release({r \in UNION {EngineResources(e) : e \in Served \cap xdev.magic} :
                hold[r] > 0})
  /\ xdev' = [xdev EXCEPT !.magic = @ \ Served]
  /\ Go("err_mask")
  /\ UNCHANGED <<card, xpdev, chan_int, fileVars, countVars>>

UnwindBars ==
  /\ At("err_mask")
  /\ UnmapBars
  /\ Go("err_map")
  /\ UNCHANGED <<card, xpdev, chan_int, fileVars, countVars>>

ReleaseRegions ==
  /\ At("err_map")
  /\ Release(IF xdev.got_regions THEN {Single("regions")} ELSE {})
  /\ Go("err_regions")
  /\ UNCHANGED <<card, devVars, fileVars, countVars>>

DisableDevice ==
  /\ At("err_regions")
  /\ Release(IF xdev.regions_in_use THEN {} ELSE {Single("enable")})
  /\ Go("err_enable")
  /\ UNCHANGED <<card, devVars, fileVars, countVars>>

XdevListRemove ==
  /\ At("err_enable")
  /\ Release({Single("list")} \cup IF card.poll THEN {Single("threads")} ELSE {})
  /\ Go("free_xdev")
  /\ UNCHANGED <<card, devVars, fileVars, countVars>>

FreeXdev ==
  /\ At("free_xdev")
  /\ Release({Single("xdev")})
  /\ Go(IF xpdev.closing THEN "free_xpdev" ELSE "err_out")
  /\ UNCHANGED <<card, devVars, fileVars, countVars>>

-----------------------------------------------------------------------------
(* xpdev_create_interfaces and xpdev_destroy_interfaces.                   *)

(* sha256_create up to the device node: the first channel gets the major   *)
(* number for all.                                                         *)
Sha256Create ==
  /\ At("create") /\ index < xpdev.h2c
  /\ \/ /\ Acquire({<<"cdev", index>>} \cup
                   IF xpdev.major THEN {} ELSE {Single("chrdev")})
        /\ xpdev' = [xpdev EXCEPT !.major = TRUE, !.magic = @ \cup {index}]
        /\ place' = "node" /\ UNCHANGED index
     \/ /\ ~xpdev.major /\ Fails("chrdev")
        /\ Go("create_fail")
        /\ UNCHANGED <<hold, xpdev>>
     \/ /\ Fails("cdev_add")
        /\ Release(IF xpdev.major THEN {Single("chrdev")} ELSE {})
        /\ xpdev' = [xpdev EXCEPT !.major = TRUE, !.magic = @ \cup {index}]
        /\ Go("create_fail")
  /\ UNCHANGED <<card, xdev, chan_int, fileVars, countVars>>

(* device_create reports a failure by an error pointer, which is not NULL. *)
DeviceCreate ==
  /\ At("node")
  /\ xpdev' = [xpdev EXCEPT !.sys = @ \cup {index}]
  /\ \/ Acquire({<<"node", index>>})
     \/ Fails("node") /\ UNCHANGED hold
  /\ place' = "wqh" /\ UNCHANGED index
  /\ UNCHANGED <<card, xdev, chan_int, fileVars, countVars>>

InitWaitqueue ==
  /\ At("wqh")
  /\ xpdev' = [xpdev EXCEPT !.wqh = @ \cup {index}]
  /\ place' = "create" /\ index' = index + 1
  /\ UNCHANGED <<card, hold, xdev, chan_int, fileVars, countVars>>

ProbeDone ==
  /\ At("create") /\ index = xpdev.h2c
  /\ Go("live")
  /\ UNCHANGED <<card, hold, devVars, fileVars, countVars>>

(* The channels sha256_destory accepts. *)
Destroyed == xpdev.magic \cap (0..(xpdev.h2c - 1))

DestroyInterfaces ==
  Release(({"cdev"} \X Destroyed)
          \cup {<<"node", c>> : c \in {d \in Destroyed \cap xpdev.sys : Held("node", d)}}
          \cup IF xpdev.major THEN {Single("chrdev")} ELSE {})

CreateFails ==
  /\ At("create_fail")
  /\ DestroyInterfaces
  /\ Go("err_out")
  /\ UNCHANGED <<card, devVars, fileVars, countVars>>

(* The message about a channel that sha256_destory refuses reads           *)
(* xpdev->xdev->idx.                                                       *)
MessageNeedsXdev == Destroyed # 0..(xpdev.h2c - 1)

(* Mutant of XpdevFree: the device is closed under its nodes. *)
XpdevFreeKeepsNodes ==
  /\ At("err_out")
  /\ ~MessageNeedsXdev \/ xpdev.xdev
  /\ xpdev' = [xpdev EXCEPT !.xdev = FALSE, !.closing = xpdev.xdev]
  /\ Go(IF xpdev.xdev THEN "close" ELSE "free_xpdev")
  /\ UNCHANGED <<card, hold, xdev, chan_int, fileVars, countVars>>

(* xpdev_free; a failed probe_one and remove_one both come here. *)
XpdevFree ==
  /\ At("err_out")
  /\ ~MessageNeedsXdev \/ xpdev.xdev
  /\ DestroyInterfaces
  /\ xpdev' = [xpdev EXCEPT !.xdev = FALSE, !.closing = xpdev.xdev]
  /\ Go(IF xpdev.xdev THEN "close" ELSE "free_xpdev")
  /\ UNCHANGED <<card, xdev, chan_int, fileVars, countVars>>

(* The probing thread dies at the NULL pointer, the device lock held. *)
XpdevFreeOops ==
  /\ At("err_out")
  /\ MessageNeedsXdev /\ ~xpdev.xdev
  /\ Go("oops")
  /\ UNCHANGED <<card, hold, devVars, fileVars, countVars>>

FreeXpdev ==
  /\ At("free_xpdev")
  /\ Release({Single("xpdev")})
  /\ Go("unbound")
  /\ UNCHANGED <<card, devVars, fileVars, countVars>>

(* Unloading the module needs all nodes closed, unbinding does not. *)
RemoveOne ==
  /\ At("live") \/ (place \in {"frozen", "reset"} /\ Fails("lost"))
  /\ file = {} \/ Fails("unplug")
  /\ Go("err_out")
  /\ UNCHANGED <<card, hold, devVars, fileVars, countVars>>

-----------------------------------------------------------------------------
(* xdma_device_offline and xdma_device_online, for an error that freezes   *)
(* the channel and for a reset.                                            *)

(* New transfers are refused and the engines stop. *)
GoOffline ==
  /\ At("live") /\ (card.poll => Fails("poll_reset"))
  /\ xdev' = [xdev EXCEPT !.offline = TRUE]
  /\ dma' = [c \in DOMAIN dma |-> IF dma[c] = "idle" THEN "idle" ELSE "stopped"]
  /\ Go("offline")
  /\ UNCHANGED <<card, hold, xpdev, chan_int, file, nowait, queued, countVars>>

OfflineIrqs ==
  /\ At("offline")
  /\ chan_int' = FALSE
  /\ IrqTeardown
  /\ Go("reset") \/ Go("error")
  /\ UNCHANGED <<card, xdev, xpdev, fileVars, countVars>>

ErrorDisables ==
  /\ At("error")
  /\ Release({Single("enable")})
  /\ Go("frozen")
  /\ UNCHANGED <<card, devVars, fileVars, countVars>>

SlotReset ==
  /\ At("frozen")
  /\ Acquire({Single("enable")})
  /\ Go("reset")
  /\ UNCHANGED <<card, devVars, fileVars, countVars>>

(* Mutant of OnlineIrqs: the card's interrupts stay disabled. *)
OnlineIrqsMasked ==
  /\ At("reset")
  /\ IF card.poll THEN UNCHANGED <<hold, xdev>> ELSE IrqSetup
  /\ Go("online")
  /\ UNCHANGED <<card, xpdev, chan_int, fileVars, countVars>>

(* Whether irq_setup succeeded is not looked at. *)
OnlineIrqs ==
  /\ At("reset")
  /\ IF card.poll THEN UNCHANGED <<hold, xdev, chan_int>>
     ELSE /\ \/ IrqSetup
             \/ Fails("online_irq") /\ \E l \in Wanted : IrqSetupFails(l)
          /\ chan_int' = TRUE
  /\ Go("online")
  /\ UNCHANGED <<card, xpdev, fileVars, countVars>>

OnlineDone ==
  /\ At("online")
  /\ xdev' = [xdev EXCEPT !.offline = FALSE]
  /\ Go("live")
  /\ UNCHANGED <<card, hold, xpdev, chan_int, fileVars, countVars>>

-----------------------------------------------------------------------------
(* Programs, and the engines' interrupts.                                  *)

Removing ==
  place \in {"err_out", "close", "err_msix", "err_engines", "err_mask", "err_map",
            "err_regions", "err_enable", "free_xdev", "free_xpdev", "oops"}

OpenFile(c) ==
  /\ Held("node", c) /\ Held("cdev", c) /\ c \notin file
  /\ c \in xpdev.wqh \/ Fails("early")
  /\ ~Removing \/ Fails("unplug")
  /\ file' = file \cup {c}
  /\ UNCHANGED <<card, place, index, hold, devVars, dma, nowait, queued, countVars>>

(* xdma_xfer_submit, or xdma_xfer_submit_nowait for a file with O_NONBLOCK. *)
SubmitTransfer(c) ==
  /\ c \in file /\ dma[c] = "idle" /\ ~xdev.offline
  /\ dma' = [dma EXCEPT ![c] = "running"]
  /\ nowait' \in {nowait, nowait \cup {c}}
  /\ UNCHANGED <<card, place, index, hold, devVars, file, queued, countVars>>

(* What a reset stopped stays on the engine's list: the next write with    *)
(* O_NONBLOCK is queued behind it, and starts the engine at its head.      *)
SubmitBehind(c) ==
  /\ c \in file /\ dma[c] = "stopped" /\ c \in nowait /\ ~xdev.offline
  /\ dma' = [dma EXCEPT ![c] = "running"]
  /\ UNCHANGED <<card, place, index, hold, devVars, file, nowait, queued, countVars>>

Line(c) == IF xdev.msix THEN c ELSE SharedLine

(* The hardware is done: the interrupt queues the work item. *)
XdmaChannelIrq(c) ==
  /\ dma[c] = "running" /\ c \notin queued
  /\ ~card.poll /\ chan_int /\ Held("irq", Line(c))
  /\ dma' = [dma EXCEPT ![c] = "over"]
  /\ queued' = queued \cup {c}
  /\ UNCHANGED <<card, place, index, hold, devVars, file, nowait, countVars>>

(* engine_service in the work queue, or in a thread of poll mode.  A work  *)
(* item that is late only clears the status of an engine that was stopped, *)
(* and leaves a new transfer alone, or ends it if part of it is done.      *)
Service(c) ==
  /\ \/ c \in queued
     \/ card.poll /\ dma[c] = "running" /\ Held("threads", 0)
  /\ queued' = queued \ {c}
  /\ \/ /\ dma[c] \in {"running", "over"}
        /\ dma' = [dma EXCEPT ![c] = "idle"]
        /\ nowait' = nowait \ {c}
     \/ /\ c \in queued /\ dma[c] # "over"
        /\ UNCHANGED <<dma, nowait>>
  /\ UNCHANGED <<card, place, index, hold, devVars, file, countVars>>

(* The timeout of a blocking write, or a signal: the writer takes its      *)
(* transfer off the list.  Nobody waits for one submitted with O_NONBLOCK. *)
Expire(c) ==
  /\ dma[c] # "idle" /\ c \notin nowait
  /\ dma' = [dma EXCEPT ![c] = "idle"]
  /\ UNCHANGED <<card, place, index, hold, devVars, file, nowait, queued, countVars>>

CloseFile(c) ==
  /\ c \in file
  /\ (dma[c] = "idle" /\ c \notin queued) \/ Fails("hasty")
  /\ file' = file \ {c}
  /\ UNCHANGED <<card, place, index, hold, devVars, dma, nowait, queued, countVars>>

-----------------------------------------------------------------------------
XdmaDeviceOpen ==
  \/ AllocDevInstance \/ XdevListAdd \/ PciEnableDevice \/ RequestRegions
  \/ MapSingleBar \/ MapBars \/ SetDmaMask
  \/ ProbeForEngine \/ ProbeEnginesBreak \/ ProbeEnginesEnd
  \/ EnableMsiMsix \/ OpenIrqs \/ OpenDone

Unwind ==
  \/ DeviceClose \/ DisableMsiMsix \/ RemoveEngines \/ UnwindBars
  \/ ReleaseRegions \/ DisableDevice \/ XdevListRemove \/ FreeXdev

Interfaces ==
  \/ Sha256Create \/ DeviceCreate \/ InitWaitqueue \/ ProbeDone \/ CreateFails
  \/ XpdevFree \/ XpdevFreeOops \/ FreeXpdev

Reset ==
  \/ OfflineIrqs \/ ErrorDisables \/ SlotReset \/ OnlineIrqs \/ OnlineDone

ProbeNext ==
  \/ ModInit \/ ModExit \/ XpdevAlloc \/ RemoveOne \/ GoOffline
  \/ XdmaDeviceOpen \/ Unwind \/ Interfaces \/ Reset
  \/ \E c \in DOMAIN dma :
       \/ OpenFile(c) \/ SubmitTransfer(c) \/ SubmitBehind(c) \/ CloseFile(c)
       \/ XdmaChannelIrq(c) \/ Service(c) \/ Expire(c)

(* Interrupts are delivered, work items and threads run.  The timeout is   *)
(* counted on for what a reset has stopped, and for nothing else: with the *)
(* device up the transfers have to end by themselves.                      *)
ProbeSpec ==
  /\ ProbeInit /\ [][ProbeNext]_probeVars
  /\ \A c \in 0..(Channels - 1) :
       /\ WF_probeVars(XdmaChannelIrq(c)) /\ WF_probeVars(Service(c))
       /\ WF_probeVars(dma[c] = "stopped" /\ Expire(c))

-----------------------------------------------------------------------------
(* The failures the code does not clean up after, or cleans up twice.      *)
(* xdma_cdev_init and xdma_mod_init return without an undo ("cache",       *)
(* "register"); irq_setup keeps the channel lines it has got ("chan_irq",  *)
(* "user_irq", and "online_irq" where its result is not looked at);        *)
(* sha256_create gives the major number back, as xpdev_free does once more *)
(* ("cdev_add"); a device removed while it is down gives back again what   *)
(* the error handler has released ("lost"), and after a reset in poll mode *)
(* the lines are not there ("poll_reset").                                 *)
Uncleaned ==
  {"cache", "register", "chan_irq", "user_irq", "online_irq", "cdev_add",
   "lost", "poll_reset"}

(* If no failure of Uncleaned occurs: what xdma_device_open acquired is    *)
(* released when it reports a failure, all that belongs to the device once *)
(* it is unbound, and the rest when the module is gone.  A device whose    *)
(* regions are taken stays enabled: somebody uses it.  Nothing is released *)
(* that is not held, by whatever way a reset, an error label or the        *)
(* removal comes to the release.                                           *)
ResourcesBalanced ==
  /\ \A r \in Resources : hold[r] >= 0
  /\ place \in {"out", "unbound"} \/ (At("err_out") /\ ~Held("xdev", 0)) =>
       \A r \in DeviceResources \ {Single("xpdev")} :
         hold[r] = IF r = Single("enable") THEN refused ELSE 0
  /\ place \in {"out", "unbound"} => ~Held("xpdev", 0)
  /\ At("out") => ~Held("class", 0) /\ ~Held("cache", 0)

(* An interrupt or a work item finds the device and its engine: lines are  *)
(* given back before what their handlers use, work is through by then.     *)
(* This too is for a card on which no failure of Uncleaned occurs (a       *)
(* channel or user line that is refused leaves others behind), for         *)
(* programs that close a node when its channel has no work left, and for   *)
(* devices that are not removed under an open node.                        *)
HandlerHasDevice ==
  /\ \A l \in 0..SharedLine :
       Held("irq", l) => Held("xdev", 0) /\ xdev.bars # {} /\ Held("list", 0)
  /\ \A e \in Engines :
       Held("irq", e) \/ e \in queued => Held("desc", e) /\ e \in xdev.magic

(* A node that a program may open leads to an engine of a device whose     *)
(* user BAR, with the registers of the core, is mapped.  Besides what      *)
(* HandlerHasDevice asks for, the card has a user BAR and nodes are opened *)
(* once sha256_create is through.                                          *)
NodeHasDevice ==
  \A c \in 0..(Channels - 1) :
    Held("cdev", c) \/ c \in file =>
      /\ Held("xdev", 0) /\ Held("xpdev", 0) /\ c \in xdev.magic
      /\ \E n \in DOMAIN card.bars :
           card.bars[n] = "user" /\ Slot(n) = xdev.user_bar
      /\ xdev.user_bar \in xdev.bars
      /\ c \in file => c \in xpdev.wqh

(* Across resets, a transfer that runs is served or stopped, and one with  *)
(* a blocking write behind it ends.  One submitted with O_NONBLOCK has no  *)
(* timeout and xdma_device_online does not start it again: once stopped it *)
(* may wait for ever for the next write (SubmitBehind).                    *)
TransfersEnd ==
  \A c \in 0..(Channels - 1) :
    /\ dma[c] \in {"running", "over"} ~> dma[c] \in {"idle", "stopped"}
    /\ dma[c] # "idle" /\ c \notin nowait ~> dma[c] = "idle"

(* A probe that fails returns its error: the thread that called it, and    *)
(* the device lock it holds, survive.  The code does not keep this when    *)
(* xdma_device_open fails (XpdevFreeOops).                                 *)
FailedProbeReturns == ~At("oops")
=============================================================================
