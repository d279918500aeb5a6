# zynq_sha256 in TLA+

Specifications of the SHA-256 IP core, its bus wrappers and its Linux drivers,
the TLC configurations that check them, and TLAPS proofs. Paths are relative to
the repository.

## The system

**The core** (`sha256.v`, `sha256_chunk_process.v`, `sha256_chunk_compress.v`,
`sha256_k.v`). A four-state FSM (IDLE, LOAD, PROC, FINISH) with an 8-bit
counter drives a message schedule (a 16-word shift register with registered
sigmas) and a compression pipeline (three partial sums registered per round).
Words enter on `dat_vaild_i`; after sixteen the core is busy for the remaining
48 rounds and adds the block to `H8`. It must compute SHA-256 whatever the bus
does while it is busy, and may never wedge: both FSM tests are equalities on
the counter.

**The wrappers** put the core behind a bus. Each keeps a control register
(bit 0 soft reset, self-clearing; bit 1 interrupt enable; bit 8 busy, one cycle
late) and lets the digest be read.
* `sha256_axi_v1_0*`: AXI4-Lite; a write to words 16-31 is a word for the core.
  Nothing stops a write while the core is busy, so the driver has to wait.
* `sha256_stream_v1_0*`: AXI4-Stream sink with back-pressure for the words,
  AXI4-Lite for the register.
* `sha256_full_v1_0*`: AXI4 with bursts; WREADY is held back while busy, so a
  master may send a whole message without waiting. One burst at a time, in
  either direction.

They must lose or repeat no word, answer each request once, never believe a
stale busy bit, and always come to rest.

**The Zynq driver** (`bench/zynq_linux_driver`). A character device: `write`
copies a chunk to a DMA buffer, starts a transfer and sleeps until
`dma_callback` wakes it; `read` sleeps while the core is busy and copies the
hash registers; `open` resets the core. Process, callback (on any CPU), DMA
and core run concurrently, and signals may end a wait. What `write` reports
must have reached the core, `read` must return the digest of it, both must
return, and no transfer may be cut short or see its buffer change. `probe`
acquires eight resources one after the other, any of which may be refused, and
publishes the node before the last of them; its error labels and `remove` must
give back exactly what was had, and nothing that is in use.

**The PCIe driver** (`bench/pcie_linux_driver`). `hsha256.c` is a character
device over Xilinx's XDMA library (`libxdma.c`, `xdma_*.c`, `cdev_*.c`). A
write pins the user's pages and makes a request of them, which becomes one or
two transfers (a chain of descriptors does not run past the end of the ring).
A transfer is queued on the engine's list; an idle engine is started on the
head of the list. Each chain ends in an interrupt, whose handler masks it and
schedules a work item; that work item finishes the head, wakes its waiter or
runs its callback, and restarts the engine. A blocking write holds a mutex
while it waits, and aborts its transfer on a signal or timeout; a non-blocking
one returns, its callback frees everything and counts `submit_cnt` down, and
`poll` waits for a count of zero. Writers, interrupt, work item and hardware
run concurrently, the hardware may fail and the device may be taken offline.
The engine must never work on freed memory, what is reported as written must
have arrived, everything must be released and every call must return.

`xdma_mod.c`, `xdma_cdev.c` and the second half of `libxdma.c` bring a device
up (enable, regions, BARs, engines, interrupt vectors and lines, nodes), take
it down, and put it offline and online for resets of the PCI bus. Every step of
the way up has its own error path, interrupts come as soon as a line is
requested, and programs use the nodes meanwhile.

With `poll_mode = 1` there are no interrupts: the threads of `xdma_thread.c`
share the engines, sleep until a write sets their `schedule` flag, and then
watch the memory location to which an engine writes back its count of completed
descriptors. A thread must not touch an engine that is gone, believe a count of
an earlier transfer, or sleep while a write waits for it.

**The test program** (`bench/test_driver`) pads a file (`make_chunk`), writes
it and reads the digest, next to the digest a library computes of the same file.

What is hard about this code is listed, line by line, under `hazards` in
`PROJECT.json`: words presented to a busy core, a busy bit that is late or
overwritten, equality tests on a counter, pipeline registers across stalls,
lost responses; and in the drivers flags set after the event they guard,
wake-ups before the condition holds, waits nobody ends, transfers that outlive
their call, interrupts that arrive after their transfer was aborted, a ring
without a limit, error labels that release too much or too little, a node that
is published too early, a stale write-back.

## Modules

| module | models |
| --- | --- |
| `Sha256Fsm` | next state, counter, pipeline enable, busy: the control of `sha256.v` as operators; block length and rounds are parameters |
| `Sha256Words` | the word algebra as constants |
| `Sha256Core` | the core, one variable per register; `Clock` is a clock edge with any input, `Reset` the asynchronous reset |
| `Sha256Standard` | the abstract specification: the algorithm of FIPS 180-4, 6.2.2, a round per step |
| `Word32` | 32-bit words (sets of bit positions), mixing functions, `IV32`, the ROM |
| `MCSha256Core`, `MCSha256Refine` | the core with real words and the files `Padding` has padded; with a toy algebra and any input |
| `Padding` | `make_chunk` of the test program, and the bytes as words of the core |
| `TestProgram` | the test program's way from a file's length to what it writes; the standard's padding |
| `Sha256CoreProofs` | the theorems about the core |
| `Sha256Block` | the core as the wrappers see it: control registers exact, the hash value is the sequence of words hashed |
| `AxiLiteSlave` | the register slave, one operator per `always` block |
| `AxiLiteMaster` | external: a bus master within the AXI4-Lite rules |
| `Sha256AxiLite` | AXI4-Lite slave, core and a driver that waits for the interrupt or a poll between blocks |
| `AxiLiteProofs` | lemmas: the phases of a write and a read on the register bus, the core's control, multiples of a block |
| `Sha256AxiLiteProofs` | the theorems about `Sha256AxiLite` |
| `Sha256Stream`, `Sha256StreamProofs` | stream sink, register slave and core; the theorems about them |
| `AxiFullSlave` | the AXI4 slave, one operator per `always` block; addresses in words |
| `Sha256AxiFull` | AXI4 slave, core and a master within the AXI4 rules, with FIXED, INCR and WRAP bursts |
| `Sha256AxiFullProofs` | the theorems about `Sha256AxiFull` |
| `XdmaEngine` | ring, transfer list, hardware, interrupt, service, abort and offline of one engine of `libxdma.c` |
| `PcieSha256` | the PCIe character device on `XdmaEngine`: threads that write and poll, the callback |
| `PcieProbe` | the life of a PCIe device: module load, `probe_one`, `xdma_device_open`, nodes, resets, `remove_one`, unload |
| `PcieProofs` | the theorems about `PcieSha256`, without and with O_NONBLOCK, and about `PcieProbe` |
| `XdmaPoll` | poll mode: the completion threads, their engines, blocking writers, load and unload |
| `XdmaPollProofs` | the theorems about poll mode |
| `ZynqDriver` | the driver's file operations and callback, with DMA and core |
| `ZynqProbe` | `sha256_probe` and `sha256_remove` around `ZynqDriver` |
| `ZynqProofs` | the theorems about `ZynqProbe` and the driver in it |

In the hardware modules a step of `Next` is a clock edge: every register is
primed in it, and inputs are chosen by the environment. `Sha256Core!Clock` is
the conjunction of the `always` blocks of the four source files.

The wrappers use `Sha256Block` in place of `Sha256Core`. Both take their control
from `Sha256Fsm`, and `CoreImplementsStandard` is what justifies identifying the
data path with the sequence of words it has absorbed.

In `ZynqDriver` an action is a piece of code between two points where another
party can interfere. `pc` is the place in the file operation (`w_*` in
`sha256_write`, `r_*` in `sha256_read`), `cb` the place in `dma_callback`. A
wait tests its condition and sleeps in one step, because `wait_event` tests
with the process already on the queue; a wake-up sends the sleeper back to the
test. `should_copy`, the error paths and the order of the assignments are the
code's. A read copies the digest in two halves, so that it can be torn. DMA
and core are external; the DMA of the device tree has no scatter-gather engine
and does each descriptor once. The history variable `cut` records that a signal
made a write return before its transfer was over.

`ZynqProbe` composes this with the device's life: `rung` is the place on
`Ladder`, the resources in the order in which `sha256_probe` acquires them;
going up each rung may be had or refused, going down each is given back. `held`
counts, so that a second release would show. The node can be opened while it is
held and probe has returned.

In `XdmaEngine` everything done under one hold of `engine->lock` is a step, so
`EngineService` is the whole of `engine_service`; `PcieSha256!ServiceWork` adds
the completion callback, which runs under the same lock. Its loop over
transfers "completed by the engine, except for the last" is left out because a
chain always stops the engine: `CountFits` is the condition under which the loop
does nothing, and is checked. A descriptor is the number of the page it moves,
the core is the sequence of pages it has received, and a request that has been
freed has its transfers wiped. `held` says what is allocated for a request:
control block, pinned pages, DMA mapping, request. The counters are `Width`
bits wide. The hardware is external and stops at once when RUN is taken away;
the code gives no more, but the real engine may finish the descriptor it is on.

In `PcieProbe` one thread (`place`, loop counter `index`) walks through load, probe,
reset and removal, one step per resource acquired or released; `hold` counts
each of them. What kind of card is found (BARs, engines in either direction,
interrupt mode, poll mode) is chosen at the start. A transfer is only "running",
"over" (the hardware is done, its service still to come) or "stopped" by a reset
here, enough for an interrupt or a work item to meet a device on its way up or
down. `xdma_device_online` does not start a stopped one again. The blocking write
behind it gives up after `h2c_timeout` (`Expire`); one submitted with O_NONBLOCK
(`nowait`) has no timeout and stays until the next such write is queued behind it
and starts the engine at the head of its list (`SubmitBehind`). A step that may fail does so if its name is in `ProbeFaults`;
the error path taken is the code's, including the ones that lose or repeat a
release, which is why the run lists the faults it allows.

In `XdmaPoll` a thread (`thp[t].pc`) holds `thp->lock` while it goes through
its work list, so who else takes that lock waits for it; the test of the
write-back, its clearing and the service are separate steps, and the hardware
may write between any two of them. `schedule` is set and the thread woken as
the code does it, in two steps where it does it in two. A blocking write may give
up on a signal or timeout (`WriteGivesUp`): it stops the engine and takes its
transfer off the list, but nobody clears the write-back, so the engine's next
transfer may find the count of the last. The history variable `aborted` of an
engine records that a write has given up on it.

## Runs

| run | shows | bounds |
| --- | --- | --- |
| `core_digest` | files as the test program pads them have, with 32-bit words, the digests the test benches and the standard expect | three files (64 bytes, "abc", 56 bytes: one and two blocks, a length block of its own); pause before every word, noise while busy, reset at any time |
| `core_refines` | the core implements `Sha256Standard`; counter and sigmas stay in step; every block ends in an interrupt | words modulo 11, two messages of two blocks, any word on the bus while busy |
| `axi_lite` | no word lost or repeated, digest ready when the driver thinks so, each request answered once, every block hashed | blocks of 2 words and 8 rounds, 2 blocks, one read outstanding; interrupt or poll, control writes at any time |
| `axi_stream` | each handshaken word is taken once, polls can be believed, no word waits for ever | blocks of 2 words and 4 rounds, a message of 2 blocks, resets at any time |
| `zynq_driver` | (`ZynqProbe`) transfers undisturbed, what is reported has arrived, digests are right, all that was acquired is there while it is used and is released once, a signal gets a process out of every call | blocks of 2 words, two writes of 3 words in chunks of 2, signals at any time, two probes with any resource refused |
| `axi_full` | no word lost although the core holds beats back, addresses and beats of a burst right, each burst answered once and in the end, the digest final when announced | blocks of 4 words and 6 rounds, messages of up to 8 words, reads and writes FIXED, INCR and WRAP, one burst outstanding in each direction |
| `pcie_blocking` | no transfer of a freed request on the list, reported pages have arrived in one piece, calls return | two threads, writes of 1 or 2 pages, 3 pages, ring of 3; signals, DMA errors and offline at any time |
| `pcie_nonblocking` | no transfer of a freed request on the list although callbacks free them, descriptors are not overwritten, the engine's count never runs ahead of a chain, poll means delivered although `submit_cnt` is increased late, poll returns | one thread, three requests, 5 pages in a ring of 5 |
| `pcie_probe` | what a failed probe acquired is released once, interrupts, work items and open nodes find their device, what runs is served or stopped and blocking writes end across resets | 2 channels in each direction, 1 user interrupt, 2 probes, every kind of card, the thirteen faults of the cfg |
| `poll_mode` | threads touch only engines that live, a completed transfer has arrived unless a writer has given up on the engine, engines are shared out evenly, writes return without their timeout | 2 threads, 3 engines, the two engines with writers on one thread, 2 writes each of 2 descriptors, errors after the first descriptor, give-ups at any time |

Short blocks are enough for the wrappers because they only see when the core is
busy: with blocks of 2 words there is a first word (IDLE), a last word (the
busy flag rises) and a stall in between. The rounds have to outlast the way
from the last word to the answer of a poll, or a poll could never be wrong: 8
do behind the AXI4-Lite slave, where the write response comes first, 4 on the
stream. Two blocks make the second one start from the state the first one left. With an
algebra modulo 11 and quadratic mixing functions a wrong tap, constant or
operand gives a different word. A ring of 3 with writes of 2 pages splits a
request at every place and wraps; in `pcie_nonblocking` the ring holds all pages
a process may have under way. Writes of 3 words leave a partial chunk and a
partial block, which the second write completes. Two probes let the second
find what the first has left. In poll mode the two writers share a thread, so
that one's transfer is served while the other's is started, and the second
write of each finds the write-back of its first. `MaxWords`, `Blocks`,
`MaxReads`, `MaxWrites`, `MaxPages`, `MaxProbes` and `MaxLoads` are the bounds.

Two runs state what the repository says and the code does not do:

* `zynq_hang`: `dma_callback` wakes the writer before it clears `busy`, and
  `busy` is set after the transfer is started; either way the writer may sleep
  for ever. And after the last transfer nobody wakes a reader that waits for
  the core. (`CallsComplete` is about both calls; each half fails alone.)
* `test_padding`: for a file of 55 bytes modulo 64 the test program hashes a
  block of zeros too many (`main.rs:33`).

The passing runs stay inside limits that the code needs but does not enforce.
Outside of them the same properties fail:

* `MaxReads = 2` in `AxiLite.cfg`: a read accepted while RVALID is up is never
  answered (`ResponsesMatch`, `sha256_axi_v1_0_S00_AXI.v:344`).
* `MaxWrites = 2` in `AxiFull.cfg`: a burst that ends while BVALID is up gets no
  response (`ResponseMatchesBurst`, `sha256_full_v1_0_S00_AXI.v:357`).
* `"unbind"` in `ZynqDriver.cfg`, removal while the device is open, and
  `"early"`, an open before probe has returned: the device is used without all
  that it needs (`HeldWhileUsed`, `hsha256.c:62`). A write that a signal cuts
  short leaves its transfer running; the properties about transfers and
  resources say so with `cut`. A refused DMA channel is tested against NULL
  although it is an error pointer: the probe goes on and stops in an oops, which
  the model takes as its end.
* `DescMax` below `MaxPages` in `PcieNonblocking.cfg`: `desc_used` is not tested
  and a write overwrites the descriptors of a queued transfer (`RingIntact`,
  `libxdma.c:2985`).
* `Faults = {"error"}` there: the callback of a failed transfer is told of
  success, and poll reports the device ready (`ReadyMeansDelivered`,
  `libxdma.c:818`).
* `Faults = {"offline"}` there, with `NoLeak`: a non-blocking write that is
  refused frees nothing, although a comment leaves that to the callback
  (`hsha256.c:347`).
* two threads there: one may sleep in poll for ever (`CallsReturn`,
  `hsha256.c:351`).
* `PcieProbe.cfg` leaves out twelve failures. The eight of `Uncleaned` break
  `ResourcesBalanced`: `"cache"` and `"register"` lose the class or the cache,
  `"chan_irq"` and `"user_irq"` lose the lines requested before, and
  `"cdev_add"`, `"online_irq"`, `"lost"` and `"poll_reset"` release something
  twice. `HandlerHasDevice` fails with the lost lines of `"chan_irq"` and
  `"user_irq"`, and where a work item outlives its engine: with `"hasty"`, a
  close with work under way, `"unplug"`, a removal under an open node, and
  `"cdev_add"`, which takes the device down while the node of an earlier channel
  may be open. `NodeHasDevice` fails with the last two, with `"nouser"`, a card
  without user BAR, and with `"early"`, an open before `sha256_create` is
  through. And `TransfersEnd` claims an end only for transfers with a blocking
  write behind them: one submitted with O_NONBLOCK that a reset has stopped waits
  for the next write, for ever if there is none (`libxdma.c:4612`). A failed
  `xdma_device_open` ends in a NULL dereference of the probing thread
  (`XpdevFreeOops`, `FailedProbeReturns`, `xdma_cdev.c:382`).
* `XdmaPoll.cfg`: `"start"`, a thread that cannot be created, leaves engines on
  a thread that does not exist (`ThreadOnLiveEngine`); an `"error"` on the first
  descriptor is not seen (`WritesReturn`); the path of `"nowait"` does not wake
  the thread (`WritesReturn`). `CompletedArrived` and `WritesReturn` claim
  nothing of an engine a writer has given up on; without this exception the first
  is `AllCompletedArrived`, and fails: the count of the transfer that was given up
  completes the engine's next one, which is reported as moved in full although
  the hardware is still at it (`libxdma.c:3620`). With `SpecUnload`, `UnloadEnds`
  fails: `schedule` is set before the stop flag, and a thread that clears it in
  between goes to sleep for good (`xdma_thread.c:191`).

Deadlock is checked in the hardware runs and in those of `PcieSha256`. It is
off in `ZynqDriver` and `ZynqProbe`, where a process asleep with nothing under
way is a state the code really reaches and a device may stay unbound; in
`PcieProbe`, where the module may stay unloaded and a failed probe may end in
an oops; in `XdmaPoll`, where everybody may sleep once the writes are through;
and in `TestProgram`, which ends.

### Fairness

The clock runs (`WF` of the clock edge). The AXI4-Lite master takes a response
in the end and completes an offer it has begun, as the protocol obliges it to.
In `MCSha256Refine` the driver does not pause for ever. In `ZynqDriver` the
kernel runs a runnable process and a scheduled tasklet, and the hardware
proceeds; there is no fairness on calls, on failures or on signals, except in
`SpecProbe` of `ZynqProbe`, where the user interrupts a process that hangs. In
`PcieSha256` the kernel runs threads and scheduled work, the hardware works on
and its interrupt is delivered; `SpecTimeout`, of the blocking run, adds that a
wait does not last for ever, which `h2c_timeout` (10 s) makes true. In
`PcieProbe` interrupts are delivered, work items run, and a blocking write whose
transfer a reset has stopped times out (`libxdma.c:3574`); no timeout is counted
on while the device is up, none for O_NONBLOCK, and nothing is assumed of the
thread that probes and removes. In `XdmaPoll` threads and writers are scheduled
and the hardware works on; no timeout or signal is counted on.

## Proofs

`Sha256CoreProofs` assumes `WordLaws`: the operators are closed, and addition is
commutative and associative. Nothing is assumed of the mixing functions, the
constants or what the bus presents. TLC checks the laws completely for the toy
algebra (`ToyLaws`) and for words that carry in every way for `Word32`
(`SampleLaws`).

* `TypeCorrect`, `ControlInStep`, `SigmasInStep`: from
  `Inv == TypeOK /\ CounterInStep /\ SigmasAhead`, which is inductive.
  `CounterInStep` is inductive with the type; `SigmasAhead` needs it to know
  that a cycle without a shift keeps the counter positive only if it was.
* `CoreImplementsStandard`: `Spec => Std!Spec` under the mapping
  `H <- H8, v <- abcdefgh_next, t <- round, win <- window`. The working
  variables of the standard are the *combinational* `abcdefgh_next`: half of a
  round is still in the stage registers. LOAD with a word is `Absorb`, PROC is
  `Expand` (by `SigmasAhead`), the edge into FINISH is `Finish`, the rest
  stutters. The two sums are regrouped by `SumOfRound` and `SumOfSchedule`.

The wrappers share `AxiLiteProofs`. `CoreInv` is the control invariant of the
FSM with parameters (counter and state in step, the chunk as long as the
counter says); `Full(c)`, no room for a word until the block is through, is what
busy tells the bus a cycle late. `WriteBus` and `ReadBus` say which registers of
the slave are up in each phase of a request; `ReadBus` is inductive only with
`MaxReads = 1`, and TLC shows that the properties fail without it, so this is a
hypothesis of the theorems that rest on it.

* `StreamLosesNoWord` (`StreamInv`): no hypothesis. Its key is
  `ReadyMeansTaken`: TREADY is up exactly when a valid word is appended.
* `StreamPollIsFinal` (`PollingInv`): a poll that shows an idle core after the
  message was sent is final. `PollInv` follows the busy bit on its way to the
  master: when the slave samples it, and while the answer waits on the bus.
* `LiteLosesNoWord`, `HashReadyWhenIdle`, `LiteResponsesMatch` (`LiteInv`): the
  driver's credit and the core's room for the block are the same number
  (`Account`), which is why no word meets a busy core; `Polled` says in which
  states the late busy bit may be believed.

`Sha256AxiFullProofs` carries the lemmas about the core over to the AXI4 bus. All
its theorems need `MaxWrites = 1`, without which a response is lost (see above).

* `FullLosesNoWord`, `FullBurstAddresses`, `FullReadBeats` and
  `FullResponseMatchesBurst` (`BusInv`) hold for any number of reads. `WriteBus`
  says where the write is: none, its address on offer or accepted, its data due;
  in the data phase the address register is at beat `wbeat` of the burst
  (`AtBeat`), which `BeatStep` carries from beat to beat for the three burst
  types, a wrapping one by `WrapStep`. `ReadBus` says the same of the read: an
  incrementing or fixed poll, or the digest, incrementing or wrapping, where
  `SecondBlock` and `WrapAddr` say which addresses the wrap joins.
  `Status`: the reset bit is up for one cycle in which no beat can be taken.
* `FullAnnouncedIsFinal` (`FullInv`, `BusInv` with `Polled` and `Told`) needs
  `MaxReads = 1`: the master of the model does not tell which of two reads a beat
  belongs to and would take the last beat of a digest for its poll. TLC finds
  this only with more rounds than `AxiFull.cfg` has (`Rounds = 14`); the theorem
  says that with one read no number of rounds matters.

`ZynqProofs`: `TransfersUndisturbed`, `ReportedWordsReachedCore`,
`ReadsAreDigests` and `ResourcesHeldWhileUsed`, for every length of block, buffer
and message and any number of writes and probes. The hypothesis `UsersWait`
leaves out the two uses for which `HeldWhileUsed` fails (see above). The
inductive invariant is `ProbeInv == DriverInv /\ LadderInv` (and the type of
`cut`). `DriverInv` claims nothing after a signal has cut a transfer off its
write, as the properties do. Otherwise `OneTransfer` says that the writer is
past its wait only when DMA, interrupt and callback are quiet, and that the
buffer holds what is under way; `InCore` gives for each place in `sha256_write`
how many words have reached the core; `WholeBlocks` and `FromHash` are about
what a read copies in two halves. `LadderInv` gives the count of every resource
from the rung and the direction of travel, with the one exception of the code,
a class that could not be created and is passed by.

`XdmaPollProofs`, for any number of threads, engines, writers, writes and loads:

* `ListInv`, common to the three: `Lists` ties the work lists to `cmplthp`. Each
  engine that is initialised is on the list of exactly one thread, its `Owner`:
  the one in `cmplthp`, or between the two halves of `xdma_thread_remove_work`
  the one the loading thread has taken from there. `OnList`: a thread that polls
  is within its list, which its lock keeps from changing.
* `ThreadsOnLiveEngines` adds `Running`, which threads exist in which phase of
  loading and unloading, and needs `"start" \notin Faults`, a fault with which it
  fails, as listed above.
* `CompletedHaveArrived` adds `Transfers`: no write-back before the engine has
  stopped nor after the transfer is off the list (`Engine`), and what a thread
  has read belongs to the transfer it services (`Serves`). It has no hypothesis;
  like the property, the invariant claims nothing of an engine after a writer has
  given up on it.
* `WorkIsBalanced` has no hypothesis. While work is balanced the thread
  `PickThread` chooses has the least of all (`PickLeast`), though the code
  compares with the first thread only.

The first part of `PcieProofs` is about blocking writes (`~Nonblock`), for any
number of threads, requests and pages, any ring and any width of the counters, with every
fault and with signals:

* `BlockingListIsLive` and `BlockingNoLeak` from `CallInv`: `Owned` gives what
  is allocated for a request by where its call is, `Mutex` that only one thread
  is past `desc_lock`, and `OneQueued` that the engine's list is empty or holds
  the one transfer of the thread that waits, so that a service never finds one to
  start nor a callback to run.
* `BlockingAckedDelivered`, `BlockingRingIntact` and `BlockingCountFits` from
  `CallInv /\ DataInv`. `CallData` gives what the core has of a call's pages:
  those of its completed chains stand at the end of `taken` (`EndsWith`), and
  while the transfer is under way those the hardware has counted follow
  (`UnderWay`). It needs that the hardware is at rest when the list is empty, and
  that the descriptors are in the ring (`InRing`).

The assumption `2^Width \in Nat \ {0}` of `XdmaEngine` holds for every `Width`;
it is there because the provers have no facts about powers.

The second part is about writes with O_NONBLOCK, which take no mutex and do not
wait. It assumes what `PcieNonblocking.cfg` has (`NonblockingConstants`): one
thread, no fault of the engine, a message of at most `DescMax` pages between open
and close, and fewer requests than `submit_cnt` can count. With faults or
a longer message the properties fail (see above), and two threads may queue their
pages in either order; the last stands for 2^32 requests in memory. Ring, width,
number of requests and sizes of the writes are arbitrary:
`NonblockingReadyMeansDelivered`, `NonblockingRingIntact`,
`NonblockingCountFits` and `NonblockingListIsLive` (with `HeldInv`, a request is
there while its pages are mapped), from the inductive invariant `NbInv(b)`, where
`b` is the descriptor that page 1 of the message got (an existential quantifier
over `b` stands in for a variable the code does not have). The argument is by the numbers
of the pages. Those up to `Through` belong to transfers that were serviced, those
up to `Queued` to transfers on the list, those up to `Placed` have a descriptor:

* `ListInv`: the transfers on the list hold the pages from `Through + 1` to
  `Queued` without a gap, and no transfer of a request follows its last one;
* `XferInv` and `RingInv`: page `q` has descriptor `SlotOf(b, q)`, and different
  pages of a message that fits the ring have different ones (`SlotsApart`). So a
  new chain hits no queued one, and a callback, which wipes the descriptors of
  both transfers of its request, wipes only pages that are through
  (`LastBehind`, `SlotsBehind`);
* `HwInv`: the hardware is busy with the head of the list or has stopped after all
  of it, and `taken` is 1, 2, ... up to where it is, so a service always finds one
  complete transfer;
* `CountInv`: `submit_cnt` is the number of requests under way, less one while
  the thread has not counted its own; that is -1, the largest value of the counter,
  when the callback came first. Zero at rest therefore means that nothing is under
  way.

The third part is about `PcieProbe`, a model of its own of the same driver (no
name of it is one of `PcieSha256`, so one module can speak of both), for any
number of channels, user interrupts and probes and any card.
`ProbeBalancesResources` assumes that no failure of `Uncleaned` occurs
(`DeviceConstants`), and allows every other fault of the model;
`ProbeHandlersHaveDevice` besides that there is neither `"hasty"` nor `"unplug"`
(`ProbeConstants`), and `ProbeNodesHaveDevice` also neither `"nouser"` nor
`"early"`, which leaves the faults of `PcieProbe.cfg`. The inductive invariant is
`DeviceInv`, and `ProbeInv == DeviceInv /\ FileInv` where programs matter. The
properties say little about the places between; `DeviceInv` says what is held at
each:

* `HoldInv`: the places are ordered by how much has been acquired (`Level`), the
  places of `xdma_device_open` and the error labels in one order, and `Owns`
  gives from the level, the loop counters and the two structures what is held
  there, each resource once. Two are kept apart: the enable count, which grows
  with each probe that finds the regions taken (`HoldEnable`), and the nodes,
  which `device_create` may have failed to make (`HoldNode`).
* `XdevInv`, that the structure records what the release code will look for:
  `BarInv`, `EngineInv` (the engines below the loop counter, as far as each
  direction goes) and `LineInv` (`irq_teardown` finds every line, and there is no
  reset in poll mode).
* `XpdevInv`, how far the interfaces are, and that a device which was never
  opened has none (`Fresh`), so that `xpdev_free` destroys nothing.
* `FileInv`: work items and transfers belong to open nodes, and these to a
  device that is up.

A step that acquires `rs` is right when the place it leads to owns what the
place before it did and `rs`, which it did not (`Gained`); for a release the
other way round (`Lost`).

Only model-checked: all liveness properties (the prover has no rule for
fairness) and the digests of concrete messages (induction over the rounds).
`NoLeak` is proved and needs no run.

## Not modelled, and the plan

1. An abstract transfer queue (submitted transfers end once, in order) that
   `PcieSha256` implements as long as the ring holds what is under way.
2. `PcieSha256`: two opens at once, a write the kernel restarts after
   -ERESTARTSYS, and read and llseek, which only touch registers.

Left out on purpose:

* a second process in `ZynqDriver`: `inited` is tested and set without a lock,
  and two writers would share buffer and flag; nothing could be said of them but
  that it does not work;
* a FIFO between DMA and core, which no file of the repository shows: a write
  would return with words still in it, and `read` might then return an
  intermediate hash;
* RID and BID of the AXI4 slave, which are wired to the address channels: they
  are right as long as a master has one transaction under way, as here;
* `wb_monitor` of poll mode calls `schedule()` with `thp->lock` held; the model
  holds the lock while the hardware proceeds, but has no notion of a CPU that
  spins on it;
* allocation failures of the file operations;
* the card-to-host direction of `libxdma.c`, which the sha256 device does not
  use, and the vendored register, event, bypass and debug devices (`cdev_*.c`):
  the calls that would create them are commented out in `xdma_cdev.c`, and so
  none of their code runs;
* `hsha256_proc.c`, whose operations nothing registers;
* test benches, block diagrams and build files; the message and the digest of
  the benches are those of `core_digest`.
