----------------------------- MODULE ZynqDriver ------------------------------
(***************************************************************************)
(* The Zynq Linux driver's file operations (hsha256_ops.c): one process    *)
(* that opens the device, writes, reads and closes, against the DMA engine *)
(* and its completion callback, and the core, all of which run             *)
(* concurrently with it.  The DMA feeds the core's stream directly.        *)
(*                                                                         *)
(* The unit of data is the 32-bit word; words are numbered, so that a lost *)
(* or repeated one shows.  A digest is the sequence of words it covers.    *)
(* sha256_write rounds its count down to whole words, so nothing smaller   *)
(* reaches the device.                                                     *)
(***************************************************************************)
EXTENDS Integers, SequencesExt

CONSTANTS
  LoadWords,   \* words per block of the core (16)
  MsgWords,    \* words of the message a write passes
  BufWords,    \* words of the DMA buffer (DMA_BUF_SIZE)
  MaxWrites,   \* bound: write calls in all
  Signals      \* TRUE: signals may interrupt a sleeping process

ASSUME DriverAssumption ==
  /\ LoadWords \in Nat \ {0} /\ MsgWords \in Nat \ {0} /\ BufWords \in Nat \ {0}
  /\ MaxWrites \in Nat \ {0} /\ Signals \in BOOLEAN

VARIABLES
  pc,        \* where the process is in which file operation
  copied,    \* sha256_write's local, in words
  ret,       \* what the last operation returned ("ok" also while one runs)
  f_pos,     \* the file position, in half digests
  copies,    \* what the read call has copied out: which half of which digest
  writes,    \* write calls so far
  acked,     \* words the write calls since the open have reported written,
             \* with a 0 for a write that did not report all of its words
  cut,       \* a signal has ended the wait of a write for its transfer
  inited, busy, tx_buf,          \* fields of sha256_driver_data
  dma,       \* lengths of the transfers under way and queued behind it
  pushed,    \* words of the transfer under way that are on the stream
  irq,       \* a transfer is complete, its callback has not started
  cb,        \* the step dma_callback is at, or "none"
  core       \* words of the open block, words hashed, and the busy bit

procVars == <<pc, copied, ret, f_pos, copies, writes, acked, cut>>
drvVars == <<inited, busy, tx_buf>>
hwVars == <<dma, pushed, irq, cb, core>>
vars == <<procVars, drvVars, hwVars>>

NoBuf == <<0>>          \* tx_buf has been freed
Digest == 2             \* length of a digest, in halves (32 bytes)

Message == [i \in 1..MsgWords |-> i]

Least(a, b) == IF a < b THEN a ELSE b

should_copy == Least(BufWords, MsgWords - copied)

CoreAfterReset == [block |-> << >>, hash |-> << >>, busy |-> FALSE]

Init ==
  /\ pc = "closed" /\ copied = 0 /\ ret = "ok" /\ f_pos = 0 /\ copies = << >>
  /\ writes = 0 /\ acked = << >> /\ cut = FALSE
  /\ inited = FALSE /\ busy = FALSE /\ tx_buf = NoBuf
  /\ dma = << >> /\ pushed = 0 /\ irq = FALSE /\ cb = "none"
  /\ core = CoreAfterReset

-----------------------------------------------------------------------------
(* sha256_open: a buffer, and a soft reset of the core.                    *)
Open ==
  /\ pc = "closed" /\ ~inited
  /\ tx_buf' = << >> /\ inited' = TRUE
  /\ core' = CoreAfterReset
  /\ pc' = "open" /\ ret' = "ok" /\ f_pos' = 0 /\ copies' = << >> /\ acked' = << >>
  /\ UNCHANGED <<copied, writes, cut, busy, dma, pushed, irq, cb>>

(* A second open while the device is open. *)
OpenBusy ==
  /\ pc = "open" /\ inited
  /\ ret' = "EBUSY"
  /\ UNCHANGED <<pc, copied, f_pos, copies, writes, acked, cut, drvVars,
                 hwVars>>

(* The file goes with its position and what was written to it. *)
Release ==
  /\ pc = "open"
  /\ tx_buf' = NoBuf /\ inited' = FALSE
  /\ pc' = "closed" /\ ret' = "ok" /\ copied' = 0
  /\ f_pos' = 0 /\ copies' = << >> /\ acked' = << >>
  /\ UNCHANGED <<writes, cut, busy, hwVars>>

-----------------------------------------------------------------------------
(* sha256_write.                                                           *)

Write ==
  /\ pc = "open" /\ writes < MaxWrites
  /\ copied' = 0 /\ writes' = writes + 1 /\ copies' = << >> /\ ret' = "ok"
  /\ pc' = "w_copy"
  /\ UNCHANGED <<f_pos, acked, cut, drvVars, hwVars>>

CopyFromUser ==
  /\ pc = "w_copy" /\ copied < MsgWords
  /\ tx_buf' = SubSeq(Message, copied + 1, copied + should_copy)
  /\ pc' = "w_issue"
  /\ UNCHANGED <<copied, ret, f_pos, copies, writes, acked, cut, inited,
                 busy, hwVars>>

(* copy_from_user or device_prep_dma_cyclic fails: goto write_err. *)
WriteFails ==
  /\ pc \in {"w_copy", "w_issue"} /\ copied < MsgWords
  /\ pc' = "w_err"
  /\ UNCHANGED <<copied, ret, f_pos, copies, writes, acked, cut, drvVars,
                 hwVars>>

(* Mutant of IssuePending: the length is that of the buffer. *)
IssuePendingFull ==
  /\ pc = "w_issue"
  /\ dma' = Append(dma, BufWords)
  /\ pc' = "w_flag"
  /\ UNCHANGED <<copied, ret, f_pos, copies, writes, acked, cut, drvVars,
                 pushed, irq,
                 cb, core>>

(* device_prep_dma_cyclic, dmaengine_submit, dma_async_issue_pending.  A   *)
(* transfer submitted while another is under way waits behind it.          *)
IssuePending ==
  /\ pc = "w_issue"
  /\ dma' = Append(dma, should_copy)
  /\ pc' = "w_flag"
  /\ UNCHANGED <<copied, ret, f_pos, copies, writes, acked, cut, drvVars,
                 pushed, irq, cb, core>>

SetBusy ==
  /\ pc = "w_flag"
  /\ busy' = TRUE
  /\ pc' = "w_wait"
  /\ UNCHANGED <<copied, ret, f_pos, copies, writes, acked, cut, inited,
                 tx_buf, hwVars>>

(* wait_event_interruptible(w_wqh, !busy): the condition is tested with    *)
(* the process already on the queue, so a wake-up after the test counts.   *)
WaitWrite ==
  /\ pc = "w_wait"
  /\ IF busy
     THEN pc' = "w_sleep" /\ UNCHANGED copied
     ELSE copied' = copied + should_copy /\ pc' = "w_copy"
  /\ UNCHANGED <<ret, f_pos, copies, writes, acked, cut, drvVars, hwVars>>

WriteReturns ==
  /\ pc = "w_err" \/ (pc = "w_copy" /\ copied = MsgWords)
  /\ ret' = IF copied = MsgWords THEN "ok" ELSE "short"
  /\ acked' = acked \o IF copied = MsgWords THEN Message
                       ELSE Append(SubSeq(Message, 1, copied), 0)
  /\ pc' = "open"
  /\ UNCHANGED <<copied, f_pos, copies, writes, cut, drvVars, hwVars>>

-----------------------------------------------------------------------------
(* sha256_llseek: SEEK_SET, SEEK_CUR or SEEK_END within the digest.        *)
Llseek ==
  /\ pc = "open"
  /\ f_pos' \in 0..Digest
  /\ ret' = "ok" /\ copies' = << >>
  /\ UNCHANGED <<pc, copied, writes, acked, cut, drvVars, hwVars>>

(* sha256_read, with and without O_NONBLOCK.                               *)

(* Mutant of Read: the busy bit is not looked at. *)
ReadAnyway ==
  /\ pc = "open"
  /\ copies' = << >> /\ ret' = "ok"
  /\ pc' = "r_copy"
  /\ UNCHANGED <<copied, f_pos, writes, acked, cut, drvVars, hwVars>>

Read ==
  /\ pc = "open"
  /\ copies' = << >> /\ ret' = "ok"
  /\ pc' = IF core.busy THEN "r_wait" ELSE "r_copy"
  /\ UNCHANGED <<copied, f_pos, writes, acked, cut, drvVars, hwVars>>

ReadAgain ==
  /\ pc = "open" /\ core.busy
  /\ ret' = "EAGAIN" /\ copies' = << >>
  /\ UNCHANGED <<pc, copied, f_pos, writes, acked, cut, drvVars, hwVars>>

WaitRead ==
  /\ pc = "r_wait"
  /\ pc' = IF core.busy THEN "r_sleep" ELSE "r_copy"
  /\ UNCHANGED <<copied, ret, f_pos, copies, writes, acked, cut, drvVars,
                 hwVars>>

(* copy_to_user straight from the hash registers, not in one go. *)
CopyToUser ==
  /\ pc = "r_copy" /\ (f_pos % Digest) + Len(copies) < Digest
  /\ copies' = Append(copies,
                      [half |-> (f_pos % Digest) + Len(copies), of |-> core.hash])
  /\ UNCHANGED <<pc, copied, ret, f_pos, writes, acked, cut, drvVars, hwVars>>

(* The caller's count is reached, or the end of the digest. *)
ReadReturns ==
  /\ pc = "r_copy" /\ copies # << >>
  /\ f_pos' = (f_pos % Digest) + Len(copies)
  /\ pc' = "open" /\ ret' = "digest"
  /\ UNCHANGED <<copied, copies, writes, acked, cut, drvVars, hwVars>>

(* copy_to_user fails; the position stays. *)
ReadFails ==
  /\ pc = "r_copy"
  /\ pc' = "open" /\ ret' = "EFAULT" /\ copies' = << >>
  /\ UNCHANGED <<copied, f_pos, writes, acked, cut, drvVars, hwVars>>

(* Mutant of Interrupt: the writer's wait is entered again. *)
InterruptRetries ==
  /\ Signals
  /\ pc \in {"w_sleep", "r_sleep"}
  /\ pc' = IF pc = "w_sleep" THEN "w_wait" ELSE "open"
  /\ ret' = IF pc = "w_sleep" THEN ret ELSE "ERESTARTSYS"
  /\ UNCHANGED <<copied, f_pos, copies, writes, acked, cut, drvVars, hwVars>>

(* A signal ends either wait: the write reports what it has copied, the    *)
(* read returns -ERESTARTSYS.                                              *)
Interrupt ==
  /\ Signals
  /\ pc \in {"w_sleep", "r_sleep"}
  /\ pc' = IF pc = "w_sleep" THEN "w_err" ELSE "open"
  /\ ret' = IF pc = "w_sleep" THEN ret ELSE "ERESTARTSYS"
  /\ cut' = (cut \/ pc = "w_sleep")
  /\ UNCHANGED <<copied, f_pos, copies, writes, acked, drvVars, hwVars>>

-----------------------------------------------------------------------------
(* dma_callback, run by the DMA engine's tasklet on any CPU.               *)

Wake(from, to) == pc' = IF pc = from THEN to ELSE pc

(* Mutant of CallbackStart: busy is cleared first, before the wake-ups. *)
CallbackStartClears ==
  /\ cb = "none" /\ irq
  /\ cb' = "wake_r" /\ irq' = FALSE /\ busy' = FALSE
  /\ UNCHANGED <<procVars, inited, tx_buf, dma, pushed, core>>

CallbackStart ==
  /\ cb = "none" /\ irq
  /\ cb' = "wake_r" /\ irq' = FALSE
  /\ UNCHANGED <<procVars, drvVars, dma, pushed, core>>

CallbackWakeReader ==
  /\ cb = "wake_r"
  /\ IF core.busy THEN UNCHANGED pc ELSE Wake("r_sleep", "r_wait")
  /\ cb' = "wake_w"
  /\ UNCHANGED <<copied, ret, f_pos, copies, writes, acked, cut, drvVars,
                 dma, pushed, irq, core>>

CallbackWakeWriter ==
  /\ cb = "wake_w"
  /\ Wake("w_sleep", "w_wait")
  /\ cb' = "terminate"
  /\ UNCHANGED <<copied, ret, f_pos, copies, writes, acked, cut, drvVars,
                 dma, pushed, irq, core>>

(* device_terminate_all drops every transfer of the channel, running,      *)
(* queued or complete.                                                     *)
CallbackTerminate ==
  /\ cb = "terminate"
  /\ dma' = << >> /\ pushed' = 0 /\ irq' = FALSE
  /\ cb' = "clear"
  /\ UNCHANGED <<procVars, drvVars, core>>

CallbackClearBusy ==
  /\ cb = "clear"
  /\ busy' = FALSE
  /\ cb' = "none"
  /\ UNCHANGED <<procVars, inited, tx_buf, dma, pushed, irq, core>>

Callback ==
  \/ CallbackStart \/ CallbackWakeReader \/ CallbackWakeWriter
  \/ CallbackTerminate \/ CallbackClearBusy

-----------------------------------------------------------------------------
(* The hardware: AXI DMA and core.                                         *)

CoreTakes(c, w) ==
  LET b == Append(c.block, w)
  IN  [c EXCEPT !.block = b, !.busy = (Len(b) = LoadWords)]

(* A word of the buffer, or garbage where the buffer does not reach. *)
BufferWord(i) == IF i \in DOMAIN tx_buf THEN tx_buf[i] ELSE 0

(* The DMA puts a word on the stream when the core is ready for it. *)
DmaPush ==
  /\ dma # << >> /\ pushed < Head(dma) /\ ~core.busy
  /\ core' = CoreTakes(core, BufferWord(pushed + 1))
  /\ pushed' = pushed + 1
  /\ UNCHANGED <<procVars, drvVars, dma, irq, cb>>

(* The transfer is complete: its interrupt handler schedules the tasklet   *)
(* that runs the callback, and starts the next transfer.  The DMA of the   *)
(* device tree has no scatter-gather engine, so it does a descriptor once, *)
(* even the cyclic descriptors this driver prepares.                       *)
DmaDone ==
  /\ dma # << >> /\ pushed = Head(dma)
  /\ dma' = Tail(dma) /\ pushed' = 0
  /\ irq' = TRUE
  /\ UNCHANGED <<procVars, drvVars, cb, core>>

CoreFinishes ==
  /\ core.busy
  /\ core' = [block |-> << >>, hash |-> core.hash \o core.block, busy |-> FALSE]
  /\ UNCHANGED <<procVars, drvVars, dma, pushed, irq, cb>>

Hardware == DmaPush \/ DmaDone \/ CoreFinishes

-----------------------------------------------------------------------------
(* The steps of an operation that has been entered. *)
InOperation ==
  \/ CopyFromUser \/ IssuePending \/ SetBusy \/ WaitWrite \/ WriteReturns
  \/ WaitRead \/ CopyToUser \/ ReadReturns

(* Everything that goes on while the device is open. *)
Running ==
  \/ OpenBusy \/ Release
  \/ Write \/ WriteFails \/ Llseek \/ Read \/ ReadAgain \/ ReadFails
  \/ InOperation \/ Interrupt \/ Callback \/ Hardware

Next == Open \/ Running

(* The kernel runs a runnable process and a pending tasklet, and the       *)
(* hardware proceeds.                                                      *)
Fairness ==
  WF_vars(InOperation) /\ WF_vars(Callback) /\ WF_vars(Hardware)

Spec == Init /\ [][Next]_vars /\ Fairness

-----------------------------------------------------------------------------
TypeOK ==
  /\ pc \in {"closed", "open", "w_copy", "w_issue", "w_flag", "w_wait",
             "w_sleep", "w_err", "r_wait", "r_sleep", "r_copy"}
  /\ copied \in 0..MsgWords /\ writes \in 0..MaxWrites /\ f_pos \in 0..Digest
  /\ inited \in BOOLEAN /\ busy \in BOOLEAN
  /\ dma \in Seq(1..BufWords) /\ irq \in BOOLEAN
  /\ cb \in {"none", "wake_r", "wake_w", "terminate", "clear"}
  /\ Len(core.block) <= LoadWords

(* The DMA never reads a buffer that has been freed or is being refilled,  *)
(* and device_terminate_all never stops a transfer that has only begun,    *)
(* as long as no signal makes a write return before its transfer is over.  *)
TransferUndisturbed ==
  ~cut =>
  /\ dma # << >> => tx_buf # NoBuf /\ pc \in {"w_flag", "w_wait", "w_sleep"}
  /\ cb # "none" => dma = << >> /\ ~irq

(* What a read copies after complete writes of whole blocks is the digest  *)
(* of exactly the words written since the open, each half in its place.    *)
ReadIsDigest ==
  /\ pc = "open" /\ ret = "digest" /\ ~cut
  /\ acked # << >> /\ Len(acked) % LoadWords = 0 /\ 0 \notin Range(acked)
  =>
    \A i \in DOMAIN copies :
      copies[i] = [half |-> f_pos - Len(copies) + i - 1, of |-> acked]

(* What write calls have reported as written since the open has entered    *)
(* the core, in order and with nothing before it: no transfer was dropped  *)
(* or cut short, and none was repeated.                                    *)
ReportedReachedCore ==
  pc # "closed" /\ 0 \notin Range(acked) /\ ~cut =>
    IsPrefix(acked, core.hash \o core.block)

(* With no signals, write() and read() return: dma_callback's wake-up      *)
(* reaches the writer, and a reader is woken once the core is idle.        *)
CallsComplete ==
  /\ pc = "w_copy" ~> pc = "open"
  /\ pc = "r_wait" ~> pc = "open"

(* A signal gets a caller out of every operation, hung or not. *)
CallsReturn == pc \notin {"closed", "open"} ~> pc = "open"
=============================================================================
