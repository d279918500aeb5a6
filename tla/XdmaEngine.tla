----------------------------- MODULE XdmaEngine ------------------------------
(***************************************************************************)
(* One host-to-card engine of libxdma.c, as the sha256 device of the PCIe  *)
(* driver uses it: the ring of descriptors, the list of queued transfers,  *)
(* the interrupt handler and the work item behind it, and the scatter and  *)
(* gather hardware.  A descriptor stands for the page it moves, and a      *)
(* request object r has the two transfers <<r, 1>> and <<r, 2>> of         *)
(* req->tfer.                                                              *)
(*                                                                         *)
(* Interrupt mode only (poll_mode = 0), and no C2H streaming (eop_flush).  *)
(* Everything done under one hold of engine->lock is one step.             *)
(***************************************************************************)
EXTENDS Integers, Sequences, FiniteSetsExt

CONSTANTS
  DescMax,     \* descriptors in the ring (XDMA_ENGINE_XFER_MAX_DESC, 0x800)
  Width,       \* bits of a counter (u32; TLC takes fewer)
  Reqs,        \* request objects
  Faults       \* faults that may happen: "error", "offline"

ASSUME EngineAssumption ==
  /\ DescMax \in Nat \ {0} /\ Width \in Nat \ {0}
  /\ 2^Width \in Nat \ {0}   \* so for every Width; the provers do not know ^
  /\ Faults \subseteq {"error", "offline"}

VARIABLES
  transfer_list,          \* transfers queued, the one under way first
  xfer,                   \* the transfers: state, place in the ring, pages
  ring, desc_idx, desc_used,
  running, desc_dequeued,
  offline,                \* XDEV_FLAG_OFFLINE and ENGINE_SHUTDOWN_REQUEST
  hw,                     \* the hardware: run, completed_desc_count, status
  irq_on, work,           \* interrupt enabled, work item scheduled
  taken                   \* pages the device has received, in order

engineVars == <<transfer_list, xfer, ring, desc_idx, desc_used, running,
                desc_dequeued, offline, hw, irq_on, work, taken>>

Xfers == Reqs \X {1, 2}

NoXfer == [state |-> "NEW", idx |-> 0, pages |-> << >>, last |-> FALSE,
           cb |-> FALSE]

desc_num(t) == Len(xfer[t].pages)

(* A transfer's descriptors in the ring. *)
Slots(t) == xfer[t].idx..(xfer[t].idx + desc_num(t) - 1)

(* The transfers after the request r has been freed. *)
Freed(r) == [t \in Xfers |-> IF t[1] = r THEN NoXfer ELSE xfer[t]]

EngineInit ==
  /\ transfer_list = << >>
  /\ xfer = [t \in Xfers |-> NoXfer]
  /\ ring = [i \in 0..(DescMax - 1) |-> 0] /\ desc_idx = 0 /\ desc_used = 0
  /\ running = FALSE /\ desc_dequeued = 0 /\ offline = FALSE
  /\ hw = [busy |-> FALSE, base |-> 0, num |-> 0, count |-> 0,
           stopped |-> FALSE, err |-> FALSE]
  /\ irq_on = TRUE /\ work = FALSE /\ taken = << >>

-----------------------------------------------------------------------------
(* The hardware, as the driver uses it: RUN with the first descriptor of a *)
(* chain clears the count; each chain ends in a descriptor that stops the  *)
(* engine and asks for an interrupt.                                       *)

HwRun(h, t) ==
  [h EXCEPT !.busy = TRUE, !.base = xfer[t].idx, !.num = desc_num(t),
            !.count = 0]

HwHalt(h) == [h EXCEPT !.busy = FALSE]

(* Reading status_rc clears the events. *)
HwClear(h) == [h EXCEPT !.stopped = FALSE, !.err = FALSE]

HwDescriptor ==
  /\ hw.busy
  /\ taken' = Append(taken, ring[hw.base + hw.count])
  /\ LET last == hw.count + 1 = hw.num
     IN  hw' = [hw EXCEPT !.count = @ + 1, !.busy = ~last,
                          !.stopped = @ \/ last]
  /\ UNCHANGED <<transfer_list, xfer, ring, desc_idx, desc_used, running,
                 desc_dequeued, offline, irq_on, work>>

HwError ==
  /\ "error" \in Faults
  /\ hw.busy
  /\ hw' = [hw EXCEPT !.busy = FALSE, !.err = TRUE]
  /\ UNCHANGED <<transfer_list, xfer, ring, desc_idx, desc_used, running,
                 desc_dequeued, offline, irq_on, work, taken>>

-----------------------------------------------------------------------------
(* The next chain: as many pages as there are, but never past the end of   *)
(* the ring.  desc_used is counted and not looked at.                      *)
ChainLength(pages) ==
  LET most == IF Len(pages) < DescMax THEN Len(pages) ELSE DescMax
  IN  IF desc_idx + most >= DescMax THEN DescMax - desc_idx ELSE most

(* Mutant of TransferInit: the index into the ring does not move on. *)
TransferInitInPlace(t, pages, cb) ==
  LET n == ChainLength(pages)
  IN  /\ xfer' = [xfer EXCEPT ![t] =
                   [state |-> "NEW", idx |-> desc_idx, cb |-> cb,
                    pages |-> SubSeq(pages, 1, n), last |-> n = Len(pages)]]
      /\ ring' = [i \in DOMAIN ring |->
                    IF i \in desc_idx..(desc_idx + n - 1)
                    THEN pages[i - desc_idx + 1] ELSE ring[i]]
      /\ UNCHANGED desc_idx
      /\ desc_used' = desc_used + n

TransferInit(t, pages, cb) ==
  LET n == ChainLength(pages)
  IN  /\ xfer' = [xfer EXCEPT ![t] =
                   [state |-> "NEW", idx |-> desc_idx, cb |-> cb,
                    pages |-> SubSeq(pages, 1, n), last |-> n = Len(pages)]]
      /\ ring' = [i \in DOMAIN ring |->
                    IF i \in desc_idx..(desc_idx + n - 1)
                    THEN pages[i - desc_idx + 1] ELSE ring[i]]
      /\ desc_idx' = (desc_idx + n) % DescMax
      /\ desc_used' = desc_used + n

(* transfer_destroy and the count of descriptors: those of ts are wiped. *)
TransferDestroy(ts) ==
  /\ ring' = [i \in DOMAIN ring |->
                IF \E t \in ts : i \in Slots(t) THEN 0 ELSE ring[i]]
  /\ desc_used' = desc_used - MapThenSumSet(desc_num, ts)

(* Mutant of TransferQueue: the count of an earlier run is kept. *)
TransferQueueKeepsCount(t) ==
  /\ xfer' = [xfer EXCEPT ![t].state = "SUBMITTED"]
  /\ transfer_list' = Append(transfer_list, t)
  /\ running' = TRUE
  /\ hw' = IF running THEN hw ELSE HwRun(hw, Head(transfer_list'))
  /\ UNCHANGED desc_dequeued

(* transfer_queue: an idle engine is started, a running one finds the      *)
(* transfer when it is serviced.                                           *)
TransferQueue(t) ==
  /\ xfer' = [xfer EXCEPT ![t].state = "SUBMITTED"]
  /\ transfer_list' = Append(transfer_list, t)
  /\ running' = TRUE
  /\ IF running THEN UNCHANGED <<hw, desc_dequeued>>
     ELSE /\ hw' = HwRun(hw, Head(transfer_list'))
          /\ desc_dequeued' = 0

(* Mutant of TransferAbort: the transfer stays on the list. *)
TransferAbortKeeps(t) ==
  /\ UNCHANGED transfer_list
  /\ running' = FALSE
  /\ hw' = HwHalt(hw)

(* transfer_abort and xdma_engine_stop: only the head of the list is taken *)
(* off it.  The caller frees the transfer, so its state does not matter.   *)
TransferAbort(t) ==
  /\ transfer_list' = IF transfer_list # << >> /\ Head(transfer_list) = t
                      THEN Tail(transfer_list) ELSE transfer_list
  /\ running' = FALSE
  /\ hw' = HwHalt(hw)

-----------------------------------------------------------------------------
(* xdma_isr and xdma_channel_irq: mask the interrupt, schedule the work. *)
ChannelIrq ==
  /\ hw.stopped \/ hw.err
  /\ irq_on /\ ~offline
  /\ irq_on' = FALSE
  /\ work' = TRUE
  /\ UNCHANGED <<transfer_list, xfer, ring, desc_idx, desc_used, running,
                 desc_dequeued, offline, hw, taken>>

(* Descriptors completed and not yet accounted for. *)
Completed == (hw.count - desc_dequeued) % 2^Width

(* A service that has something to do finishes the head of the list. *)
Finishes == running /\ hw.count > 0 /\ transfer_list # << >>

(* Mutant of Outcome: one descriptor less is enough. *)
OutcomeShort ==
  IF hw.err \/ Completed + 1 < desc_num(Head(transfer_list))
  THEN "FAILED" ELSE "COMPLETED"

(* engine_service_final_transfer: an error, or a chain that is not         *)
(* complete, whether the engine is still busy with it or not.              *)
Outcome ==
  IF hw.err \/ Completed < desc_num(Head(transfer_list))
  THEN "FAILED" ELSE "COMPLETED"

(* The transfers once the head of the list has ended. *)
Ended == [xfer EXCEPT ![Head(transfer_list)].state = Outcome]

(* Mutant of ServiceResume: transfers that wait are not started. *)
ServiceResumeIdle(rest) ==
  /\ running' = FALSE
  /\ hw' = HwHalt(HwClear(hw))
  /\ UNCHANGED desc_dequeued

(* engine_service_resume, after the transfers in rest are left: an engine  *)
(* that stopped is started on them, one that is busy goes on.              *)
ServiceResume(rest) ==
  /\ running' = (rest # << >>)
  /\ IF rest # << >> /\ (~hw.busy \/ hw.err)
     THEN /\ hw' = HwRun(HwClear(hw), Head(rest))
          /\ desc_dequeued' = 0
     ELSE /\ hw' = IF rest = << >> THEN HwHalt(HwClear(hw)) ELSE HwClear(hw)
          /\ desc_dequeued' = desc_dequeued +
               IF hw.err THEN 0 ELSE desc_num(Head(transfer_list))

(* engine_service without the completion callback.  An interrupt for an    *)
(* engine that was stopped in the meantime only clears the status, and a   *)
(* count of zero leaves the list alone.                                    *)
EngineService ==
  IF Finishes
  THEN /\ transfer_list' = Tail(transfer_list)
       /\ ServiceResume(Tail(transfer_list))
  ELSE /\ running' = (running /\ hw.busy /\ hw.count = 0)
       /\ hw' = IF running' THEN HwClear(hw) ELSE HwHalt(HwClear(hw))
       /\ UNCHANGED <<transfer_list, desc_dequeued>>

(* xdma_device_offline: the flags, the engine stopped, the interrupts off. *)
Offline ==
  /\ "offline" \in Faults
  /\ ~offline
  /\ offline' = TRUE
  /\ running' = FALSE
  /\ hw' = HwHalt(hw)
  /\ irq_on' = FALSE
  /\ UNCHANGED <<transfer_list, xfer, ring, desc_idx, desc_used,
                 desc_dequeued, work, taken>>
=============================================================================
