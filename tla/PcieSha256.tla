----------------------------- MODULE PcieSha256 ------------------------------
(***************************************************************************)
(* The sha256 character device of the PCIe driver (hsha256.c) on top of    *)
(* XdmaEngine: open and close, write with and without O_NONBLOCK, the      *)
(* completion callback, and poll.  The threads in Procs belong to one      *)
(* process and share one open file.                                        *)
(*                                                                         *)
(* A write of n pages takes pages next, ..., next + n - 1 of the message.  *)
(* The digest is abstracted to the pages the core has received since its   *)
(* last reset, in order (taken).                                           *)
(***************************************************************************)
EXTENDS XdmaEngine

CONSTANTS
  Procs,       \* threads of the process
  Nonblock,    \* the file was opened with O_NONBLOCK
  Signals,     \* signals may arrive, or the transfer timeout may expire
  WritePages,  \* page counts a write may have
  MaxPages     \* bound: pages written between an open and the close

ASSUME PcieAssumption ==
  /\ Nonblock \in BOOLEAN /\ Signals \in BOOLEAN
  /\ WritePages \subseteq Nat \ {0} /\ MaxPages \in Nat
  /\ "none" \notin Procs

VARIABLES
  device_open, submit_cnt,
  desc_lock,   \* holder of the engine's mutex, or "none"
  pc,          \* where each thread is
  cur,         \* [Procs -> request, pages left, transfer in use, pages done]
  held,        \* [Reqs -> what is allocated for the request]
  next,        \* next page of the message
  acked        \* the pages each write has reported as written

driverVars == <<device_open, submit_cnt, desc_lock, pc, cur, held, next,
                acked>>
vars == <<engineVars, driverVars>>

Idle == [req |-> "none", pages |-> << >>, k |-> 1, done |-> << >>]

FreeReqs == {r \in Reqs : held[r] = {}}

(* Requests on their way through the engine. *)
Outstanding == {r \in Reqs : "dma" \in held[r]}

Init ==
  /\ EngineInit
  /\ device_open = FALSE /\ submit_cnt = 0 /\ desc_lock = "none"
  /\ pc = [p \in Procs |-> "idle"]
  /\ cur = [p \in Procs |-> Idle]
  /\ held = [r \in Reqs |-> {}]
  /\ next = 1 /\ acked = {}

-----------------------------------------------------------------------------
(* sha256_open resets the core. *)
Open ==
  /\ ~device_open
  /\ device_open' = TRUE
  /\ taken' = << >>
  /\ submit_cnt' = 0
  /\ next' = 1 /\ acked' = {}
  /\ UNCHANGED <<transfer_list, xfer, ring, desc_idx, desc_used, running,
                 desc_dequeued, offline, hw, irq_on, work, desc_lock, pc, cur,
                 held>>

(* close: sha256_flush resets the core, sha256_release frees the device.   *)
(* The process closes the file when its writes are through.                *)
Close ==
  /\ device_open
  /\ \A p \in Procs : pc[p] = "idle"
  /\ Outstanding = {}
  /\ device_open' = FALSE
  /\ taken' = << >> /\ acked' = {} /\ next' = 1
  /\ UNCHANGED <<transfer_list, xfer, ring, desc_idx, desc_used, running,
                 desc_dequeued, offline, hw, irq_on, work, submit_cnt,
                 desc_lock, pc, cur, held>>

-----------------------------------------------------------------------------
(* char_sgdma_read_write up to the transfer: the control block (on the     *)
(* stack in the blocking case), the pinned pages.                          *)
Write(p, n) ==
  /\ pc[p] = "idle" /\ device_open
  /\ FreeReqs # {} /\ next + n - 1 <= MaxPages
  /\ LET r == CHOOSE r \in FreeReqs : TRUE
     IN  /\ held' = [held EXCEPT ![r] =
                       {"pages"} \cup (IF Nonblock THEN {"cb"} ELSE {})]
         /\ cur' = [cur EXCEPT ![p] =
                      [Idle EXCEPT !.req = r,
                                   !.pages = [i \in 1..n |-> next + i - 1]]]
  /\ next' = next + n
  /\ pc' = [pc EXCEPT ![p] = "submit"]
  /\ UNCHANGED <<engineVars, device_open, submit_cnt, desc_lock, acked>>

(* xdma_xfer_submit and xdma_xfer_submit_nowait map the pages and allocate *)
(* the request; only the former takes the mutex.                           *)
Submit(p) ==
  /\ pc[p] = "submit" /\ ~offline
  /\ held' = [held EXCEPT ![cur[p].req] = @ \cup {"dma", "req"}]
  /\ pc' = [pc EXCEPT ![p] = IF Nonblock THEN "init" ELSE "lock"]
  /\ UNCHANGED <<engineVars, device_open, submit_cnt, desc_lock, cur, next,
                 acked>>

(* -EBUSY from either: the blocking path unpins its pages, the other one   *)
(* returns with the control block and the pages still allocated.           *)
SubmitOffline(p) ==
  /\ pc[p] = "submit" /\ offline
  /\ held' = [held EXCEPT ![cur[p].req] = IF Nonblock THEN @ ELSE {}]
  /\ cur' = [cur EXCEPT ![p] = Idle]
  /\ pc' = [pc EXCEPT ![p] = "idle"]
  /\ UNCHANGED <<engineVars, device_open, submit_cnt, desc_lock, next, acked>>

Lock(p) ==
  /\ pc[p] = "lock" /\ desc_lock = "none"
  /\ desc_lock' = p
  /\ pc' = [pc EXCEPT ![p] = "init"]
  /\ UNCHANGED <<engineVars, device_open, submit_cnt, cur, held, next, acked>>

InitTransfer(p) ==
  /\ pc[p] = "init"
  /\ TransferInit(<<cur[p].req, cur[p].k>>, cur[p].pages, Nonblock)
  /\ pc' = [pc EXCEPT ![p] = "queue"]
  /\ UNCHANGED <<transfer_list, running, desc_dequeued, offline, hw, irq_on,
                 work, taken, device_open, submit_cnt, desc_lock, cur, held,
                 next, acked>>

(* The pages of a request that are left after the transfer in use. *)
Rest(p) ==
  LET n == desc_num(<<cur[p].req, cur[p].k>>)
  IN  SubSeq(cur[p].pages, n + 1, Len(cur[p].pages))

(* A request that is queued without waiting builds its next transfer at    *)
(* once; one that waits keeps its pages until the transfer is over.        *)
QueueTransfer(p) ==
  /\ pc[p] = "queue" /\ ~offline
  /\ TransferQueue(<<cur[p].req, cur[p].k>>)
  /\ IF Nonblock
     THEN /\ cur' = [cur EXCEPT ![p].pages = Rest(p), ![p].k = @ + 1]
          /\ pc' = [pc EXCEPT ![p] = IF Rest(p) = << >> THEN "count" ELSE "init"]
     ELSE /\ pc' = [pc EXCEPT ![p] = "wait"]
          /\ UNCHANGED cur
  /\ UNCHANGED <<ring, desc_idx, desc_used, offline, irq_on, work, taken,
                 device_open, submit_cnt, desc_lock, held, next, acked>>

(* transfer_queue refuses: the request is unmapped and freed, and what the *)
(* blocking caller holds with it.                                          *)
QueueOffline(p) ==
  /\ pc[p] = "queue" /\ offline
  /\ held' = [held EXCEPT ![cur[p].req] =
                IF Nonblock THEN @ \ {"dma", "req"} ELSE {}]
  /\ xfer' = Freed(cur[p].req)
  /\ desc_lock' = IF Nonblock THEN desc_lock ELSE "none"
  /\ acked' = acked \cup {cur[p].done}
  /\ cur' = [cur EXCEPT ![p] = Idle]
  /\ pc' = [pc EXCEPT ![p] = "idle"]
  /\ UNCHANGED <<transfer_list, ring, desc_idx, desc_used, running,
                 desc_dequeued, offline, hw, irq_on, work, taken, device_open,
                 submit_cnt, next>>

(* Mutant of CountSubmit: the count is set, not increased. *)
CountSubmitSets(p) ==
  /\ pc[p] = "count"
  /\ submit_cnt' = 1
  /\ cur' = [cur EXCEPT ![p] = Idle]
  /\ pc' = [pc EXCEPT ![p] = "idle"]
  /\ UNCHANGED <<engineVars, device_open, desc_lock, held, next, acked>>

(* The transfer is counted after it has been queued: its callback may have *)
(* run already, and the count have passed through its largest value.          *)
CountSubmit(p) ==
  /\ pc[p] = "count"
  /\ submit_cnt' = (submit_cnt + 1) % 2^Width
  /\ cur' = [cur EXCEPT ![p] = Idle]
  /\ pc' = [pc EXCEPT ![p] = "idle"]
  /\ UNCHANGED <<engineVars, device_open, desc_lock, held, next, acked>>

-----------------------------------------------------------------------------
(* The blocking wait.                                                      *)

Wake(p) ==
  /\ pc[p] = "wait"
  /\ xfer[<<cur[p].req, 1>>].state # "SUBMITTED"
  /\ pc' = [pc EXCEPT ![p] = "woken"]
  /\ UNCHANGED <<engineVars, device_open, submit_cnt, desc_lock, cur, held,
                 next, acked>>

Interrupt(p) ==
  /\ Signals
  /\ pc[p] = "wait"
  /\ pc' = [pc EXCEPT ![p] = "woken"]
  /\ UNCHANGED <<engineVars, device_open, submit_cnt, desc_lock, cur, held,
                 next, acked>>

(* Mutant of Finish: the mutex is not released. *)
FinishLocked(p, done) ==
  /\ UNCHANGED desc_lock
  /\ xfer' = Freed(cur[p].req)
  /\ held' = [held EXCEPT ![cur[p].req] = {}]
  /\ acked' = acked \cup {done}
  /\ cur' = [cur EXCEPT ![p] = Idle]
  /\ pc' = [pc EXCEPT ![p] = "idle"]

(* The rest of xdma_xfer_submit and of the write: everything is released,  *)
(* the pages of the transfers that completed are reported.                 *)
Finish(p, done) ==
  /\ desc_lock' = "none"
  /\ xfer' = Freed(cur[p].req)
  /\ held' = [held EXCEPT ![cur[p].req] = {}]
  /\ acked' = acked \cup {done}
  /\ cur' = [cur EXCEPT ![p] = Idle]
  /\ pc' = [pc EXCEPT ![p] = "idle"]

Completes(p) ==
  LET t == <<cur[p].req, 1>>
      done == cur[p].done \o xfer[t].pages
  IN  /\ pc[p] = "woken" /\ xfer[t].state = "COMPLETED"
      /\ TransferDestroy({t})
      /\ IF Rest(p) = << >>
         THEN Finish(p, done)
         ELSE /\ cur' = [cur EXCEPT ![p].pages = Rest(p), ![p].done = done]
              /\ pc' = [pc EXCEPT ![p] = "init"]
              /\ UNCHANGED <<xfer, desc_lock, held, acked>>
      /\ UNCHANGED <<transfer_list, desc_idx, running, desc_dequeued, offline,
                     hw, irq_on, work, taken, device_open, submit_cnt, next>>

(* A transfer that failed, or that is still under way and is aborted. *)
Gives(p) ==
  LET t == <<cur[p].req, 1>>
  IN  /\ pc[p] = "woken" /\ xfer[t].state \in {"SUBMITTED", "FAILED"}
      /\ IF xfer[t].state = "SUBMITTED" THEN TransferAbort(t)
         ELSE UNCHANGED <<transfer_list, running, hw>>
      /\ TransferDestroy({t})
      /\ Finish(p, cur[p].done)
      /\ UNCHANGED <<desc_idx, desc_dequeued, offline, irq_on, work,
                     taken, device_open, submit_cnt, next>>

-----------------------------------------------------------------------------
(* engine_service_work and transfer_io_handler.                            *)

(* Wakes the threads in poll, which look at the count again. *)
WakePollers == pc' = [p \in Procs |-> IF pc[p] = "sleep" THEN "poll" ELSE pc[p]]

(* xdma_xfer_completion goes through the transfers of a request up to the  *)
(* first that failed.                                                      *)
Reaped(r) == IF Ended[<<r, 1>>].state = "FAILED" THEN {<<r, 1>>}
             ELSE {<<r, 1>>, <<r, 2>>}

(* transfer_io_handler with err = 0, the only value the engine passes.     *)
Callback(r) ==
  /\ TransferDestroy(Reaped(r))
  /\ xfer' = Freed(r)
  /\ held' = [held EXCEPT ![r] = {}]
  /\ submit_cnt' = (submit_cnt - 1) % 2^Width
  /\ WakePollers

(* Mutant of Completion: the callback is run for each transfer.            *)
CompletionEach ==
  LET t == Head(transfer_list)
  IN  IF xfer[t].cb THEN Callback(t[1])
      ELSE /\ xfer' = Ended
           /\ UNCHANGED <<ring, desc_used, submit_cnt, pc, held>>

(* engine_transfer_completion of the transfer that ended: the callback is  *)
(* run for the last one of a request.                                      *)
Completion ==
  LET t == Head(transfer_list)
  IN  IF xfer[t].cb /\ xfer[t].last THEN Callback(t[1])
      ELSE /\ xfer' = Ended
           /\ UNCHANGED <<ring, desc_used, submit_cnt, pc, held>>

ServiceWork ==
  /\ work
  /\ work' = FALSE
  /\ irq_on' = TRUE
  /\ EngineService
  /\ IF Finishes THEN Completion
     ELSE UNCHANGED <<xfer, ring, desc_used, submit_cnt, pc, held>>
  /\ UNCHANGED <<desc_idx, offline, taken, device_open, desc_lock, cur, next,
                 acked>>

-----------------------------------------------------------------------------
(* poll: the thread is on the wait queue before it looks at the count. *)
Poll(p) ==
  /\ pc[p] = "idle" /\ device_open /\ Nonblock
  /\ pc' = [pc EXCEPT ![p] = "poll"]
  /\ UNCHANGED <<engineVars, device_open, submit_cnt, desc_lock, cur, held,
                 next, acked>>

PollCheck(p) ==
  /\ pc[p] = "poll"
  /\ pc' = [pc EXCEPT ![p] = IF submit_cnt = 0 THEN "idle" ELSE "sleep"]
  /\ UNCHANGED <<engineVars, device_open, submit_cnt, desc_lock, cur, held,
                 next, acked>>

-----------------------------------------------------------------------------
Continue(p) ==
  \/ Submit(p) \/ SubmitOffline(p) \/ Lock(p) \/ InitTransfer(p)
  \/ QueueTransfer(p) \/ QueueOffline(p) \/ CountSubmit(p)
  \/ Wake(p) \/ Completes(p) \/ Gives(p) \/ PollCheck(p)

Engine ==
  \/ HwDescriptor /\ UNCHANGED driverVars
  \/ HwError /\ UNCHANGED driverVars
  \/ ChannelIrq /\ UNCHANGED driverVars
  \/ ServiceWork

Next ==
  \/ Open \/ Close
  \/ \E p \in Procs, n \in WritePages : Write(p, n)
  \/ \E p \in Procs : Poll(p) \/ Interrupt(p) \/ Continue(p)
  \/ Engine
  \/ Offline /\ UNCHANGED driverVars

(* The scheduler runs every thread that can go on; the hardware works, its *)
(* interrupt is delivered and the work queue runs what is scheduled.       *)
Fairness ==
  /\ \A p \in Procs : WF_vars(Continue(p))
  /\ WF_vars(HwDescriptor /\ UNCHANGED driverVars)
  /\ WF_vars(ChannelIrq /\ UNCHANGED driverVars)
  /\ WF_vars(ServiceWork)

Spec == Init /\ [][Next]_vars /\ Fairness

(* With the transfer timeout (h2c_timeout, 10 s unless it is set to 0) no  *)
(* wait is endless.                                                        *)
SpecTimeout == Spec /\ \A p \in Procs : WF_vars(Interrupt(p))

-----------------------------------------------------------------------------
TypeOK ==
  /\ device_open \in BOOLEAN /\ submit_cnt \in 0..(2^Width - 1)
  /\ desc_lock \in Procs \cup {"none"}
  /\ pc \in [Procs -> {"idle", "submit", "lock", "init", "queue", "wait",
                       "woken", "count", "poll", "sleep"}]
  /\ held \in [Reqs -> SUBSET {"cb", "pages", "dma", "req"}]
  /\ \A p \in Procs : cur[p].k \in 1..3
  /\ desc_idx \in 0..(DescMax - 1) /\ desc_used \in Nat
  /\ \A t \in Xfers :
       xfer[t].state \in {"NEW", "SUBMITTED", "COMPLETED", "FAILED"}

(* The engine never works on memory that has been given back: a transfer   *)
(* on its list belongs to a request that is still allocated, also when a   *)
(* write has been interrupted and its transfer aborted, or a callback has  *)
(* freed a request while the service goes on with the list.                *)
ListIsLive ==
  \A i \in DOMAIN transfer_list : "req" \in held[transfer_list[i][1]]

(* A descriptor is not written again while its transfer is on the list. *)
RingIntact ==
  \A i \in DOMAIN transfer_list :
    LET x == xfer[transfer_list[i]]
    IN  \A j \in DOMAIN x.pages : ring[x.idx + j - 1] = x.pages[j]

(* The WARN_ON of engine_service_final_transfer: the hardware never        *)
(* reports more descriptors than the transfer at the head has, even when   *)
(* the service belongs to the interrupt of a transfer aborted before.      *)
CountFits == Finishes => Completed <= desc_num(Head(transfer_list))

(* What a blocking write reports as written has reached the core, as one   *)
(* piece that no write of another thread interrupts.                       *)
AckedDelivered ==
  \A w \in acked :
    \E i \in 1..(Len(taken) - Len(w) + 1) : SubSeq(taken, i, i + Len(w) - 1) = w

(* When no call and no transfer is under way, nothing is left allocated or *)
(* pinned.                                                                 *)
NoLeak ==
  (\A p \in Procs : pc[p] = "idle") /\ transfer_list = << >> =>
    \A r \in Reqs : held[r] = {}

(* Once a count of zero lets poll report the device ready, every page      *)
(* written before has reached the core, in order.                          *)
ReadyMeansDelivered ==
  Nonblock /\ submit_cnt = 0 /\ (\A p \in Procs : pc[p] \in {"idle", "poll"}) =>
    taken = [i \in 1..(next - 1) |-> i]

(* Every call returns: a blocking write whatever becomes of its transfer,  *)
(* poll once the transfers are through.                                    *)
CallsReturn == \A p \in Procs : pc[p] # "idle" ~> pc[p] = "idle"
=============================================================================
