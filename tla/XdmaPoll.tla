------------------------------ MODULE XdmaPoll -------------------------------
(***************************************************************************)
(* The PCIe driver in poll mode (poll_mode = 1): no interrupts, instead    *)
(* the threads of xdma_thread.c watch the location in memory to which each *)
(* engine writes its count of completed descriptors.  The threads, the     *)
(* engines' hardware, one blocking writer for each engine and the thread   *)
(* that loads and unloads the driver run side by side.                     *)
(*                                                                         *)
(* A transfer is its number of descriptors; the mutex of the engine lets   *)
(* one at a time in.  thp->lock is held exactly while a thread is at       *)
(* "work", "poll", "clear" or "service"; other uses of it are one step.    *)
(***************************************************************************)
EXTENDS Integers, SequencesExt

CONSTANTS
  NumThreads,  \* threads: CPUs online, at most one for each channel
  NumEngines,  \* engines the card has
  Writers,     \* engines with a writer
  DescNums,    \* descriptors a transfer may have
  Faults,      \* see FaultNames
  MaxWrites,   \* bound: writes to an engine
  MaxLoads     \* bound: times the threads are created

Threads == 0..(NumThreads - 1)
Engines == 1..NumEngines

(* "start": a thread cannot be created; "error", "late_error": the engine  *)
(* stops with an error, on any descriptor or not on the first one;         *)
(* "timeout": a writer gives up; "nowait": a write with O_NONBLOCK.        *)
FaultNames == {"start", "error", "late_error", "timeout", "nowait"}

ASSUME PollAssumption ==
  /\ NumThreads \in Nat \ {0} /\ NumEngines \in Nat \ {0}
  /\ Writers \subseteq Engines /\ DescNums \subseteq Nat \ {0}
  /\ Faults \subseteq FaultNames /\ MaxWrites \in Nat /\ MaxLoads \in Nat

VARIABLES
  drv,         \* the loading thread: place, loop counter, thread it works on
  cs_threads,  \* the array of threads is allocated
  thp,         \* struct xdma_kthread, and where its task is
  engine,      \* struct xdma_engine: transfer, hardware, write-back; and
               \* whether a writer has given up on it
  writer,      \* where each writer is
  writes, loads

vars == <<drv, cs_threads, thp, engine, writer, writes, loads>>

NoThread == -1
NoWb == [count |-> 0, err |-> FALSE]

NewThread ==
  [pc |-> "none", schedule |-> FALSE, stop |-> FALSE, work_list |-> << >>,
   n |-> 1, expected |-> 0, wb |-> NoWb]

NewEngine ==
  [live |-> FALSE, cmplthp |-> NoThread, queued |-> FALSE, state |-> "NEW",
   desc_num |-> 0, running |-> FALSE, busy |-> FALSE, count |-> 0, wb |-> NoWb,
   aborted |-> FALSE]

Init ==
  /\ drv = [pc |-> "off", n |-> 0, t |-> NoThread]
  /\ cs_threads = FALSE
  /\ thp = [t \in Threads |-> NewThread]
  /\ engine = [e \in Engines |-> NewEngine]
  /\ writer = [e \in Writers |-> "idle"]
  /\ writes = [e \in Writers |-> 0] /\ loads = 0

Locked(t) == thp[t].pc \in {"work", "poll", "clear", "service"}

Woken(pc) == IF pc = "asleep" THEN "wait" ELSE pc

-----------------------------------------------------------------------------
(* The loading thread. *)

At(l) == drv.pc = l
Go(l) == drv' = [pc |-> l, n |-> 0, t |-> NoThread]
Loop == drv' = [drv EXCEPT !.n = @ + 1]

CreateThreads ==
  /\ At("off") /\ loads < MaxLoads
  /\ cs_threads' = TRUE
  /\ loads' = loads + 1
  /\ Go("start")
  /\ UNCHANGED <<thp, engine, writer, writes>>

(* xdma_kthread_start.  A failure frees the array, but stops no thread. *)
KthreadStart ==
  /\ At("start")
  /\ \/ /\ thp' = [thp EXCEPT ![drv.n] = [NewThread EXCEPT !.pc = "top"]]
        /\ IF drv.n + 1 = NumThreads THEN Go("add") ELSE Loop
        /\ UNCHANGED cs_threads
     \/ /\ "start" \in Faults
        /\ cs_threads' = FALSE
        /\ Go("failed")
        /\ UNCHANGED thp
  /\ UNCHANGED <<engine, writer, writes, loads>>

WorkCnt(t) == Len(thp[t].work_list)

(* Mutant of PickThread: a thread without work is passed over. *)
PickThreadBusy ==
  Max({0} \cup {t \in Threads : WorkCnt(t) < WorkCnt(0) /\ WorkCnt(t) > 0})

(* The choice of xdma_thread_add_work: the first thread without work, from *)
(* the second on, or else the last with less work than the first one.      *)
PickThread ==
  LET unused == {t \in Threads \ {0} : WorkCnt(t) = 0}
      less == {t \in Threads : WorkCnt(t) < WorkCnt(0)}
  IN  IF unused # {} THEN Min(unused) ELSE Max({0} \cup less)

(* xdma_thread_add_work, the last step of engine_init. *)
AddWork ==
  /\ At("add") /\ drv.n < NumEngines
  /\ LET t == PickThread
         e == drv.n + 1
     IN  /\ ~Locked(t)
         /\ thp' = [thp EXCEPT ![t].work_list = Append(@, e)]
         /\ engine' = [engine EXCEPT ![e] =
                         [NewEngine EXCEPT !.live = TRUE, !.cmplthp = t]]
  /\ Loop
  /\ UNCHANGED <<cs_threads, writer, writes, loads>>

LoadDone ==
  /\ At("add") /\ drv.n = NumEngines
  /\ Go("up")
  /\ UNCHANGED <<cs_threads, thp, engine, writer, writes, loads>>

(* The nodes are closed and gone: remove_engines. *)
Unload ==
  /\ At("up") /\ \A e \in Writers : writer[e] = "idle"
  /\ Go("remove")
  /\ UNCHANGED <<cs_threads, thp, engine, writer, writes, loads>>

(* xdma_thread_remove_work, first under the lock of the engine ... *)
RemoveWork ==
  /\ At("remove") /\ drv.n < NumEngines
  /\ LET e == drv.n + 1
     IN  /\ drv' = [drv EXCEPT !.pc = "unlink", !.t = engine[e].cmplthp]
         /\ engine' = [engine EXCEPT ![e].cmplthp = NoThread]
  /\ UNCHANGED <<cs_threads, thp, writer, writes, loads>>

(* ... then under that of the thread, which may be polling: list_del. *)
UnlinkWork ==
  /\ At("unlink") /\ ~Locked(drv.t)
  /\ thp' = [thp EXCEPT ![drv.t].work_list =
               RemoveAt(@, CHOOSE i \in DOMAIN @ : @[i] = drv.n + 1)]
  /\ drv' = [drv EXCEPT !.pc = "destroy"]
  /\ UNCHANGED <<cs_threads, engine, writer, writes, loads>>

(* The rest of engine_destroy: the write-back location is freed, too. *)
EngineDestroy ==
  /\ At("destroy")
  /\ engine' = [engine EXCEPT ![drv.n + 1] = NewEngine]
  /\ IF drv.n + 1 = NumEngines THEN Go("stop")
     ELSE drv' = [pc |-> "remove", n |-> drv.n + 1, t |-> NoThread]
  /\ UNCHANGED <<cs_threads, thp, writer, writes, loads>>

(* xdma_kthread_stop sets schedule without a wake-up, ... *)
KthreadStop ==
  /\ At("stop")
  /\ thp' = [thp EXCEPT ![drv.n].schedule = TRUE]
  /\ drv' = [drv EXCEPT !.pc = "kthread_stop"]
  /\ UNCHANGED <<cs_threads, engine, writer, writes, loads>>

(* ... kthread_stop sets its flag, wakes the task and waits for its end. *)
KthreadStopFlag ==
  /\ At("kthread_stop")
  /\ thp' = [thp EXCEPT ![drv.n].stop = TRUE, ![drv.n].pc = Woken(@)]
  /\ drv' = [drv EXCEPT !.pc = "join"]
  /\ UNCHANGED <<cs_threads, engine, writer, writes, loads>>

(* Mutant of KthreadJoin: the array is freed without waiting. *)
KthreadJoinNot ==
  /\ At("join")
  /\ IF drv.n + 1 = NumThreads
     THEN Go("off") /\ cs_threads' = FALSE
     ELSE /\ drv' = [pc |-> "stop", n |-> drv.n + 1, t |-> NoThread]
          /\ UNCHANGED cs_threads
  /\ UNCHANGED <<thp, engine, writer, writes, loads>>

KthreadJoin ==
  /\ At("join") /\ thp[drv.n].pc = "none"
  /\ IF drv.n + 1 = NumThreads
     THEN Go("off") /\ cs_threads' = FALSE
     ELSE /\ drv' = [pc |-> "stop", n |-> drv.n + 1, t |-> NoThread]
          /\ UNCHANGED cs_threads
  /\ UNCHANGED <<thp, engine, writer, writes, loads>>

-----------------------------------------------------------------------------
(* xthread_main *)

(* fpending: some engine of the thread has a transfer on its list. *)
WorkPending(t) == \E e \in ToSet(thp[t].work_list) : engine[e].queued

(* One round: with a transfer pending the thread keeps its lock, or else   *)
(* it waits without it until schedule is set.                              *)
ThreadTop(t) ==
  /\ thp[t].pc = "top"
  /\ thp' = [thp EXCEPT ![t] =
               IF thp[t].stop THEN [@ EXCEPT !.pc = "none"]
               ELSE IF WorkPending(t)
               THEN [@ EXCEPT !.pc = "work", !.schedule = FALSE, !.n = 1]
               ELSE [@ EXCEPT !.pc = "wait"]]
  /\ UNCHANGED <<drv, cs_threads, engine, writer, writes, loads>>

(* wait_event_interruptible looks at schedule once it is on the queue, and *)
(* again after each wake-up; the flag of kthread_stop does not end it.     *)
ThreadReschedule(t) ==
  /\ thp[t].pc = "wait"
  /\ thp' = [thp EXCEPT ![t] =
               IF thp[t].schedule
               THEN [@ EXCEPT !.pc = "work", !.schedule = FALSE, !.n = 1]
               ELSE [@ EXCEPT !.pc = "asleep"]]
  /\ UNCHANGED <<drv, cs_threads, engine, writer, writes, loads>>

Current(t) == thp[t].work_list[thp[t].n]

(* The next work item; fproc reads the threshold of the first transfer, or *)
(* past the empty list a word that is 0, for which nothing is polled.      *)
ThreadWork(t) ==
  /\ thp[t].pc = "work"
  /\ thp' = [thp EXCEPT ![t] =
               IF thp[t].n > WorkCnt(t) THEN [@ EXCEPT !.pc = "top"]
               ELSE IF ~engine[Current(t)].queued
               THEN [@ EXCEPT !.n = thp[t].n + 1]
               ELSE [@ EXCEPT !.pc = "poll",
                              !.expected = engine[Current(t)].desc_num]]
  /\ UNCHANGED <<drv, cs_threads, engine, writer, writes, loads>>

Enough(wb, expected) == wb.err \/ wb.count >= expected

(* engine_service_wb_monitor reads the count; an empty one may end the     *)
(* loop by its timeout.                                                    *)
ThreadPoll(t) ==
  /\ thp[t].pc = "poll"
  /\ LET wb == engine[Current(t)].wb
     IN  \/ /\ wb # NoWb
            /\ thp' = [thp EXCEPT ![t].pc = "clear", ![t].wb = wb]
         \/ /\ wb = NoWb
            /\ thp' = [thp EXCEPT ![t].pc = "work", ![t].n = @ + 1]
  /\ UNCHANGED <<drv, cs_threads, engine, writer, writes, loads>>

(* Mutant of ThreadClear: the count stays in memory. *)
ThreadClearNot(t) ==
  /\ thp[t].pc = "clear"
  /\ LET done == Enough(thp[t].wb, thp[t].expected)
     IN  \/ thp' = [thp EXCEPT ![t].pc = IF done THEN "service" ELSE "poll"]
         \/ /\ ~done
            /\ thp' = [thp EXCEPT ![t].pc = "service"]
  /\ UNCHANGED <<drv, cs_threads, engine, writer, writes, loads>>

(* It is cleared for the next transfer; one that is too small is polled    *)
(* for again, or it is what the timeout leaves to the service.             *)
ThreadClear(t) ==
  /\ thp[t].pc = "clear"
  /\ engine' = [engine EXCEPT ![Current(t)].wb = NoWb]
  /\ LET done == Enough(thp[t].wb, thp[t].expected)
     IN  \/ thp' = [thp EXCEPT ![t].pc = IF done THEN "service" ELSE "poll"]
         \/ /\ ~done
            /\ thp' = [thp EXCEPT ![t].pc = "service"]
  /\ UNCHANGED <<drv, cs_threads, writer, writes, loads>>

(* engine_service with the count from memory.  An engine that is not       *)
(* running only has its status cleared; else it is stopped, and a count of *)
(* zero (an error on the first descriptor) leaves the transfer on the list.*)
Serviced(x, wb) ==
  IF ~x.running THEN x
  ELSE IF wb.count = 0 THEN [x EXCEPT !.running = FALSE, !.busy = FALSE]
  ELSE [x EXCEPT !.running = FALSE, !.busy = FALSE, !.queued = FALSE,
                 !.state = IF wb.err \/ wb.count < x.desc_num
                           THEN "FAILED" ELSE "COMPLETED"]

ThreadService(t) ==
  /\ thp[t].pc = "service"
  /\ engine' = [engine EXCEPT ![Current(t)] = Serviced(@, thp[t].wb)]
  /\ thp' = [thp EXCEPT ![t].pc = "work", ![t].n = @ + 1]
  /\ UNCHANGED <<drv, cs_threads, writer, writes, loads>>

-----------------------------------------------------------------------------
(* A blocking write (xdma_xfer_submit), and the engine.                    *)

Write(e, num) ==
  /\ At("up") /\ writer[e] = "idle" /\ writes[e] < MaxWrites
  /\ engine' = [engine EXCEPT ![e].queued = TRUE, ![e].state = "SUBMITTED",
                              ![e].desc_num = num, ![e].running = TRUE,
                              ![e].busy = TRUE, ![e].count = 0]
  /\ writer' = [writer EXCEPT ![e] = "wakeup"]
  /\ writes' = [writes EXCEPT ![e] = @ + 1]
  /\ UNCHANGED <<drv, cs_threads, thp, loads>>

(* Mutant of KthreadWakeup: the thread is not told. *)
KthreadWakeupNot(e) ==
  /\ writer[e] = "wakeup"
  /\ writer' = [writer EXCEPT ![e] = "wait"]
  /\ UNCHANGED <<drv, cs_threads, thp, engine, writes, loads>>

(* xdma_kthread_wakeup, which xdma_xfer_submit_nowait does not call. *)
KthreadWakeup(e) ==
  /\ writer[e] = "wakeup"
  /\ writer' = [writer EXCEPT ![e] = "wait"]
  /\ \/ thp' = [thp EXCEPT ![engine[e].cmplthp].schedule = TRUE,
                           ![engine[e].cmplthp].pc = Woken(@)]
     \/ "nowait" \in Faults /\ UNCHANGED thp
  /\ UNCHANGED <<drv, cs_threads, engine, writes, loads>>

(* The wait is over when the transfer has ended. *)
WriteReturns(e) ==
  /\ writer[e] = "wait" /\ engine[e].state # "SUBMITTED"
  /\ writer' = [writer EXCEPT ![e] = "idle"]
  /\ UNCHANGED <<drv, cs_threads, thp, engine, writes, loads>>

(* A signal or the timeout ends it too: the writer takes the transfer off  *)
(* the list and stops the engine, but leaves the count in memory, and the  *)
(* thread, as they are.                                                    *)
WriteGivesUp(e) ==
  /\ "timeout" \in Faults
  /\ writer[e] = "wait" /\ engine[e].state = "SUBMITTED"
  /\ engine' = [engine EXCEPT ![e].queued = FALSE, ![e].state = "ABORTED",
                              ![e].running = FALSE, ![e].busy = FALSE,
                              ![e].aborted = TRUE]
  /\ writer' = [writer EXCEPT ![e] = "idle"]
  /\ UNCHANGED <<drv, cs_threads, thp, writes, loads>>

(* The engine moves a descriptor, and writes its count back after the last *)
(* of a chain, the only one that asks for it, or after an error.           *)
HwDescriptor(e) ==
  /\ engine[e].busy
  /\ LET x == engine[e]
         last == x.count + 1 = x.desc_num
         wb == [count |-> x.count + 1, err |-> FALSE]
     IN  \/ engine' = [engine EXCEPT ![e] =
              [x EXCEPT !.count = @ + 1, !.busy = ~last,
                        !.wb = IF last THEN wb ELSE @]]
         \/ /\ "error" \in Faults \/ ("late_error" \in Faults /\ x.count > 0)
            /\ engine' = [engine EXCEPT ![e] =
                 [x EXCEPT !.busy = FALSE,
                           !.wb = [count |-> x.count, err |-> TRUE]]]
  /\ UNCHANGED <<drv, cs_threads, thp, writer, writes, loads>>

-----------------------------------------------------------------------------
Driver ==
  \/ CreateThreads \/ KthreadStart \/ AddWork \/ LoadDone
  \/ Unload \/ RemoveWork \/ UnlinkWork \/ EngineDestroy
  \/ KthreadStop \/ KthreadStopFlag \/ KthreadJoin

Thread(t) ==
  \/ ThreadTop(t) \/ ThreadReschedule(t) \/ ThreadWork(t)
  \/ ThreadPoll(t) \/ ThreadClear(t) \/ ThreadService(t)

Next ==
  \/ Driver
  \/ \E t \in Threads : Thread(t)
  \/ \E e \in Writers :
       \/ \E num \in DescNums : Write(e, num)
       \/ KthreadWakeup(e) \/ WriteReturns(e) \/ WriteGivesUp(e)
       \/ HwDescriptor(e)

(* Threads and writers are scheduled, the hardware works.  No signal and   *)
(* no timeout is counted on.                                               *)
Spec ==
  /\ Init /\ [][Next]_vars
  /\ \A t \in Threads : WF_vars(Thread(t))
  /\ \A e \in Writers :
       WF_vars(KthreadWakeup(e)) /\ WF_vars(WriteReturns(e)) /\ WF_vars(HwDescriptor(e))

(* The loading thread goes on with what it has begun. *)
SpecUnload == Spec /\ WF_vars(Driver)

-----------------------------------------------------------------------------
(* A thread touches only what exists: its own structure, and an engine     *)
(* that has not been destroyed and is on its work list.                    *)
ThreadOnLiveEngine ==
  \A t \in Threads :
    /\ thp[t].pc # "none" => cs_threads
    /\ thp[t].pc \in {"poll", "clear", "service"} =>
         thp[t].n <= WorkCnt(t) /\ engine[Current(t)].live

(* A transfer is reported as completed only when the engine has moved all  *)
(* of it: no count written back for an earlier transfer is taken for that  *)
(* of a later one, and none that is too small.  This holds for an engine   *)
(* until one of its writers gives up, whatever happens on other engines    *)
(* that the same thread serves; for the rest see AllCompletedArrived.      *)
CompletedArrived ==
  \A e \in Engines :
    engine[e].state = "COMPLETED" /\ ~engine[e].aborted =>
      engine[e].count = engine[e].desc_num

(* The same for every transfer: xdma_xfer_submit returns the count of the  *)
(* data that was processed.  The code does not keep this: the count of a   *)
(* transfer that was given up is left in memory, or with the thread, and   *)
(* ends the next transfer.                                                 *)
AllCompletedArrived ==
  \A e \in Engines :
    engine[e].state = "COMPLETED" => engine[e].count = engine[e].desc_num

(* The engines are spread evenly over the threads when all are assigned,   *)
(* though each choice compares with the first thread only.                 *)
WorkBalanced ==
  At("up") => \A t, u \in Threads : WorkCnt(t) <= WorkCnt(u) + 1

(* Every write returns: the thread that is to watch its engine is woken,   *)
(* or was on its way through its list already.  Again this is for engines  *)
(* on which no writer has given up: its thread may still wait for the      *)
(* count of the transfer that was.  ([]<>~P is P ~> ~P.)                   *)
WritesReturn ==
  \A e \in Writers :
    []<>(writer[e] = "idle" \/ engine[e].aborted)

(* Unloading ends: xdma_threads_destroy stops all threads. *)
UnloadEnds == At("stop") ~> At("off")
=============================================================================
