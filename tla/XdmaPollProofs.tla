--------------------------- MODULE XdmaPollProofs ----------------------------
(***************************************************************************)
(* Poll mode for any number of threads, engines, writers, loads and        *)
(* unloads of the driver: a thread touches only what exists, a transfer is *)
(* reported as completed only when it is, and work is spread evenly.       *)
(***************************************************************************)
EXTENDS XdmaPoll, SequenceTheorems, WellFoundedInduction, TLAPS

Wb == [count : Nat, err : BOOLEAN]

List(t) == thp[t].work_list

WorkLists == Seq(Engines)

ThreadRecords ==
  [pc : {"none", "top", "wait", "asleep", "work", "poll", "clear", "service"},
   schedule : BOOLEAN, stop : BOOLEAN, work_list : WorkLists,
   n : Nat \ {0}, expected : Nat, wb : Wb]

EngineRecords ==
  [live : BOOLEAN, cmplthp : Threads \cup {NoThread}, queued : BOOLEAN,
   state : {"NEW", "SUBMITTED", "FAILED", "COMPLETED", "ABORTED"},
   desc_num : Nat, running : BOOLEAN, busy : BOOLEAN, count : Nat, wb : Wb,
   aborted : BOOLEAN]

LoadPlaces ==
  {"off", "start", "failed", "add", "up", "remove", "unlink", "destroy",
   "stop", "kthread_stop", "join"}

Types ==
  /\ thp \in [Threads -> ThreadRecords]
  /\ engine \in [Engines -> EngineRecords]
  /\ writer \in [Writers -> {"idle", "wakeup", "wait"}]
  /\ drv \in [pc : LoadPlaces, n : Nat, t : Threads \cup {NoThread}]

(* Where the loading thread is, and how far its loops are. *)
Loading ==
  /\ drv.pc \in {"start", "stop", "kthread_stop", "join"} => drv.n \in Threads
  /\ drv.pc = "add" => drv.n \in 0..NumEngines
  /\ drv.pc \in {"remove", "unlink", "destroy"} => drv.n + 1 \in Engines
  /\ drv.pc = "unlink" => drv.t \in Threads

(* The engines that are initialised. *)
Assigned ==
  CASE drv.pc = "add" -> 1..drv.n
    [] drv.pc = "up" -> Engines
    [] drv.pc \in {"remove", "unlink", "destroy"} -> (drv.n + 1)..NumEngines
    [] OTHER -> {}

(* The thread that has the engine on its list: the one in cmplthp, or the  *)
(* one the loading thread has taken from there and is about to unlink.     *)
Owner(e) == IF drv.pc = "unlink" /\ e = drv.n + 1 THEN drv.t
            ELSE engine[e].cmplthp

Lists ==
  /\ \A e \in Engines : engine[e].live <=> e \in Assigned
  /\ \A e \in Engines :
       Owner(e) # NoThread <=>
         engine[e].live /\ ~(drv.pc = "destroy" /\ e = drv.n + 1)
  /\ drv.pc = "unlink" => engine[drv.n + 1].cmplthp = NoThread
  /\ \A t \in Threads : \A i \in DOMAIN List(t) : Owner(List(t)[i]) = t
  /\ \A t \in Threads : \A i, j \in DOMAIN List(t) :
       List(t)[i] = List(t)[j] => i = j
  /\ \A e \in Engines : Owner(e) \in Threads =>
       \E i \in DOMAIN List(Owner(e)) : List(Owner(e))[i] = e

(* The threads run only between their start and their end. *)
Running ==
  /\ drv.pc \notin {"off", "failed"} => cs_threads
  /\ drv.pc = "off" => \A t \in Threads : thp[t].pc = "none"
  /\ drv.pc = "start" => \A t \in Threads : t >= drv.n => thp[t].pc = "none"
  /\ drv.pc \in {"stop", "kthread_stop", "join"} =>
       \A t \in Threads : t < drv.n => thp[t].pc = "none"

(* A thread that polls is at an engine of its list. *)
OnList ==
  \A t \in Threads : Locked(t) /\ thp[t].pc # "work" =>
    thp[t].n \in DOMAIN List(t)

(* Until a writer gives up, the count in memory is that of the transfer    *)
(* under way, and there is none before the engine has stopped and none     *)
(* after the transfer.                                                     *)
Engine(x) == ~x.aborted =>
  /\ x.queued <=> x.state = "SUBMITTED"
  /\ x.state # "SUBMITTED" => ~x.busy /\ x.wb = NoWb
  /\ x.busy => x.wb = NoWb /\ x.count < x.desc_num
  /\ x.wb # NoWb => x.wb.count = x.count /\ (x.wb.err \/ x.count = x.desc_num)
  /\ x.state = "COMPLETED" => x.count = x.desc_num

(* What a thread has read is the count of the transfer it services: thread *)
(* r at engine x.                                                          *)
Serves(r, x) == ~x.aborted =>
  /\ r.pc \in {"poll", "clear", "service"} => x.queued
  /\ r.pc \in {"clear", "service"} =>
       /\ ~x.busy
       /\ r.wb.count = x.count
       /\ r.wb.err \/ x.count = x.desc_num
  /\ r.pc = "service" => x.wb = NoWb

Servicing == \A t \in Threads : Serves(thp[t], engine[Current(t)])

Transfers ==
  /\ \A e \in Engines : Engine(engine[e])
  /\ \A e \in Writers : engine[e].state = "SUBMITTED" => writer[e] # "idle"
  /\ Servicing

Balanced == \A t, u \in Threads : WorkCnt(t) <= WorkCnt(u) + 1

ListInv == Types /\ Loading /\ Lists /\ OnList

ThreadInv == ListInv /\ drv.pc # "failed" /\ Running

TransferInv == ListInv /\ Transfers

SpreadInv == ListInv /\ (drv.pc \in {"off", "start", "add", "up"} => Balanced)

-----------------------------------------------------------------------------
(* Least and greatest elements, and the choice of a thread.                *)

LEMMA MinExists ==
  ASSUME NEW S \in SUBSET Nat, S # {}
  PROVE  \E x \in S : \A y \in S : x <= y
<1>1. PICK x \in S : \A y \in S : ~ (<<y, x>> \in OpToRel(<, Nat))
  <2> DEFINE R == OpToRel(<, Nat)
  <2>1. IsWellFoundedOn(R, Nat)
    BY NatLessThanWellFounded
  <2> HIDE DEF R
  <2>2. \E x \in S : \A y \in S : ~ (<<y, x>> \in R)
    BY <2>1, WFMin
  <2> QED
    BY <2>2 DEF R
<1>2. \A y \in S : ~(y < x)
  BY <1>1 DEF OpToRel
<1> QED
  BY <1>2

LEMMA MaxExists ==
  ASSUME NEW n \in Nat, NEW S \in SUBSET (0..n), S # {}
  PROVE  \E x \in S : \A y \in S : x >= y
<1> DEFINE U == {n - x : x \in S}
<1>1. U \in SUBSET Nat
  OBVIOUS
<1>2. U # {}
  OBVIOUS
<1>3. \A y \in S : n - y \in U
  OBVIOUS
<1>4. \A u \in U : \E x \in S : u = n - x
  OBVIOUS
<1> HIDE DEF U
<1>5. PICK u \in U : \A y \in U : u <= y
  BY <1>1, <1>2, MinExists
<1>6. PICK x \in S : u = n - x
  BY <1>4
<1>7. \A y \in S : n - x <= n - y
  BY <1>3, <1>5, <1>6
<1> QED
  BY <1>6, <1>7

LEMMA CountTyped == ASSUME Types PROVE \A t \in Threads : WorkCnt(t) \in Nat
  BY DEF Types, WorkCnt

(* The thread that gets an engine has no more work than any other: the     *)
(* comparison with the first thread is enough while work is balanced.      *)
LEMMA PickLeast ==
  ASSUME Types
  PROVE  /\ PickThread \in Threads
         /\ Balanced => \A u \in Threads : WorkCnt(PickThread) <= WorkCnt(u)
<1> DEFINE unused == {t \in Threads \ {0} : WorkCnt(t) = 0}
           less == {t \in Threads : WorkCnt(t) < WorkCnt(0)}
<1>0. NumThreads \in Nat \ {0} /\ 0 \in Threads /\ Threads \subseteq Nat
  BY PollAssumption DEF Threads
<1>1. \A t \in Threads : WorkCnt(t) \in Nat
  BY CountTyped
<1>2. PickThread = IF unused # {} THEN Min(unused) ELSE Max({0} \cup less)
  BY DEF PickThread
<1>3. CASE unused # {}
  <2>1. unused \in SUBSET Nat
    BY <1>0
  <2>2. \E x \in unused : \A y \in unused : x <= y
    <3> HIDE DEF unused
    <3> QED
      BY <1>3, <2>1, MinExists
  <2>3. PickThread \in unused
    <3> HIDE DEF unused
    <3> QED
      BY <1>2, <1>3, <2>2 DEF Min
  <2> QED
    BY <1>1, <2>3
<1>4. CASE unused = {}
  <2> DEFINE M == {0} \cup less
  <2>1. M \in SUBSET (0..(NumThreads - 1)) /\ M # {} /\ NumThreads - 1 \in Nat
    BY <1>0 DEF Threads
  <2>2. \E x \in M : \A y \in M : x >= y
    <3> HIDE DEF M
    <3> QED
      BY <2>1, MaxExists
  <2>3. PickThread \in M /\ \A y \in M : PickThread >= y
    <3>1. PickThread = Max(M)
      BY <1>2, <1>4
    <3> HIDE DEF M
    <3> QED
      BY <3>1, <2>2 DEF Max
  <2>4. PickThread \in Threads
    BY <1>0, <2>3
  <2>5. ASSUME Balanced, NEW u \in Threads
        PROVE  WorkCnt(PickThread) <= WorkCnt(u)
    <3>1. CASE PickThread \in less
      BY <1>0, <1>1, <2>4, <2>5, <3>1 DEF Balanced
    <3>2. CASE PickThread = 0
      <4>1. ASSUME NEW v \in less PROVE v = 0
        <5>1. v \in Nat /\ 0 >= v
          BY <1>0, <2>3, <3>2
        <5> QED
          BY <5>1
      <4> QED
        BY <1>0, <1>1, <3>2, <4>1
    <3> QED
      BY <2>3, <3>1, <3>2
  <2> QED
    BY <2>4, <2>5
<1> QED
  BY <1>3, <1>4

LEMMA RemoveAtProperties ==
  ASSUME NEW S, NEW s \in Seq(S), NEW k \in 1..Len(s)
  PROVE  /\ RemoveAt(s, k) \in Seq(S)
         /\ Len(RemoveAt(s, k)) = Len(s) - 1
         /\ \A i \in 1..(Len(s) - 1) :
              RemoveAt(s, k)[i] = IF i < k THEN s[i] ELSE s[i + 1]
<1> DEFINE a == SubSeq(s, 1, k - 1)
           b == SubSeq(s, k + 1, Len(s))
<1>1. a \in Seq(S) /\ Len(a) = k - 1 /\ \A i \in 1..(k - 1) : a[i] = s[i]
  OBVIOUS
<1>2. /\ b \in Seq(S) /\ Len(b) = Len(s) - k
      /\ \A i \in 1..(Len(s) - k) : b[i] = s[i + k]
  OBVIOUS
<1>3. RemoveAt(s, k) = a \o b
  BY DEF RemoveAt
<1>4. Len(s) \in Nat
  OBVIOUS
<1> HIDE DEF a, b
<1>5. a \o b \in Seq(S) /\ Len(a \o b) = Len(s) - 1
  <2>1. a \o b \in Seq(S) /\ Len(a \o b) = Len(a) + Len(b)
    BY <1>1, <1>2, ConcatProperties
  <2> QED
    BY <1>1, <1>2, <1>4, <2>1
<1>6. ASSUME NEW i \in 1..(Len(s) - 1)
      PROVE  (a \o b)[i] = IF i < k THEN s[i] ELSE s[i + 1]
  <2>1. (a \o b)[i] = IF i <= k - 1 THEN a[i] ELSE b[i - (k - 1)]
    BY <1>1, <1>2, <1>4
  <2>2. CASE i < k
    BY <1>1, <2>1, <2>2
  <2>3. CASE ~(i < k)
    <3>1. i - (k - 1) \in 1..(Len(s) - k) /\ i - (k - 1) + k = i + 1
      BY <1>4, <2>3
    <3> QED
      BY <1>2, <2>1, <2>3, <3>1
  <2> QED
    BY <2>2, <2>3
<1> QED
  BY <1>3, <1>5, <1>6

-----------------------------------------------------------------------------
(* Types and lists.                                                        *)

LEMMA ThreadsAreNat ==
  /\ Threads \subseteq Nat /\ NoThread \notin Threads
  /\ 0 \in Threads /\ 1 \in Engines /\ Engines \subseteq Nat
  BY PollAssumption DEF Threads, Engines, NoThread

LEMMA NewTyped ==
  /\ NewThread \in ThreadRecords
  /\ NewEngine \in EngineRecords
  /\ NoWb \in Wb
<1>1. << >> \in Seq(Engines)
  OBVIOUS
<1>2. NoWb \in Wb
  BY DEF NoWb, Wb
<1>3. NewEngine \in EngineRecords
  BY <1>2 DEF NewEngine, EngineRecords
<1> QED
  BY <1>1, <1>2, <1>3 DEF NewThread, ThreadRecords, WorkLists

(* The engine a thread is at. *)
LEMMA CurrentTyped ==
  ASSUME Types, NEW t \in Threads, thp[t].n \in DOMAIN List(t)
  PROVE  Current(t) \in Engines
<1>1. List(t) \in Seq(Engines)
  BY DEF Types, ThreadRecords, WorkLists, List
<1> QED
  BY <1>1 DEF List, Current

LEMMA ListInit == ASSUME Init PROVE ListInv
<1>1. Types
  <2>1. thp \in [Threads -> ThreadRecords] /\ engine \in [Engines -> EngineRecords]
    BY NewTyped DEF Init
  <2>2. writer \in [Writers -> {"idle", "wakeup", "wait"}]
    BY DEF Init
  <2>3. drv \in [pc : LoadPlaces, n : Nat, t : Threads \cup {NoThread}]
    BY DEF Init, LoadPlaces
  <2> QED
    BY <2>1, <2>2, <2>3 DEF Types
<1>2. drv.pc = "off" /\ \A t \in Threads : List(t) = << >> /\ thp[t].pc = "none"
  BY DEF Init, List, NewThread
<1>3. \A e \in Engines : ~engine[e].live /\ engine[e].cmplthp = NoThread
  BY DEF Init, NewEngine
<1>4. Loading /\ OnList
  BY <1>2 DEF Loading, OnList, Locked
<1>5. Lists
  <2>1. Assigned = {} /\ \A e \in Engines : Owner(e) = NoThread
    BY <1>2, <1>3 DEF Assigned, Owner
  <2> QED
    BY <1>2, <1>3, <2>1, ThreadsAreNat DEF Lists
<1> QED
  BY <1>1, <1>4, <1>5 DEF ListInv

LEMMA DriverTyped ==
  ASSUME ListInv, Driver
  PROVE  drv' \in [pc : LoadPlaces, n : Nat, t : Threads \cup {NoThread}]
<1> DEFINE Place == [pc : LoadPlaces, n : Nat, t : Threads \cup {NoThread}]
<1>1. drv \in Place
  BY DEF ListInv, Types
<1>2. drv.n + 1 \in Nat
  BY <1>1
<1>3. ASSUME NEW l \in LoadPlaces, Go(l) PROVE drv' \in Place
  BY <1>3 DEF Go
<1>4. Loop => drv' \in Place
  BY <1>1, <1>2 DEF Loop
<1>5. ASSUME NEW l \in LoadPlaces, drv' = [pc |-> l, n |-> drv.n + 1, t |-> NoThread]
      PROVE  drv' \in Place
  BY <1>2, <1>5
<1>6. ASSUME NEW l \in LoadPlaces, drv' = [drv EXCEPT !.pc = l]
      PROVE  drv' \in Place
  BY <1>1, <1>6
<1>7. RemoveWork => drv' \in Place
  <2>1. SUFFICES ASSUME RemoveWork PROVE drv' \in Place
    OBVIOUS
  <2>2. drv.n + 1 \in Engines
    BY <2>1 DEF RemoveWork, ListInv, Loading, At
  <2>3. engine[drv.n + 1].cmplthp \in Threads \cup {NoThread}
    BY <2>2 DEF ListInv, Types, EngineRecords
  <2> QED
    BY <1>1, <2>1, <2>3 DEF RemoveWork, LoadPlaces
<1> HIDE DEF Place
<1>8. LoadPlaces = {"off", "start", "failed", "add", "up", "remove", "unlink",
                    "destroy", "stop", "kthread_stop", "join"}
  BY DEF LoadPlaces
<1>9. drv' \in Place
  <2>1. CASE CreateThreads \/ LoadDone \/ Unload
    BY <1>3, <1>8, <2>1 DEF CreateThreads, LoadDone, Unload
  <2>2. CASE KthreadStart
    BY <1>3, <1>4, <1>8, <2>2 DEF KthreadStart
  <2>3. CASE AddWork
    BY <1>4, <2>3 DEF AddWork
  <2>4. CASE UnlinkWork \/ KthreadStop \/ KthreadStopFlag
    BY <1>6, <1>8, <2>4 DEF UnlinkWork, KthreadStop, KthreadStopFlag
  <2>5. CASE EngineDestroy
    BY <1>3, <1>5, <1>8, <2>5 DEF EngineDestroy
  <2>6. CASE KthreadJoin
    BY <1>3, <1>5, <1>8, <2>6 DEF KthreadJoin
  <2> QED
    BY <1>7, <2>1, <2>2, <2>3, <2>4, <2>5, <2>6 DEF Driver
<1> QED
  BY <1>9 DEF Place

(* Updates of one thread or one engine keep the types. *)
LEMMA OneThread ==
  ASSUME thp \in [Threads -> ThreadRecords], NEW t, NEW r \in ThreadRecords
  PROVE  [thp EXCEPT ![t] = r] \in [Threads -> ThreadRecords]
  OBVIOUS

LEMMA OneEngine ==
  ASSUME engine \in [Engines -> EngineRecords], NEW e, NEW r \in EngineRecords
  PROVE  [engine EXCEPT ![e] = r] \in [Engines -> EngineRecords]
  OBVIOUS

ThreadPlaces ==
  {"none", "top", "wait", "asleep", "work", "poll", "clear", "service"}

LEMMA ThreadFields ==
  ASSUME NEW x \in ThreadRecords
  PROVE  /\ \A l \in ThreadPlaces : [x EXCEPT !.pc = l] \in ThreadRecords
         /\ [x EXCEPT !.schedule = TRUE] \in ThreadRecords
         /\ \A l \in ThreadPlaces :
              [x EXCEPT !.schedule = TRUE, !.pc = l] \in ThreadRecords
         /\ \A l \in ThreadPlaces :
              [x EXCEPT !.stop = TRUE, !.pc = l] \in ThreadRecords
         /\ \A s \in WorkLists : [x EXCEPT !.work_list = s] \in ThreadRecords
         /\ [x EXCEPT !.pc = "work", !.schedule = FALSE, !.n = 1] \in ThreadRecords
         /\ \A m \in Nat \ {0} : [x EXCEPT !.n = m] \in ThreadRecords
         /\ \A m \in Nat \ {0} : [x EXCEPT !.pc = "work", !.n = m] \in ThreadRecords
         /\ \A m \in Nat : [x EXCEPT !.pc = "poll", !.expected = m] \in ThreadRecords
         /\ \A w \in Wb : [x EXCEPT !.pc = "clear", !.wb = w] \in ThreadRecords
         /\ x.n + 1 \in Nat \ {0} /\ Woken(x.pc) \in ThreadPlaces
<1> USE DEF ThreadRecords, ThreadPlaces
<1>1. \A l \in ThreadPlaces : [x EXCEPT !.pc = l] \in ThreadRecords
  OBVIOUS
<1>2. [x EXCEPT !.schedule = TRUE] \in ThreadRecords
  OBVIOUS
<1>3. \A l \in ThreadPlaces :
        [x EXCEPT !.schedule = TRUE, !.pc = l] \in ThreadRecords
  OBVIOUS
<1>4. \A l \in ThreadPlaces :
        [x EXCEPT !.stop = TRUE, !.pc = l] \in ThreadRecords
  OBVIOUS
<1>5. \A s \in WorkLists : [x EXCEPT !.work_list = s] \in ThreadRecords
  OBVIOUS
<1>6. [x EXCEPT !.pc = "work", !.schedule = FALSE, !.n = 1] \in ThreadRecords
  <2>1. \A b \in BOOLEAN, m \in Nat \ {0}, l \in ThreadPlaces :
          [x EXCEPT !.pc = l, !.schedule = b, !.n = m] \in ThreadRecords
    OBVIOUS
  <2>2. FALSE \in BOOLEAN /\ 1 \in Nat \ {0} /\ "work" \in ThreadPlaces
    OBVIOUS
  <2> HIDE DEF ThreadRecords, ThreadPlaces
  <2> QED
    BY <2>1, <2>2
<1>7. \A m \in Nat \ {0} : [x EXCEPT !.n = m] \in ThreadRecords
  OBVIOUS
<1>8. \A m \in Nat \ {0} : [x EXCEPT !.pc = "work", !.n = m] \in ThreadRecords
  OBVIOUS
<1>9. \A m \in Nat : [x EXCEPT !.pc = "poll", !.expected = m] \in ThreadRecords
  OBVIOUS
<1>10. \A w \in Wb : [x EXCEPT !.pc = "clear", !.wb = w] \in ThreadRecords
  OBVIOUS
<1>11. x.n + 1 \in Nat \ {0} /\ Woken(x.pc) \in ThreadPlaces
  BY DEF Woken
<1> QED
  BY <1>1, <1>2, <1>3, <1>4, <1>5, <1>6, <1>7, <1>8, <1>9, <1>10, <1>11

LEMMA TypesDriver == ASSUME ListInv, Driver PROVE Types'
<1>1. /\ thp \in [Threads -> ThreadRecords]
      /\ engine \in [Engines -> EngineRecords]
      /\ writer \in [Writers -> {"idle", "wakeup", "wait"}]
      /\ drv.n \in Nat
  BY DEF ListInv, Types
<1>2. Loading
  BY DEF ListInv
<1>4. thp' \in [Threads -> ThreadRecords]
  <2>1. CASE UNCHANGED thp
    BY <1>1, <2>1
  <2>2. ASSUME NEW r \in ThreadRecords, thp' = [thp EXCEPT ![drv.n] = r]
        PROVE  thp' \in [Threads -> ThreadRecords]
    BY <1>1, <2>2, OneThread
  <2>3. CASE KthreadStart
    <3>1. [NewThread EXCEPT !.pc = "top"] \in ThreadRecords
      BY NewTyped, ThreadFields DEF ThreadPlaces
    <3> QED
      BY <2>1, <2>2, <2>3, <3>1 DEF KthreadStart
  <2>4. CASE AddWork
    <3>1. drv.n + 1 \in Engines /\ PickThread \in Threads
      BY <1>1, <2>4, PollAssumption, PickLeast DEF AddWork, Engines, ListInv
    <3>2. thp[PickThread] \in ThreadRecords
      BY <1>1, <3>1
    <3>3. Append(thp[PickThread].work_list, drv.n + 1) \in Seq(Engines)
      BY <3>1, <3>2 DEF ThreadRecords, WorkLists
    <3>4. thp' = [thp EXCEPT ![PickThread] = [thp[PickThread] EXCEPT
             !.work_list = Append(thp[PickThread].work_list, drv.n + 1)]]
      BY <2>4 DEF AddWork
    <3> QED
      BY <1>1, <3>2, <3>3, <3>4, OneThread, ThreadFields DEF WorkLists
  <2>5. CASE UnlinkWork
    <3> DEFINE k == CHOOSE i \in DOMAIN List(drv.t) : List(drv.t)[i] = drv.n + 1
    <3>1. drv.t \in Threads /\ List(drv.t) \in Seq(Engines)
      BY <1>1, <1>2, <2>5 DEF UnlinkWork, At, Loading, List, ThreadRecords,
        WorkLists
    <3>2. \E i \in DOMAIN List(drv.t) : List(drv.t)[i] = drv.n + 1
      BY <1>2, <2>5, <3>1 DEF ListInv, Lists, UnlinkWork, At, Loading, Owner
    <3>3. k \in 1..Len(List(drv.t))
      BY <3>1, <3>2
    <3>4. thp' = [thp EXCEPT ![drv.t] =
                    [thp[drv.t] EXCEPT !.work_list = RemoveAt(List(drv.t), k)]]
      BY <2>5 DEF UnlinkWork, List
    <3> HIDE DEF k
    <3>5. RemoveAt(List(drv.t), k) \in Seq(Engines) /\ thp[drv.t] \in ThreadRecords
      BY <1>1, <3>1, <3>3, RemoveAtProperties
    <3> QED
      BY <1>1, <3>4, <3>5, OneThread, ThreadFields DEF WorkLists
  <2>6. CASE KthreadStop \/ KthreadStopFlag
    <3>1. drv.n \in Threads
      BY <1>2, <2>6 DEF Loading, KthreadStop, KthreadStopFlag, At
    <3>2. thp[drv.n] \in ThreadRecords
      BY <1>1, <3>1
    <3>3. \/ thp' = [thp EXCEPT ![drv.n] = [thp[drv.n] EXCEPT !.schedule = TRUE]]
          \/ thp' = [thp EXCEPT ![drv.n] =
                [thp[drv.n] EXCEPT !.stop = TRUE, !.pc = Woken(thp[drv.n].pc)]]
      BY <2>6 DEF KthreadStop, KthreadStopFlag
    <3> QED
      BY <2>2, <3>2, <3>3, ThreadFields
  <2> QED
    BY <2>1, <2>3, <2>4, <2>5, <2>6 DEF Driver, CreateThreads, LoadDone,
      Unload, RemoveWork, EngineDestroy, KthreadJoin
<1>5. engine' \in [Engines -> EngineRecords]
  <2>1. CASE UNCHANGED engine
    BY <1>1, <2>1
  <2>2. CASE AddWork
    <3>1. PickThread \in Threads
      BY PickLeast DEF ListInv
    <3>2. [NewEngine EXCEPT !.live = TRUE, !.cmplthp = PickThread] \in EngineRecords
      BY <3>1, NewTyped DEF EngineRecords
    <3> QED
      BY <1>1, <2>2, <3>2, OneEngine DEF AddWork
  <2>3. CASE RemoveWork
    <3>1. drv.n + 1 \in Engines
      BY <1>2, <2>3 DEF RemoveWork, Loading, At
    <3>2. [engine[drv.n + 1] EXCEPT !.cmplthp = NoThread] \in EngineRecords
      BY <1>1, <3>1 DEF EngineRecords
    <3>3. engine' = [engine EXCEPT ![drv.n + 1] =
                       [engine[drv.n + 1] EXCEPT !.cmplthp = NoThread]]
      BY <2>3 DEF RemoveWork
    <3> QED
      BY <1>1, <3>2, <3>3, OneEngine
  <2>4. CASE EngineDestroy
    BY <1>1, <2>4, NewTyped, OneEngine DEF EngineDestroy
  <2> QED
    BY <2>1, <2>2, <2>3, <2>4 DEF Driver, CreateThreads, KthreadStart,
      LoadDone, Unload, UnlinkWork, KthreadStop, KthreadStopFlag, KthreadJoin
<1>6. writer' = writer
  BY DEF Driver, CreateThreads, KthreadStart, AddWork, LoadDone, Unload,
    RemoveWork, UnlinkWork, EngineDestroy, KthreadStop, KthreadStopFlag,
    KthreadJoin
<1> QED
  BY <1>1, <1>4, <1>5, <1>6, DriverTyped DEF Types

(* The steps of a thread, of a writer and of the hardware. *)
Others ==
  \/ \E t \in Threads : Thread(t)
  \/ \E e \in Writers :
       \/ \E num \in DescNums : Write(e, num)
       \/ KthreadWakeup(e) \/ WriteReturns(e) \/ WriteGivesUp(e)
       \/ HwDescriptor(e)

LEMMA EngineFields ==
  ASSUME NEW x \in EngineRecords
  PROVE  /\ \A w \in Wb : [x EXCEPT !.wb = w] \in EngineRecords
         /\ \A w \in Wb : Serviced(x, w) \in EngineRecords
         /\ \A num \in Nat :
              [x EXCEPT !.queued = TRUE, !.state = "SUBMITTED", !.desc_num = num,
                        !.running = TRUE, !.busy = TRUE, !.count = 0]
                \in EngineRecords
         /\ [x EXCEPT !.queued = FALSE, !.state = "ABORTED", !.running = FALSE,
                      !.busy = FALSE, !.aborted = TRUE] \in EngineRecords
         /\ \A m \in Nat, b \in BOOLEAN, w \in Wb :
              [x EXCEPT !.count = m, !.busy = b, !.wb = w] \in EngineRecords
         /\ \A w \in Wb : [x EXCEPT !.busy = FALSE, !.wb = w] \in EngineRecords
<1> USE DEF EngineRecords
<1>1. \A w \in Wb : [x EXCEPT !.wb = w] \in EngineRecords
  OBVIOUS
<1>2. \A w \in Wb : Serviced(x, w) \in EngineRecords
  BY DEF Serviced
<1>3. \A num \in Nat :
        [x EXCEPT !.queued = TRUE, !.state = "SUBMITTED", !.desc_num = num,
                  !.running = TRUE, !.busy = TRUE, !.count = 0] \in EngineRecords
  OBVIOUS
<1>4. [x EXCEPT !.queued = FALSE, !.state = "ABORTED", !.running = FALSE,
                !.busy = FALSE, !.aborted = TRUE] \in EngineRecords
  OBVIOUS
<1>5. \A m \in Nat, b \in BOOLEAN, w \in Wb :
        [x EXCEPT !.count = m, !.busy = b, !.wb = w] \in EngineRecords
  OBVIOUS
<1>6. \A w \in Wb : [x EXCEPT !.busy = FALSE, !.wb = w] \in EngineRecords
  OBVIOUS
<1> QED
  BY <1>1, <1>2, <1>3, <1>4, <1>5, <1>6

(* What a thread does to its own record and to the engine it is at. *)
LEMMA ThreadUpdate ==
  ASSUME ListInv, NEW t \in Threads, Thread(t)
  PROVE  /\ \E r \in ThreadRecords : thp' = [thp EXCEPT ![t] = r]
         /\ \/ UNCHANGED engine
            \/ \E r \in EngineRecords : engine' = [engine EXCEPT ![Current(t)] = r]
<1>1. thp[t] \in ThreadRecords /\ thp[t].n \in Nat \ {0}
  BY DEF ListInv, Types, ThreadRecords, WorkLists
<1>2. thp[t].pc \in {"poll", "clear", "service"} =>
        Current(t) \in Engines /\ engine[Current(t)] \in EngineRecords
  BY CurrentTyped DEF ListInv, OnList, Locked, Types
<1>3. CASE ThreadTop(t) \/ ThreadReschedule(t)
  <2>1. thp' \in {[thp EXCEPT ![t] = [thp[t] EXCEPT !.pc = "none"]],
                  [thp EXCEPT ![t] = [thp[t] EXCEPT !.pc = "wait"]],
                  [thp EXCEPT ![t] = [thp[t] EXCEPT !.pc = "asleep"]],
                  [thp EXCEPT ![t] = [thp[t] EXCEPT
                     !.pc = "work", !.schedule = FALSE, !.n = 1]]}
    BY <1>3 DEF ThreadTop, ThreadReschedule
  <2> QED
    BY <1>1, <1>3, <2>1, ThreadFields DEF ThreadTop, ThreadReschedule,
      ThreadPlaces
<1>4. CASE ThreadWork(t)
  <2>1. CASE thp[t].n > WorkCnt(t)
    BY <1>1, <1>4, <2>1, ThreadFields DEF ThreadWork, ThreadPlaces
  <2>2. CASE ~(thp[t].n > WorkCnt(t))
    <3>1. thp[t].n \in DOMAIN List(t)
      BY <1>1, <2>2 DEF List, WorkCnt, ListInv, Types, ThreadRecords, WorkLists
    <3>2. engine[Current(t)].desc_num \in Nat
      BY <3>1, CurrentTyped DEF ListInv, Types, EngineRecords
    <3> QED
      <4>1. thp' \in {[thp EXCEPT ![t] = [thp[t] EXCEPT !.n = thp[t].n + 1]],
                      [thp EXCEPT ![t] = [thp[t] EXCEPT !.pc = "poll",
                         !.expected = engine[Current(t)].desc_num]]}
        <5>1. CASE engine[Current(t)].queued
          BY <1>4, <2>2, <5>1 DEF ThreadWork
        <5>2. CASE ~engine[Current(t)].queued
          <6>1. thp' = [thp EXCEPT ![t] = [thp[t] EXCEPT !.n = thp[t].n + 1]]
            BY <1>4, <2>2, <5>2 DEF ThreadWork
          <6> QED
            BY <6>1
        <5> QED
          BY <5>1, <5>2
      <4>2. [thp[t] EXCEPT !.n = thp[t].n + 1] \in ThreadRecords
        BY <1>1, ThreadFields
      <4>3. [thp[t] EXCEPT !.pc = "poll", !.expected = engine[Current(t)].desc_num]
              \in ThreadRecords
        BY <1>1, <3>2, ThreadFields
      <4>4. UNCHANGED engine
        BY <1>4 DEF ThreadWork
      <4> QED
        BY <4>1, <4>2, <4>3, <4>4
  <2> QED
    BY <2>1, <2>2
<1>5. CASE ThreadPoll(t)
  <2>1. engine[Current(t)].wb \in Wb
    BY <1>2, <1>5 DEF ThreadPoll, EngineRecords
  <2> QED
    <3>1. thp' \in {[thp EXCEPT ![t] = [thp[t] EXCEPT !.pc = "clear",
                                          !.wb = engine[Current(t)].wb]],
                    [thp EXCEPT ![t] = [thp[t] EXCEPT !.pc = "work",
                                          !.n = thp[t].n + 1]]}
      BY <1>5 DEF ThreadPoll
    <3>2. [thp[t] EXCEPT !.pc = "clear", !.wb = engine[Current(t)].wb]
            \in ThreadRecords
      BY <1>1, <2>1, ThreadFields
    <3>3. [thp[t] EXCEPT !.pc = "work", !.n = thp[t].n + 1] \in ThreadRecords
      BY <1>1, ThreadFields
    <3>4. UNCHANGED engine
      BY <1>5 DEF ThreadPoll
    <3> QED
      BY <3>1, <3>2, <3>3, <3>4
<1>6. CASE ThreadClear(t)
  <2>1. thp' \in {[thp EXCEPT ![t] = [thp[t] EXCEPT !.pc = "service"]],
                  [thp EXCEPT ![t] = [thp[t] EXCEPT !.pc = "poll"]]}
    BY <1>6 DEF ThreadClear
  <2>2. engine' = [engine EXCEPT ![Current(t)] =
                     [engine[Current(t)] EXCEPT !.wb = NoWb]]
    BY <1>6 DEF ThreadClear
  <2>3. [engine[Current(t)] EXCEPT !.wb = NoWb] \in EngineRecords
    BY <1>2, <1>6, EngineFields, NewTyped DEF ThreadClear
  <2> QED
    BY <1>1, <2>1, <2>2, <2>3, ThreadFields DEF ThreadPlaces
<1>7. CASE ThreadService(t)
  <2>1. Serviced(engine[Current(t)], thp[t].wb) \in EngineRecords
    BY <1>1, <1>2, <1>7, EngineFields DEF ThreadService, ThreadRecords,
      WorkLists
  <2>2. engine' = [engine EXCEPT ![Current(t)] =
                     Serviced(engine[Current(t)], thp[t].wb)]
    BY <1>7 DEF ThreadService
  <2>3. thp' = [thp EXCEPT ![t] =
                  [thp[t] EXCEPT !.pc = "work", !.n = thp[t].n + 1]]
    BY <1>7 DEF ThreadService
  <2> QED
    BY <1>1, <2>1, <2>2, <2>3, ThreadFields
<1> QED
  BY <1>3, <1>4, <1>5, <1>6, <1>7 DEF Thread

(* The engine after a descriptor, and after an error. *)
HwMoved(x) ==
  [x EXCEPT !.count = x.count + 1, !.busy = ~(x.count + 1 = x.desc_num),
            !.wb = IF x.count + 1 = x.desc_num
                   THEN [count |-> x.count + 1, err |-> FALSE] ELSE x.wb]

HwStopped(x) ==
  [x EXCEPT !.busy = FALSE, !.wb = [count |-> x.count, err |-> TRUE]]

LEMMA HwTyped ==
  ASSUME NEW x \in EngineRecords
  PROVE  /\ HwMoved(x) \in EngineRecords /\ HwStopped(x) \in EngineRecords
         /\ HwMoved(x).live = x.live /\ HwMoved(x).cmplthp = x.cmplthp
         /\ HwStopped(x).live = x.live /\ HwStopped(x).cmplthp = x.cmplthp
<1>1. /\ x.count + 1 \in Nat /\ x.count \in Nat /\ x.wb \in Wb
      /\ (~(x.count + 1 = x.desc_num)) \in BOOLEAN
  BY DEF EngineRecords
<1>2. [count |-> x.count + 1, err |-> FALSE] \in Wb /\ [count |-> x.count, err |-> TRUE] \in Wb
  BY <1>1 DEF Wb
<1>3. HwMoved(x) \in EngineRecords
  BY <1>1, <1>2, EngineFields DEF HwMoved
<1>4. HwStopped(x) \in EngineRecords
  BY <1>1, <1>2, EngineFields DEF HwStopped
<1>5. /\ HwMoved(x).live = x.live /\ HwMoved(x).cmplthp = x.cmplthp
      /\ HwStopped(x).live = x.live /\ HwStopped(x).cmplthp = x.cmplthp
  BY DEF HwMoved, HwStopped, EngineRecords
<1> QED
  BY <1>3, <1>4, <1>5

(* Only the loading thread changes lists and what is on them. *)
LEMMA OthersKeep ==
  ASSUME ListInv, Others
  PROVE  /\ Types'
         /\ UNCHANGED <<drv, cs_threads>>
         /\ \A t \in Threads : List(t)' = List(t)
         /\ \A e \in Engines : /\ engine[e].live' = engine[e].live
                              /\ engine[e].cmplthp' = engine[e].cmplthp
<1>0. /\ thp \in [Threads -> ThreadRecords]
      /\ engine \in [Engines -> EngineRecords]
      /\ writer \in [Writers -> {"idle", "wakeup", "wait"}]
      /\ drv \in [pc : LoadPlaces, n : Nat, t : Threads \cup {NoThread}]
      /\ Writers \subseteq Engines
  BY PollAssumption DEF ListInv, Types
<1> DEFINE Kept == /\ \A t \in Threads : List(t)' = List(t)
                   /\ \A e \in Engines : /\ engine[e].live' = engine[e].live
                                        /\ engine[e].cmplthp' = engine[e].cmplthp
<1>1. UNCHANGED <<drv, cs_threads>>
  BY DEF Others, Thread, ThreadTop, ThreadReschedule, ThreadWork, ThreadPoll,
    ThreadClear, ThreadService, Write, KthreadWakeup, WriteReturns,
    WriteGivesUp, HwDescriptor
<1>2. ASSUME NEW t \in Threads, Thread(t)
      PROVE  Types' /\ Kept
  <2>1. thp' \in [Threads -> ThreadRecords]
    BY <1>0, <1>2, ThreadUpdate, OneThread
  <2>2. engine' \in [Engines -> EngineRecords]
    BY <1>0, <1>2, ThreadUpdate, OneEngine
  <2>3. UNCHANGED writer
    BY <1>2 DEF Thread, ThreadTop, ThreadReschedule, ThreadWork, ThreadPoll,
      ThreadClear, ThreadService
  <2>4. Types'
    BY <1>0, <1>1, <2>1, <2>2, <2>3 DEF Types
  <2>5. \A u \in Threads : List(u)' = List(u)
    <3>1. CASE ThreadTop(t) \/ ThreadReschedule(t)
      <4>1. PICK r : /\ thp' = [thp EXCEPT ![t] = r]
                     /\ r \in {[thp[t] EXCEPT !.pc = "none"],
                              [thp[t] EXCEPT !.pc = "wait"],
                              [thp[t] EXCEPT !.pc = "asleep"],
                              [thp[t] EXCEPT !.pc = "work", !.schedule = FALSE,
                                             !.n = 1]}
        BY <3>1 DEF ThreadTop, ThreadReschedule
      <4>2. r.work_list = thp[t].work_list
        BY <1>0, <4>1 DEF ThreadRecords
      <4> QED
        BY <1>0, <4>1, <4>2 DEF List
    <3>2. CASE ThreadWork(t)
      BY <1>0, <3>2 DEF ThreadWork, List, ThreadRecords
    <3>3. CASE ThreadPoll(t) \/ ThreadClear(t) \/ ThreadService(t)
      BY <1>0, <3>3 DEF ThreadPoll, ThreadClear, ThreadService, List,
        ThreadRecords
    <3> QED
      BY <1>2, <3>1, <3>2, <3>3 DEF Thread
  <2>6. ASSUME NEW e \in Engines
        PROVE  /\ engine[e].live' = engine[e].live
               /\ engine[e].cmplthp' = engine[e].cmplthp
    <3>1. CASE UNCHANGED engine
      BY <3>1
    <3>2. CASE ThreadClear(t)
      BY <1>0, <3>2 DEF ThreadClear, EngineRecords
    <3>3. CASE ThreadService(t)
      BY <1>0, <3>3 DEF ThreadService, Serviced, EngineRecords
    <3> QED
      BY <1>2, <3>1, <3>2, <3>3 DEF Thread, ThreadTop, ThreadReschedule,
        ThreadWork, ThreadPoll
  <2> QED
    BY <2>4, <2>5, <2>6
<1>3. ASSUME NEW e \in Writers, NEW num \in DescNums, Write(e, num)
      PROVE  Types' /\ Kept
  <2>1. e \in Engines /\ num \in Nat /\ engine[e] \in EngineRecords
    BY <1>0, PollAssumption
  <2> DEFINE r == [engine[e] EXCEPT !.queued = TRUE, !.state = "SUBMITTED",
                     !.desc_num = num, !.running = TRUE, !.busy = TRUE, !.count = 0]
  <2>2. engine' = [engine EXCEPT ![e] = r]
    BY <1>3 DEF Write
  <2>3. r \in EngineRecords
    BY <2>1, EngineFields
  <2>4. r.live = engine[e].live /\ r.cmplthp = engine[e].cmplthp
    BY <2>1 DEF EngineRecords
  <2> HIDE DEF r
  <2>5. engine' \in [Engines -> EngineRecords]
    BY <1>0, <2>2, <2>3, OneEngine
  <2>6. thp' = thp /\ writer' \in [Writers -> {"idle", "wakeup", "wait"}]
    BY <1>0, <1>3 DEF Write
  <2>7. Types'
    BY <1>0, <1>1, <2>5, <2>6 DEF Types
  <2> QED
    BY <1>0, <2>2, <2>4, <2>6, <2>7 DEF List
<1>4. ASSUME NEW e \in Writers, KthreadWakeup(e)
      PROVE  Types' /\ Kept
  <2> DEFINE u == engine[e].cmplthp
  <2>1. UNCHANGED engine /\ writer' \in [Writers -> {"idle", "wakeup", "wait"}]
    BY <1>0, <1>4 DEF KthreadWakeup
  <2>2. CASE UNCHANGED thp \/ u \notin Threads
    <3>1. UNCHANGED thp
      BY <1>0, <1>4, <2>2 DEF KthreadWakeup
    <3> QED
      BY <1>0, <1>1, <2>1, <3>1 DEF Types, List
  <2>3. CASE u \in Threads /\ thp' # thp
    <3> DEFINE r == [thp[u] EXCEPT !.schedule = TRUE, !.pc = Woken(thp[u].pc)]
    <3>1. thp' = [thp EXCEPT ![u] = r]
      BY <1>0, <1>4, <2>3 DEF KthreadWakeup
    <3>2. thp[u] \in ThreadRecords
      BY <1>0, <2>3
    <3>3. r \in ThreadRecords /\ r.work_list = thp[u].work_list
      <4>1. r.work_list = thp[u].work_list
        BY <3>2 DEF ThreadRecords
      <4> QED
        BY <3>2, <4>1, ThreadFields
    <3> HIDE DEF r
    <3>4. thp' \in [Threads -> ThreadRecords]
      BY <1>0, <3>1, <3>3, OneThread
    <3>5. \A t \in Threads : List(t)' = List(t)
      BY <1>0, <2>3, <3>1, <3>3 DEF List
    <3> QED
      BY <1>0, <1>1, <2>1, <3>4, <3>5 DEF Types
  <2> QED
    BY <2>2, <2>3
<1>5. ASSUME NEW e \in Writers, WriteReturns(e)
      PROVE  Types' /\ Kept
  <2>1. UNCHANGED <<thp, engine>> /\ writer' \in [Writers -> {"idle", "wakeup", "wait"}]
    BY <1>0, <1>5 DEF WriteReturns
  <2> QED
    BY <1>0, <1>1, <2>1 DEF Types, List
<1>6. ASSUME NEW e \in Writers, WriteGivesUp(e)
      PROVE  Types' /\ Kept
  <2>1. e \in Engines /\ engine[e] \in EngineRecords
    BY <1>0
  <2> DEFINE r == [engine[e] EXCEPT !.queued = FALSE, !.state = "ABORTED",
                     !.running = FALSE, !.busy = FALSE, !.aborted = TRUE]
  <2>2. engine' = [engine EXCEPT ![e] = r]
    BY <1>6 DEF WriteGivesUp
  <2>3. r \in EngineRecords
    BY <2>1, EngineFields
  <2>4. r.live = engine[e].live /\ r.cmplthp = engine[e].cmplthp
    BY <2>1 DEF EngineRecords
  <2> HIDE DEF r
  <2>5. engine' \in [Engines -> EngineRecords]
    BY <1>0, <2>2, <2>3, OneEngine
  <2>6. thp' = thp /\ writer' \in [Writers -> {"idle", "wakeup", "wait"}]
    BY <1>0, <1>6 DEF WriteGivesUp
  <2>7. Types'
    BY <1>0, <1>1, <2>5, <2>6 DEF Types
  <2> QED
    BY <1>0, <2>2, <2>4, <2>6, <2>7 DEF List
<1>7. ASSUME NEW e \in Writers, HwDescriptor(e)
      PROVE  Types' /\ Kept
  <2>1. e \in Engines /\ engine[e] \in EngineRecords
    BY <1>0
  <2>2. PICK r : /\ engine' = [engine EXCEPT ![e] = r]
                 /\ \/ r = HwMoved(engine[e])
                    \/ r = HwStopped(engine[e])
    BY <1>7 DEF HwDescriptor, HwMoved, HwStopped
  <2>3. r \in EngineRecords
    BY <2>1, <2>2, HwTyped
  <2>4. r.live = engine[e].live /\ r.cmplthp = engine[e].cmplthp
    BY <2>1, <2>2, HwTyped
  <2>5. engine' \in [Engines -> EngineRecords]
    BY <1>0, <2>2, <2>3, OneEngine
  <2>6. thp' = thp /\ writer' = writer
    BY <1>7 DEF HwDescriptor
  <2>7. Types'
    BY <1>0, <1>1, <2>5, <2>6 DEF Types
  <2> QED
    BY <1>0, <2>2, <2>4, <2>6, <2>7 DEF List
<1> QED
  BY <1>1, <1>2, <1>3, <1>4, <1>5, <1>6, <1>7 DEF Others

-----------------------------------------------------------------------------
(* The lists.                                                              *)

LEMMA ListsOthers == ASSUME ListInv, Others PROVE Loading' /\ Lists'
<1>1. /\ drv' = drv /\ \A t \in Threads : List(t)' = List(t)
      /\ \A e \in Engines : /\ engine[e].live' = engine[e].live
                           /\ engine[e].cmplthp' = engine[e].cmplthp
  BY OthersKeep
<1>2. Loading /\ Lists /\ Types
  BY DEF ListInv
<1>3. Loading'
  BY <1>1, <1>2 DEF Loading
<1>4. Assigned' = Assigned
  BY <1>1 DEF Assigned
<1>5. \A e \in Engines : Owner(e)' = Owner(e)
  BY <1>1 DEF Owner
<1>6. drv.pc = "unlink" => drv.n + 1 \in Engines
  BY <1>2 DEF Loading
<1>7. \A t \in Threads : \A i \in DOMAIN List(t) : List(t)[i] \in Engines
  BY <1>2 DEF Types, List, ThreadRecords, WorkLists
<1>8. /\ \A e \in Engines : (engine[e].live <=> e \in Assigned)'
      /\ \A e \in Engines :
           (Owner(e) # NoThread <=>
             engine[e].live /\ ~(drv.pc = "destroy" /\ e = drv.n + 1))'
      /\ (drv.pc = "unlink" => engine[drv.n + 1].cmplthp = NoThread)'
  BY <1>1, <1>2, <1>4, <1>5, <1>6 DEF Lists
<1>9. \A t \in Threads :
        /\ (\A i \in DOMAIN List(t) : Owner(List(t)[i]) = t)'
        /\ (\A i, j \in DOMAIN List(t) : List(t)[i] = List(t)[j] => i = j)'
  BY <1>1, <1>2, <1>5, <1>7 DEF Lists
<1>10. \A e \in Engines :
         (Owner(e) \in Threads =>
           \E i \in DOMAIN List(Owner(e)) : List(Owner(e))[i] = e)'
  BY <1>1, <1>2, <1>5 DEF Lists
<1> QED
  BY <1>3, <1>8, <1>9, <1>10 DEF Lists

LEMMA LoadingDriver == ASSUME ListInv, Driver PROVE Loading'
<1>1. Loading /\ drv \in [pc : LoadPlaces, n : Nat, t : Threads \cup {NoThread}]
  BY DEF ListInv, Types
<1>2. 0 \in Threads /\ 0 \in 0..NumEngines /\ 0 + 1 \in Engines
  BY ThreadsAreNat, PollAssumption DEF Engines
<1>3. CASE CreateThreads \/ LoadDone \/ Unload
  BY <1>2, <1>3 DEF CreateThreads, LoadDone, Unload, Go, Loading
<1>4. CASE KthreadStart
  <2>1. drv.n \in Threads
    BY <1>1, <1>4 DEF KthreadStart, At, Loading
  <2>2. drv.n + 1 # NumThreads => drv.n + 1 \in Threads
    BY <2>1, PollAssumption DEF Threads
  <2>3. CASE Loop
    BY <1>1, <1>4, <2>2, <2>3 DEF KthreadStart, Go, Loop, At, Loading
  <2> QED
    BY <1>2, <1>4, <2>3 DEF KthreadStart, Go, Loading
<1>5. CASE AddWork
  BY <1>1, <1>5, PollAssumption DEF AddWork, Loop, At, Loading
<1>6. CASE RemoveWork
  <2>1. drv.n + 1 \in Engines
    BY <1>1, <1>6 DEF RemoveWork, At, Loading
  <2>2. engine[drv.n + 1].cmplthp \in Threads
    BY <1>1, <1>6, <2>1 DEF RemoveWork, At, Loading, ListInv, Types,
      EngineRecords, Lists, Owner, Assigned, Engines
  <2> QED
    BY <1>1, <1>6, <2>1, <2>2 DEF RemoveWork, Loading
<1>7. CASE UnlinkWork
  BY <1>1, <1>7 DEF UnlinkWork, At, Loading
<1>8. CASE EngineDestroy
  <2>1. drv.n + 1 \in Engines
    BY <1>1, <1>8 DEF EngineDestroy, At, Loading
  <2>2. drv.n + 1 # NumEngines => drv.n + 1 + 1 \in Engines
    BY <2>1, PollAssumption DEF Engines
  <2> QED
    BY <1>2, <1>8, <2>2 DEF EngineDestroy, Go, Loading
<1>9. CASE KthreadStop \/ KthreadStopFlag
  BY <1>1, <1>9 DEF KthreadStop, KthreadStopFlag, At, Loading
<1>10. CASE KthreadJoin
  <2>1. drv.n \in Threads
    BY <1>1, <1>10 DEF KthreadJoin, At, Loading
  <2>2. drv.n + 1 # NumThreads => drv.n + 1 \in Threads
    BY <2>1, PollAssumption DEF Threads
  <2> QED
    BY <1>10, <2>2 DEF KthreadJoin, Go, Loading
<1> QED
  BY <1>3, <1>4, <1>5, <1>6, <1>7, <1>8, <1>9, <1>10 DEF Driver

(* A step that leaves lists, owners and engines alone. *)
LEMMA ListsKept ==
  ASSUME ListInv,
         \A t \in Threads : List(t)' = List(t),
         \A e \in Engines : engine[e].live' = engine[e].live,
         \A e \in Engines : Owner(e)' = Owner(e),
         \A e \in Engines : e \in Assigned' <=> e \in Assigned,
         drv.pc # "destroy", drv'.pc # "destroy",
         (drv.pc = "unlink" => engine[drv.n + 1].cmplthp = NoThread)'
  PROVE  Lists'
<1>1. Lists /\ Types
  BY DEF ListInv
<1>2. \A t \in Threads : \A i \in DOMAIN List(t) : List(t)[i] \in Engines
  BY <1>1 DEF Types, List, ThreadRecords, WorkLists
<1>3. /\ \A e \in Engines : (engine[e].live <=> e \in Assigned)'
      /\ \A e \in Engines :
           (Owner(e) # NoThread <=>
             engine[e].live /\ ~(drv.pc = "destroy" /\ e = drv.n + 1))'
  BY <1>1 DEF Lists
<1>4. \A t \in Threads :
        /\ (\A i \in DOMAIN List(t) : Owner(List(t)[i]) = t)'
        /\ (\A i, j \in DOMAIN List(t) : List(t)[i] = List(t)[j] => i = j)'
  BY <1>1, <1>2 DEF Lists
<1>5. \A e \in Engines :
         (Owner(e) \in Threads =>
           \E i \in DOMAIN List(Owner(e)) : List(Owner(e))[i] = e)'
  BY <1>1 DEF Lists
<1> QED
  BY <1>3, <1>4, <1>5 DEF Lists

(* Without engines there is nothing on the lists. *)
LEMMA EmptyLists ==
  ASSUME ListInv, drv.pc \in {"off", "start", "failed", "stop", "kthread_stop", "join"}
  PROVE  /\ \A t \in Threads : List(t) = << >>
         /\ \A e \in Engines : ~engine[e].live /\ engine[e].cmplthp = NoThread
         /\ Assigned = {}
<1>1. Lists /\ Types
  BY DEF ListInv
<1>2. Assigned = {}
  BY DEF Assigned
<1>3. \A e \in Engines : ~engine[e].live /\ engine[e].cmplthp = NoThread
  BY <1>1, <1>2 DEF Lists, Owner
<1>4. ASSUME NEW t \in Threads PROVE List(t) = << >>
  <2>1. List(t) \in Seq(Engines)
    BY <1>1 DEF Types, List, ThreadRecords, WorkLists
  <2>2. \A i \in DOMAIN List(t) : FALSE
    <3>1. \A i \in DOMAIN List(t) : Owner(List(t)[i]) = t /\ List(t)[i] \in Engines
      BY <1>1, <2>1 DEF Lists
    <3> QED
      BY <3>1, <1>3, ThreadsAreNat DEF Owner
  <2>3. DOMAIN List(t) = 1..Len(List(t)) /\ Len(List(t)) \in Nat
    BY <2>1
  <2>4. Len(List(t)) = 0
    BY <2>2, <2>3
  <2> QED
    BY <2>1, <2>4, EmptySeq
<1> QED
  BY <1>2, <1>3, <1>4

LEMMA ListsQuiet ==
  ASSUME ListInv,
         CreateThreads \/ KthreadStart \/ LoadDone \/ Unload \/ KthreadStop
           \/ KthreadStopFlag \/ KthreadJoin
  PROVE  Lists'
<1>0. /\ thp \in [Threads -> ThreadRecords] /\ Loading
      /\ drv \in [pc : LoadPlaces, n : Nat, t : Threads \cup {NoThread}]
  BY DEF ListInv, Types
<1>1. UNCHANGED engine
  BY DEF CreateThreads, KthreadStart, LoadDone, Unload, KthreadStop,
    KthreadStopFlag, KthreadJoin
<1>2. \A t \in Threads : List(t)' = List(t)
  <2>1. CASE KthreadStart
    <3>1. \A t \in Threads : List(t) = << >>
      BY <2>1, EmptyLists DEF KthreadStart, At
    <3>2. [NewThread EXCEPT !.pc = "top"].work_list = << >>
      BY DEF NewThread
    <3> QED
      BY <1>0, <2>1, <3>1, <3>2 DEF KthreadStart, List
  <2>2. CASE KthreadStop \/ KthreadStopFlag
    <3>1. drv.n \in Threads
      BY <1>0, <2>2 DEF Loading, KthreadStop, KthreadStopFlag, At
    <3> QED
      BY <1>0, <2>2, <3>1 DEF KthreadStop, KthreadStopFlag, List, ThreadRecords
  <2> QED
    BY <2>1, <2>2 DEF CreateThreads, LoadDone, Unload, KthreadJoin, List
<1>3. drv.pc \notin {"unlink", "destroy"} /\ drv'.pc \notin {"unlink", "destroy"}
  BY <1>0 DEF CreateThreads, KthreadStart, LoadDone, Unload, KthreadStop,
    KthreadStopFlag, KthreadJoin, At, Go, Loop
<1>4. \A e \in Engines : Owner(e)' = Owner(e)
  BY <1>1, <1>3 DEF Owner
<1>5. \A e \in Engines : e \in Assigned' <=> e \in Assigned
  <2>1. CASE CreateThreads \/ KthreadStop \/ KthreadStopFlag \/ KthreadJoin
    BY <1>0, <2>1 DEF CreateThreads, KthreadStop, KthreadStopFlag, KthreadJoin,
      At, Go, Assigned
  <2>2. CASE KthreadStart
    BY <1>0, <2>2 DEF KthreadStart, At, Go, Loop, Assigned, Engines
  <2>3. CASE LoadDone \/ Unload
    BY <1>0, <2>3 DEF LoadDone, Unload, At, Go, Assigned, Engines
  <2> QED
    BY <2>1, <2>2, <2>3
<1> QED
  BY <1>1, <1>2, <1>3, <1>4, <1>5, ListsKept

LEMMA ListsRemove == ASSUME ListInv, RemoveWork PROVE Lists'
<1>0. /\ engine \in [Engines -> EngineRecords] /\ Loading
      /\ drv \in [pc : LoadPlaces, n : Nat, t : Threads \cup {NoThread}]
  BY DEF ListInv, Types
<1>1. drv.n + 1 \in Engines
  BY <1>0 DEF RemoveWork, Loading, At
<1>2. /\ drv.pc = "remove" /\ drv'.pc = "unlink" /\ drv'.n = drv.n
      /\ drv'.t = engine[drv.n + 1].cmplthp
  BY <1>0 DEF RemoveWork, At
<1>3. \A e \in Engines :
        /\ engine'[e].live = engine[e].live
        /\ e # drv.n + 1 => engine'[e].cmplthp = engine[e].cmplthp
  BY <1>0 DEF RemoveWork, EngineRecords
<1>4. engine'[drv.n + 1].cmplthp = NoThread
  BY <1>0, <1>1 DEF RemoveWork, EngineRecords
<1>5. \A e \in Engines : Owner(e)' = Owner(e)
  BY <1>2, <1>3 DEF Owner
<1>6. Assigned' = Assigned
  BY <1>2 DEF Assigned
<1>7. \A t \in Threads : List(t)' = List(t)
  BY DEF RemoveWork, List
<1> QED
  BY <1>2, <1>3, <1>4, <1>5, <1>6, <1>7, ListsKept

LEMMA ListsDestroy == ASSUME ListInv, EngineDestroy PROVE Lists'
<1>0. /\ engine \in [Engines -> EngineRecords] /\ Loading /\ Lists /\ Types
      /\ drv \in [pc : LoadPlaces, n : Nat, t : Threads \cup {NoThread}]
  BY DEF ListInv, Types
<1> DEFINE d == drv.n + 1
<1>1. d \in Engines /\ drv.pc = "destroy" /\ NumEngines \in Nat
  BY <1>0, PollAssumption DEF EngineDestroy, Loading, At
<1>2. /\ drv'.pc \in {"stop", "remove"}
      /\ IF d = NumEngines THEN drv'.pc = "stop"
                           ELSE drv'.pc = "remove" /\ drv'.n = d
  BY DEF EngineDestroy, Go
<1>3. /\ \A e \in Engines : e # d => engine'[e] = engine[e]
      /\ engine'[d] = NewEngine
  BY <1>0, <1>1 DEF EngineDestroy
<1>4. engine[d].cmplthp = NoThread
  BY <1>0, <1>1 DEF Lists, Owner
<1>5. \A e \in Engines : Owner(e)' = Owner(e)
  BY <1>1, <1>2, <1>3, <1>4 DEF Owner, NewEngine
<1>6. ASSUME NEW e \in Engines PROVE e \in Assigned' <=> e \in Assigned /\ e # d
  <2>1. e \in Assigned <=> e \in d..NumEngines
    BY <1>1 DEF Assigned
  <2>2. CASE d = NumEngines
    <3>1. Assigned' = {}
      BY <1>2, <2>2 DEF Assigned
    <3> QED
      BY <1>0, <1>1, <2>1, <2>2, <3>1 DEF Engines
  <2>3. CASE d # NumEngines
    <3>1. Assigned' = (d + 1)..NumEngines
      BY <1>2, <2>3 DEF Assigned
    <3> QED
      BY <1>0, <1>1, <2>1, <2>3, <3>1 DEF Engines
  <2> QED
    BY <2>2, <2>3
<1> HIDE DEF d
<1>7. \A t \in Threads : List(t)' = List(t)
  BY DEF EngineDestroy, List
<1>8. \A t \in Threads : \A i \in DOMAIN List(t) : List(t)[i] \in Engines
  BY <1>0 DEF Types, List, ThreadRecords, WorkLists
<1>9. /\ \A e \in Engines : engine'[e].live <=> e \in Assigned'
      /\ \A e \in Engines : Owner(e)' # NoThread <=> engine'[e].live
  <2>1. \A e \in Engines : e # d =>
          /\ engine[e].live <=> e \in Assigned
          /\ Owner(e) # NoThread <=> engine[e].live
    BY <1>0 DEF Lists, d
  <2>2. Owner(d) = NoThread /\ ~engine'[d].live
    BY <1>1, <1>3, <1>4 DEF Owner, NewEngine
  <2> QED
    BY <1>3, <1>5, <1>6, <2>1, <2>2
<1>10. \A t \in Threads :
        /\ (\A i \in DOMAIN List(t) : Owner(List(t)[i]) = t)'
        /\ (\A i, j \in DOMAIN List(t) : List(t)[i] = List(t)[j] => i = j)'
  BY <1>0, <1>5, <1>7, <1>8 DEF Lists
<1>11. \A e \in Engines :
         (Owner(e) \in Threads =>
           \E i \in DOMAIN List(Owner(e)) : List(Owner(e))[i] = e)'
  BY <1>0, <1>5, <1>7 DEF Lists
<1> QED
  BY <1>2, <1>9, <1>10, <1>11 DEF Lists

LEMMA ListsAdd == ASSUME ListInv, AddWork PROVE Lists'
<1>0. /\ engine \in [Engines -> EngineRecords] /\ Loading /\ Lists
      /\ thp \in [Threads -> ThreadRecords] /\ PickThread \in Threads
      /\ drv \in [pc : LoadPlaces, n : Nat, t : Threads \cup {NoThread}]
  BY PickLeast DEF ListInv, Types
<1>a. PICK p \in Threads : p = PickThread
  BY <1>0
<1>b. drv.n + 1 \in Engines /\ drv.n \in Nat
  BY <1>0, PollAssumption DEF AddWork, Engines
<1>1. PICK d \in Engines : d = drv.n + 1
  BY <1>b
<1>2. drv.pc = "add" /\ drv'.pc = "add" /\ drv'.n = d
  BY <1>0, <1>1 DEF AddWork, At, Loop
<1>3. /\ \A e \in Engines : e # d => engine'[e] = engine[e]
      /\ engine'[d] = [NewEngine EXCEPT !.live = TRUE, !.cmplthp = p]
  BY <1>0, <1>a, <1>1 DEF AddWork
<1>4. engine'[d].live /\ engine'[d].cmplthp = p
  BY <1>3 DEF NewEngine
<1>5. /\ \A t \in Threads : t # p => List(t)' = List(t)
      /\ List(p)' = Append(List(p), d)
  BY <1>0, <1>a, <1>1 DEF AddWork, List, ThreadRecords
<1>6. /\ Assigned = 1..drv.n /\ Assigned' = 1..d
      /\ d \notin Assigned /\ d \in Assigned'
      /\ \A e \in Engines : e # d => (e \in Assigned' <=> e \in Assigned)
  <2>1. Assigned = 1..drv.n /\ Assigned' = 1..d
    BY <1>1, <1>2 DEF Assigned
  <2> QED
    BY <1>b, <1>1, <2>1 DEF Engines
<1>7. \A e \in Engines : Owner(e) = engine[e].cmplthp /\ Owner(e)' = engine'[e].cmplthp
  BY <1>2 DEF Owner
<1>8. Owner(d) = NoThread /\ p \in Threads /\ NoThread \notin Threads
  <2>1. ~engine[d].live
    BY <1>0, <1>1, <1>6 DEF Lists
  <2> QED
    BY <1>0, <1>1, <1>2, <2>1, ThreadsAreNat DEF Lists
<1>9. /\ \A e \in Engines : engine'[e].live <=> e \in Assigned'
      /\ \A e \in Engines : Owner(e)' # NoThread <=> engine'[e].live
  <2>1. \A e \in Engines : e # d =>
          /\ engine[e].live <=> e \in Assigned
          /\ Owner(e) # NoThread <=> engine[e].live
    BY <1>0, <1>2 DEF Lists
  <2>2. /\ engine'[d].live /\ d \in Assigned'
        /\ Owner(d)' # NoThread
    BY <1>4, <1>6, <1>7, <1>8
  <2>3. ASSUME NEW e \in Engines, e # d
        PROVE  /\ engine'[e].live = engine[e].live /\ Owner(e)' = Owner(e)
               /\ (e \in Assigned' <=> e \in Assigned)
    BY <1>3, <1>6, <1>7, <2>3
  <2> QED
    BY <2>1, <2>2, <2>3
<1>10. ASSUME NEW t \in Threads
       PROVE  /\ List(t) \in Seq(Engines)
              /\ \A i \in DOMAIN List(t) : List(t)[i] \in Engines
              /\ \A i \in DOMAIN List(t), x \in Engines :
                   x = List(t)[i] => x # d /\ Owner(x)' = t
  <2>1. List(t) \in Seq(Engines)
    BY <1>0 DEF List, ThreadRecords, WorkLists
  <2>2. \A i \in DOMAIN List(t) : List(t)[i] \in Engines /\ Owner(List(t)[i]) = t
    BY <1>0, <2>1 DEF Lists
  <2> QED
    BY <1>3, <1>7, <1>8, <2>1, <2>2
<1>11. List(p)' \in Seq(Engines) /\ Len(List(p)') = Len(List(p)) + 1
       /\ \A i \in 1..(Len(List(p)) + 1) :
            List(p)'[i] = IF i <= Len(List(p)) THEN List(p)[i] ELSE d
  BY <1>1, <1>5, <1>8, <1>10, AppendProperties
<1>12. DOMAIN List(p) = 1..Len(List(p)) /\ DOMAIN List(p)' = 1..(Len(List(p)) + 1)
       /\ Len(List(p)) \in Nat
  BY <1>8, <1>10, <1>11
<1>13. ASSUME NEW t \in Threads
       PROVE  /\ (\A i \in DOMAIN List(t) : Owner(List(t)[i]) = t)'
              /\ (\A i, j \in DOMAIN List(t) : List(t)[i] = List(t)[j] => i = j)'
  <2>1. CASE t # p
    BY <1>0, <1>5, <1>10, <2>1 DEF Lists
  <2>2. CASE t = p
    <3>1. \A i, j \in DOMAIN List(p) : List(p)[i] = List(p)[j] => i = j
      BY <1>0, <1>8 DEF Lists
    <3>2. ASSUME NEW i \in DOMAIN List(p)'
          PROVE  \/ i \in DOMAIN List(p) /\ List(p)'[i] = List(p)[i]
                 \/ i = Len(List(p)) + 1 /\ List(p)'[i] = d
      BY <1>11, <1>12
    <3>3. Owner(d)' = p
      BY <1>1, <1>4, <1>7
    <3>4. \A i \in DOMAIN List(p)' : Owner(List(p)[i])' = p
      BY <1>8, <1>10, <3>2, <3>3
    <3>5. \A i, j \in DOMAIN List(p)' : List(p)'[i] = List(p)'[j] => i = j
      BY <1>8, <1>10, <3>1, <3>2
    <3> QED
      BY <2>2, <3>4, <3>5
  <2> QED
    BY <2>1, <2>2
<1>14. ASSUME NEW e \in Engines, Owner(e)' \in Threads
       PROVE  \E i \in DOMAIN List(Owner(e))' : List(Owner(e))'[i] = e
  <2>1. CASE e = d
    <3>1. Owner(e)' = p
      BY <1>1, <1>4, <1>7, <2>1
    <3>2. Len(List(p)) + 1 \in DOMAIN List(p)' /\ List(p)'[Len(List(p)) + 1] = d
      BY <1>11, <1>12
    <3>3. \E i \in DOMAIN List(p)' : List(p)'[i] = e
      BY <2>1, <3>2
    <3>4. List(Owner(e))' = List(p)'
      BY <3>1 DEF List
    <3> QED
      BY <3>3, <3>4
  <2>2. CASE e # d
    <3>1. Owner(e)' = Owner(e)
      BY <1>3, <1>7, <2>2
    <3>o. PICK o \in Threads : o = Owner(e)
      BY <1>14, <3>1
    <3>2. PICK i \in DOMAIN List(o) : List(o)[i] = e
      BY <1>0, <3>o DEF Lists
    <3>3. List(Owner(e))' = thp'[o].work_list
      BY <3>1, <3>o DEF List
    <3>4. i \in DOMAIN thp'[o].work_list /\ thp'[o].work_list[i] = e
      <4>1. CASE o # p
        BY <1>5, <3>2, <3>3, <4>1 DEF List
      <4>2. CASE o = p
        <5>1. i \in 1..Len(List(p)) /\ List(p)[i] = e
          BY <1>12, <3>2, <4>2
        <5>2. i \in DOMAIN List(p)' /\ List(p)'[i] = e
          BY <1>11, <1>12, <5>1
        <5> QED
          BY <4>2, <5>2 DEF List
      <4> QED
        BY <4>1, <4>2
    <3> QED
      BY <3>3, <3>4
  <2> QED
    BY <2>1, <2>2
<1> QED
  BY <1>2, <1>9, <1>13, <1>14 DEF Lists

LEMMA ListsUnlink == ASSUME ListInv, UnlinkWork PROVE Lists'
<1>0. /\ engine' = engine /\ Loading /\ Lists /\ Types
      /\ thp \in [Threads -> ThreadRecords]
      /\ drv \in [pc : LoadPlaces, n : Nat, t : Threads \cup {NoThread}]
  BY DEF UnlinkWork, ListInv, Types
<1>a. drv.n + 1 \in Engines /\ drv.t \in Threads
  BY <1>0 DEF UnlinkWork, Loading, At
<1>b. PICK d \in Engines : d = drv.n + 1
  BY <1>a
<1>c. PICK u \in Threads : u = drv.t
  BY <1>a
<1>1. drv.pc = "unlink" /\ drv'.pc = "destroy" /\ drv'.n + 1 = d
  BY <1>0, <1>b DEF UnlinkWork, At
<1>2. Owner(d) = u /\ Owner(d)' = NoThread
  BY <1>0, <1>b, <1>c, <1>1 DEF Lists, Owner
<1>3. \A e \in Engines : e # d => Owner(e)' = Owner(e)
  BY <1>0, <1>b, <1>1 DEF Owner
<1>4. Assigned' = Assigned
  BY <1>0, <1>1 DEF Assigned, UnlinkWork
<1>5. \E i \in DOMAIN List(u) : List(u)[i] = d
  BY <1>0, <1>1, <1>2 DEF Lists
<1>6. List(u) \in Seq(Engines) /\ DOMAIN List(u) = 1..Len(List(u))
  BY <1>0, <1>1 DEF List, ThreadRecords, WorkLists
<1>7. PICK k \in 1..Len(List(u)) :
        /\ k = CHOOSE i \in DOMAIN List(u) : List(u)[i] = d
        /\ List(u)[k] = d
  BY <1>5, <1>6
<1>8. /\ thp' = [thp EXCEPT ![u] =
                   [thp[u] EXCEPT !.work_list = RemoveAt(List(u), k)]]
      /\ \A t \in Threads : t # u => List(t)' = List(t)
      /\ thp'[u].work_list = RemoveAt(List(u), k)
  <2>1. thp' = [thp EXCEPT ![u] =
                   [thp[u] EXCEPT !.work_list = RemoveAt(List(u), k)]]
    BY <1>b, <1>c, <1>7 DEF UnlinkWork, List
  <2> QED
    BY <1>0, <1>1, <2>1 DEF List, ThreadRecords
<1>l. PICK l \in Seq(Engines) : l = List(u)
  BY <1>6
<1>m. PICK m : m = RemoveAt(l, k)
  OBVIOUS
<1>k. k \in 1..Len(l)
  BY <1>l
<1>9. /\ m \in Seq(Engines) /\ Len(m) = Len(l) - 1 /\ Len(l) \in Nat
      /\ \A i \in 1..(Len(l) - 1) : m[i] = IF i < k THEN l[i] ELSE l[i + 1]
  <2>1. /\ RemoveAt(l, k) \in Seq(Engines)
        /\ Len(RemoveAt(l, k)) = Len(l) - 1
        /\ \A i \in 1..(Len(l) - 1) :
             RemoveAt(l, k)[i] = IF i < k THEN l[i] ELSE l[i + 1]
    BY <1>k, RemoveAtProperties
  <2>2. Len(l) \in Nat
    OBVIOUS
  <2> QED
    BY <1>m, <2>1, <2>2
<1>10. DOMAIN m = 1..(Len(l) - 1) /\ DOMAIN l = 1..Len(l)
  BY <1>9
<1>11. /\ \A i, j \in DOMAIN l : l[i] = l[j] => i = j
       /\ \A i \in DOMAIN l : l[i] \in Engines /\ Owner(l[i]) = u
  BY <1>0, <1>1, <1>6, <1>l DEF Lists
<1>12. ASSUME NEW i \in DOMAIN m
       PROVE  \E j \in DOMAIN l : /\ m[i] = l[j] /\ j # k
                                   /\ j = IF i < k THEN i ELSE i + 1
  <2>1. CASE i < k
    BY <1>k, <1>9, <1>10, <2>1
  <2>2. CASE ~(i < k)
    <3>1. i + 1 \in DOMAIN l /\ i + 1 # k /\ m[i] = l[i + 1]
      BY <1>k, <1>9, <1>10, <2>2
    <3> QED
      BY <2>2, <3>1
  <2> QED
    BY <2>1, <2>2
<1>13. \A i \in DOMAIN m : m[i] # d /\ m[i] \in Engines /\ Owner(m[i])' = u
  <2>1. k \in DOMAIN l /\ l[k] = d
    BY <1>7, <1>10, <1>l
  <2> QED
    BY <1>3, <1>11, <1>12, <2>1
<1>14. ASSUME NEW i \in DOMAIN m, NEW j \in DOMAIN m, m[i] = m[j]
       PROVE  i = j
  <2>1. (IF i < k THEN i ELSE i + 1) = (IF j < k THEN j ELSE j + 1)
    BY <1>11, <1>12, <1>14
  <2> QED
    BY <1>7, <1>9, <1>10, <2>1
<1>15. ASSUME NEW t \in Threads
       PROVE  /\ (\A i \in DOMAIN List(t) : Owner(List(t)[i]) = t)'
              /\ (\A i, j \in DOMAIN List(t) : List(t)[i] = List(t)[j] => i = j)'
  <2>1. CASE t # u
    <3>1. List(t)' = List(t)
      BY <1>8, <2>1
    <3>2. \A i \in DOMAIN List(t) : List(t)[i] \in Engines /\ Owner(List(t)[i]) = t
      BY <1>0 DEF Lists, Types, List, ThreadRecords, WorkLists
    <3> QED
      BY <1>0, <1>2, <1>3, <2>1, <3>1, <3>2 DEF Lists
  <2>2. CASE t = u
    <3>1. List(t)' = m
      BY <1>8, <1>l, <1>m, <2>2 DEF List
    <3> QED
      BY <1>13, <1>14, <2>2, <3>1
  <2> QED
    BY <2>1, <2>2
<1>16. ASSUME NEW e \in Engines, Owner(e)' \in Threads
       PROVE  \E i \in DOMAIN List(Owner(e))' : List(Owner(e))'[i] = e
  <2>1. e # d /\ Owner(e)' = Owner(e)
    BY <1>2, <1>3, <1>16, ThreadsAreNat
  <2>o. PICK o \in Threads : o = Owner(e)
    BY <1>16, <2>1
  <2>2. PICK i \in DOMAIN List(o) : List(o)[i] = e
    BY <1>0, <2>o DEF Lists
  <2>3. List(Owner(e))' = thp'[o].work_list
    BY <2>1, <2>o DEF List
  <2>4. \E j \in DOMAIN thp'[o].work_list : thp'[o].work_list[j] = e
    <3>1. CASE o # u
      BY <1>8, <2>2, <2>3, <3>1 DEF List
    <3>2. CASE o = u
      <4>1. i \in 1..Len(l) /\ l[i] = e /\ thp'[o].work_list = m
        BY <1>8, <1>10, <2>2, <3>2, <1>l, <1>m
      <4>2. i # k
        BY <1>7, <2>1, <4>1, <1>l
      <4>3. CASE i < k
        <5>1. i \in DOMAIN m /\ m[i] = e
          BY <1>k, <1>9, <1>10, <4>1, <4>3
        <5> QED
          BY <4>1, <5>1
      <4>4. CASE ~(i < k)
        <5>1. i - 1 \in DOMAIN m /\ m[i - 1] = e
          BY <1>k, <1>9, <1>10, <4>1, <4>2, <4>4
        <5> QED
          BY <4>1, <5>1
      <4> QED
        BY <4>3, <4>4
    <3> QED
      BY <3>1, <3>2
  <2> QED
    BY <2>3, <2>4
<1>17. /\ \A e \in Engines : engine'[e].live <=> e \in Assigned'
       /\ \A e \in Engines : Owner(e)' # NoThread <=>
            engine'[e].live /\ ~(drv'.pc = "destroy" /\ e = drv'.n + 1)
  <2>1. \A e \in Engines : /\ (engine[e].live <=> e \in Assigned)
                         /\ (Owner(e) # NoThread <=> engine[e].live)
    BY <1>0, <1>1 DEF Lists
  <2>2. engine[d].live' = engine[d].live /\ Owner(d)' = NoThread
    BY <1>0, <1>2
  <2>3. ASSUME NEW e \in Engines, e # d
        PROVE  /\ engine'[e].live = engine[e].live /\ Owner(e)' = Owner(e)
               /\ (e \in Assigned' <=> e \in Assigned)
    BY <1>0, <1>3, <1>4, <2>3
  <2>4. engine'[d].live <=> d \in Assigned'
    BY <1>0, <1>4, <2>1
  <2> QED
    BY <1>1, <2>1, <2>2, <2>3, <2>4
<1> QED
  BY <1>1, <1>15, <1>16, <1>17 DEF Lists

(* A thread at an engine of its list stays where it is until it steps: its *)
(* lock keeps the loading thread from its list.                            *)
Polling == {"poll", "clear", "service"}

LEMMA OnListPolling ==
  OnList <=> \A t \in Threads : thp[t].pc \in Polling => thp[t].n \in DOMAIN List(t)
  BY DEF OnList, Locked, Polling

LEMMA DriverKeepsPolling ==
  ASSUME ListInv, Driver, NEW t \in Threads, thp'[t].pc \in Polling
  PROVE  /\ thp[t].pc = thp'[t].pc /\ thp[t].n = thp'[t].n
         /\ List(t)' = List(t) /\ thp[t].wb = thp'[t].wb
<1>0. thp \in [Threads -> ThreadRecords] /\ Loading /\ PickThread \in Threads
  BY PickLeast DEF ListInv, Types
<1>1. CASE UNCHANGED thp
  BY <1>1 DEF List
<1>2. CASE KthreadStart
  <2>1. [NewThread EXCEPT !.pc = "top"].pc = "top"
    BY DEF NewThread
  <2>2. CASE UNCHANGED thp
    BY <2>2 DEF List
  <2>3. CASE thp' = [thp EXCEPT ![drv.n] = [NewThread EXCEPT !.pc = "top"]]
    BY <1>0, <2>1, <2>3 DEF Polling, List
  <2> QED
    BY <1>2, <2>2, <2>3 DEF KthreadStart
<1>3. CASE AddWork
  <2>1. thp' = [thp EXCEPT ![PickThread] = [thp[PickThread] EXCEPT
             !.work_list = Append(thp[PickThread].work_list, drv.n + 1)]]
    BY <1>3 DEF AddWork
  <2>2. ~Locked(PickThread)
    BY <1>3 DEF AddWork
  <2>3. CASE t = PickThread
    BY <1>0, <2>1, <2>2, <2>3 DEF Locked, Polling, ThreadRecords
  <2>4. CASE t # PickThread
    BY <1>0, <2>1, <2>4 DEF List
  <2> QED
    BY <2>3, <2>4
<1>4. CASE UnlinkWork
  <2>1. PICK l : thp' = [thp EXCEPT ![drv.t] = [thp[drv.t] EXCEPT !.work_list = l]]
    BY <1>4 DEF UnlinkWork
  <2>2. ~Locked(drv.t)
    BY <1>4 DEF UnlinkWork
  <2>3. CASE t = drv.t
    BY <1>0, <2>1, <2>2, <2>3 DEF Locked, Polling, ThreadRecords
  <2>4. CASE t # drv.t
    BY <1>0, <2>1, <2>4 DEF List
  <2> QED
    BY <2>3, <2>4
<1>5. CASE KthreadStop \/ KthreadStopFlag
  BY <1>0, <1>5 DEF KthreadStop, KthreadStopFlag, Woken, Polling, List,
    ThreadRecords
<1> QED
  BY <1>1, <1>2, <1>3, <1>4, <1>5 DEF Driver, CreateThreads, LoadDone, Unload,
    RemoveWork, EngineDestroy, KthreadJoin

(* The steps of a thread to and between the places where it polls. *)
LEMMA ThreadPolling ==
  ASSUME ListInv, NEW t \in Threads, Thread(t), thp'[t].pc \in Polling
  PROVE  /\ thp'[t].n = thp[t].n /\ thp[t].n \in DOMAIN List(t)
         /\ \/ /\ ThreadWork(t) /\ thp'[t].pc = "poll"
               /\ engine[Current(t)].queued
            \/ ThreadPoll(t) /\ thp'[t].pc = "clear"
               /\ engine[Current(t)].wb # NoWb
               /\ thp'[t].wb = engine[Current(t)].wb
            \/ ThreadClear(t) /\ thp'[t].wb = thp[t].wb
               /\ (Enough(thp[t].wb, thp[t].expected) => thp'[t].pc = "service")
<1>0. thp \in [Threads -> ThreadRecords] /\ List(t) \in Seq(Engines)
  BY DEF ListInv, Types, List, ThreadRecords, WorkLists
<1>1. CASE ThreadTop(t) \/ ThreadReschedule(t) \/ ThreadService(t)
  <2>1. CASE ThreadTop(t) \/ ThreadReschedule(t)
    <3>1. thp'[t] \in {[thp[t] EXCEPT !.pc = "none"],
                      [thp[t] EXCEPT !.pc = "wait"],
                      [thp[t] EXCEPT !.pc = "asleep"],
                      [thp[t] EXCEPT !.pc = "work", !.schedule = FALSE, !.n = 1]}
      BY <1>0, <2>1 DEF ThreadTop, ThreadReschedule
    <3> QED
      BY <1>0, <3>1 DEF Polling, ThreadRecords
  <2>2. CASE ThreadService(t)
    BY <1>0, <2>2 DEF ThreadService, Polling, ThreadRecords
  <2> QED
    BY <1>1, <2>1, <2>2
<1>2. CASE ThreadWork(t)
  <2>1. /\ ~(thp[t].n > WorkCnt(t)) /\ engine[Current(t)].queued
        /\ thp'[t].pc = "poll" /\ thp'[t].n = thp[t].n
    <3>1. CASE thp[t].n > WorkCnt(t)
      BY <1>0, <1>2, <3>1 DEF ThreadWork, Polling, ThreadRecords
    <3>2. CASE ~(thp[t].n > WorkCnt(t)) /\ ~engine[Current(t)].queued
      BY <1>0, <1>2, <3>2 DEF ThreadWork, Polling, ThreadRecords
    <3>3. CASE ~(thp[t].n > WorkCnt(t)) /\ engine[Current(t)].queued
      BY <1>0, <1>2, <3>3 DEF ThreadWork, ThreadRecords
    <3> QED
      BY <3>1, <3>2, <3>3
  <2>2. thp[t].n \in DOMAIN List(t)
    BY <1>0, <2>1 DEF WorkCnt, List, ThreadRecords
  <2> QED
    BY <1>2, <2>1, <2>2
<1>3. CASE ThreadPoll(t)
  <2>1. thp[t].n \in DOMAIN List(t)
    BY <1>3 DEF ListInv, OnList, Locked, ThreadPoll
  <2> QED
    <3>1. /\ engine[Current(t)].wb # NoWb
          /\ thp' = [thp EXCEPT ![t] = [thp[t] EXCEPT !.pc = "clear",
                                          !.wb = engine[Current(t)].wb]]
      <4>1. CASE engine[Current(t)].wb # NoWb
        BY <1>3, <4>1 DEF ThreadPoll
      <4>2. CASE engine[Current(t)].wb = NoWb
        BY <1>0, <1>3, <4>2 DEF ThreadPoll, Polling, ThreadRecords
      <4> QED
        BY <4>1, <4>2
    <3>2. /\ thp'[t].pc = "clear" /\ thp'[t].n = thp[t].n
          /\ thp'[t].wb = engine[Current(t)].wb
      BY <1>0, <3>1 DEF ThreadRecords
    <3> QED
      BY <1>3, <2>1, <3>1, <3>2
<1>4. CASE ThreadClear(t)
  <2>1. thp[t].n \in DOMAIN List(t)
    BY <1>4 DEF ListInv, OnList, Locked, ThreadClear
  <2> QED
    BY <1>0, <1>4, <2>1 DEF ThreadClear, Polling, ThreadRecords
<1> QED
  BY <1>1, <1>2, <1>3, <1>4 DEF Thread

(* A thread changes no other thread, a wake-up none that polls. *)
LEMMA OthersKeepPolling ==
  ASSUME ListInv, Others, NEW t \in Threads, ~Thread(t)
  PROVE  /\ thp'[t].pc = "none" <=> thp[t].pc = "none"
         /\ thp'[t].pc \in Polling =>
              /\ thp[t].pc = thp'[t].pc /\ thp[t].n = thp'[t].n
              /\ List(t)' = List(t) /\ thp[t].wb = thp'[t].wb
<1>0. thp \in [Threads -> ThreadRecords]
  BY DEF ListInv, Types
<1>1. ASSUME NEW u \in Threads, Thread(u) PROVE thp'[t] = thp[t]
  <2>1. \E r \in ThreadRecords : thp' = [thp EXCEPT ![u] = r]
    BY <1>1, ThreadUpdate
  <2>2. u # t
    BY <1>1
  <2> QED
    BY <1>0, <2>1, <2>2
<1>2. ASSUME NEW e \in Writers, KthreadWakeup(e)
      PROVE  \/ thp'[t] = thp[t]
             \/ thp'[t] = [thp[t] EXCEPT !.schedule = TRUE, !.pc = Woken(thp[t].pc)]
  BY <1>0, <1>2 DEF KthreadWakeup
<1>3. \/ thp'[t] = thp[t]
      \/ thp'[t] = [thp[t] EXCEPT !.schedule = TRUE, !.pc = Woken(thp[t].pc)]
  BY <1>1, <1>2 DEF Others, Write, WriteReturns, WriteGivesUp, HwDescriptor
<1> QED
  BY <1>0, <1>3 DEF Woken, Polling, List, ThreadRecords

LEMMA ListStep == ASSUME ListInv, [Next]_vars PROVE ListInv'
<1>1. CASE Driver
  <2>1. Types' /\ Loading'
    BY <1>1, TypesDriver, LoadingDriver
  <2>2. Lists'
    BY <1>1, ListsQuiet, ListsAdd, ListsRemove, ListsUnlink, ListsDestroy
       DEF Driver
  <2>3. \A t \in Threads : thp'[t].pc \in Polling => thp'[t].n \in DOMAIN List(t)'
    BY <1>1, DriverKeepsPolling, OnListPolling DEF ListInv
  <2>4. OnList'
    BY <2>3 DEF OnList, Locked, Polling
  <2> QED
    BY <2>1, <2>2, <2>4 DEF ListInv
<1>2. CASE Others
  <2>1. Types' /\ Loading' /\ Lists'
    BY <1>2, OthersKeep, ListsOthers
  <2>2. ASSUME NEW t \in Threads, thp'[t].pc \in Polling
        PROVE  thp'[t].n \in DOMAIN List(t)'
    <3>1. CASE Thread(t)
      BY <1>2, <2>2, <3>1, ThreadPolling, OthersKeep
    <3>2. CASE ~Thread(t)
      BY <1>2, <2>2, <3>2, OthersKeepPolling, OnListPolling DEF ListInv
    <3> QED
      BY <3>1, <3>2
  <2>3. OnList'
    BY <2>2 DEF OnList, Locked, Polling
  <2> QED
    BY <2>1, <2>3 DEF ListInv
<1>3. CASE UNCHANGED vars
  BY <1>3 DEF ListInv, Types, Loading, Lists, OnList, Assigned, Owner, List,
    Locked, vars
<1> QED
  BY <1>1, <1>2, <1>3 DEF Next, Others

-----------------------------------------------------------------------------
(* Threads touch only what exists.                                         *)

LEMMA ThreadInit == ASSUME Init PROVE ThreadInv
<1>1. drv.pc = "off" /\ \A t \in Threads : thp[t].pc = "none"
  BY DEF Init, NewThread
<1> QED
  BY <1>1, ListInit DEF ThreadInv, Running

LEMMA RunningDriver ==
  ASSUME "start" \notin Faults, ThreadInv, Driver
  PROVE  drv'.pc # "failed" /\ Running'
<1>0. /\ ListInv /\ drv.pc # "failed" /\ Running /\ Loading
      /\ thp \in [Threads -> ThreadRecords] /\ NumThreads \in Nat
      /\ drv \in [pc : LoadPlaces, n : Nat, t : Threads \cup {NoThread}]
  BY PollAssumption DEF ThreadInv, ListInv, Types
<1>1. CASE CreateThreads
  BY <1>0, <1>1, ThreadsAreNat DEF CreateThreads, At, Go, Running
<1>2. CASE KthreadStart
  <2>1. /\ thp' = [thp EXCEPT ![drv.n] = [NewThread EXCEPT !.pc = "top"]]
        /\ cs_threads' = cs_threads /\ drv.pc = "start"
        /\ IF drv.n + 1 = NumThreads THEN Go("add") ELSE Loop
    BY <1>2 DEF KthreadStart, At
  <2>2. cs_threads'
    BY <1>0, <2>1 DEF Running
  <2>3. CASE Go("add")
    BY <2>2, <2>3 DEF Go, Running
  <2>4. CASE Loop
    <3>1. drv'.pc = "start" /\ drv'.n = drv.n + 1
      BY <1>0, <2>1, <2>4 DEF Loop
    <3>2. ASSUME NEW t \in Threads, t >= drv'.n PROVE thp'[t].pc = "none"
      <4>1. t >= drv.n /\ t # drv.n
        BY <1>0, <3>1, <3>2, ThreadsAreNat
      <4>2. thp[t].pc = "none"
        BY <1>0, <2>1, <4>1 DEF Running
      <4> QED
        BY <1>0, <2>1, <4>1, <4>2
    <3> QED
      BY <2>2, <3>1, <3>2 DEF Running
  <2> QED
    BY <2>1, <2>3, <2>4
<1>3. CASE AddWork \/ LoadDone \/ Unload \/ RemoveWork \/ UnlinkWork
  <2>1. /\ cs_threads' = cs_threads
        /\ drv.pc \in {"add", "up", "remove", "unlink"}
        /\ drv'.pc \in {"add", "up", "remove", "unlink", "destroy"}
    <3>1. CASE AddWork
      BY <1>0, <3>1 DEF AddWork, At, Loop
    <3>2. CASE LoadDone \/ Unload
      BY <3>2 DEF LoadDone, Unload, At, Go
    <3>3. CASE RemoveWork
      BY <1>0, <3>3 DEF RemoveWork, At
    <3>4. CASE UnlinkWork
      BY <1>0, <3>4 DEF UnlinkWork, At
    <3> QED
      BY <1>3, <3>1, <3>2, <3>3, <3>4
  <2> QED
    BY <1>0, <2>1 DEF Running
<1>4. CASE EngineDestroy
  <2>1. /\ cs_threads' = cs_threads /\ drv.pc = "destroy"
        /\ \/ drv'.pc = "remove"
           \/ drv'.pc = "stop" /\ drv'.n = 0
    BY <1>4 DEF EngineDestroy, At, Go
  <2> QED
    BY <1>0, <2>1, ThreadsAreNat DEF Running
<1>5. CASE KthreadStop \/ KthreadStopFlag
  <2>1. /\ cs_threads' = cs_threads /\ drv.pc \in {"stop", "kthread_stop"}
        /\ drv'.pc \in {"kthread_stop", "join"} /\ drv'.n = drv.n
    BY <1>0, <1>5 DEF KthreadStop, KthreadStopFlag, At
  <2>2. \A t \in Threads : t < drv.n => thp'[t] = thp[t]
    BY <1>0, <1>5, ThreadsAreNat DEF KthreadStop, KthreadStopFlag
  <2> QED
    BY <1>0, <2>1, <2>2 DEF Running
<1>6. CASE KthreadJoin
  <2>1. /\ drv.pc = "join" /\ thp[drv.n].pc = "none" /\ thp' = thp
        /\ IF drv.n + 1 = NumThreads
           THEN Go("off") /\ cs_threads' = FALSE
           ELSE /\ drv' = [pc |-> "stop", n |-> drv.n + 1, t |-> NoThread]
                /\ UNCHANGED cs_threads
    BY <1>6 DEF KthreadJoin, At
  <2>2. \A t \in Threads : t < drv.n + 1 => thp[t].pc = "none"
    <3>1. \A t \in Threads : t < drv.n + 1 => t < drv.n \/ t = drv.n
      BY <1>0, ThreadsAreNat
    <3> QED
      BY <1>0, <2>1, <3>1 DEF Running
  <2>3. CASE drv.n + 1 = NumThreads
    <3>1. \A t \in Threads : t < drv.n + 1
      BY <1>0, <2>3 DEF Threads
    <3>2. \A t \in Threads : thp'[t].pc = "none"
      BY <2>1, <2>2, <3>1
    <3>3. drv'.pc = "off"
      BY <2>1, <2>3 DEF Go
    <3> QED
      BY <3>2, <3>3 DEF Running
  <2>4. CASE drv.n + 1 # NumThreads
    <3>1. drv'.pc = "stop" /\ drv'.n = drv.n + 1 /\ cs_threads' = cs_threads
      BY <2>1, <2>4
    <3> QED
      BY <1>0, <2>1, <2>2, <3>1 DEF Running
  <2> QED
    BY <2>3, <2>4
<1> QED
  BY <1>1, <1>2, <1>3, <1>4, <1>5, <1>6 DEF Driver

LEMMA ThreadStep ==
  ASSUME "start" \notin Faults, ThreadInv, [Next]_vars
  PROVE  ThreadInv'
<1>1. ListInv'
  BY ListStep DEF ThreadInv
<1>2. CASE Driver
  BY <1>1, <1>2, RunningDriver DEF ThreadInv
<1>3. CASE Others
  <2>1. drv' = drv /\ cs_threads' = cs_threads
    BY <1>3, OthersKeep DEF ThreadInv
  <2>2. ASSUME NEW t \in Threads, thp[t].pc = "none" PROVE thp'[t].pc = "none"
    <3>1. ~Thread(t)
      BY <2>2 DEF Thread, ThreadTop, ThreadReschedule, ThreadWork, ThreadPoll,
        ThreadClear, ThreadService
    <3> QED
      BY <1>3, <2>2, <3>1, OthersKeepPolling DEF ThreadInv
  <2>3. Running'
    BY <2>1, <2>2 DEF ThreadInv, Running
  <2> QED
    BY <1>1, <2>1, <2>3 DEF ThreadInv
<1>4. CASE UNCHANGED vars
  BY <1>1, <1>4 DEF ThreadInv, Running, vars
<1> QED
  BY <1>2, <1>3, <1>4 DEF Next, Others

(* The engine a polling thread is at is its own, and live. *)
LEMMA CurrentOwned ==
  ASSUME ListInv, NEW t \in Threads, thp[t].pc \in Polling
  PROVE  /\ Current(t) \in Engines /\ Owner(Current(t)) = t
         /\ engine[Current(t)].live /\ thp[t].n <= WorkCnt(t)
<1>1. Types /\ Lists /\ thp[t].n \in DOMAIN List(t)
  BY OnListPolling DEF ListInv
<1>2. Current(t) \in Engines
  BY <1>1, CurrentTyped
<1>3. Owner(Current(t)) = t
  BY <1>1 DEF Lists, List, Current
<1>4. engine[Current(t)].live
  BY <1>1, <1>2, <1>3, ThreadsAreNat DEF Lists
<1>5. List(t) \in Seq(Engines)
  BY <1>1 DEF Types, List, ThreadRecords, WorkLists
<1>6. thp[t].n <= Len(List(t))
  BY <1>1, <1>5
<1> QED
  BY <1>2, <1>3, <1>4, <1>6 DEF WorkCnt, List

(* In poll mode a thread runs only while the array of threads exists, and  *)
(* touches only engines that are initialised and on its list, however the  *)
(* loading and unloading of the driver (xdma_thread_add_work,              *)
(* xdma_thread_remove_work, engine_destroy, xdma_threads_destroy) and the  *)
(* threads interleave, as long as every thread can be created.             *)
THEOREM ThreadsOnLiveEngines ==
  ASSUME "start" \notin Faults
  PROVE  Spec => []ThreadOnLiveEngine
<1>1. Init => ThreadInv
  BY ThreadInit
<1>2. ThreadInv /\ [Next]_vars => ThreadInv'
  BY ThreadStep
<1>3. ThreadInv => ThreadOnLiveEngine
  <2>1. SUFFICES ASSUME ThreadInv, NEW t \in Threads
                 PROVE  /\ thp[t].pc # "none" => cs_threads
                        /\ thp[t].pc \in {"poll", "clear", "service"} =>
                             thp[t].n <= WorkCnt(t) /\ engine[Current(t)].live
    BY DEF ThreadOnLiveEngine
  <2>2. thp[t].pc # "none" => cs_threads
    BY <2>1 DEF ThreadInv, Running
  <2> QED
    BY <2>1, <2>2, CurrentOwned DEF ThreadInv, Polling
<1> QED
  BY <1>1, <1>2, <1>3, PTL DEF Spec

-----------------------------------------------------------------------------
(* Completed transfers have arrived.                                       *)

LEMMA TransferInit == ASSUME Init PROVE TransferInv
<1>1. Engine(NewEngine) /\ NewEngine.state = "NEW"
  BY DEF Engine, NewEngine
<1>2. \A e \in Engines : engine[e] = NewEngine
  BY DEF Init
<1>3. \A t \in Threads : thp[t].pc = "none"
  BY DEF Init, NewThread
<1>4. Servicing
  BY <1>3 DEF Servicing, Serves
<1>5. Writers \subseteq Engines
  BY PollAssumption
<1> QED
  BY <1>1, <1>2, <1>4, <1>5, ListInit DEF TransferInv, Transfers

(* The updates of an engine by the hardware. *)
LEMMA HwUpdates ==
  ASSUME NEW x \in EngineRecords, Engine(x), x.busy
  PROVE  /\ Engine(HwMoved(x)) /\ Engine(HwStopped(x))
         /\ HwMoved(x).state = x.state /\ HwStopped(x).state = x.state
         /\ HwMoved(x).queued = x.queued /\ HwStopped(x).queued = x.queued
         /\ HwMoved(x).aborted = x.aborted /\ HwStopped(x).aborted = x.aborted
<1>1. /\ HwMoved(x).state = x.state /\ HwMoved(x).queued = x.queued
      /\ HwMoved(x).aborted = x.aborted
      /\ HwMoved(x).desc_num = x.desc_num /\ HwMoved(x).count = x.count + 1
      /\ HwMoved(x).busy = ~(x.count + 1 = x.desc_num)
      /\ HwMoved(x).wb = IF x.count + 1 = x.desc_num
                         THEN [count |-> x.count + 1, err |-> FALSE] ELSE x.wb
  BY DEF HwMoved, EngineRecords
<1>2. /\ HwStopped(x).state = x.state /\ HwStopped(x).queued = x.queued
      /\ HwStopped(x).aborted = x.aborted
      /\ HwStopped(x).desc_num = x.desc_num /\ HwStopped(x).count = x.count
      /\ HwStopped(x).busy = FALSE
      /\ HwStopped(x).wb = [count |-> x.count, err |-> TRUE]
  BY DEF HwStopped, EngineRecords
<1>3. CASE x.aborted
  BY <1>1, <1>2, <1>3 DEF Engine
<1> SUFFICES ASSUME ~x.aborted
             PROVE  Engine(HwMoved(x)) /\ Engine(HwStopped(x))
  BY <1>1, <1>2, <1>3
<1>4. /\ x.state = "SUBMITTED" /\ x.queued /\ x.wb = NoWb
      /\ x.count < x.desc_num /\ x.count \in Nat /\ x.desc_num \in Nat
  BY DEF Engine, EngineRecords
<1>5. Engine(HwMoved(x))
  <2>1. CASE x.count + 1 = x.desc_num
    <3>1. /\ HwMoved(x).busy = FALSE /\ HwMoved(x).wb.count = HwMoved(x).count
          /\ HwMoved(x).count = HwMoved(x).desc_num
      <4>1. HwMoved(x).busy = FALSE
        BY <1>1, <2>1
      <4>2. HwMoved(x).wb = [count |-> x.count + 1, err |-> FALSE]
        BY <1>1, <2>1
      <4>3. HwMoved(x).wb.count = x.count + 1
        BY <4>2
      <4> QED
        BY <1>1, <2>1, <4>1, <4>3
    <3> QED
      BY <1>1, <1>4, <3>1 DEF Engine
  <2>2. CASE x.count + 1 # x.desc_num
    <3>1. x.count + 1 < x.desc_num
      BY <1>4, <2>2
    <3> QED
      BY <1>1, <1>4, <2>2, <3>1 DEF Engine
  <2> QED
    BY <2>1, <2>2
<1>6. Engine(HwStopped(x))
  BY <1>2, <1>4 DEF Engine
<1> QED
  BY <1>5, <1>6

(* The engine after engine_service with the count a thread has read. *)
LEMMA ServiceUpdates ==
  ASSUME NEW x \in EngineRecords, NEW r \in ThreadRecords, Engine(x),
         r.pc = "service", Serves(r, x)
  PROVE  /\ Engine(Serviced(x, r.wb))
         /\ Serviced(x, r.wb).state = "SUBMITTED" => x.state = "SUBMITTED"
<1>0. Serviced(x, r.wb).aborted = x.aborted
  BY DEF Serviced, EngineRecords
<1>1. \/ Serviced(x, r.wb).state = x.state
      \/ Serviced(x, r.wb).state \in {"FAILED", "COMPLETED"}
  BY DEF Serviced, EngineRecords
<1>2. CASE x.aborted
  BY <1>0, <1>1, <1>2 DEF Engine
<1>3. CASE ~x.aborted /\ ~x.running
  BY <1>3 DEF Serviced
<1>4. ~x.aborted => /\ x.queued /\ x.state = "SUBMITTED" /\ ~x.busy
                    /\ r.wb.count = x.count
                    /\ r.wb.err \/ x.count = x.desc_num
                    /\ x.wb = NoWb
  BY DEF Serves, Engine
<1>5. CASE ~x.aborted /\ x.running /\ r.wb.count = 0
  BY <1>4, <1>5 DEF Serviced, Engine, EngineRecords
<1>6. CASE ~x.aborted /\ x.running /\ r.wb.count # 0
  <2>1. /\ Serviced(x, r.wb).queued = FALSE /\ Serviced(x, r.wb).busy = FALSE
        /\ Serviced(x, r.wb).count = x.count /\ Serviced(x, r.wb).wb = x.wb
        /\ Serviced(x, r.wb).desc_num = x.desc_num
        /\ Serviced(x, r.wb).state = IF r.wb.err \/ r.wb.count < x.desc_num
                                     THEN "FAILED" ELSE "COMPLETED"
    BY <1>6 DEF Serviced, EngineRecords
  <2> QED
    BY <1>1, <1>4, <1>6, <2>1 DEF Engine
<1> QED
  BY <1>2, <1>3, <1>5, <1>6

(* A thread that goes on from a count too small, or to the service. *)
LEMMA ClearUpdates ==
  ASSUME NEW x \in EngineRecords, Engine(x), ~x.aborted => x.queued /\ ~x.busy
  PROVE  /\ Engine([x EXCEPT !.wb = NoWb])
         /\ [x EXCEPT !.wb = NoWb].state = x.state
         /\ [x EXCEPT !.wb = NoWb].aborted = x.aborted
  BY DEF Engine, EngineRecords

LEMMA TransferDriver ==
  ASSUME TransferInv, Driver
  PROVE  Transfers'
<1>0. /\ ListInv /\ Transfers /\ Loading /\ Lists
      /\ thp \in [Threads -> ThreadRecords]
      /\ engine \in [Engines -> EngineRecords]
      /\ drv \in [pc : LoadPlaces, n : Nat, t : Threads \cup {NoThread}]
      /\ Writers \subseteq Engines
  BY PollAssumption DEF TransferInv, ListInv, Types
<1>1. writer' = writer
  BY DEF Driver, CreateThreads, KthreadStart, AddWork, LoadDone, Unload,
    RemoveWork, UnlinkWork, EngineDestroy, KthreadStop, KthreadStopFlag,
    KthreadJoin
<1>2. ASSUME NEW e \in Engines
      PROVE  \/ engine'[e] = engine[e]
             \/ engine'[e] = [engine[e] EXCEPT !.cmplthp = NoThread]
             \/ /\ Owner(e) = NoThread
                /\ Engine(engine'[e]) /\ engine'[e].state = "NEW"
  <2>1. CASE AddWork
    <3>1. CASE e = drv.n + 1
      <4>1. engine'[e] = [NewEngine EXCEPT !.live = TRUE, !.cmplthp = PickThread]
        BY <1>0, <2>1, <3>1 DEF AddWork
      <4>2. e \notin Assigned /\ drv.pc = "add"
        BY <1>0, <2>1, <3>1 DEF AddWork, At, Assigned
      <4>3. Owner(e) = NoThread
        BY <1>0, <4>2 DEF Lists
      <4>4. Engine(engine'[e])
        BY <4>1 DEF Engine, NewEngine
      <4>5. engine'[e].state = "NEW"
        BY <4>1 DEF NewEngine
      <4> QED
        BY <4>3, <4>4, <4>5
    <3>2. CASE e # drv.n + 1
      BY <1>0, <2>1, <3>2 DEF AddWork
    <3> QED
      BY <3>1, <3>2
  <2>2. CASE EngineDestroy
    <3>1. CASE e = drv.n + 1
      <4>1. engine'[e] = NewEngine /\ drv.pc = "destroy"
        BY <1>0, <2>2, <3>1 DEF EngineDestroy, At
      <4>2. Owner(e) = NoThread
        BY <1>0, <3>1, <4>1 DEF Lists
      <4> QED
        BY <4>1, <4>2 DEF Engine, NewEngine
    <3>2. CASE e # drv.n + 1
      BY <1>0, <2>2, <3>2 DEF EngineDestroy
    <3> QED
      BY <3>1, <3>2
  <2>3. CASE RemoveWork
    BY <1>0, <2>3 DEF RemoveWork
  <2> QED
    BY <2>1, <2>2, <2>3 DEF Driver, CreateThreads, KthreadStart, LoadDone,
      Unload, UnlinkWork, KthreadStop, KthreadStopFlag, KthreadJoin
<1>3. ASSUME NEW x \in EngineRecords
      PROVE  LET y == [x EXCEPT !.cmplthp = NoThread]
             IN  /\ y.state = x.state /\ (Engine(x) => Engine(y))
                 /\ \A r : Serves(r, x) => Serves(r, y)
  BY DEF EngineRecords, Engine, Serves
<1>4. ASSUME NEW e \in Engines
      PROVE  Engine(engine'[e]) /\ engine'[e].state \in {engine[e].state, "NEW"}
  <2>1. engine[e] \in EngineRecords /\ Engine(engine[e])
    BY <1>0 DEF Transfers
  <2> QED
    BY <1>2, <1>3, <2>1
<1>5. \A e \in Writers : engine'[e].state = "SUBMITTED" => writer'[e] # "idle"
  BY <1>0, <1>1, <1>4 DEF Transfers
<1>6. ASSUME NEW t \in Threads PROVE Serves(thp'[t], engine'[Current(t)'])
  <2>1. CASE thp'[t].pc \notin Polling
    BY <2>1 DEF Serves, Polling
  <2>2. CASE thp'[t].pc \in Polling
    <3>1. /\ thp[t].pc = thp'[t].pc /\ thp[t].n = thp'[t].n
          /\ List(t)' = List(t) /\ thp[t].wb = thp'[t].wb
      BY <1>0, <2>2, DriverKeepsPolling
    <3>2. Current(t)' = Current(t)
      BY <3>1 DEF Current, List
    <3>3. PICK e \in Engines : e = Current(t) /\ Owner(e) = t
      BY <1>0, <2>2, <3>1, CurrentOwned
    <3>4. Serves(thp[t], engine[e])
      BY <1>0, <3>3 DEF Transfers, Servicing
    <3>5. Serves(thp'[t], engine[e])
      BY <3>1, <3>4 DEF Serves
    <3>6. engine'[e] = engine[e] \/ engine'[e] = [engine[e] EXCEPT !.cmplthp = NoThread]
      BY <1>2, <3>3, ThreadsAreNat
    <3>7. engine[e] \in EngineRecords
      BY <1>0
    <3>8. Serves(thp'[t], engine'[e])
      BY <1>3, <3>5, <3>6, <3>7
    <3> QED
      BY <3>2, <3>3, <3>8
  <2> QED
    BY <2>1, <2>2
<1> QED
  BY <1>4, <1>5, <1>6 DEF Transfers, Servicing

LEMMA TransferOthers ==
  ASSUME TransferInv, Others
  PROVE  Transfers'
<1>0. /\ ListInv /\ Transfers
      /\ thp \in [Threads -> ThreadRecords]
      /\ engine \in [Engines -> EngineRecords]
      /\ writer \in [Writers -> {"idle", "wakeup", "wait"}]
      /\ Writers \subseteq Engines
  BY PollAssumption DEF TransferInv, ListInv, Types
<1>1. \A e \in Engines : engine[e] \in EngineRecords /\ Engine(engine[e])
  BY <1>0 DEF Transfers
<1>2. \A e \in Writers : engine[e].state = "SUBMITTED" => writer[e] # "idle"
  BY <1>0 DEF Transfers
<1>3. \A t \in Threads : Serves(thp[t], engine[Current(t)])
  BY <1>0 DEF Transfers, Servicing
(* A thread that does not step serves the engine it served. *)
<1>4. ASSUME NEW u \in Threads,
             thp'[u].pc \in Polling => /\ thp[u].pc = thp'[u].pc
                                      /\ thp[u].n = thp'[u].n
                                      /\ thp[u].wb = thp'[u].wb,
             NEW e, \A f \in Engines : f # e => engine'[f] = engine[f],
             Current(u) = e /\ thp[u].pc \in Polling =>
               (Serves(thp[u], engine[e]) => Serves(thp[u], engine'[e]))
      PROVE  Serves(thp'[u], engine'[Current(u)'])
  <2>1. CASE thp'[u].pc \notin Polling
    BY <2>1 DEF Serves, Polling
  <2>2. CASE thp'[u].pc \in Polling
    <3>1. /\ thp[u].pc = thp'[u].pc /\ thp[u].n = thp'[u].n
          /\ List(u)' = List(u) /\ thp[u].wb = thp'[u].wb
      BY <1>0, <1>4, <2>2, OthersKeep
    <3>2. Current(u)' = Current(u)
      BY <3>1 DEF Current, List
    <3>3. PICK c \in Engines : c = Current(u)
      BY <1>0, <2>2, <3>1, CurrentOwned
    <3>4. Serves(thp[u], engine'[c])
      BY <1>3, <1>4, <2>2, <3>1, <3>3
    <3>5. Serves(thp'[u], engine'[c])
      BY <3>1, <3>4 DEF Serves
    <3> QED
      BY <3>2, <3>3, <3>5
  <2> QED
    BY <2>1, <2>2
<1>5. ASSUME NEW t \in Threads, Thread(t)
      PROVE  Transfers'
  <2>0. UNCHANGED writer
    BY <1>5 DEF Thread, ThreadTop, ThreadReschedule, ThreadWork, ThreadPoll,
      ThreadClear, ThreadService
  <2>1. \A u \in Threads : u # t => thp'[u] = thp[u]
    <3>1. \E r \in ThreadRecords : thp' = [thp EXCEPT ![t] = r]
      BY <1>0, <1>5, ThreadUpdate
    <3> QED
      BY <1>0, <3>1
  <2>2. PICK c : c = Current(t)
    OBVIOUS
  <2>3. Current(t)' = Current(t) \/ thp'[t].pc \notin Polling
    <3>1. thp'[t].pc \in Polling => thp'[t].n = thp[t].n /\ List(t)' = List(t)
      BY <1>0, <1>5, ThreadPolling, OthersKeep
    <3> QED
      BY <3>1 DEF Current, List
  <2>4. thp[t].pc \in Polling =>
          /\ c \in Engines /\ Owner(c) = t
          /\ Engine(engine[c]) /\ engine[c] \in EngineRecords
    BY <1>0, <1>1, <2>2, CurrentOwned
  <2>5. CASE UNCHANGED engine
    <3>1. Serves(thp'[t], engine[c]) \/ thp'[t].pc \notin Polling
      <4>1. SUFFICES ASSUME thp'[t].pc \in Polling PROVE Serves(thp'[t], engine[c])
        OBVIOUS
      <4>2. CASE /\ ThreadWork(t) /\ thp'[t].pc = "poll"
                 /\ engine[Current(t)].queued
        BY <2>2, <4>2 DEF Serves
      <4>3. CASE /\ ThreadPoll(t) /\ thp'[t].pc = "clear"
                 /\ engine[Current(t)].wb # NoWb
                 /\ thp'[t].wb = engine[Current(t)].wb
        <5>1. thp[t].pc = "poll"
          BY <4>3 DEF ThreadPoll
        <5>2. Serves(thp[t], engine[c]) /\ Engine(engine[c])
          BY <1>3, <2>2, <2>4, <5>1 DEF Polling
        <5> QED
          BY <2>2, <4>3, <5>1, <5>2 DEF Serves, Engine
      <4>4. CASE ThreadClear(t) /\ thp'[t].wb = thp[t].wb
        <5>1. thp[t].pc = "clear" /\ engine' = [engine EXCEPT ![c].wb = NoWb]
          BY <2>2, <4>4 DEF ThreadClear
        <5>2. Serves(thp[t], engine[c])
          BY <1>3, <2>2
        <5>3. c \in Engines /\ engine[c] \in EngineRecords
          BY <2>4, <5>1 DEF Polling
        <5>4. engine[c].wb = NoWb
          BY <1>0, <2>5, <5>1, <5>3 DEF EngineRecords
        <5> QED
          BY <4>1, <4>4, <5>1, <5>2, <5>4 DEF Serves, Polling
      <4> QED
        BY <1>0, <1>5, <4>1, <4>2, <4>3, <4>4, ThreadPolling
    <3>2. Serves(thp'[t], engine'[Current(t)'])
      BY <2>2, <2>3, <2>5, <3>1 DEF Serves, Polling
    <3>3. ASSUME NEW u \in Threads PROVE Serves(thp'[u], engine'[Current(u)'])
      BY <1>4, <2>1, <2>5, <3>2, <3>3
    <3> QED
      BY <1>1, <1>2, <2>0, <2>5, <3>3 DEF Transfers, Servicing
  <2>6. ASSUME thp[t].pc \in Polling, \A e \in Engines : e # c => engine'[e] = engine[e],
               Engine(engine'[c]),
               engine'[c].state = "SUBMITTED" => engine[c].state = "SUBMITTED",
               thp'[t].pc \in Polling => Serves(thp'[t], engine'[c])
        PROVE  Transfers'
    <3>1. Serves(thp'[t], engine'[Current(t)'])
      BY <2>2, <2>3, <2>6 DEF Serves, Polling
    <3>2. ASSUME NEW u \in Threads, u # t PROVE Serves(thp'[u], engine'[Current(u)'])
      <4>1. Current(u) = c => thp[u].pc \notin Polling
        BY <1>0, <2>4, <2>6, <3>2, CurrentOwned
      <4> QED
        BY <1>4, <2>1, <2>6, <3>2, <4>1
    <3>3. \A e \in Engines : /\ Engine(engine'[e])
                           /\ (engine'[e].state = "SUBMITTED" =>
                                engine[e].state = "SUBMITTED")
      BY <1>1, <2>6
    <3> QED
      BY <1>0, <1>2, <2>0, <3>1, <3>2, <3>3 DEF Transfers, Servicing
  <2>7. CASE ThreadClear(t)
    <3>1. thp[t].pc = "clear" /\ c \in Engines /\ thp[t].pc \in Polling
      BY <2>4, <2>7 DEF ThreadClear, Polling
    <3>2. engine' = [engine EXCEPT ![c] = [engine[c] EXCEPT !.wb = NoWb]]
      BY <2>2, <2>7 DEF ThreadClear
    <3>3. engine'[c] = [engine[c] EXCEPT !.wb = NoWb]
      BY <1>0, <3>1, <3>2
    <3>4. Serves(thp[t], engine[c])
      BY <1>3, <2>2
    <3>5. ~engine[c].aborted => engine[c].queued /\ ~engine[c].busy
      BY <3>1, <3>4 DEF Serves
    <3>6. /\ Engine(engine'[c]) /\ engine'[c].state = engine[c].state
          /\ engine'[c].aborted = engine[c].aborted
      BY <2>4, <3>1, <3>3, <3>5, ClearUpdates
    <3>7. thp'[t].pc \in Polling => Serves(thp'[t], engine'[c])
      <4>1. thp'[t].wb = thp[t].wb
        BY <1>0, <2>7 DEF ThreadClear, ThreadRecords
      <4>2. /\ engine'[c].queued = engine[c].queued
            /\ engine'[c].busy = engine[c].busy
            /\ engine'[c].count = engine[c].count
            /\ engine'[c].desc_num = engine[c].desc_num
            /\ engine'[c].wb = NoWb
        BY <2>4, <3>1, <3>3 DEF EngineRecords
      <4> QED
        BY <3>1, <3>4, <3>6, <4>1, <4>2 DEF Serves
    <3> QED
      BY <1>0, <2>6, <3>1, <3>2, <3>6, <3>7
  <2>8. CASE ThreadService(t)
    <3>1. thp[t].pc = "service" /\ c \in Engines /\ thp[t].pc \in Polling
      BY <2>4, <2>8 DEF ThreadService, Polling
    <3>2. engine' = [engine EXCEPT ![c] = Serviced(engine[c], thp[t].wb)]
      BY <2>2, <2>8 DEF ThreadService
    <3>3. engine'[c] = Serviced(engine[c], thp[t].wb)
      BY <1>0, <3>1, <3>2
    <3>4. Serves(thp[t], engine[c]) /\ thp[t] \in ThreadRecords
      BY <1>0, <1>3, <2>2
    <3>5. /\ Engine(engine'[c])
          /\ engine'[c].state = "SUBMITTED" => engine[c].state = "SUBMITTED"
      BY <2>4, <3>1, <3>3, <3>4, ServiceUpdates
    <3>6. thp'[t].pc = "work"
      BY <1>0, <2>8 DEF ThreadService, ThreadRecords
    <3> QED
      BY <1>0, <2>6, <3>1, <3>2, <3>5, <3>6 DEF Polling
  <2> QED
    BY <1>5, <2>5, <2>7, <2>8 DEF Thread, ThreadTop, ThreadReschedule,
      ThreadWork, ThreadPoll
<1>6. ASSUME NEW e \in Writers, UNCHANGED thp,
             \A f \in Engines : f # e => engine'[f] = engine[f],
             \A f \in Writers : f # e => writer'[f] = writer[f],
             Engine(engine'[e]),
             engine'[e].state = "SUBMITTED" => writer'[e] # "idle",
             \A u \in Threads : Current(u) = e /\ thp[u].pc \in Polling =>
               (Serves(thp[u], engine[e]) => Serves(thp[u], engine'[e]))
      PROVE  Transfers'
  <2>1. \A f \in Engines : Engine(engine'[f])
    BY <1>1, <1>6
  <2>2. \A f \in Writers : engine'[f].state = "SUBMITTED" => writer'[f] # "idle"
    BY <1>0, <1>2, <1>6
  <2>3. ASSUME NEW u \in Threads PROVE Serves(thp'[u], engine'[Current(u)'])
    BY <1>4, <1>6, <2>3
  <2> QED
    BY <2>1, <2>2, <2>3 DEF Transfers, Servicing
<1>7. ASSUME NEW e \in Writers, NEW num \in DescNums, Write(e, num)
      PROVE  Transfers'
  <2>1. engine[e].state # "SUBMITTED" /\ engine[e] \in EngineRecords
        /\ Engine(engine[e]) /\ num \in Nat \ {0}
    BY <1>0, <1>1, <1>2, <1>7, PollAssumption DEF Write
  <2>2. ~engine[e].aborted => ~engine[e].queued /\ engine[e].wb = NoWb
    BY <2>1 DEF Engine
  <2>3. engine'[e] = [engine[e] EXCEPT !.queued = TRUE, !.state = "SUBMITTED",
                        !.desc_num = num, !.running = TRUE, !.busy = TRUE, !.count = 0]
    BY <1>0, <1>7 DEF Write
  <2>4. Engine(engine'[e]) /\ engine'[e].aborted = engine[e].aborted
    <3>1. /\ engine'[e].queued = TRUE /\ engine'[e].state = "SUBMITTED"
          /\ engine'[e].desc_num = num /\ engine'[e].count = 0
          /\ engine'[e].wb = engine[e].wb /\ engine'[e].aborted = engine[e].aborted
      BY <2>1, <2>3 DEF EngineRecords
    <3>2. 0 < num
      BY <2>1
    <3> QED
      BY <2>2, <3>1, <3>2 DEF Engine
  <2>5. UNCHANGED thp /\ writer' = [writer EXCEPT ![e] = "wakeup"]
    BY <1>7 DEF Write
  <2>6. \A f \in Engines : f # e => engine'[f] = engine[f]
    BY <1>0, <1>7 DEF Write
  <2>7. \A u \in Threads : Current(u) = e /\ thp[u].pc \in Polling =>
          (Serves(thp[u], engine[e]) => Serves(thp[u], engine'[e]))
    BY <2>2, <2>4 DEF Serves, Polling
  <2> QED
    BY <1>0, <1>6, <2>4, <2>5, <2>6, <2>7
<1>8. ASSUME NEW e \in Writers, HwDescriptor(e)
      PROVE  Transfers'
  <2>1. engine[e] \in EngineRecords /\ Engine(engine[e]) /\ engine[e].busy
    BY <1>0, <1>1, <1>8 DEF HwDescriptor
  <2>2. PICK r : /\ engine' = [engine EXCEPT ![e] = r]
                 /\ \/ r = HwMoved(engine[e])
                    \/ r = HwStopped(engine[e])
    BY <1>8 DEF HwDescriptor, HwMoved, HwStopped
  <2>3. /\ Engine(r) /\ r.state = engine[e].state /\ r.queued = engine[e].queued
        /\ r.aborted = engine[e].aborted
    BY <2>1, <2>2, HwUpdates
  <2>4. UNCHANGED <<thp, writer>> /\ engine'[e] = r
        /\ \A f \in Engines : f # e => engine'[f] = engine[f]
    BY <1>0, <1>8, <2>2 DEF HwDescriptor
  <2>5. \A u \in Threads : Serves(thp[u], engine[e]) => Serves(thp[u], r)
    BY <2>1, <2>3 DEF Serves
  <2> QED
    BY <1>2, <1>6, <2>3, <2>4, <2>5
<1>9. ASSUME NEW e \in Writers, WriteReturns(e)
      PROVE  Transfers'
  <2>1. /\ engine[e].state # "SUBMITTED" /\ UNCHANGED <<engine, thp>>
        /\ writer' = [writer EXCEPT ![e] = "idle"]
    BY <1>9 DEF WriteReturns
  <2> QED
    BY <1>0, <1>1, <1>6, <2>1
<1>10. ASSUME NEW e \in Writers, KthreadWakeup(e)
       PROVE  Transfers'
  <2>1. UNCHANGED engine /\ writer' = [writer EXCEPT ![e] = "wait"]
    BY <1>10 DEF KthreadWakeup
  <2>2. \A f \in Writers : engine'[f].state = "SUBMITTED" => writer'[f] # "idle"
    BY <1>0, <1>2, <2>1
  <2>3. ASSUME NEW u \in Threads PROVE Serves(thp'[u], engine'[Current(u)'])
    <3>1. \/ thp'[u] = thp[u]
          \/ thp'[u] = [thp[u] EXCEPT !.schedule = TRUE, !.pc = Woken(thp[u].pc)]
      BY <1>0, <1>10 DEF KthreadWakeup
    <3>2. thp'[u].pc \in Polling => /\ thp[u].pc = thp'[u].pc
                                   /\ thp[u].n = thp'[u].n
                                   /\ thp[u].wb = thp'[u].wb
      BY <1>0, <3>1 DEF Woken, Polling, ThreadRecords
    <3> QED
      BY <1>4, <2>1, <3>2
  <2> QED
    BY <1>1, <2>1, <2>2, <2>3 DEF Transfers, Servicing
<1>11. ASSUME NEW e \in Writers, WriteGivesUp(e)
       PROVE  Transfers'
  <2>1. engine'[e] = [engine[e] EXCEPT
          !.queued = FALSE, !.state = "ABORTED", !.running = FALSE,
          !.busy = FALSE, !.aborted = TRUE]
    BY <1>0, <1>11 DEF WriteGivesUp
  <2>2. engine'[e].aborted = TRUE /\ engine'[e].state = "ABORTED"
    BY <1>0, <1>1, <2>1 DEF EngineRecords
  <2>3. /\ UNCHANGED thp /\ writer' = [writer EXCEPT ![e] = "idle"]
        /\ \A f \in Engines : f # e => engine'[f] = engine[f]
    BY <1>0, <1>11 DEF WriteGivesUp
  <2>4. Engine(engine'[e]) /\ \A u \in Threads : Serves(thp[u], engine'[e])
    BY <2>2 DEF Engine, Serves
  <2> QED
    BY <1>0, <1>6, <2>2, <2>3, <2>4
<1> QED
  BY <1>5, <1>7, <1>8, <1>9, <1>10, <1>11 DEF Others

(* In poll mode a transfer is reported as completed only when the engine   *)
(* has moved all its descriptors: the count a thread reads, clears and     *)
(* hands to engine_service is that of the transfer under way.  This is so  *)
(* for an engine until one of its writers gives up (a signal, or the       *)
(* timeout of xdma_xfer_submit), whatever fails or is given up on other    *)
(* engines.  What is left behind then may end a later transfer of the same *)
(* engine, and the theorem says nothing of those.                          *)
THEOREM CompletedHaveArrived == Spec => []CompletedArrived
<1>1. Init => TransferInv
  BY TransferInit
<1>2. TransferInv /\ [Next]_vars => TransferInv'
  <2>1. SUFFICES ASSUME TransferInv, [Next]_vars PROVE TransferInv'
    OBVIOUS
  <2>2. ListInv'
    BY <2>1, ListStep DEF TransferInv
  <2>3. CASE Driver
    BY <2>1, <2>2, <2>3, TransferDriver DEF TransferInv
  <2>4. CASE Others
    BY <2>1, <2>2, <2>4, TransferOthers DEF TransferInv
  <2>5. CASE UNCHANGED vars
    <3>1. Transfers'
      BY <2>1, <2>5 DEF TransferInv, Transfers, Servicing, Current, vars
    <3> QED
      BY <2>2, <3>1 DEF TransferInv
  <2> QED
    BY <2>1, <2>3, <2>4, <2>5 DEF Next, Others
<1>3. TransferInv => CompletedArrived
  BY DEF TransferInv, Transfers, Engine, CompletedArrived
<1> QED
  BY <1>1, <1>2, <1>3, PTL DEF Spec

-----------------------------------------------------------------------------
(* Work is spread evenly.                                                  *)

LEMMA EmptyBalanced ==
  ASSUME \A t \in Threads : List(t) = << >>
  PROVE  Balanced
<1>1. \A t \in Threads : WorkCnt(t) = 0
  BY DEF WorkCnt, List
<1> QED
  BY <1>1 DEF Balanced

LEMMA SpreadDriver == ASSUME SpreadInv, Driver PROVE SpreadInv'
<1>0. /\ ListInv /\ Types /\ thp \in [Threads -> ThreadRecords]
      /\ drv \in [pc : LoadPlaces, n : Nat, t : Threads \cup {NoThread}]
  BY DEF SpreadInv, ListInv, Types
<1>1. ListInv'
  BY <1>0, ListStep DEF Next
<1>2. CASE drv.pc \in {"off", "start", "add", "up"} /\ UNCHANGED thp
  <2>1. Balanced'
    BY <1>2 DEF SpreadInv, Balanced, WorkCnt
  <2> QED
    BY <1>1, <2>1 DEF SpreadInv
<1>3. CASE KthreadStart
  <2>1. \A t \in Threads : List(t) = << >>
    BY <1>0, <1>3, EmptyLists DEF KthreadStart, At
  <2>2. [NewThread EXCEPT !.pc = "top"].work_list = << >>
    BY DEF NewThread
  <2>3. \A t \in Threads : List(t)' = << >>
    BY <1>0, <1>3, <2>1, <2>2 DEF KthreadStart, List
  <2>4. \A t \in Threads : WorkCnt(t)' = 0
    BY <2>3 DEF WorkCnt, List
  <2> QED
    BY <1>1, <2>4 DEF SpreadInv, Balanced
<1>4. CASE AddWork
  <2>1. Balanced
    BY <1>4 DEF SpreadInv, AddWork, At
  <2>2. PICK p \in Threads :
          /\ p = PickThread /\ \A u \in Threads : WorkCnt(p) <= WorkCnt(u)
    BY <1>0, <2>1, PickLeast
  <2>3. \A t \in Threads : WorkCnt(t) \in Nat
    BY <1>0, CountTyped
  <2>4. \A t \in Threads : t # p => WorkCnt(t)' = WorkCnt(t)
    BY <1>0, <1>4, <2>2 DEF AddWork, WorkCnt
  <2>5. WorkCnt(p)' = WorkCnt(p) + 1
    <3>1. thp'[p].work_list = Append(thp[p].work_list, drv.n + 1)
      BY <1>0, <1>4, <2>2 DEF AddWork, ThreadRecords
    <3>2. thp[p].work_list \in Seq(Engines)
      BY <1>0 DEF ThreadRecords, WorkLists
    <3>3. drv.n + 1 \in Engines
      BY <1>0, <1>4, PollAssumption DEF AddWork, Engines
    <3>4. Len(Append(thp[p].work_list, drv.n + 1)) = Len(thp[p].work_list) + 1
      BY <3>2, <3>3, AppendProperties
    <3> QED
      BY <3>1, <3>4 DEF WorkCnt
  <2>6. ASSUME NEW t \in Threads, NEW u \in Threads
        PROVE  WorkCnt(t)' <= WorkCnt(u)' + 1
    <3>1. WorkCnt(t) <= WorkCnt(u) + 1 /\ WorkCnt(p) <= WorkCnt(u)
      BY <2>1, <2>2 DEF Balanced
    <3>2. /\ WorkCnt(t) \in Nat /\ WorkCnt(u) \in Nat /\ WorkCnt(p) \in Nat
          /\ WorkCnt(t)' \in {WorkCnt(t), WorkCnt(t) + 1}
          /\ WorkCnt(u)' \in {WorkCnt(u), WorkCnt(u) + 1}
      BY <2>3, <2>4, <2>5
    <3>3. CASE t = p
      BY <2>5, <3>1, <3>2, <3>3
    <3>4. CASE t # p
      <4>1. WorkCnt(t)' = WorkCnt(t)
        BY <2>4, <3>4
      <4> QED
        BY <3>1, <3>2, <4>1
    <3> QED
      BY <3>3, <3>4
  <2> QED
    BY <1>1, <2>6 DEF SpreadInv, Balanced
<1>5. CASE KthreadJoin
  <2>1. \A t \in Threads : List(t) = << >>
    BY <1>0, <1>5, EmptyLists DEF KthreadJoin, At
  <2>2. \A t \in Threads : WorkCnt(t)' = 0
    BY <1>5, <2>1 DEF KthreadJoin, WorkCnt, List
  <2> QED
    BY <1>1, <2>2 DEF SpreadInv, Balanced
<1>6. CASE RemoveWork \/ UnlinkWork \/ EngineDestroy \/ KthreadStop
             \/ KthreadStopFlag
  <2>1. drv'.pc \notin {"off", "start", "add", "up"}
    <3>1. CASE RemoveWork \/ UnlinkWork
      BY <1>0, <3>1 DEF RemoveWork, UnlinkWork
    <3>2. CASE EngineDestroy
      BY <3>2 DEF EngineDestroy, Go
    <3>3. CASE KthreadStop \/ KthreadStopFlag
      BY <1>0, <3>3 DEF KthreadStop, KthreadStopFlag
    <3> QED
      BY <1>6, <3>1, <3>2, <3>3
  <2> QED
    BY <1>1, <2>1 DEF SpreadInv
<1> QED
  BY <1>2, <1>3, <1>4, <1>5, <1>6 DEF Driver, CreateThreads, LoadDone, Unload,
    At

(* When the engines have all been given to threads, no thread has two      *)
(* engines more than another, for any number of threads and engines and    *)
(* however often the driver is loaded: the loop of xdma_thread_add_work,   *)
(* which compares each thread with the first one only, finds a thread with *)
(* the least work.                                                         *)
THEOREM WorkIsBalanced == Spec => []WorkBalanced
<1>1. Init => SpreadInv
  <2>1. SUFFICES ASSUME Init PROVE SpreadInv
    OBVIOUS
  <2>2. \A t \in Threads : List(t) = << >>
    BY <2>1 DEF Init, List, NewThread
  <2> QED
    BY <2>1, <2>2, ListInit, EmptyBalanced DEF SpreadInv
<1>2. SpreadInv /\ [Next]_vars => SpreadInv'
  <2>1. SUFFICES ASSUME SpreadInv, [Next]_vars PROVE SpreadInv'
    OBVIOUS
  <2>2. ListInv'
    BY <2>1, ListStep DEF SpreadInv
  <2>3. CASE Others
    <3>1. drv' = drv /\ \A t \in Threads : List(t)' = List(t)
      BY <2>1, <2>3, OthersKeep DEF SpreadInv
    <3>2. \A t \in Threads : WorkCnt(t)' = WorkCnt(t)
      BY <3>1 DEF WorkCnt, List
    <3> QED
      BY <2>1, <2>2, <3>1, <3>2 DEF SpreadInv, Balanced
  <2>4. CASE UNCHANGED vars
    <3>1. drv' = drv /\ \A t \in Threads : WorkCnt(t)' = WorkCnt(t)
      BY <2>4 DEF WorkCnt, vars
    <3> QED
      BY <2>1, <2>2, <3>1 DEF SpreadInv, Balanced
  <2> QED
    BY <2>1, <2>3, <2>4, SpreadDriver DEF Next, Others
<1>3. SpreadInv => WorkBalanced
  BY DEF SpreadInv, Balanced, WorkBalanced, At
<1> QED
  BY <1>1, <1>2, <1>3, PTL DEF Spec
=============================================================================
