----------------------------- MODULE PcieProofs -----------------------------
(***************************************************************************)
(* The PCIe driver.  First blocking writes (PcieSha256), for any number of *)
(* threads, requests and pages and with every fault of the engine: the     *)
(* engine never works on memory that was given back, nothing stays         *)
(* allocated, and what a write reports has reached the core in one piece.  *)
(* Then writes with O_NONBLOCK that fit the ring: when poll reports the    *)
(* device ready, every page has reached the core in order.  Then probe,    *)
(* resets and removal of the device (PcieProbe).                           *)
(***************************************************************************)
EXTENDS PcieSha256, PcieProbe, SequenceTheorems, FiniteSetTheorems, TLAPS

Transfer(p) == <<cur[p].req, 1>>

(* p holds the engine's mutex. *)
Critical(p) == pc[p] \in {"init", "queue", "wait", "woken"}

(* p waits for its transfer, or has stopped waiting for it. *)
Waiting(p) == pc[p] \in {"wait", "woken"}

XferType ==
  [state : {"NEW", "SUBMITTED", "COMPLETED", "FAILED"}, idx : 0..(DescMax - 1),
   pages : Seq(Nat), last : BOOLEAN, cb : BOOLEAN]

CurType ==
  [req : Reqs \cup {"none"}, pages : Seq(Nat), k : {1}, done : Seq(Nat)]

Types ==
  /\ pc \in [Procs -> {"idle", "submit", "lock", "init", "queue", "wait",
                        "woken"}]
  /\ cur \in [Procs -> CurType]
  /\ held \in [Reqs -> SUBSET {"pages", "dma", "req"}]
  /\ xfer \in [Xfers -> XferType]
  /\ desc_idx \in 0..(DescMax - 1) /\ next \in Nat

(* What a call has allocated, by how far it is; nothing else is.           *)
Owned ==
  /\ \A p \in Procs : pc[p] # "idle" => cur[p].req \in Reqs
  /\ \A p \in Procs : pc[p] = "submit" => held[cur[p].req] = {"pages"}
  /\ \A p \in Procs : pc[p] = "lock" \/ Critical(p) =>
       held[cur[p].req] = {"pages", "dma", "req"}
  /\ \A p, q \in Procs :
       pc[p] # "idle" /\ pc[q] # "idle" /\ cur[p].req = cur[q].req => p = q
  /\ \A r \in Reqs : held[r] # {} =>
       \E p \in Procs : pc[p] # "idle" /\ cur[p].req = r

Mutex == \A p \in Procs : Critical(p) => desc_lock = p

(* The engine has at most the transfer of the thread that waits for it.    *)
OneQueued ==
  /\ \/ transfer_list = << >>
     \/ \E p \in Procs : Waiting(p) /\ transfer_list = <<Transfer(p)>>
  /\ \A p \in Procs : Waiting(p) =>
       /\ ~xfer[Transfer(p)].cb
       /\ transfer_list # << >> => xfer[Transfer(p)].state = "SUBMITTED"
  /\ \A p \in Procs : pc[p] = "queue" => ~xfer[Transfer(p)].cb

CallInv == Types /\ Owned /\ Mutex /\ OneQueued

EndsWith(s, w) == \E u \in Seq(Nat) : s = u \o w

Contains(s, w) == \E u, v \in Seq(Nat) : s = (u \o w) \o v

HwType == [busy : BOOLEAN, base : Nat, num : Nat, count : Nat,
           stopped : BOOLEAN, err : BOOLEAN]

DataTypes ==
  /\ hw \in HwType /\ ring \in [0..(DescMax - 1) -> Nat]
  /\ taken \in Seq(Nat) /\ acked \subseteq Seq(Nat)

(* The descriptors of p's transfer are in the ring. *)
InRing(p) ==
  LET x == xfer[Transfer(p)]
  IN  /\ Len(x.pages) > 0 /\ x.idx + Len(x.pages) <= DescMax
      /\ \A j \in 1..Len(x.pages) : ring[x.idx + j - 1] = x.pages[j]

(* The hardware is at work on p's transfer, or has stopped on it, and the  *)
(* core has the pages the hardware has counted.                            *)
UnderWay(p) ==
  LET x == xfer[Transfer(p)]
  IN  /\ hw.base = x.idx /\ hw.num = Len(x.pages) /\ desc_dequeued = 0
      /\ hw.count \in 0..hw.num /\ (hw.busy => hw.count # hw.num)
      /\ EndsWith(taken, cur[p].done \o SubSeq(x.pages, 1, hw.count))

(* What the core has of p's write, by how far the call is. *)
CallData(p) ==
  /\ pc[p] \in {"submit", "lock", "init"} => cur[p].pages # << >>
  /\ pc[p] \in {"submit", "lock"} => cur[p].done = << >>
  /\ pc[p] \in {"init", "queue"} => EndsWith(taken, cur[p].done)
  /\ pc[p] = "queue" \/ Waiting(p) => InRing(p)
  /\ Waiting(p) => Contains(taken, cur[p].done)
  /\ Waiting(p) /\ transfer_list # << >> => UnderWay(p)
  /\ Waiting(p) /\ xfer[Transfer(p)].state = "COMPLETED" =>
       EndsWith(taken, cur[p].done \o xfer[Transfer(p)].pages)

DataInv ==
  /\ DataTypes
  /\ hw.busy \/ running => transfer_list # << >>
  /\ \A p \in Procs : CallData(p)
  /\ \A w \in acked : Contains(taken, w)
  /\ ~device_open => \A p \in Procs : pc[p] = "idle"

-----------------------------------------------------------------------------
(* Sequences and records.                                                  *)

LEMMA SingletonSeq ==
  ASSUME NEW t
  PROVE  /\ <<t>> # << >> /\ Head(<<t>>) = t /\ Tail(<<t>>) = << >>
         /\ Append(<< >>, t) = <<t>> /\ DOMAIN <<t>> = {1} /\ <<t>>[1] = t
<1>1. << >> \in Seq({t}) /\ <<t>> \in Seq({t})
  OBVIOUS
<1> QED
  BY <1>1

LEMMA SubSeqNat ==
  ASSUME NEW s \in Seq(Nat), NEW m \in Nat \ {0}, NEW n \in Nat, n <= Len(s)
  PROVE  SubSeq(s, m, n) \in Seq(Nat)
  BY SubSeqProperties

(* A chain has at least one page if there is one, and never more than are  *)
(* left of the request or of the ring.                                     *)
LEMMA ChainFits ==
  ASSUME NEW pages \in Seq(Nat), desc_idx \in 0..(DescMax - 1)
  PROVE  /\ ChainLength(pages) \in 0..Len(pages)
         /\ desc_idx + ChainLength(pages) <= DescMax
         /\ pages # << >> => ChainLength(pages) > 0
<1>1. Len(pages) \in Nat /\ DescMax \in Nat \ {0}
  BY EngineAssumption
<1>2. pages # << >> => Len(pages) > 0
  BY EmptySeq
<1> QED
  BY <1>1, <1>2 DEF ChainLength

LEMMA StateSet ==
  ASSUME NEW x \in XferType, NEW s \in {"NEW", "SUBMITTED", "COMPLETED", "FAILED"}
  PROVE  /\ [x EXCEPT !.state = s] \in XferType
         /\ [x EXCEPT !.state = s].state = s
         /\ [x EXCEPT !.state = s].cb = x.cb
         /\ [x EXCEPT !.state = s].pages = x.pages
         /\ [x EXCEPT !.state = s].idx = x.idx
  BY DEF XferType

LEMMA CurSet ==
  ASSUME NEW c \in CurType, NEW pages \in Seq(Nat), NEW done \in Seq(Nat)
  PROVE  [c EXCEPT !.pages = pages, !.done = done] \in CurType
  BY DEF CurType

-----------------------------------------------------------------------------
(* Requests and the mutex.                                                 *)

LEMMA CallInit == ASSUME Init PROVE CallInv
<1>1. << >> \in Seq(Nat) /\ DescMax \in Nat \ {0}
  BY EngineAssumption
<1>2. NoXfer \in XferType
  BY <1>1 DEF NoXfer, XferType
<1>3. Types
  BY <1>1, <1>2 DEF Init, EngineInit, Types, CurType, Idle
<1>4. Owned /\ Mutex /\ OneQueued
  BY DEF Init, EngineInit, Owned, Mutex, OneQueued, Critical, Waiting
<1> QED
  BY <1>3, <1>4 DEF CallInv

(* A blocking call that goes from place to place with its request. *)
LEMMA CallMoves ==
  ASSUME Types, Owned, Mutex, NEW p \in Procs, pc[p] # "idle",
         NEW l \in {"lock", "init", "queue", "wait", "woken"},
         pc' = [pc EXCEPT ![p] = l], UNCHANGED held,
         \A q \in Procs : cur'[q].req = cur[q].req,
         held[cur[p].req] = {"pages", "dma", "req"},
         \A q \in Procs : desc_lock = q => desc_lock' = q,
         l # "lock" => desc_lock' = p
  PROVE  Owned' /\ Mutex'
<1>1. /\ pc'[p] = l /\ \A q \in Procs \ {p} : pc'[q] = pc[q]
  BY DEF Types
<1>2. Owned'
  BY <1>1, SMTT(30) DEF Owned, Critical
<1>3. Mutex'
  BY <1>1 DEF Mutex, Critical
<1> QED
  BY <1>2, <1>3

(* The end of a blocking call. *)
LEMMA CallEnds ==
  ASSUME Types, Owned, Mutex, NEW p \in Procs, pc[p] # "idle",
         pc' = [pc EXCEPT ![p] = "idle"], cur' = [cur EXCEPT ![p] = Idle],
         held' = [held EXCEPT ![cur[p].req] = {}],
         Critical(p) \/ desc_lock' = desc_lock
  PROVE  Owned' /\ Mutex'
<1>1. /\ pc'[p] = "idle" /\ \A q \in Procs \ {p} : pc'[q] = pc[q] /\ cur'[q] = cur[q]
  BY DEF Types
<1>2. /\ cur[p].req \in Reqs
      /\ held'[cur[p].req] = {} /\ \A r \in Reqs \ {cur[p].req} : held'[r] = held[r]
  BY DEF Types, Owned
<1>3. \A q \in Procs \ {p} : pc[q] # "idle" => cur[q].req \in Reqs \ {cur[p].req}
  BY DEF Owned
<1>4. Owned'
  <2>1. ASSUME NEW r \in Reqs, held'[r] # {}
        PROVE  \E q \in Procs : pc'[q] # "idle" /\ cur'[q].req = r
    <3>1. r # cur[p].req /\ held[r] # {}
      BY <1>2, <2>1
    <3>2. PICK q \in Procs : pc[q] # "idle" /\ cur[q].req = r
      BY <3>1 DEF Owned
    <3> QED
      BY <1>1, <3>1, <3>2
  <2>2. \A q \in Procs : pc'[q] # "idle" =>
          q # p /\ pc'[q] = pc[q] /\ cur'[q] = cur[q] /\ cur[q].req \in Reqs
          /\ held'[cur[q].req] = held[cur[q].req]
    BY <1>1, <1>2, <1>3
  <2>3. \A q \in Procs : (pc[q] = "lock" \/ Critical(q))' =>
          pc'[q] # "idle" /\ (pc[q] = "lock" \/ Critical(q))
    BY <1>1 DEF Critical
  <2>4. \A q \in Procs : pc'[q] # "idle" => cur'[q].req \in Reqs
    BY <2>2
  <2>5. \A q \in Procs : pc'[q] = "submit" => held'[cur'[q].req] = {"pages"}
    BY <2>2 DEF Owned
  <2>6. \A q \in Procs : (pc[q] = "lock" \/ Critical(q))' =>
          held'[cur'[q].req] = {"pages", "dma", "req"}
    BY <2>2, <2>3 DEF Owned
  <2>7. \A q, w \in Procs :
          pc'[q] # "idle" /\ pc'[w] # "idle" /\ cur'[q].req = cur'[w].req => q = w
    BY <2>2 DEF Owned
  <2> QED
    BY <2>1, <2>4, <2>5, <2>6, <2>7 DEF Owned
<1>5. Mutex'
  BY <1>1 DEF Mutex, Critical
<1> QED
  BY <1>4, <1>5

(* The list of the engine, when only the call of p goes on, and neither    *)
(* begins nor ends to wait.                                                *)
LEMMA QueueKept ==
  ASSUME OneQueued, NEW p \in Procs, UNCHANGED <<transfer_list, xfer>>,
         \A q \in Procs \ {p} : pc'[q] = pc[q] /\ cur'[q].req = cur[q].req,
         Waiting(p)' <=> Waiting(p), pc'[p] # "queue",
         Waiting(p) => cur'[p].req = cur[p].req
  PROVE  OneQueued'
<1>1. \A q \in Procs : /\ Waiting(q) => Transfer(q)' = Transfer(q)
                       /\ Waiting(q)' <=> Waiting(q)
                       /\ pc'[q] = "queue" => pc[q] = "queue"
                                              /\ Transfer(q)' = Transfer(q)
  BY DEF Transfer, Waiting
<1> QED
  BY <1>1 DEF OneQueued

(* Only one thread is past the mutex, and while it does not wait the list  *)
(* is empty.                                                               *)
LEMMA Alone ==
  ASSUME Mutex, OneQueued, NEW p \in Procs, Critical(p)
  PROVE  /\ \A q \in Procs : Critical(q) => q = p
         /\ transfer_list # << >> => Waiting(p) /\ transfer_list = <<Transfer(p)>>
<1>1. \A q \in Procs : Critical(q) => q = p
  BY DEF Mutex
<1>2. \A q \in Procs : Waiting(q) => Critical(q)
  BY DEF Waiting, Critical
<1> QED
  BY <1>1, <1>2 DEF OneQueued

(* The same after a step: nothing is queued, and nobody waits.             *)
LEMMA Emptied ==
  ASSUME transfer_list' = << >>, \A q \in Procs : ~Waiting(q)' /\ pc'[q] # "queue"
  PROVE  OneQueued'
  BY DEF OneQueued

LEMMA XferIn ==
  ASSUME Owned, NEW p \in Procs, pc[p] # "idle"
  PROVE  Transfer(p) \in Xfers
  BY DEF Owned, Transfer, Xfers

LEMMA FreedType ==
  ASSUME xfer \in [Xfers -> XferType], NEW r
  PROVE  Freed(r) \in [Xfers -> XferType]
<1>1. << >> \in Seq(Nat) /\ DescMax \in Nat \ {0}
  BY EngineAssumption
<1>2. NoXfer \in XferType
  BY <1>1 DEF NoXfer, XferType
<1> QED
  BY <1>2 DEF Freed

LEMMA WriteCall ==
  ASSUME ~Nonblock, CallInv, NEW p \in Procs, NEW n \in WritePages, Write(p, n)
  PROVE  CallInv'
<1> DEFINE r == CHOOSE r \in FreeReqs : TRUE
           pages == [i \in 1..n |-> next + i - 1]
<1>1. /\ pc[p] = "idle" /\ held' = [held EXCEPT ![r] = {"pages"} \cup {}]
      /\ cur' = [cur EXCEPT ![p] = [Idle EXCEPT !.req = r, !.pages = pages]]
      /\ next' = next + n /\ pc' = [pc EXCEPT ![p] = "submit"]
      /\ UNCHANGED <<transfer_list, xfer, desc_idx, desc_lock>>
  BY DEF Write, engineVars
<1>2. r \in Reqs /\ held[r] = {}
  <2>1. r \in FreeReqs
    BY DEF Write
  <2> QED
    BY <2>1 DEF FreeReqs
<1>3. next' \in Nat /\ pages \in Seq(Nat)
  <2>1. n \in Nat \ {0} /\ next \in Nat
    BY PcieAssumption DEF CallInv, Types
  <2>2. \A i \in 1..n : next + i - 1 \in Nat
    BY <2>1
  <2>3. next' \in Nat
    BY <1>1, <2>1
  <2>4. pages \in [1..n -> Nat]
    BY <2>2
  <2>5. pages \in Seq(Nat)
    <3> HIDE DEF pages
    <3> QED
      BY <2>1, <2>4
  <2> QED
    BY <2>3, <2>5
<1> HIDE DEF r, pages
<1> DEFINE c == [Idle EXCEPT !.req = r, !.pages = pages]
<1>4. cur' = [cur EXCEPT ![p] = c] /\ c.req = r
  BY <1>1 DEF Idle
<1>5. Types'
  <2>1. c \in CurType
    <3>1. << >> \in Seq(Nat)
      OBVIOUS
    <3> QED
      BY <1>2, <1>3, <3>1 DEF Idle, CurType
  <2> HIDE DEF c
  <2>2. held' \in [Reqs -> SUBSET {"pages", "dma", "req"}]
    BY <1>1, <1>2 DEF CallInv, Types
  <2>3. cur' \in [Procs -> CurType]
    BY <1>4, <2>1 DEF CallInv, Types
  <2>4. pc' \in [Procs -> {"idle", "submit", "lock", "init", "queue", "wait",
                           "woken"}]
    BY <1>1 DEF CallInv, Types
  <2> QED
    BY <1>1, <1>3, <2>2, <2>3, <2>4 DEF CallInv, Types
<1>6. /\ pc'[p] = "submit" /\ cur'[p].req = r /\ held'[r] = {"pages"}
      /\ \A q \in Procs \ {p} : pc'[q] = pc[q] /\ cur'[q] = cur[q]
      /\ \A s \in Reqs \ {r} : held'[s] = held[s]
  BY <1>1, <1>2, <1>4 DEF CallInv, Types
<1>7. \A q \in Procs : pc[q] # "idle" => cur[q].req \in Reqs \ {r}
  <2>1. ASSUME NEW q \in Procs, pc[q] # "idle" PROVE held[cur[q].req] # {}
    <3>1. pc[q] = "submit" \/ pc[q] = "lock" \/ Critical(q)
      BY <2>1 DEF CallInv, Types, Critical
    <3>2. CASE pc[q] = "submit"
      BY <3>2 DEF CallInv, Owned
    <3>3. CASE pc[q] = "lock" \/ Critical(q)
      <4>1. held[cur[q].req] = {"pages", "dma", "req"}
        BY <3>3 DEF CallInv, Owned
      <4> QED
        BY <4>1
    <3> QED
      BY <3>1, <3>2, <3>3
  <2> QED
    BY <1>2, <2>1 DEF CallInv, Owned
<1>8. Owned'
  <2>1. \A q \in Procs : pc'[q] # "idle" => cur'[q].req \in Reqs
    BY <1>2, <1>6, <1>7
  <2>2. \A q \in Procs : pc'[q] = "submit" => held'[cur'[q].req] = {"pages"}
    BY <1>6, <1>7 DEF CallInv, Owned
  <2>3. \A q \in Procs : (pc[q] = "lock" \/ Critical(q))' =>
          held'[cur'[q].req] = {"pages", "dma", "req"}
    BY <1>6, <1>7 DEF CallInv, Owned, Critical
  <2>4. \A q, w \in Procs :
          pc'[q] # "idle" /\ pc'[w] # "idle" /\ cur'[q].req = cur'[w].req => q = w
    BY <1>6, <1>7 DEF CallInv, Owned
  <2>5. ASSUME NEW s \in Reqs, held'[s] # {}
        PROVE  \E q \in Procs : pc'[q] # "idle" /\ cur'[q].req = s
    <3>1. CASE s = r
      BY <1>6, <3>1
    <3>2. CASE s # r
      <4>1. PICK q \in Procs : pc[q] # "idle" /\ cur[q].req = s
        BY <1>6, <2>5, <3>2 DEF CallInv, Owned
      <4> QED
        BY <1>1, <1>6, <4>1
    <3> QED
      BY <3>1, <3>2
  <2> QED
    BY <2>1, <2>2, <2>3, <2>4, <2>5 DEF Owned
<1>9. Mutex'
  BY <1>1, <1>6 DEF CallInv, Mutex, Critical
<1>10. OneQueued'
  <2>1. ~Waiting(p) /\ ~Waiting(p)'
    BY <1>1, <1>6 DEF Waiting
  <2> QED
    BY <1>1, <1>6, <2>1, QueueKept DEF CallInv
<1> QED
  BY <1>5, <1>8, <1>9, <1>10 DEF CallInv

LEMMA SubmitCall ==
  ASSUME ~Nonblock, CallInv, NEW p \in Procs,
         Submit(p) \/ SubmitOffline(p) \/ Lock(p) \/ Wake(p) \/ Interrupt(p)
  PROVE  CallInv'
<1> USE DEF CallInv
<1>1. CASE Submit(p)
  <2>1. /\ pc[p] = "submit" /\ cur[p].req \in Reqs /\ held[cur[p].req] = {"pages"}
        /\ pc' = [pc EXCEPT ![p] = "lock"]
        /\ held' = [held EXCEPT ![cur[p].req] = {"pages", "dma", "req"}]
        /\ UNCHANGED <<cur, transfer_list, xfer, desc_idx, desc_lock, next>>
    BY <1>1 DEF Submit, Owned, Types, engineVars
  <2>2. Types'
    BY <2>1 DEF Types
  <2>3. /\ pc'[p] = "lock" /\ held'[cur[p].req] = {"pages", "dma", "req"}
        /\ \A q \in Procs \ {p} : pc'[q] = pc[q]
        /\ \A s \in Reqs \ {cur[p].req} : held'[s] = held[s]
    BY <2>1 DEF Types
  <2>4. Owned'
    <3>1. \A q \in Procs : pc'[q] # "idle" => cur'[q].req \in Reqs
      BY <2>1, <2>3 DEF Owned
    <3>2. \A q \in Procs : pc'[q] = "submit" => held'[cur'[q].req] = {"pages"}
      BY <2>1, <2>3 DEF Owned
    <3>3. \A q \in Procs : (pc[q] = "lock" \/ Critical(q))' =>
            held'[cur'[q].req] = {"pages", "dma", "req"}
      BY <2>1, <2>3 DEF Owned, Critical
    <3>4. \A q, w \in Procs :
            pc'[q] # "idle" /\ pc'[w] # "idle" /\ cur'[q].req = cur'[w].req
              => q = w
      BY <2>1, <2>3 DEF Owned
    <3>5. \A s \in Reqs : held'[s] # {} =>
            \E q \in Procs : pc'[q] # "idle" /\ cur'[q].req = s
      BY <2>1, <2>3 DEF Owned
    <3> QED
      BY <3>1, <3>2, <3>3, <3>4, <3>5 DEF Owned
  <2>5. Mutex'
    BY <2>1, <2>3 DEF Mutex, Critical
  <2>6. OneQueued'
    <3>1. ~Waiting(p) /\ ~Waiting(p)'
      BY <2>1, <2>3 DEF Waiting
    <3> QED
      BY <2>1, <2>3, <3>1, QueueKept
  <2> QED
    BY <2>2, <2>4, <2>5, <2>6
<1>2. CASE SubmitOffline(p)
  <2>1. /\ pc[p] = "submit" /\ held' = [held EXCEPT ![cur[p].req] = {}]
        /\ pc' = [pc EXCEPT ![p] = "idle"] /\ cur' = [cur EXCEPT ![p] = Idle]
        /\ UNCHANGED <<transfer_list, xfer, desc_idx, desc_lock, next>>
    BY <1>2 DEF SubmitOffline, engineVars
  <2>2. Types'
    <3>1. Idle \in CurType
      BY DEF Idle, CurType
    <3> QED
      BY <2>1, <3>1 DEF Types
  <2>3. Owned' /\ Mutex'
    BY <2>1, CallEnds
  <2>4. OneQueued'
    <3>1. /\ ~Waiting(p) /\ ~Waiting(p)' /\ pc'[p] # "queue"
          /\ \A q \in Procs \ {p} : pc'[q] = pc[q] /\ cur'[q] = cur[q]
      BY <2>1 DEF Waiting, Types
    <3> QED
      BY <2>1, <3>1, QueueKept
  <2> QED
    BY <2>2, <2>3, <2>4
<1>3. CASE Lock(p)
  <2>1. /\ pc[p] = "lock" /\ pc' = [pc EXCEPT ![p] = "init"]
        /\ desc_lock = "none" /\ desc_lock' = p
        /\ UNCHANGED <<cur, held, transfer_list, xfer, desc_idx, next>>
    BY <1>3 DEF Lock, engineVars
  <2>2. Types'
    BY <2>1 DEF Types
  <2>3. Owned' /\ Mutex'
    BY <2>1, CallMoves, PcieAssumption DEF Owned
  <2>4. OneQueued'
    <3>1. /\ ~Waiting(p) /\ ~Waiting(p)' /\ pc'[p] # "queue"
          /\ \A q \in Procs \ {p} : pc'[q] = pc[q]
      BY <2>1 DEF Waiting, Types
    <3> QED
      BY <2>1, <3>1, QueueKept
  <2> QED
    BY <2>2, <2>3, <2>4
<1>4. CASE Wake(p) \/ Interrupt(p)
  <2>1. /\ pc[p] = "wait" /\ pc' = [pc EXCEPT ![p] = "woken"]
        /\ UNCHANGED <<cur, held, transfer_list, xfer, desc_idx, next, desc_lock>>
    BY <1>4 DEF Wake, Interrupt, engineVars
  <2>2. Types'
    BY <2>1 DEF Types
  <2>3. Critical(p)
    BY <2>1 DEF Critical
  <2>4. Owned' /\ Mutex'
    BY <2>1, <2>3, CallMoves DEF Owned, Mutex
  <2>5. OneQueued'
    <3>1. /\ Waiting(p) /\ Waiting(p)' /\ pc'[p] # "queue"
          /\ \A q \in Procs \ {p} : pc'[q] = pc[q]
      BY <2>1 DEF Waiting, Types
    <3> QED
      BY <2>1, <3>1, QueueKept
  <2> QED
    BY <2>2, <2>4, <2>5
<1> QED
  BY <1>1, <1>2, <1>3, <1>4

LEMMA InitCall ==
  ASSUME ~Nonblock, CallInv, NEW p \in Procs, InitTransfer(p)
  PROVE  CallInv'
<1> USE DEF CallInv
<1> DEFINE n == ChainLength(cur[p].pages)
           x == [state |-> "NEW", idx |-> desc_idx, cb |-> Nonblock,
                 pages |-> SubSeq(cur[p].pages, 1, n),
                 last |-> n = Len(cur[p].pages)]
<1>1. /\ pc[p] = "init" /\ pc' = [pc EXCEPT ![p] = "queue"]
      /\ xfer' = [xfer EXCEPT ![<<cur[p].req, cur[p].k>>] = x]
      /\ desc_idx' = (desc_idx + n) % DescMax
      /\ UNCHANGED <<transfer_list, cur, held, desc_lock, next>>
  BY DEF InitTransfer, TransferInit
<1>2. cur[p].k = 1 /\ cur[p].pages \in Seq(Nat) /\ desc_idx \in 0..(DescMax - 1)
  BY DEF Types, CurType
<1>3. n \in 0..Len(cur[p].pages) /\ desc_idx + n <= DescMax
  BY <1>2, ChainFits
<1>4. desc_idx' \in 0..(DescMax - 1)
  BY <1>1, <1>2, <1>3, EngineAssumption
<1>5. x \in XferType /\ ~x.cb
  <2>1. SubSeq(cur[p].pages, 1, n) \in Seq(Nat)
    BY <1>2, <1>3, SubSeqNat, SMTT(30)
  <2> HIDE DEF n
  <2>2. x.cb = FALSE /\ (n = Len(cur[p].pages)) \in BOOLEAN
    BY PcieAssumption
  <2> QED
    BY <1>2, <2>1, <2>2, PcieAssumption DEF XferType
<1> HIDE DEF x, n
<1>6. xfer' = [xfer EXCEPT ![Transfer(p)] = x] /\ Transfer(p) \in Xfers
  BY <1>1, <1>2, XferIn DEF Transfer
<1>7. Types'
  <2>1. xfer' \in [Xfers -> XferType]
    BY <1>5, <1>6 DEF Types
  <2> QED
    BY <1>1, <1>4, <2>1 DEF Types
<1>8. Critical(p)
  BY <1>1 DEF Critical
<1>9. Owned' /\ Mutex'
  BY <1>1, <1>8, CallMoves DEF Owned, Mutex
<1>10. OneQueued'
  <2>1. transfer_list' = << >>
    BY <1>1, <1>8, Alone DEF Waiting
  <2>2. \A q \in Procs : Critical(q)' => q = p
    BY <1>9, <1>1, <1>8 DEF Mutex
  <2>3. pc'[p] = "queue" /\ ~xfer'[Transfer(p)'].cb
    BY <1>1, <1>5, <1>6 DEF Types, Transfer
  <2> QED
    BY <2>1, <2>2, <2>3 DEF OneQueued, Critical, Waiting
<1> QED
  BY <1>7, <1>9, <1>10

LEMMA QueueCall ==
  ASSUME ~Nonblock, CallInv, NEW p \in Procs, QueueTransfer(p)
  PROVE  CallInv'
<1> USE DEF CallInv
<1>1. /\ pc[p] = "queue" /\ pc' = [pc EXCEPT ![p] = "wait"]
      /\ xfer' = [xfer EXCEPT ![<<cur[p].req, cur[p].k>>].state = "SUBMITTED"]
      /\ transfer_list' = Append(transfer_list, <<cur[p].req, cur[p].k>>)
      /\ UNCHANGED <<cur, held, desc_lock, desc_idx, next>>
  BY DEF QueueTransfer, TransferQueue
<1>2. <<cur[p].req, cur[p].k>> = Transfer(p) /\ Transfer(p) \in Xfers
  BY <1>1, XferIn DEF Types, CurType, Transfer
<1>3. Critical(p) /\ ~Waiting(p)
  BY <1>1 DEF Critical, Waiting
<1>4. Types'
  <2>1. [xfer[Transfer(p)] EXCEPT !.state = "SUBMITTED"] \in XferType
    BY <1>2, StateSet DEF Types
  <2>2. xfer' \in [Xfers -> XferType]
    BY <1>1, <1>2, <2>1 DEF Types
  <2> QED
    BY <1>1, <2>2 DEF Types
<1>5. Owned' /\ Mutex'
  BY <1>1, <1>3, CallMoves DEF Owned, Mutex
<1>6. OneQueued'
  <2>1. transfer_list' = <<Transfer(p)>> /\ transfer_list' # << >>
    BY <1>1, <1>2, <1>3, Alone, SingletonSeq
  <2>2. Transfer(p)' = Transfer(p)
    BY <1>1 DEF Transfer
  <2>3. \A q \in Procs : Critical(q)' => q = p
    BY <1>1, <1>3, <1>5 DEF Mutex
  <2>4. /\ xfer'[Transfer(p)].state = "SUBMITTED"
        /\ ~xfer'[Transfer(p)].cb
    <3>1. ~xfer[Transfer(p)].cb
      BY <1>1 DEF OneQueued
    <3> QED
      <4>1. xfer'[Transfer(p)] = [xfer[Transfer(p)] EXCEPT !.state = "SUBMITTED"]
        BY <1>1, <1>2 DEF Types
      <4> QED
        BY <1>2, <3>1, <4>1, StateSet DEF Types
  <2>5. /\ Waiting(p)'
        /\ \A q \in Procs : Waiting(q)' \/ pc'[q] = "queue" => Critical(q)'
    BY <1>1 DEF Types, Waiting, Critical
  <2>6. pc'[p] # "queue"
    BY <1>1 DEF Types
  <2> QED
    BY <2>1, <2>2, <2>3, <2>4, <2>5, <2>6 DEF OneQueued
<1> QED
  BY <1>4, <1>5, <1>6

(* A call that leaves the mutex leaves an empty list behind. *)
LEMMA CallLeaves ==
  ASSUME CallInv, NEW p \in Procs, Critical(p), desc_idx' = desc_idx,
         transfer_list' = << >>, xfer' = Freed(cur[p].req), next' = next,
         pc' = [pc EXCEPT ![p] = "idle"], cur' = [cur EXCEPT ![p] = Idle],
         held' = [held EXCEPT ![cur[p].req] = {}]
  PROVE  CallInv'
<1> USE DEF CallInv
<1>1. Types'
  <2>1. Idle \in CurType
    BY DEF Idle, CurType
  <2>2. xfer' \in [Xfers -> XferType]
    BY FreedType DEF Types
  <2>3. held' \in [Reqs -> SUBSET {"pages", "dma", "req"}]
    BY DEF Types
  <2>4. cur' \in [Procs -> CurType]
    BY <2>1 DEF Types
  <2>5. pc' \in [Procs -> {"idle", "submit", "lock", "init", "queue", "wait",
                           "woken"}]
    BY DEF Types
  <2> QED
    BY <2>2, <2>3, <2>4, <2>5 DEF Types
<1>2. Owned' /\ Mutex'
  <2>1. pc[p] # "idle"
    BY DEF Critical
  <2> QED
    BY <2>1, CallEnds
<1>3. OneQueued'
  <2>1. \A q \in Procs : Critical(q) => q = p
    BY Alone
  <2>2. pc'[p] = "idle" /\ \A q \in Procs \ {p} : pc'[q] = pc[q]
    BY DEF Types
  <2>3. \A q \in Procs : ~Waiting(q)' /\ pc'[q] # "queue"
    BY <2>1, <2>2 DEF Critical, Waiting
  <2> QED
    BY <2>3, Emptied
<1> QED
  BY <1>1, <1>2, <1>3

LEMMA QueueOfflineCall ==
  ASSUME ~Nonblock, CallInv, NEW p \in Procs, QueueOffline(p)
  PROVE  CallInv'
<1>1. /\ pc[p] = "queue" /\ pc' = [pc EXCEPT ![p] = "idle"]
      /\ cur' = [cur EXCEPT ![p] = Idle] /\ xfer' = Freed(cur[p].req)
      /\ held' = [held EXCEPT ![cur[p].req] = {}]
      /\ UNCHANGED <<transfer_list, desc_idx, next>>
  BY DEF QueueOffline
<1>2. Critical(p) /\ ~Waiting(p)
  BY <1>1 DEF Critical, Waiting
<1>3. transfer_list' = << >>
  BY <1>1, <1>2, Alone DEF CallInv
<1> QED
  BY <1>1, <1>2, <1>3, CallLeaves

(* The transfer of a thread that has been woken is over unless it is still *)
(* the one under way.                                                      *)
LEMMA GivesCall ==
  ASSUME ~Nonblock, CallInv, NEW p \in Procs, Gives(p)
  PROVE  CallInv'
<1>1. /\ pc[p] = "woken" /\ pc' = [pc EXCEPT ![p] = "idle"]
      /\ cur' = [cur EXCEPT ![p] = Idle] /\ xfer' = Freed(cur[p].req)
      /\ held' = [held EXCEPT ![cur[p].req] = {}]
      /\ desc_idx' = desc_idx /\ next' = next
      /\ IF xfer[Transfer(p)].state = "SUBMITTED"
         THEN transfer_list' =
                IF transfer_list # << >> /\ Head(transfer_list) = Transfer(p)
                THEN Tail(transfer_list) ELSE transfer_list
         ELSE transfer_list' = transfer_list
  BY DEF Gives, Finish, TransferAbort, Transfer
<1>2. Critical(p) /\ Waiting(p)
  BY <1>1 DEF Critical, Waiting
<1>3. transfer_list = << >> \/ transfer_list = <<Transfer(p)>>
  BY <1>2, Alone DEF CallInv
<1>4. transfer_list' = << >>
  <2>1. CASE transfer_list = << >>
    BY <1>1, <2>1
  <2>2. CASE transfer_list = <<Transfer(p)>>
    <3>1. transfer_list # << >> /\ Head(transfer_list) = Transfer(p)
          /\ Tail(transfer_list) = << >>
      BY <2>2, SingletonSeq
    <3>2. xfer[Transfer(p)].state = "SUBMITTED"
      BY <1>2, <3>1 DEF CallInv, OneQueued
    <3> QED
      BY <1>1, <3>1, <3>2
  <2> QED
    BY <1>3, <2>1, <2>2
<1> QED
  BY <1>1, <1>2, <1>4, CallLeaves

LEMMA CompletesCall ==
  ASSUME ~Nonblock, CallInv, NEW p \in Procs, Completes(p)
  PROVE  CallInv'
<1> DEFINE done == cur[p].done \o xfer[Transfer(p)].pages
           n == Len(xfer[Transfer(p)].pages)
           rest == SubSeq(cur[p].pages, n + 1, Len(cur[p].pages))
<1>1. /\ pc[p] = "woken" /\ xfer[Transfer(p)].state = "COMPLETED"
      /\ \/ /\ pc' = [pc EXCEPT ![p] = "idle"] /\ xfer' = Freed(cur[p].req)
            /\ cur' = [cur EXCEPT ![p] = Idle]
            /\ held' = [held EXCEPT ![cur[p].req] = {}]
         \/ /\ Rest(p) # << >>
            /\ cur' = [cur EXCEPT ![p].pages = Rest(p), ![p].done = done]
            /\ pc' = [pc EXCEPT ![p] = "init"]
            /\ UNCHANGED <<xfer, desc_lock, held>>
      /\ UNCHANGED <<transfer_list, desc_idx, next>>
  BY DEF Completes, Finish, Transfer
<1>2. Critical(p) /\ Waiting(p)
  BY <1>1 DEF Critical, Waiting
<1>3. transfer_list' = << >>
  <2>1. transfer_list = << >> \/ transfer_list = <<Transfer(p)>>
    BY <1>2, Alone DEF CallInv
  <2>2. transfer_list # << >> => xfer[Transfer(p)].state = "SUBMITTED"
    BY <1>2 DEF CallInv, OneQueued
  <2> QED
    BY <1>1, <2>1, <2>2
<1>4. CASE xfer' = Freed(cur[p].req) /\ pc' = [pc EXCEPT ![p] = "idle"]
           /\ cur' = [cur EXCEPT ![p] = Idle]
           /\ held' = [held EXCEPT ![cur[p].req] = {}]
  BY <1>1, <1>2, <1>3, <1>4, CallLeaves
<1>5. CASE /\ cur' = [cur EXCEPT ![p].pages = Rest(p), ![p].done = done]
           /\ pc' = [pc EXCEPT ![p] = "init"]
           /\ UNCHANGED <<xfer, desc_lock, held>>
  <2> USE DEF CallInv
  <2>1. Transfer(p) \in Xfers
    BY <1>1, XferIn
  <2>2. /\ xfer[Transfer(p)].pages \in Seq(Nat) /\ cur[p].pages \in Seq(Nat)
        /\ cur[p].done \in Seq(Nat)
    BY <2>1 DEF Types, CurType, XferType
  <2>3. done \in Seq(Nat)
    BY <2>2
  <2>4. Rest(p) \in Seq(Nat)
    <3>1. Rest(p) = rest
      BY DEF Rest, desc_num, Types, CurType, Transfer
    <3>2. n \in Nat
      BY <2>2
    <3> HIDE DEF n
    <3>3. n + 1 \in Nat \ {0} /\ Len(cur[p].pages) \in Nat
      BY <2>2, <3>2
    <3> QED
      BY <2>2, <3>1, <3>3, SubSeqNat, SMTT(30)
  <2> HIDE DEF done
  <2>5. Types'
    <3>1. [cur[p] EXCEPT !.pages = Rest(p), !.done = done] \in
            CurType
      BY <2>3, <2>4, CurSet DEF Types
    <3>2. cur' \in [Procs -> CurType]
      BY <1>5, <3>1 DEF Types
    <3> QED
      BY <1>1, <1>5, <3>2 DEF Types
  <2>6. \A q \in Procs : cur'[q].req = cur[q].req
    BY <1>5 DEF Types
  <2>7. Owned' /\ Mutex'
    BY <1>2, <1>5, <2>6, CallMoves DEF Owned, Mutex, Critical
  <2>8. OneQueued'
    <3>1. \A q \in Procs : Critical(q) => q = p
      BY <1>2, Alone
    <3>2. pc'[p] = "init" /\ \A q \in Procs \ {p} : pc'[q] = pc[q]
      BY <1>5 DEF Types
    <3>3. \A q \in Procs : ~Waiting(q)' /\ pc'[q] # "queue"
      BY <3>1, <3>2 DEF Critical, Waiting
    <3> QED
      BY <1>3, <3>3, Emptied
  <2> QED
    BY <2>5, <2>7, <2>8
<1> QED
  BY <1>1, <1>4, <1>5

(* A step of the hardware or of the interrupt leaves the calls alone. *)
LEMMA CallKept ==
  ASSUME CallInv,
         UNCHANGED <<transfer_list, xfer, desc_idx, pc, cur, held, desc_lock>>,
         next' = next \/ next' = 1
  PROVE  CallInv'
<1>1. Types'
  BY DEF CallInv, Types
<1>2. Owned' /\ Mutex'
  BY DEF CallInv, Owned, Mutex, Critical
<1>3. OneQueued'
  BY DEF CallInv, OneQueued, Waiting, Transfer
<1> QED
  BY <1>1, <1>2, <1>3 DEF CallInv

(* The only transfer of the list ends: its thread is past the mutex, so    *)
(* there is no callback to run, and nothing is left to start.              *)
LEMMA ServiceEnds ==
  ASSUME CallInv, NEW p \in Procs, Waiting(p), transfer_list = <<Transfer(p)>>,
         ServiceWork, Finishes
  PROVE  /\ transfer_list' = << >> /\ Tail(transfer_list) = << >>
         /\ Transfer(p) \in Xfers /\ Head(transfer_list) = Transfer(p)
         /\ xfer' = [xfer EXCEPT ![Transfer(p)].state = Outcome]
         /\ Outcome \in {"COMPLETED", "FAILED"}
         /\ UNCHANGED <<pc, cur, held, desc_idx, desc_lock, next, ring>>
<1>1. Head(transfer_list) = Transfer(p) /\ Tail(transfer_list) = << >>
  BY SingletonSeq
<1>2. ~xfer[Transfer(p)].cb
  BY DEF CallInv, OneQueued
<1>3. Transfer(p) \in Xfers
  BY XferIn DEF CallInv, Waiting
<1>4. /\ transfer_list' = Tail(transfer_list) /\ Completion
      /\ UNCHANGED <<cur, desc_idx, desc_lock, next>>
  BY DEF ServiceWork, EngineService
<1>5. xfer' = Ended /\ UNCHANGED <<pc, held, ring>>
  BY <1>1, <1>2, <1>4 DEF Completion
<1> QED
  BY <1>1, <1>3, <1>4, <1>5 DEF Ended, Outcome

LEMMA ServiceCall ==
  ASSUME CallInv, ServiceWork
  PROVE  CallInv'
<1>1. CASE ~Finishes
  <2>1. UNCHANGED <<transfer_list, xfer, desc_idx, pc, cur, held, desc_lock, next>>
    BY <1>1 DEF ServiceWork, EngineService
  <2> QED
    BY <2>1, CallKept
<1>2. CASE Finishes
  <2>1. PICK p \in Procs : Waiting(p) /\ transfer_list = <<Transfer(p)>>
    BY <1>2 DEF Finishes, CallInv, OneQueued
  <2>2. /\ transfer_list' = << >> /\ Transfer(p) \in Xfers
        /\ xfer' = [xfer EXCEPT ![Transfer(p)].state = Outcome]
        /\ Outcome \in {"COMPLETED", "FAILED"}
        /\ UNCHANGED <<pc, cur, held, desc_idx, desc_lock, next>>
    BY <1>2, <2>1, ServiceEnds
  <2>3. [xfer[Transfer(p)] EXCEPT !.state = Outcome] \in XferType
    BY <2>2, StateSet DEF CallInv, Types
  <2>4. /\ \A t \in Xfers : xfer'[t] \in XferType /\ xfer'[t].cb = xfer[t].cb
        /\ xfer' \in [Xfers -> XferType]
    BY <2>2, <2>3, StateSet DEF CallInv, Types
  <2>5. Types'
    BY <2>2, <2>4 DEF CallInv, Types
  <2>6. Owned' /\ Mutex'
    BY <2>2 DEF CallInv, Owned, Mutex, Critical
  <2>7. OneQueued'
    <3>1. \A q \in Procs : pc[q] # "idle" => Transfer(q) \in Xfers
      BY XferIn DEF CallInv
    <3>2. \A q \in Procs : /\ Waiting(q) => pc[q] # "idle"
                           /\ Transfer(q)' = Transfer(q) /\ (Waiting(q)' <=> Waiting(q))
      BY <2>2 DEF Transfer, Waiting
    <3> QED
      BY <2>2, <2>4, <3>1, <3>2 DEF CallInv, OneQueued
  <2> QED
    BY <2>5, <2>6, <2>7 DEF CallInv
<1> QED
  BY <1>1, <1>2

LEMMA CallNext ==
  ASSUME ~Nonblock, CallInv, [Next]_vars
  PROVE  CallInv'
<1>1. CASE Open \/ Close \/ UNCHANGED vars
  <2>1. /\ UNCHANGED <<transfer_list, xfer, desc_idx, pc, cur, held, desc_lock>>
        /\ next' = next \/ next' = 1
    BY <1>1 DEF Open, Close, vars, engineVars, driverVars
  <2> QED
    BY <2>1, CallKept
<1>2. CASE \E p \in Procs, n \in WritePages : Write(p, n)
  BY <1>2, WriteCall
<1>3. ASSUME NEW p \in Procs, Poll(p) \/ Interrupt(p) \/ Continue(p)
      PROVE  CallInv'
  <2>1. ~Poll(p)
    BY DEF Poll
  <2>2. ~CountSubmit(p) /\ ~PollCheck(p)
    BY DEF CallInv, Types, CountSubmit, PollCheck
  <2> QED
    BY <1>3, <2>1, <2>2, SubmitCall, InitCall, QueueCall, QueueOfflineCall,
       GivesCall, CompletesCall DEF Continue
<1>4. CASE Engine
  <2>1. CASE \/ HwDescriptor /\ UNCHANGED driverVars
             \/ HwError /\ UNCHANGED driverVars
             \/ ChannelIrq /\ UNCHANGED driverVars
    BY <2>1, CallKept DEF HwDescriptor, HwError, ChannelIrq, driverVars
  <2> QED
    BY <1>4, <2>1, ServiceCall DEF Engine
<1>5. CASE Offline /\ UNCHANGED driverVars
  BY <1>5, CallKept DEF Offline, driverVars
<1> QED
  BY <1>1, <1>2, <1>3, <1>4, <1>5 DEF Next

(* With blocking writes the engine never works on memory that was given    *)
(* back: the list holds at most the transfer of the thread inside          *)
(* xdma_xfer_submit, which frees its request only after transfer_abort or  *)
(* the end of the transfer took it off the list, whatever faults, signals  *)
(* and timeouts there are.                                                 *)
THEOREM BlockingListIsLive ==
  ASSUME ~Nonblock PROVE Spec => []ListIsLive
<1>1. CallInv => ListIsLive
  <2> SUFFICES ASSUME CallInv, NEW i \in DOMAIN transfer_list
               PROVE  "req" \in held[transfer_list[i][1]]
    BY DEF ListIsLive
  <2>1. PICK p \in Procs : Waiting(p) /\ transfer_list = <<Transfer(p)>>
    <3>1. transfer_list # << >>
      OBVIOUS
    <3> QED
      BY <3>1 DEF CallInv, OneQueued
  <2>2. transfer_list[i][1] = cur[p].req
    <3>1. i = 1 /\ transfer_list[1] = Transfer(p)
      BY <2>1, SingletonSeq
    <3> QED
      BY <3>1 DEF Transfer
  <2>3. held[cur[p].req] = {"pages", "dma", "req"}
    BY <2>1 DEF CallInv, Owned, Waiting, Critical
  <2> QED
    BY <2>2, <2>3
<1> QED
  BY <1>1, CallInit, CallNext, PTL DEF Spec

(* Every way out of a blocking write releases what the call allocated: the *)
(* pages, their mapping and the request.                                   *)
THEOREM BlockingNoLeak ==
  ASSUME ~Nonblock PROVE Spec => []NoLeak
<1>1. CallInv => NoLeak
  BY DEF CallInv, Owned, NoLeak
<1> QED
  BY <1>1, CallInit, CallNext, PTL DEF Spec

-----------------------------------------------------------------------------
(* What the core has received.                                             *)

LEMMA EmptyAtEnd ==
  ASSUME NEW s \in Seq(Nat) PROVE EndsWith(s, << >>)
<1>1. s = s \o << >>
  BY ConcatEmptySeq
<1> QED
  BY <1>1 DEF EndsWith

LEMMA EndIsInside ==
  ASSUME NEW s \in Seq(Nat), NEW w \in Seq(Nat), EndsWith(s, w)
  PROVE  Contains(s, w)
<1>1. PICK u \in Seq(Nat) : s = u \o w
  BY DEF EndsWith
<1>2. s = (u \o w) \o << >> /\ << >> \in Seq(Nat)
  BY <1>1, ConcatEmptySeq
<1> QED
  BY <1>2 DEF Contains

LEMMA Assoc ==
  ASSUME NEW s \in Seq(Nat), NEW t \in Seq(Nat), NEW u \in Seq(Nat)
  PROVE  (s \o t) \o u = s \o (t \o u)
  BY ConcatAssociative, SMTT(30)

LEMMA EndsWithMore ==
  ASSUME NEW s \in Seq(Nat), NEW d \in Seq(Nat), NEW w \in Seq(Nat),
         NEW e \in Nat, EndsWith(s, d \o w)
  PROVE  EndsWith(Append(s, e), d \o (w \o <<e>>))
<1>1. PICK u \in Seq(Nat) : s = u \o (d \o w)
  BY DEF EndsWith
<1>2. <<e>> \in Seq(Nat) /\ d \o w \in Seq(Nat)
  BY ConcatProperties
<1>3. Append(s, e) = (u \o (d \o w)) \o <<e>>
  BY <1>1, AppendIsConcat
<1>4. (u \o (d \o w)) \o <<e>> = u \o ((d \o w) \o <<e>>)
  BY <1>1, <1>2, Assoc, ZenonT(60)
<1>5. (d \o w) \o <<e>> = d \o (w \o <<e>>)
  BY <1>2, Assoc, ZenonT(60)
<1> QED
  BY <1>3, <1>4, <1>5 DEF EndsWith

LEMMA ContainsMore ==
  ASSUME NEW s \in Seq(Nat), NEW w \in Seq(Nat), NEW e \in Nat, Contains(s, w)
  PROVE  Contains(Append(s, e), w)
<1>1. PICK u, v \in Seq(Nat) : s = (u \o w) \o v
  BY DEF Contains
<1>2. <<e>> \in Seq(Nat) /\ u \o w \in Seq(Nat) /\ v \o <<e>> \in Seq(Nat)
  BY ConcatProperties
<1>3. Append(s, e) = ((u \o w) \o v) \o <<e>>
  BY <1>1, AppendIsConcat
<1>4. ((u \o w) \o v) \o <<e>> = (u \o w) \o (v \o <<e>>)
  BY <1>1, <1>2, Assoc, SMTT(30)
<1> QED
  BY <1>2, <1>3, <1>4 DEF Contains

LEMMA ContainsIsSubSeq ==
  ASSUME NEW s \in Seq(Nat), NEW w \in Seq(Nat), Contains(s, w)
  PROVE  \E i \in 1..(Len(s) - Len(w) + 1) : SubSeq(s, i, i + Len(w) - 1) = w
<1>1. PICK u, v \in Seq(Nat) : s = (u \o w) \o v
  BY DEF Contains
<1> DEFINE i == Len(u) + 1
<1>2. /\ Len(u) \in Nat /\ Len(v) \in Nat /\ Len(w) \in Nat
      /\ u \o w \in Seq(Nat) /\ Len(u \o w) = Len(u) + Len(w)
      /\ Len(s) = Len(u) + Len(w) + Len(v)
  BY <1>1, ConcatProperties
<1>3. i \in 1..(Len(s) - Len(w) + 1)
  BY <1>2
<1>4. \A j \in 1..Len(w) : s[i + j - 1] = w[j]
  <2> SUFFICES ASSUME NEW j \in 1..Len(w) PROVE s[i + j - 1] = w[j]
    OBVIOUS
  <2>1. /\ Len(u) + j \in 1..(Len(u) + Len(w)) /\ i + j - 1 = Len(u) + j
        /\ Len(u) + j \in 1..(Len(u \o w) + Len(v))
        /\ Len(u) + j <= Len(u \o w)
        /\ ~(Len(u) + j <= Len(u)) /\ Len(u) + j - Len(u) = j
    BY <1>2
  <2>2. s[Len(u) + j] = (u \o w)[Len(u) + j]
    BY <1>1, <1>2, <2>1, ConcatProperties
  <2>3. (u \o w)[Len(u) + j] = w[j]
    <3>1. \A k \in 1..(Len(u) + Len(w)) :
            (u \o w)[k] = IF k <= Len(u) THEN u[k] ELSE w[k - Len(u)]
      BY ConcatProperties
    <3> QED
      BY <2>1, <3>1
  <2> QED
    BY <2>1, <2>2, <2>3
<1> DEFINE b == SubSeq(s, i, i + Len(w) - 1)
<1>5. \A k \in i..(i + Len(w) - 1) : s[k] \in Nat
  BY <1>2, SMTT(30)
<1>6. /\ b \in Seq(Nat) /\ Len(b) = Len(w)
      /\ \A j \in 1..Len(w) : b[j] = s[i + j - 1]
  <2>1. i \in Int /\ i + Len(w) - 1 \in Int
    BY <1>2
  <2>2. /\ b \in Seq(Nat)
        /\ Len(b) = IF i <= i + Len(w) - 1 THEN (i + Len(w) - 1) - i + 1 ELSE 0
        /\ \A j \in 1..((i + Len(w) - 1) - i + 1) : b[j] = s[i + j - 1]
    BY <1>5, <2>1, SubSeqProperties
  <2> HIDE DEF b
  <2>3. (i + Len(w) - 1) - i + 1 = Len(w)
    BY <1>2
  <2> QED
    BY <1>2, <2>2, <2>3
<1>7. b = w
  <2> HIDE DEF b, i
  <2> QED
    BY <1>4, <1>6, SeqEqual
<1> QED
  BY <1>3, <1>7

LEMMA HwSteps ==
  ASSUME NEW h \in HwType, NEW t \in Xfers, xfer \in [Xfers -> XferType]
  PROVE  /\ HwHalt(h) \in HwType /\ HwClear(h) \in HwType /\ HwRun(h, t) \in HwType
         /\ HwHalt(h).busy = FALSE /\ HwClear(h).busy = h.busy
         /\ HwRun(h, t).base = xfer[t].idx /\ HwRun(h, t).num = desc_num(t)
         /\ HwRun(h, t).count = 0
         /\ \A g \in {HwHalt(h), HwClear(h)} :
              g.base = h.base /\ g.num = h.num /\ g.count = h.count
<1>1. xfer[t] \in XferType
  OBVIOUS
<1>2. xfer[t].idx \in Nat /\ desc_num(t) \in Nat
  BY <1>1, EngineAssumption DEF XferType, desc_num
<1> QED
  BY <1>2 DEF HwType, HwHalt, HwClear, HwRun

LEMMA DataInit == ASSUME Init PROVE DataInv
<1>1. << >> \in Seq(Nat) /\ DescMax \in Nat \ {0}
  BY EngineAssumption
<1>2. DataTypes
  BY <1>1 DEF Init, EngineInit, DataTypes, HwType
<1>3. hw.busy = FALSE /\ running = FALSE
  BY DEF Init, EngineInit
<1>4. \A p \in Procs : pc[p] = "idle" /\ CallData(p)
  BY DEF Init, CallData, Waiting
<1>5. acked = {}
  BY DEF Init
<1> QED
  BY <1>2, <1>3, <1>4, <1>5 DEF DataInv

(* What holds of the call of q does not depend on the engine before q has  *)
(* the mutex, and depends on nothing else afterwards.                      *)
LEMMA OtherCall ==
  ASSUME NEW q \in Procs, CallData(q), pc'[q] = pc[q], cur'[q] = cur[q],
         \/ ~Critical(q)
         \/ UNCHANGED <<transfer_list, xfer, ring, hw, desc_dequeued, taken>>
  PROVE  CallData(q)'
<1>1. CASE ~Critical(q)
  BY <1>1 DEF CallData, Critical, Waiting
<1>2. CASE UNCHANGED <<transfer_list, xfer, ring, hw, desc_dequeued, taken>>
  BY <1>2 DEF CallData, Waiting, InRing, UnderWay, Transfer, EndsWith, Contains
<1> QED
  BY <1>1, <1>2

(* A step of p's call that leaves the engine alone. *)
LEMMA CallStep ==
  ASSUME DataInv, NEW p \in Procs, CallData(p)', device_open \/ pc'[p] = "idle",
         UNCHANGED <<engineVars, device_open, acked>>,
         \A q \in Procs \ {p} : pc'[q] = pc[q] /\ cur'[q] = cur[q]
  PROVE  DataInv'
<1>1. UNCHANGED <<transfer_list, xfer, ring, hw, desc_dequeued, taken, running>>
  BY DEF engineVars
<1>2. \A q \in Procs : CallData(q)'
  BY <1>1, OtherCall DEF DataInv
<1>3. DataTypes'
  BY <1>1 DEF DataInv, DataTypes
<1>4. (hw.busy \/ running => transfer_list # << >>)'
  BY <1>1 DEF DataInv
<1>5. (\A w \in acked : Contains(taken, w))'
  BY <1>1 DEF DataInv, Contains
<1>6. (~device_open => \A q \in Procs : pc[q] = "idle")'
  BY DEF DataInv
<1> QED
  BY <1>2, <1>3, <1>4, <1>5, <1>6 DEF DataInv

(* A step of the engine, or of the thread p that has the mutex. *)
LEMMA EngineStep ==
  ASSUME CallInv, DataInv, NEW p \in Procs, Critical(p), CallData(p)', DataTypes',
         device_open' = device_open,
         (hw.busy \/ running => transfer_list # << >>)',
         (\A w \in acked : Contains(taken, w))',
         \A q \in Procs \ {p} : pc'[q] = pc[q] /\ cur'[q] = cur[q]
  PROVE  DataInv'
<1>1. \A q \in Procs \ {p} : ~Critical(q)
  BY Alone DEF CallInv
<1>2. \A q \in Procs : CallData(q)'
  BY <1>1, OtherCall DEF DataInv
<1>3. device_open
  BY DEF DataInv, Critical
<1> QED
  BY <1>2, <1>3 DEF DataInv

(* The hardware stops, or its status is read: it has not moved. *)
LEMMA HwKept ==
  ASSUME DataInv, hw' \in HwType, hw'.base = hw.base, hw'.num = hw.num,
         hw'.count = hw.count, hw'.busy => hw.busy, running' => running,
         UNCHANGED <<transfer_list, xfer, ring, desc_dequeued, taken, pc, cur,
                     acked, device_open>>
  PROVE  DataInv'
<1>1. DataTypes'
  BY DEF DataInv, DataTypes
<1>2. (hw.busy \/ running => transfer_list # << >>)'
  BY DEF DataInv
<1>3. ASSUME NEW q \in Procs PROVE CallData(q)'
  <2>1. /\ CallData(q) /\ Transfer(q)' = Transfer(q) /\ (Waiting(q)' <=> Waiting(q))
    BY DEF DataInv, Transfer, Waiting
  <2>2. InRing(q)' <=> InRing(q)
    BY <2>1 DEF InRing
  <2>3. UnderWay(q) => UnderWay(q)'
    BY <2>1 DEF UnderWay, EndsWith
  <2> QED
    BY <2>1, <2>2, <2>3 DEF CallData, EndsWith, Contains
<1>4. (\A w \in acked : Contains(taken, w))'
  BY DEF DataInv, Contains
<1> QED
  BY <1>1, <1>2, <1>3, <1>4 DEF DataInv

LEMMA WriteData ==
  ASSUME DataInv, CallInv, NEW p \in Procs, NEW n \in WritePages, Write(p, n)
  PROVE  DataInv'
<1> DEFINE r == CHOOSE r \in FreeReqs : TRUE
           pages == [i \in 1..n |-> next + i - 1]
           c == [Idle EXCEPT !.req = r, !.pages = pages]
<1>1. /\ cur' = [cur EXCEPT ![p] = c] /\ pc' = [pc EXCEPT ![p] = "submit"]
      /\ device_open /\ UNCHANGED <<engineVars, device_open, acked>>
  BY DEF Write
<1>2. pages # << >>
  <2>1. n \in Nat \ {0}
    BY PcieAssumption
  <2>2. 1 \in DOMAIN pages
    BY <2>1
  <2> QED
    BY <2>2
<1> HIDE DEF r, pages
<1>3. c.pages # << >> /\ c.done = << >>
  BY <1>2 DEF Idle
<1> HIDE DEF c
<1>4. /\ pc'[p] = "submit" /\ cur'[p] = c
      /\ \A q \in Procs \ {p} : pc'[q] = pc[q] /\ cur'[q] = cur[q]
  BY <1>1 DEF CallInv, Types
<1>5. CallData(p)'
  BY <1>3, <1>4 DEF CallData, Waiting
<1> QED
  BY <1>1, <1>4, <1>5, CallStep

LEMMA SubmitData ==
  ASSUME ~Nonblock, DataInv, CallInv, NEW p \in Procs,
         Submit(p) \/ SubmitOffline(p) \/ Lock(p) \/ Wake(p) \/ Interrupt(p)
  PROVE  DataInv'
<1>1. UNCHANGED <<engineVars, device_open, acked>>
  BY DEF Submit, SubmitOffline, Lock, Wake, Interrupt
<1>2. \A q \in Procs \ {p} : pc'[q] = pc[q] /\ cur'[q] = cur[q]
  BY DEF Submit, SubmitOffline, Lock, Wake, Interrupt, CallInv, Types
<1>3. pc[p] # "idle" /\ device_open
  BY DEF Submit, SubmitOffline, Lock, Wake, Interrupt, DataInv
<1>4. CallData(p)
  BY DEF DataInv
<1>5. UNCHANGED <<transfer_list, xfer, ring, hw, desc_dequeued, taken>>
  BY <1>1 DEF engineVars
<1>6. CallData(p)'
  <2>1. CASE Submit(p)
    <3>1. pc[p] = "submit" /\ pc'[p] = "lock" /\ cur'[p] = cur[p]
      BY <2>1 DEF Submit, CallInv, Types
    <3> QED
      BY <1>4, <3>1 DEF CallData, Waiting
  <2>2. CASE SubmitOffline(p)
    <3>1. pc'[p] = "idle"
      BY <2>2 DEF SubmitOffline, CallInv, Types
    <3> QED
      BY <3>1 DEF CallData, Waiting
  <2>3. CASE Lock(p)
    <3>1. pc[p] = "lock" /\ pc'[p] = "init" /\ cur'[p] = cur[p]
      BY <2>3 DEF Lock, CallInv, Types
    <3>2. EndsWith(taken, cur[p].done)
      BY <1>4, <3>1, EmptyAtEnd DEF CallData, DataInv, DataTypes
    <3>3. EndsWith(taken', cur'[p].done)
      BY <1>5, <3>1, <3>2 DEF EndsWith
    <3> QED
      BY <1>4, <3>1, <3>3 DEF CallData, Waiting
  <2>4. CASE Wake(p) \/ Interrupt(p)
    <3>1. pc[p] = "wait" /\ pc'[p] = "woken" /\ cur'[p] = cur[p]
      BY <2>4 DEF Wake, Interrupt, CallInv, Types
    <3>2. Waiting(p) /\ Waiting(p)' /\ Transfer(p)' = Transfer(p)
      BY <3>1 DEF Waiting, Transfer
    <3>3. InRing(p)' <=> InRing(p)
      BY <1>5, <3>2 DEF InRing
    <3>4. UnderWay(p)' <=> UnderWay(p)
      BY <1>5, <3>1, <3>2 DEF UnderWay, EndsWith
    <3> QED
      BY <1>4, <1>5, <3>1, <3>2, <3>3, <3>4 DEF CallData, EndsWith, Contains
  <2> QED
    BY <2>1, <2>2, <2>3, <2>4
<1> QED
  BY <1>1, <1>2, <1>3, <1>6, CallStep

LEMMA InitData ==
  ASSUME DataInv, CallInv, NEW p \in Procs, InitTransfer(p)
  PROVE  DataInv'
<1> DEFINE pages == cur[p].pages
           n == ChainLength(pages)
           b == SubSeq(pages, 1, n)
           x == [state |-> "NEW", idx |-> desc_idx, cb |-> Nonblock,
                 pages |-> b, last |-> n = Len(pages)]
<1>1. /\ pc[p] = "init" /\ pc' = [pc EXCEPT ![p] = "queue"]
      /\ xfer' = [xfer EXCEPT ![<<cur[p].req, cur[p].k>>] = x]
      /\ ring' = [i \in DOMAIN ring |->
                    IF i \in desc_idx..(desc_idx + n - 1)
                    THEN pages[i - desc_idx + 1] ELSE ring[i]]
      /\ UNCHANGED <<transfer_list, running, hw, desc_dequeued, taken, device_open,
                     cur, acked>>
  BY DEF InitTransfer, TransferInit
<1>2. cur[p].k = 1 /\ pages \in Seq(Nat) /\ desc_idx \in 0..(DescMax - 1)
  BY DEF CallInv, Types, CurType
<1>3. CallData(p) /\ pages # << >>
  BY <1>1 DEF DataInv, CallData
<1>4. n \in 1..Len(pages) /\ desc_idx + n <= DescMax
  BY <1>2, <1>3, ChainFits
<1>5. DescMax \in Nat \ {0} /\ desc_idx \in Nat /\ n \in Nat /\ Len(pages) \in Nat
  BY <1>2, <1>4, EngineAssumption
<1> HIDE DEF n, pages
<1>6. b \in Seq(Nat) /\ Len(b) = n /\ \A j \in 1..n : b[j] = pages[j]
  <2>1. \A j \in 1..n : pages[j] \in Nat
    BY <1>2, <1>4, <1>5
  <2>2. /\ b \in Seq(Nat) /\ Len(b) = IF 1 <= n THEN n - 1 + 1 ELSE 0
        /\ \A j \in 1..(n - 1 + 1) : b[j] = pages[1 + j - 1]
    BY <1>5, <2>1, SubSeqProperties
  <2> HIDE DEF b
  <2>3. n - 1 + 1 = n /\ 1 <= n /\ \A j \in 1..n : 1 + j - 1 = j
    BY <1>4, <1>5
  <2> QED
    BY <2>2, <2>3
<1> HIDE DEF b
<1>7. Transfer(p) \in Xfers /\ Transfer(p)' = Transfer(p)
      /\ <<cur[p].req, cur[p].k>> = Transfer(p)
  BY <1>1, <1>2, XferIn DEF Transfer, CallInv
<1>8. xfer'[Transfer(p)].idx = desc_idx /\ xfer'[Transfer(p)].pages = b
  BY <1>1, <1>7 DEF CallInv, Types
<1>9. ring \in [0..(DescMax - 1) -> Nat]
  BY DEF DataInv, DataTypes
<1>10. \A j \in 1..n : ring'[desc_idx + j - 1] = b[j]
  <2> SUFFICES ASSUME NEW j \in 1..n PROVE ring'[desc_idx + j - 1] = b[j]
    OBVIOUS
  <2>1. /\ desc_idx + j - 1 \in 0..(DescMax - 1)
        /\ desc_idx + j - 1 \in desc_idx..(desc_idx + n - 1)
        /\ (desc_idx + j - 1) - desc_idx + 1 = j
    BY <1>4, <1>5
  <2> QED
    BY <1>1, <1>6, <1>9, <2>1
<1>11. DataTypes'
  <2>1. \A i \in desc_idx..(desc_idx + n - 1) : pages[i - desc_idx + 1] \in Nat
    <3> SUFFICES ASSUME NEW i \in desc_idx..(desc_idx + n - 1)
                 PROVE  pages[i - desc_idx + 1] \in Nat
      OBVIOUS
    <3>1. i - desc_idx + 1 \in 1..Len(pages)
      BY <1>4, <1>5
    <3> QED
      BY <1>2, <3>1
  <2>2. ring' \in [0..(DescMax - 1) -> Nat]
    BY <1>1, <1>9, <2>1
  <2> QED
    BY <1>1, <2>2 DEF DataInv, DataTypes
<1>12. InRing(p)'
  BY <1>4, <1>5, <1>6, <1>7, <1>8, <1>10 DEF InRing
<1>13. pc'[p] = "queue" /\ \A q \in Procs \ {p} : pc'[q] = pc[q]
  BY <1>1 DEF CallInv, Types
<1>14. CallData(p)'
  <2>1. EndsWith(taken, cur[p].done)
    BY <1>1, <1>3 DEF CallData
  <2>2. EndsWith(taken, cur[p].done)'
    BY <1>1, <2>1 DEF EndsWith
  <2> QED
    BY <1>12, <1>13, <2>2 DEF CallData, Waiting
<1>15. Critical(p)
  BY <1>1 DEF Critical
<1>16. /\ (hw.busy \/ running => transfer_list # << >>)'
       /\ (\A w \in acked : Contains(taken, w))'
  BY <1>1 DEF DataInv, Contains
<1> QED
  BY <1>1, <1>11, <1>13, <1>14, <1>15, <1>16, EngineStep

LEMMA QueueData ==
  ASSUME ~Nonblock, DataInv, CallInv, NEW p \in Procs, QueueTransfer(p)
  PROVE  DataInv'
<1> DEFINE t == Transfer(p)
<1>1. <<cur[p].req, cur[p].k>> = t /\ t \in Xfers /\ pc[p] = "queue"
  BY XferIn DEF QueueTransfer, CallInv, Types, CurType, Transfer
<1>2. Critical(p) /\ ~Waiting(p)
  BY <1>1 DEF Critical, Waiting
<1>3. transfer_list = << >> /\ ~running
  BY <1>2, Alone DEF CallInv, DataInv
<1>4. /\ pc' = [pc EXCEPT ![p] = "wait"]
      /\ xfer' = [xfer EXCEPT ![t].state = "SUBMITTED"]
      /\ transfer_list' = Append(transfer_list, t)
      /\ hw' = HwRun(hw, Head(transfer_list')) /\ desc_dequeued' = 0
      /\ UNCHANGED <<cur, ring, taken, device_open, acked>>
  BY <1>1, <1>3 DEF QueueTransfer, TransferQueue
<1>5. transfer_list' = <<t>> /\ transfer_list' # << >> /\ hw' = HwRun(hw, t)
  BY <1>3, <1>4, SingletonSeq
<1>6. xfer \in [Xfers -> XferType] /\ hw \in HwType /\ xfer[t] \in XferType
  BY <1>1 DEF CallInv, Types, DataInv, DataTypes
<1>7. /\ xfer'[t].state = "SUBMITTED" /\ xfer'[t].pages = xfer[t].pages
      /\ xfer'[t].idx = xfer[t].idx
  <2>1. xfer'[t] = [xfer[t] EXCEPT !.state = "SUBMITTED"]
    BY <1>1, <1>4, <1>6
  <2> QED
    BY <1>6, <2>1, StateSet
<1>8. /\ hw' \in HwType /\ hw'.base = xfer[t].idx /\ hw'.count = 0
      /\ hw'.num = Len(xfer[t].pages)
  BY <1>1, <1>5, <1>6, HwSteps DEF desc_num
<1>9. CallData(p)
  BY DEF DataInv
<1>10. t' = t /\ pc'[p] = "wait" /\ \A q \in Procs \ {p} : pc'[q] = pc[q]
  BY <1>4 DEF CallInv, Types, Transfer
<1>11. InRing(p) /\ EndsWith(taken, cur[p].done)
  BY <1>1, <1>9 DEF CallData
<1>12. InRing(p)'
  BY <1>4, <1>7, <1>10, <1>11 DEF InRing
<1>13. xfer[t].pages \in Seq(Nat) /\ cur[p].done \in Seq(Nat) /\ taken \in Seq(Nat)
  BY <1>6 DEF XferType, CallInv, Types, CurType, DataInv, DataTypes
<1>14. UnderWay(p)'
  <2>1. SubSeq(xfer[t].pages, 1, 0) = << >>
    BY SubSeqEmpty
  <2>2. cur[p].done \o << >> = cur[p].done
    BY <1>13, ConcatEmptySeq
  <2>3. EndsWith(taken', cur'[p].done \o SubSeq(xfer'[t'].pages, 1, hw'.count))
    BY <1>4, <1>7, <1>8, <1>10, <1>11, <2>1, <2>2 DEF EndsWith
  <2>4. Len(xfer[t].pages) \in Nat /\ Len(xfer[t].pages) > 0
    BY <1>11, <1>13 DEF InRing
  <2>5. hw'.count \in 0..hw'.num /\ hw'.count # hw'.num
    BY <1>8, <2>4
  <2> QED
    BY <1>4, <1>7, <1>8, <1>10, <2>3, <2>5 DEF UnderWay
<1>15. Contains(taken', cur'[p].done)
  <2>1. Contains(taken, cur[p].done)
    BY <1>11, <1>13, EndIsInside
  <2> QED
    BY <1>4, <2>1 DEF Contains
<1>16. CallData(p)'
  BY <1>7, <1>10, <1>12, <1>14, <1>15 DEF CallData, Waiting
<1>17. DataTypes'
  BY <1>4, <1>8 DEF DataInv, DataTypes
<1>18. (\A w \in acked : Contains(taken, w))'
  BY <1>4 DEF DataInv, Contains
<1> QED
  BY <1>2, <1>4, <1>5, <1>10, <1>16, <1>17, <1>18, EngineStep

LEMMA Wiped ==
  ASSUME DataTypes, NEW ts, TransferDestroy(ts)
  PROVE  ring' \in [0..(DescMax - 1) -> Nat]
  BY DEF DataTypes, TransferDestroy

(* The thread with the mutex returns, and reports what the core has. *)
LEMMA LeaveData ==
  ASSUME CallInv, DataInv, NEW p \in Procs, Critical(p),
         pc' = [pc EXCEPT ![p] = "idle"], cur' = [cur EXCEPT ![p] = Idle],
         NEW d \in Seq(Nat), Contains(taken, d), acked' = acked \cup {d},
         taken' = taken, device_open' = device_open, hw' \in HwType,
         ring' \in [0..(DescMax - 1) -> Nat],
         (hw.busy \/ running => transfer_list # << >>)'
  PROVE  DataInv'
<1>1. pc'[p] = "idle" /\ \A q \in Procs \ {p} : pc'[q] = pc[q] /\ cur'[q] = cur[q]
  BY DEF CallInv, Types
<1>2. CallData(p)'
  BY <1>1 DEF CallData, Waiting
<1>3. DataTypes'
  BY DEF DataInv, DataTypes
<1>4. (\A w \in acked : Contains(taken, w))'
  <2>1. \A w \in acked' : Contains(taken, w)
    BY DEF DataInv
  <2> QED
    BY <2>1 DEF Contains
<1> QED
  BY <1>1, <1>2, <1>3, <1>4, EngineStep

LEMMA QueueOfflineData ==
  ASSUME DataInv, CallInv, NEW p \in Procs, QueueOffline(p)
  PROVE  DataInv'
<1>1. /\ pc[p] = "queue" /\ pc' = [pc EXCEPT ![p] = "idle"]
      /\ cur' = [cur EXCEPT ![p] = Idle] /\ acked' = acked \cup {cur[p].done}
      /\ UNCHANGED <<transfer_list, ring, running, hw, taken, device_open>>
  BY DEF QueueOffline
<1>2. Critical(p)
  BY <1>1 DEF Critical
<1>3. cur[p].done \in Seq(Nat) /\ taken \in Seq(Nat)
  BY DEF CallInv, Types, CurType, DataInv, DataTypes
<1>4. EndsWith(taken, cur[p].done)
  BY <1>1 DEF DataInv, CallData
<1>5. Contains(taken, cur[p].done)
  BY <1>3, <1>4, EndIsInside
<1>6. /\ hw' \in HwType /\ ring' \in [0..(DescMax - 1) -> Nat]
      /\ (hw.busy \/ running => transfer_list # << >>)'
  BY <1>1 DEF DataInv, DataTypes
<1> QED
  BY <1>1, <1>2, <1>3, <1>5, <1>6, LeaveData

LEMMA GivesData ==
  ASSUME DataInv, CallInv, NEW p \in Procs, Gives(p)
  PROVE  DataInv'
<1>1. /\ pc[p] = "woken" /\ pc' = [pc EXCEPT ![p] = "idle"]
      /\ cur' = [cur EXCEPT ![p] = Idle] /\ acked' = acked \cup {cur[p].done}
      /\ UNCHANGED <<taken, device_open>>
      /\ \/ running' = FALSE /\ hw' = HwHalt(hw)
         \/ UNCHANGED <<transfer_list, running, hw>>
  BY DEF Gives, Finish, TransferAbort
<1>2. Critical(p) /\ Waiting(p)
  BY <1>1 DEF Critical, Waiting
<1>3. cur[p].done \in Seq(Nat) /\ hw \in HwType /\ ring' \in [0..(DescMax - 1) -> Nat]
  BY Wiped DEF CallInv, Types, CurType, DataInv, DataTypes, Gives
<1>4. Contains(taken, cur[p].done)
  BY <1>2 DEF DataInv, CallData
<1>5. hw' \in HwType /\ (hw.busy \/ running => transfer_list # << >>)'
  <2>1. CASE running' = FALSE /\ hw' = HwHalt(hw)
    <3>1. Transfer(p) \in Xfers /\ xfer \in [Xfers -> XferType]
      BY <1>1, XferIn DEF CallInv, Types
    <3>2. hw' \in HwType /\ hw'.busy = FALSE
      BY <1>3, <2>1, <3>1, HwSteps
    <3> QED
      BY <2>1, <3>2
  <2>2. CASE UNCHANGED <<transfer_list, running, hw>>
    BY <1>3, <2>2 DEF DataInv
  <2> QED
    BY <1>1, <2>1, <2>2
<1> QED
  BY <1>1, <1>2, <1>3, <1>4, <1>5, LeaveData

LEMMA CompletesData ==
  ASSUME DataInv, CallInv, NEW p \in Procs, Completes(p)
  PROVE  DataInv'
<1> DEFINE done == cur[p].done \o xfer[Transfer(p)].pages
<1>1. /\ pc[p] = "woken" /\ xfer[Transfer(p)].state = "COMPLETED"
      /\ \/ /\ pc' = [pc EXCEPT ![p] = "idle"] /\ cur' = [cur EXCEPT ![p] = Idle]
            /\ acked' = acked \cup {done}
         \/ /\ Rest(p) # << >>
            /\ cur' = [cur EXCEPT ![p].pages = Rest(p), ![p].done = done]
            /\ pc' = [pc EXCEPT ![p] = "init"] /\ acked' = acked
      /\ UNCHANGED <<transfer_list, running, hw, taken, device_open>>
  BY DEF Completes, Finish, Transfer
<1>2. Critical(p) /\ Waiting(p)
  BY <1>1 DEF Critical, Waiting
<1>3. done \in Seq(Nat) /\ taken \in Seq(Nat) /\ cur[p] \in CurType
  <2>1. Transfer(p) \in Xfers
    BY <1>1, XferIn DEF CallInv
  <2>2. xfer[Transfer(p)].pages \in Seq(Nat) /\ cur[p].done \in Seq(Nat)
    BY <2>1 DEF CallInv, Types, CurType, XferType
  <2> QED
    BY <2>2 DEF DataInv, DataTypes, CallInv, Types
<1>4. EndsWith(taken, done)
  BY <1>1, <1>2 DEF DataInv, CallData
<1> HIDE DEF done
<1>5. /\ hw' \in HwType /\ ring' \in [0..(DescMax - 1) -> Nat]
      /\ (hw.busy \/ running => transfer_list # << >>)'
  BY <1>1, Wiped DEF DataInv, DataTypes, Completes
<1>6. CASE /\ pc' = [pc EXCEPT ![p] = "idle"] /\ cur' = [cur EXCEPT ![p] = Idle]
           /\ acked' = acked \cup {done}
  <2>1. Contains(taken, done)
    BY <1>3, <1>4, EndIsInside
  <2> QED
    BY <1>1, <1>2, <1>3, <1>5, <1>6, <2>1, LeaveData
<1>7. CASE /\ Rest(p) # << >>
           /\ cur' = [cur EXCEPT ![p].pages = Rest(p), ![p].done = done]
           /\ pc' = [pc EXCEPT ![p] = "init"] /\ acked' = acked
  <2>1. /\ pc'[p] = "init"
        /\ \A q \in Procs \ {p} : pc'[q] = pc[q] /\ cur'[q] = cur[q]
    BY <1>7 DEF CallInv, Types
  <2>2. cur'[p].pages = Rest(p) /\ cur'[p].done = done
    BY <1>3, <1>7 DEF CallInv, Types, CurType
  <2>3. EndsWith(taken', cur'[p].done)
    BY <1>1, <1>4, <2>2 DEF EndsWith
  <2>4. CallData(p)'
    BY <1>7, <2>1, <2>2, <2>3 DEF CallData, Waiting
  <2>5. DataTypes'
    BY <1>1, <1>5, <1>7 DEF DataInv, DataTypes
  <2>6. (\A w \in acked : Contains(taken, w))'
    BY <1>1, <1>7 DEF DataInv, Contains
  <2> QED
    BY <1>1, <1>2, <1>5, <2>1, <2>4, <2>5, <2>6, EngineStep
<1> QED
  BY <1>1, <1>6, <1>7

LEMMA ModuloAtMost ==
  ASSUME NEW c \in Nat, NEW m \in Nat \ {0}
  PROVE  (c % m) \in 0..c
  OBVIOUS

(* The descriptors a service finds are those the hardware has counted, and *)
(* a transfer that completes has had all of its pages moved.               *)
LEMMA CountOfTransfer ==
  ASSUME CallInv, DataInv, NEW p \in Procs, Waiting(p),
         transfer_list = <<Transfer(p)>>
  PROVE  /\ Completed <= desc_num(Head(transfer_list))
         /\ Outcome = "COMPLETED" => hw.count = Len(xfer[Transfer(p)].pages)
<1>1. Head(transfer_list) = Transfer(p) /\ transfer_list # << >>
  BY SingletonSeq
<1>2. UnderWay(p)
  BY <1>1 DEF DataInv, CallData
<1>3. /\ hw.count \in 0..hw.num /\ desc_dequeued = 0
      /\ hw.num = Len(xfer[Transfer(p)].pages)
  BY <1>2 DEF UnderWay
<1>4. hw.count \in Nat /\ hw.num \in Nat
  BY DEF DataInv, DataTypes, HwType
<1>5. Completed = (hw.count % (2^Width))
  BY <1>3, <1>4 DEF Completed
<1> DEFINE m == 2^Width
<1>6. m \in Nat \ {0}
  BY EngineAssumption
<1> HIDE DEF m
<1>7. Completed \in 0..hw.count
  BY <1>4, <1>5, <1>6, ModuloAtMost DEF m
<1>8. desc_num(Head(transfer_list)) = hw.num
  BY <1>1, <1>3 DEF desc_num
<1>9. Outcome = "COMPLETED" => ~(Completed < hw.num)
  BY <1>8 DEF Outcome
<1> QED
  BY <1>3, <1>4, <1>7, <1>8, <1>9

LEMMA DescriptorData ==
  ASSUME DataInv, CallInv, HwDescriptor, UNCHANGED driverVars
  PROVE  DataInv'
<1>1. /\ hw.busy /\ taken' = Append(taken, ring[hw.base + hw.count])
      /\ UNCHANGED <<transfer_list, xfer, ring, desc_dequeued, pc, cur, acked,
                     device_open>>
  BY DEF HwDescriptor, driverVars
<1>2. transfer_list # << >>
  BY <1>1 DEF DataInv
<1>3. PICK p \in Procs : Waiting(p) /\ transfer_list = <<Transfer(p)>>
  BY <1>2 DEF CallInv, OneQueued
<1>4. Critical(p) /\ Transfer(p) \in Xfers
  BY <1>3, XferIn DEF CallInv, Waiting, Critical
<1> DEFINE pages == xfer[Transfer(p)].pages
           c == hw.count
           done == cur[p].done
<1>5. /\ pages \in Seq(Nat) /\ done \in Seq(Nat) /\ taken \in Seq(Nat)
      /\ xfer[Transfer(p)].idx \in Nat /\ hw \in HwType /\ c \in Nat
  BY <1>4, EngineAssumption DEF CallInv, Types, CurType, XferType, DataInv,
     DataTypes, HwType
<1>6. CallData(p) /\ InRing(p) /\ UnderWay(p) /\ Contains(taken, done)
  BY <1>2, <1>3 DEF DataInv, CallData
<1>7. xfer[Transfer(p)].state = "SUBMITTED"
  BY <1>2, <1>3 DEF CallInv, OneQueued
<1>8. /\ hw.base = xfer[Transfer(p)].idx /\ hw.num = Len(pages)
      /\ c \in 0..Len(pages) /\ c # Len(pages) /\ desc_dequeued = 0
      /\ EndsWith(taken, done \o SubSeq(pages, 1, c))
  BY <1>1, <1>6 DEF UnderWay
<1>9. c + 1 \in 1..Len(pages) /\ Len(pages) \in Nat
  BY <1>5, <1>8, SMTT(30)
<1>10. ring[hw.base + c] = pages[c + 1] /\ pages[c + 1] \in Nat
  <2>1. ring[xfer[Transfer(p)].idx + (c + 1) - 1] = pages[c + 1]
    BY <1>6, <1>9 DEF InRing
  <2>2. xfer[Transfer(p)].idx + (c + 1) - 1 = hw.base + c
    BY <1>5, <1>8
  <2> HIDE DEF pages, c
  <2>3. pages[c + 1] \in Nat
    BY <1>5, <1>9, ElementOfSeq
  <2> QED
    BY <2>1, <2>2, <2>3
<1>11. /\ hw' \in HwType /\ hw'.base = hw.base /\ hw'.num = hw.num
       /\ hw'.count = c + 1 /\ (hw'.busy => c + 1 # hw.num)
  <2> DEFINE last == c + 1 = hw.num
  <2>1. hw' = [hw EXCEPT !.count = c + 1, !.busy = ~last,
                         !.stopped = hw.stopped \/ last]
    BY DEF HwDescriptor
  <2>2. last \in BOOLEAN /\ c + 1 \in Nat
    BY <1>5
  <2> HIDE DEF last
  <2>3. /\ hw' \in HwType /\ hw'.base = hw.base /\ hw'.num = hw.num
        /\ hw'.count = c + 1 /\ hw'.busy = ~last
    BY <1>5, <2>1, <2>2 DEF HwType
  <2> QED
    BY <2>3 DEF last
<1> HIDE DEF pages, c, done
<1>12. taken' \in Seq(Nat)
  BY <1>1, <1>5, <1>10, AppendProperties DEF c
<1>13. EndsWith(taken', done \o SubSeq(pages, 1, c + 1))
  <2>1. SubSeq(pages, 1, c + 1) = SubSeq(pages, 1, c) \o <<pages[c + 1]>>
    <3>1. 1 \in 1..Len(pages) /\ c + 1 - 1 = c
      BY <1>5, <1>9
    <3> QED
      BY <1>5, <1>9, <3>1, SubSeqRecursiveSecond
  <2>2. SubSeq(pages, 1, c) \in Seq(Nat)
    BY <1>5, <1>8, SubSeqNat
  <2>3. EndsWith(Append(taken, pages[c + 1]),
                 done \o (SubSeq(pages, 1, c) \o <<pages[c + 1]>>))
    BY <1>5, <1>8, <1>10, <2>2, EndsWithMore
  <2> QED
    BY <1>1, <1>10, <2>1, <2>3 DEF c
<1>14. \A w \in Seq(Nat) : Contains(taken, w) => Contains(taken', w)
  BY <1>1, <1>5, <1>10, ContainsMore DEF c
<1>15. /\ Transfer(p)' = Transfer(p) /\ cur'[p].done = done
       /\ xfer'[Transfer(p)].pages = pages
  BY <1>1 DEF Transfer, done, pages
<1>16. UnderWay(p)'
  <2>1. hw'.count \in 0..hw'.num /\ hw'.num = Len(pages)
    BY <1>8, <1>9, <1>11
  <2> QED
    BY <1>1, <1>8, <1>11, <1>13, <1>15, <2>1 DEF UnderWay
<1>17. InRing(p)'
  BY <1>1, <1>6, <1>15 DEF InRing
<1>18. CallData(p)'
  <2>1. Contains(taken', cur'[p].done)
    BY <1>5, <1>6, <1>14, <1>15
  <2>2. xfer'[Transfer(p)'].state = "SUBMITTED" /\ pc'[p] \in {"wait", "woken"}
    BY <1>1, <1>3, <1>7, <1>15 DEF Waiting
  <2> QED
    BY <1>16, <1>17, <2>1, <2>2 DEF CallData
<1>19. DataTypes'
  BY <1>1, <1>11, <1>12 DEF DataInv, DataTypes
<1>20. (\A w \in acked : Contains(taken, w))'
  <2>1. \A w \in acked : w \in Seq(Nat) /\ Contains(taken, w)
    BY DEF DataInv, DataTypes
  <2> QED
    BY <1>1, <1>14, <2>1
<1> QED
  BY <1>1, <1>2, <1>4, <1>18, <1>19, <1>20, EngineStep

LEMMA ServiceData ==
  ASSUME DataInv, CallInv, ServiceWork
  PROVE  DataInv'
<1>1. UNCHANGED <<taken, device_open, cur, acked>>
  BY DEF ServiceWork
<1>2. hw \in HwType /\ xfer \in [Xfers -> XferType]
  BY DEF DataInv, DataTypes, CallInv, Types
<1>3. HwHalt(HwClear(hw)) \in HwType /\ HwHalt(HwClear(hw)).busy = FALSE
  BY <1>2 DEF HwType, HwClear, HwHalt
<1>4. CASE ~Finishes
  <2>1. /\ running' = (running /\ hw.busy /\ hw.count = 0)
        /\ hw' = IF running' THEN HwClear(hw) ELSE HwHalt(HwClear(hw))
        /\ UNCHANGED <<transfer_list, xfer, ring, desc_dequeued, pc>>
    BY <1>4 DEF ServiceWork, EngineService
  <2>2. /\ hw' \in HwType /\ hw'.base = hw.base /\ hw'.num = hw.num
        /\ hw'.count = hw.count /\ (hw'.busy => hw.busy)
    BY <1>2, <2>1 DEF HwType, HwClear, HwHalt
  <2>3. running' => running
    BY <2>1, Zenon
  <2> QED
    BY <1>1, <2>1, <2>2, <2>3, HwKept
<1>5. CASE Finishes
  <2>1. PICK p \in Procs : Waiting(p) /\ transfer_list = <<Transfer(p)>>
    BY <1>5 DEF Finishes, CallInv, OneQueued
  <2> DEFINE t == Transfer(p)
             pages == xfer[t].pages
             done == cur[p].done
  <2>2. /\ transfer_list' = << >> /\ Tail(transfer_list) = << >> /\ t \in Xfers
        /\ xfer' = [xfer EXCEPT ![t].state = Outcome]
        /\ Outcome \in {"COMPLETED", "FAILED"} /\ UNCHANGED <<pc, ring>>
    BY <1>5, <2>1, ServiceEnds
  <2>3. running' = FALSE /\ hw' = HwHalt(HwClear(hw))
    BY <1>5, <2>2 DEF ServiceWork, EngineService, ServiceResume
  <2>4. hw' \in HwType /\ hw'.busy = FALSE
    BY <1>3, <2>2, <2>3
  <2>5. /\ xfer'[t].state = Outcome /\ xfer'[t].pages = pages
        /\ xfer'[t].idx = xfer[t].idx /\ Transfer(p)' = t
    <3>1. xfer'[t] = [xfer[t] EXCEPT !.state = Outcome] /\ xfer[t] \in XferType
      BY <1>2, <2>2
    <3>2. Outcome \in {"NEW", "SUBMITTED", "COMPLETED", "FAILED"}
      BY <2>2
    <3>3. Transfer(p)' = t
      BY <1>1 DEF Transfer
    <3> HIDE DEF t
    <3> QED
      BY <3>1, <3>2, <3>3, StateSet
  <2>6. CallData(p) /\ InRing(p) /\ UnderWay(p) /\ Contains(taken, done)
    <3>1. transfer_list # << >>
      BY <1>5 DEF Finishes
    <3> QED
      BY <2>1, <3>1 DEF DataInv, CallData
  <2>7. InRing(p)'
    BY <2>2, <2>5, <2>6 DEF InRing
  <2>8. ASSUME Outcome = "COMPLETED" PROVE EndsWith(taken, done \o pages)
    <3>1. hw.count = Len(pages)
      BY <2>1, <2>8, CountOfTransfer
    <3>2. pages \in Seq(Nat)
      BY <1>2, <2>2 DEF XferType
    <3>3. SubSeq(pages, 1, Len(pages)) = pages
      BY <3>2, SubSeqFull
    <3> QED
      BY <2>6, <3>1, <3>3 DEF UnderWay
  <2>9. CallData(p)'
    <3>1. pc'[p] \in {"wait", "woken"} /\ cur'[p].done = done
      BY <1>1, <2>1, <2>2 DEF Waiting
    <3>2. Contains(taken', cur'[p].done)
      BY <1>1, <2>6, <3>1 DEF Contains
    <3>3. xfer'[Transfer(p)'].state = "COMPLETED" =>
            EndsWith(taken', cur'[p].done \o xfer'[Transfer(p)'].pages)
      BY <1>1, <2>5, <2>8, <3>1
    <3> QED
      BY <2>2, <2>7, <3>1, <3>2, <3>3 DEF CallData, Waiting
  <2>10. DataTypes'
    BY <1>1, <2>2, <2>4 DEF DataInv, DataTypes
  <2>11. /\ (hw.busy \/ running => transfer_list # << >>)'
         /\ (\A w \in acked : Contains(taken, w))'
    BY <1>1, <2>3, <2>4 DEF DataInv, Contains
  <2>12. Critical(p)
    BY <2>1 DEF Waiting, Critical
  <2> QED
    BY <1>1, <2>2, <2>9, <2>10, <2>11, <2>12, EngineStep
<1> QED
  BY <1>4, <1>5

LEMMA DataNext ==
  ASSUME ~Nonblock, CallInv, DataInv, [Next]_vars
  PROVE  DataInv'
<1>1. CASE Open \/ Close
  <2>1. /\ taken' = << >> /\ acked' = {} /\ \A p \in Procs : pc[p] = "idle"
        /\ UNCHANGED <<transfer_list, ring, running, hw, pc>>
    BY <1>1 DEF Open, Close, DataInv
  <2>2. DataTypes'
    BY <2>1 DEF DataInv, DataTypes
  <2>3. \A p \in Procs : CallData(p)'
    BY <2>1 DEF CallData, Waiting
  <2>4. (hw.busy \/ running => transfer_list # << >>)'
    BY <2>1 DEF DataInv
  <2> QED
    BY <2>1, <2>2, <2>3, <2>4 DEF DataInv
<1>2. CASE \E p \in Procs, n \in WritePages : Write(p, n)
  BY <1>2, WriteData
<1>3. ASSUME NEW p \in Procs, Poll(p) \/ Interrupt(p) \/ Continue(p)
      PROVE  DataInv'
  <2>1. ~Poll(p)
    BY DEF Poll
  <2>2. ~CountSubmit(p) /\ ~PollCheck(p)
    BY DEF CallInv, Types, CountSubmit, PollCheck
  <2> QED
    BY <1>3, <2>1, <2>2, SubmitData, InitData, QueueData, QueueOfflineData,
       GivesData, CompletesData DEF Continue
<1>4. CASE HwDescriptor /\ UNCHANGED driverVars
  BY <1>4, DescriptorData
<1>5. CASE \/ UNCHANGED vars
           \/ (HwError \/ ChannelIrq \/ Offline) /\ UNCHANGED driverVars
  <2>1. /\ UNCHANGED <<transfer_list, xfer, ring, desc_dequeued, taken, pc, cur,
                       acked, device_open>>
        /\ \/ hw' = hw /\ running' = running
           \/ hw' = [hw EXCEPT !.busy = FALSE, !.err = TRUE] /\ running' = running
           \/ hw' = HwHalt(hw) /\ running' = FALSE
    BY <1>5 DEF HwError, ChannelIrq, Offline, vars, engineVars, driverVars
  <2>2. hw \in HwType
    BY DEF DataInv, DataTypes
  <2>3. /\ hw' \in HwType /\ hw'.base = hw.base /\ hw'.num = hw.num
        /\ hw'.count = hw.count /\ (hw'.busy => hw.busy)
    BY <2>1, <2>2 DEF HwType, HwHalt
  <2>4. running' => running
    BY <2>1, Zenon
  <2> QED
    BY <2>1, <2>3, <2>4, HwKept
<1>6. CASE ServiceWork
  BY <1>6, ServiceData
<1> QED
  BY <1>1, <1>2, <1>3, <1>4, <1>5, <1>6 DEF Next, Engine

LEMMA BlockingInvariant ==
  ASSUME ~Nonblock PROVE Spec => [](CallInv /\ DataInv)
  BY CallInit, CallNext, DataInit, DataNext, PTL DEF Spec

(* What a blocking write reports as written has reached the core, as one   *)
(* piece that no other thread's write interrupts: also when the transfer   *)
(* was aborted after a signal or failed, when the request went to the      *)
(* engine in several chains, and when the card went offline in between.    *)
THEOREM BlockingAckedDelivered ==
  ASSUME ~Nonblock PROVE Spec => []AckedDelivered
<1>1. DataInv => AckedDelivered
  BY ContainsIsSubSeq DEF DataInv, DataTypes, AckedDelivered
<1> QED
  BY <1>1, BlockingInvariant, PTL

(* The descriptors of a queued transfer stay in the ring as transfer_build *)
(* wrote them until the engine is through with it.                         *)
THEOREM BlockingRingIntact ==
  ASSUME ~Nonblock PROVE Spec => []RingIntact
<1>1. CallInv /\ DataInv => RingIntact
  <2> SUFFICES ASSUME CallInv, DataInv, NEW i \in DOMAIN transfer_list,
                      NEW j \in DOMAIN xfer[transfer_list[i]].pages
               PROVE  ring[xfer[transfer_list[i]].idx + j - 1] =
                        xfer[transfer_list[i]].pages[j]
    BY DEF RingIntact
  <2>1. transfer_list # << >>
    OBVIOUS
  <2>2. PICK p \in Procs : Waiting(p) /\ transfer_list = <<Transfer(p)>>
    BY <2>1 DEF CallInv, OneQueued
  <2>3. transfer_list[i] = Transfer(p)
    BY <2>2, SingletonSeq
  <2>4. InRing(p)
    BY <2>2 DEF DataInv, CallData
  <2>5. xfer[Transfer(p)].pages \in Seq(Nat)
    BY <2>2, XferIn DEF CallInv, Types, XferType, Waiting
  <2>6. j \in 1..Len(xfer[Transfer(p)].pages)
    BY <2>3, <2>5
  <2> QED
    BY <2>3, <2>4, <2>6 DEF InRing
<1> QED
  BY <1>1, BlockingInvariant, PTL

(* The WARN_ON of engine_service_final_transfer never fires for blocking   *)
(* writes: the count a service reads is never more than the transfer has,  *)
(* whichever transfer its interrupt was for and whatever the width of the  *)
(* counter.                                                                *)
THEOREM BlockingCountFits ==
  ASSUME ~Nonblock PROVE Spec => []CountFits
<1>1. CallInv /\ DataInv => CountFits
  <2> SUFFICES ASSUME CallInv, DataInv, Finishes
               PROVE  Completed <= desc_num(Head(transfer_list))
    BY DEF CountFits
  <2>1. PICK p \in Procs : Waiting(p) /\ transfer_list = <<Transfer(p)>>
    BY DEF Finishes, CallInv, OneQueued
  <2> QED
    BY <2>1, CountOfTransfer
<1> QED
  BY <1>1, BlockingInvariant, PTL

-----------------------------------------------------------------------------
(* Writes with O_NONBLOCK.  They take no mutex, and the callback of a      *)
(* request may run before the request is counted.                          *)

(* What is assumed: the one thread of the process writes no more than the  *)
(* ring holds, nothing fails, and neither counter of 32 bits wraps around. *)
NonblockingConstants ==
  /\ Nonblock /\ Faults = {} /\ (\E p : Procs = {p})
  /\ MaxPages <= DescMax
  /\ IsFiniteSet(Reqs) /\ Cardinality(Reqs) < 2^Width

Thread == CHOOSE p \in Procs : TRUE

(* Where the thread is, its request, and the transfer it is working on. *)
Stage == pc[Thread]
Job == cur[Thread]
JobXfer == <<Job.req, Job.k>>

Submitting == Stage \in {"submit", "init", "queue"}

(* Every page of the message was first given to the engine, in order: the  *)
(* pages up to Queued; those up to Placed have a descriptor.               *)
Queued == next - 1 - Len(Job.pages)
Placed == Queued + IF Stage = "queue" THEN desc_num(JobXfer) ELSE 0

FirstPage(t) == xfer[t].pages[1]
FinalPage(t) == FirstPage(t) + desc_num(t) - 1

(* The pages of the transfers that are off the list. *)
Through ==
  IF transfer_list = << >> THEN Queued ELSE FirstPage(transfer_list[1]) - 1

(* The descriptor of page q when that of page 1 is b. *)
Wrap(n) == IF n < DescMax THEN n ELSE n - DescMax
SlotOf(b, q) == Wrap(b + q - 1)

NbTypes ==
  /\ pc \in [Procs -> {"idle", "submit", "init", "queue", "count", "poll",
                       "sleep"}]
  /\ cur \in [Procs -> [req : Reqs \cup {"none"}, pages : Seq(Nat), k : 1..3,
                        done : Seq(Nat)]]
  /\ held \in [Reqs -> SUBSET {"cb", "pages", "dma", "req"}]
  /\ xfer \in [Xfers -> XferType]
  /\ ring \in [0..(DescMax - 1) -> Nat] /\ desc_idx \in 0..(DescMax - 1)
  /\ next \in 1..(MaxPages + 1)
  /\ transfer_list \in Seq(Xfers) /\ taken \in Seq(Nat)
  /\ hw \in HwType
  /\ desc_dequeued \in Int /\ ~offline
  /\ running \in BOOLEAN /\ work \in BOOLEAN /\ device_open \in BOOLEAN

(* The request of the call under way: its pages are those after Queued.    *)
JobInv ==
  /\ Queued >= 0
  /\ Submitting => /\ Job.req \in Reqs /\ Len(Job.pages) > 0
                   /\ \A j \in 1..Len(Job.pages) : Job.pages[j] = Queued + j
  /\ ~Submitting => Job.pages = << >>
  /\ Stage = "submit" => Job.k = 1 /\ "dma" \notin held[Job.req]
  /\ Stage \in {"init", "queue"} => Job.k \in {1, 2} /\ "dma" \in held[Job.req]
  /\ Stage = "init" /\ Job.k = 2 => desc_idx = 0
  /\ Stage = "queue" =>
       /\ xfer[JobXfer].cb /\ desc_num(JobXfer) \in 1..Len(Job.pages)
       /\ FirstPage(JobXfer) = Queued + 1
       /\ xfer[JobXfer].last <=> desc_num(JobXfer) = Len(Job.pages)
       /\ ~xfer[JobXfer].last => Job.k = 1 /\ desc_idx = 0

(* The list holds the pages from Through to Queued, in order; a request is *)
(* complete with its last transfer.                                        *)
ListInv ==
  /\ \A m \in DOMAIN transfer_list :
       LET t == transfer_list[m]
       IN  /\ xfer[t].cb /\ xfer[t].pages # << >> /\ "dma" \in held[t[1]]
           /\ FinalPage(t) <= Queued
           /\ Stage \in {"init", "queue"} /\ t[1] = Job.req =>
                ~xfer[t].last /\ t[2] < Job.k
  /\ \A m, n \in DOMAIN transfer_list : m < n =>
       /\ FinalPage(transfer_list[m]) < FirstPage(transfer_list[n])
       /\ transfer_list[m][1] = transfer_list[n][1] =>
            ~xfer[transfer_list[m]].last
  /\ \A m \in DOMAIN transfer_list :
       FinalPage(transfer_list[m]) =
         IF m = Len(transfer_list) THEN Queued
         ELSE FirstPage(transfer_list[m + 1]) - 1

Listed(t) == \E m \in DOMAIN transfer_list : transfer_list[m] = t

(* Where the pages are in the ring: each in its own descriptor. *)
XferInv(b) ==
  \A t \in Xfers : xfer[t].pages # << >> =>
    /\ FirstPage(t) >= 1 /\ FinalPage(t) <= Placed
    /\ \A j \in 1..desc_num(t) : xfer[t].pages[j] = FirstPage(t) + j - 1
    /\ xfer[t].idx = SlotOf(b, FirstPage(t))
    /\ xfer[t].idx + desc_num(t) <= DescMax
    /\ Listed(t) \/ (Stage = "queue" /\ t = JobXfer) \/ FinalPage(t) <= Through

RingInv(b) ==
  /\ desc_idx = Wrap(b + Placed)
  /\ \A q \in (Through + 1)..Placed : ring[SlotOf(b, q)] = q

FreeInv ==
  \A r \in Reqs : "dma" \notin held[r] =>
    xfer[<<r, 1>>].pages = << >> /\ xfer[<<r, 2>>].pages = << >>

(* The hardware works on the head of the list, or is done with it and not  *)
(* yet serviced; what it took are the pages in order.                      *)
HwInv ==
  /\ ~hw.err /\ running = (transfer_list # << >>)
  /\ ~running => ~hw.busy /\ ~hw.stopped /\ ~work
  /\ running =>
       /\ hw.base = xfer[transfer_list[1]].idx
       /\ hw.num = desc_num(transfer_list[1]) /\ desc_dequeued = 0
       /\ \/ hw.busy /\ ~hw.stopped /\ ~work /\ hw.count \in 0..(hw.num - 1)
          \/ ~hw.busy /\ hw.stopped /\ hw.count = hw.num
  /\ Len(taken) = Through + IF running THEN hw.count ELSE 0
  /\ \A m \in 1..Len(taken) : taken[m] = m

(* The request of the thread is not counted yet; it may be through already *)
(* and the count be one below zero.                                        *)
Counted ==
  Cardinality(Outstanding) -
    IF Stage \in {"init", "queue", "count"} THEN 1 ELSE 0

CountInv ==
  submit_cnt = IF Counted < 0 THEN 2^Width - 1 ELSE Counted

SessionInv ==
  ~device_open =>
    Stage = "idle" /\ Outstanding = {} /\ next = 1 /\ taken = << >>

NbInv(b) ==
  /\ NbTypes /\ JobInv /\ ListInv /\ FreeInv /\ HwInv /\ CountInv /\ SessionInv
  /\ XferInv(b) /\ RingInv(b)

-----------------------------------------------------------------------------
LEMMA NbConstants ==
  ASSUME NonblockingConstants
  PROVE  /\ Procs = {Thread} /\ Nonblock = TRUE /\ Faults = {}
         /\ DescMax \in Nat \ {0} /\ MaxPages \in Nat /\ MaxPages <= DescMax
         /\ WritePages \subseteq Nat \ {0}
<1>1. PICK p : Procs = {p}
  BY DEF NonblockingConstants
<1>2. Thread \in Procs
  BY <1>1 DEF Thread
<1> QED
  BY <1>1, <1>2, EngineAssumption, PcieAssumption DEF NonblockingConstants

(* How far the pages are, in the order the message has them. *)
LEMMA PageCounts ==
  ASSUME NonblockingConstants, NEW b \in 0..(DescMax - 1), NbInv(b)
  PROVE  /\ Len(Job.pages) \in Nat /\ next - 1 = Queued + Len(Job.pages)
         /\ Queued \in Nat /\ Placed \in Nat /\ Through \in 0..Queued
         /\ Queued <= Placed /\ Placed <= next - 1 /\ next - 1 <= DescMax
         /\ Placed <= DescMax
         /\ Stage # "queue" => Placed = Queued
<1>1. Job.pages \in Seq(Nat)
  BY NbConstants DEF NbInv, NbTypes, Job
<1>2. Len(Job.pages) \in Nat /\ next \in 1..(MaxPages + 1)
  BY <1>1 DEF NbInv, NbTypes
<1>3. Queued \in Nat /\ next - 1 = Queued + Len(Job.pages)
  BY <1>2 DEF NbInv, JobInv, Queued
<1>4. Stage = "queue" => desc_num(JobXfer) \in 1..Len(Job.pages)
  BY DEF NbInv, JobInv
<1>5. /\ Queued <= Placed /\ Placed <= next - 1 /\ Placed \in Nat
      /\ Stage # "queue" => Placed = Queued
  BY <1>2, <1>3, <1>4 DEF Placed
<1>6. ASSUME transfer_list # << >>
      PROVE  FirstPage(transfer_list[1]) - 1 \in 0..Queued
  <2>1. transfer_list \in Seq(Xfers) /\ 1 \in DOMAIN transfer_list
    BY <1>6 DEF NbInv, NbTypes
  <2>2. transfer_list[1] \in Xfers
    BY <2>1
  <2>3. /\ xfer[transfer_list[1]].pages # << >>
        /\ FinalPage(transfer_list[1]) <= Queued
    BY <2>1 DEF NbInv, ListInv
  <2>4. xfer[transfer_list[1]].pages \in Seq(Nat)
    BY <2>2 DEF NbInv, NbTypes, XferType
  <2>5. desc_num(transfer_list[1]) \in Nat \ {0}
    BY <2>3, <2>4, EmptySeq DEF desc_num
  <2>6. FirstPage(transfer_list[1]) \in Nat \ {0}
    <3>1. FirstPage(transfer_list[1]) >= 1
      BY <2>2, <2>3 DEF NbInv, XferInv
    <3> QED
      BY <2>4, <2>5, <3>1, SMTT(30) DEF FirstPage, desc_num
  <2> QED
    BY <1>3, <2>3, <2>5, <2>6 DEF FinalPage
<1>7. next - 1 <= DescMax /\ Placed <= DescMax
  BY <1>2, <1>5, NbConstants
<1> QED
  BY <1>2, <1>3, <1>5, <1>6, <1>7 DEF Through

(* A transfer with pages. *)
LEMMA XferPages ==
  ASSUME NonblockingConstants, NEW b \in 0..(DescMax - 1), NbInv(b),
         NEW t \in Xfers, xfer[t].pages # << >>
  PROVE  /\ desc_num(t) \in Nat \ {0} /\ FirstPage(t) \in Nat \ {0}
         /\ FinalPage(t) \in Nat \ {0} /\ FirstPage(t) <= FinalPage(t)
         /\ FinalPage(t) = FirstPage(t) + desc_num(t) - 1
         /\ xfer[t].pages \in Seq(Nat) /\ Len(xfer[t].pages) = desc_num(t)
<1>1. xfer[t].pages \in Seq(Nat)
  BY DEF NbInv, NbTypes, XferType
<1>2. desc_num(t) \in Nat \ {0} /\ Len(xfer[t].pages) = desc_num(t)
  BY <1>1, EmptySeq DEF desc_num
<1>3. FirstPage(t) \in Nat
  BY <1>1, <1>2 DEF FirstPage
<1>4. FirstPage(t) >= 1
  BY DEF NbInv, XferInv
<1> QED
  BY <1>1, <1>2, <1>3, <1>4 DEF FinalPage

LEMMA ListMembers ==
  ASSUME NbTypes
  PROVE  /\ transfer_list \in Seq(Xfers) /\ Len(transfer_list) \in Nat
         /\ DOMAIN transfer_list = 1..Len(transfer_list)
         /\ \A m \in DOMAIN transfer_list :
              transfer_list[m] \in Xfers /\ transfer_list[m][1] \in Reqs
         /\ transfer_list # << >> => Len(transfer_list) > 0
<1>1. transfer_list \in Seq(Xfers) /\ Len(transfer_list) \in Nat
  BY DEF NbTypes
<1>2. DOMAIN transfer_list = 1..Len(transfer_list)
  BY <1>1
<1>3. \A m \in DOMAIN transfer_list : transfer_list[m] \in Xfers
  BY <1>1, <1>2
<1>4. transfer_list # << >> => Len(transfer_list) > 0
  BY <1>1, EmptySeq
<1> QED
  BY <1>1, <1>2, <1>3, <1>4 DEF Xfers

(* What does not touch the engine leaves the pages where they are. *)
LEMMA EngineSame ==
  ASSUME NonblockingConstants, NEW b \in 0..(DescMax - 1), NbInv(b),
         UNCHANGED engineVars, Stage # "queue", Stage' # "queue",
         Queued' = Queued
  PROVE  /\ Placed' = Placed /\ Through' = Through
         /\ HwInv' /\ XferInv(b)' /\ RingInv(b)'
<1>1. Queued \in Nat
  BY PageCounts
<1>2. /\ transfer_list' = transfer_list /\ xfer' = xfer /\ ring' = ring
      /\ desc_idx' = desc_idx /\ running' = running /\ hw' = hw
      /\ desc_dequeued' = desc_dequeued /\ work' = work /\ taken' = taken
  BY DEF engineVars
<1>3. Placed' = Placed
  BY <1>1 DEF Placed
<1>4. Through' = Through
  BY <1>2 DEF Through, FirstPage
<1>5. HwInv'
  BY <1>2, <1>4 DEF NbInv, HwInv, desc_num
<1>6. XferInv(b)'
  BY <1>2, <1>3, <1>4 DEF NbInv, XferInv, FirstPage, FinalPage, desc_num,
     SlotOf, Wrap, Listed
<1>7. RingInv(b)'
  BY <1>2, <1>3, <1>4 DEF NbInv, RingInv, SlotOf, Wrap
<1> QED
  BY <1>3, <1>4, <1>5, <1>6, <1>7

(* The list is the same to a thread that works on no transfer of it. *)
LEMMA ListSame ==
  ASSUME NonblockingConstants, NEW b \in 0..(DescMax - 1), NbInv(b),
         UNCHANGED <<transfer_list, xfer>>, Queued' = Queued,
         \A m \in DOMAIN transfer_list :
           /\ "dma" \in held'[transfer_list[m][1]]
           /\ Stage' \in {"init", "queue"} => transfer_list[m][1] # Job.req'
  PROVE  ListInv'
BY DEF NbInv, ListInv, FirstPage, FinalPage, desc_num

LEMMA NbInit ==
  ASSUME NonblockingConstants, Init
  PROVE  NbInv(0)
<1>1. << >> \in Seq(Nat) /\ << >> \in Seq(Xfers) /\ Len(<< >>) = 0
  BY EmptySeq
<1>2. NoXfer \in XferType /\ NoXfer.pages = << >>
  BY <1>1, NbConstants DEF NoXfer, XferType
<1>3. Idle \in [req : Reqs \cup {"none"}, pages : Seq(Nat), k : 1..3,
                done : Seq(Nat)]
  BY <1>1 DEF Idle
<1>4. NbTypes
  <2>1. /\ pc \in [Procs -> {"idle", "submit", "init", "queue", "count", "poll",
                              "sleep"}]
        /\ held \in [Reqs -> SUBSET {"cb", "pages", "dma", "req"}]
    BY DEF Init
  <2>2. xfer \in [Xfers -> XferType]
    BY <1>2 DEF Init, EngineInit
  <2>3. ring \in [0..(DescMax - 1) -> Nat] /\ desc_idx \in 0..(DescMax - 1)
    BY NbConstants DEF Init, EngineInit
  <2>4. cur \in [Procs -> [req : Reqs \cup {"none"}, pages : Seq(Nat), k : 1..3,
                           done : Seq(Nat)]]
    BY <1>3 DEF Init
  <2>5. hw \in HwType
    BY DEF Init, EngineInit, HwType
  <2>6. next \in 1..(MaxPages + 1)
    BY NbConstants DEF Init
  <2>7. transfer_list \in Seq(Xfers) /\ taken \in Seq(Nat)
    BY <1>1, Zenon DEF Init, EngineInit
  <2>8. /\ ~offline /\ running \in BOOLEAN /\ work \in BOOLEAN
        /\ device_open \in BOOLEAN
    BY DEF Init, EngineInit
  <2>9. desc_dequeued \in Int
    BY DEF Init, EngineInit
  <2> QED
    BY <2>1, <2>2, <2>3, <2>4, <2>5, <2>6, <2>7, <2>8, <2>9 DEF NbTypes
<1>5. Stage = "idle" /\ Job = Idle
  BY NbConstants DEF Init, Stage, Job
<1>6. Job.pages = << >> /\ Queued = 0 /\ Placed = 0 /\ Through = 0
  <2>1. Job.pages = << >> /\ next = 1 /\ transfer_list = << >>
    BY <1>5 DEF Idle, Init, EngineInit
  <2>2. Len(Job.pages) = 0
    BY <1>1, <2>1, Zenon
  <2>3. next = 1
    BY DEF Init
  <2>4. Queued = 0
    BY <2>2, <2>3 DEF Queued
  <2> QED
    BY <1>5, <2>1, <2>4 DEF Placed, Through
<1>7. JobInv
  BY <1>5, <1>6 DEF JobInv, Submitting
<1>8. ListInv
  BY <1>1 DEF ListInv, Init, EngineInit
<1>9. FreeInv
  BY <1>2 DEF FreeInv, Init, EngineInit, Xfers
<1>10. HwInv
  <2>1. /\ transfer_list = << >> /\ ~running /\ taken = << >> /\ ~work
        /\ ~hw.err /\ ~hw.busy /\ ~hw.stopped
    BY DEF Init, EngineInit
  <2>2. Len(taken) = 0
    BY <1>1, <2>1
  <2>3. running = (transfer_list # << >>)
    BY DEF Init, EngineInit
  <2> QED
    BY <1>6, <2>1, <2>2, <2>3 DEF HwInv
<1>11. Outstanding = {}
  BY DEF Outstanding, Init
<1>12. CountInv
  BY <1>5, <1>11, FS_EmptySet DEF CountInv, Counted, Init
<1>13. SessionInv
  BY <1>5, <1>11 DEF SessionInv, Init, EngineInit
<1>14. XferInv(0)
  BY <1>2 DEF XferInv, Init, EngineInit
<1>15. RingInv(0)
  BY <1>6, NbConstants DEF RingInv, Init, EngineInit, Wrap
<1> QED
  BY <1>4, <1>7, <1>8, <1>9, <1>10, <1>12, <1>13, <1>14, <1>15 DEF NbInv

-----------------------------------------------------------------------------
(* Steps that leave the engine alone.                                      *)

LEMMA Modulo ==
  ASSUME NEW m \in Nat \ {0}, NEW c \in Nat, c < m
  PROVE  c % m = c /\ m % m = 0 /\ (0 - 1) % m = m - 1
<1>1. c % m = c
  OBVIOUS
<1>2. m % m = 0
  OBVIOUS
<1>3. (0 - 1) % m = m - 1
  OBVIOUS
<1> QED
  BY <1>1, <1>2, <1>3

LEMMA OutstandingCount ==
  ASSUME NonblockingConstants
  PROVE  /\ IsFiniteSet(Outstanding) /\ Cardinality(Outstanding) \in Nat
         /\ Cardinality(Outstanding) < 2^Width /\ 2^Width \in Nat \ {0}
<1>1. Outstanding \in SUBSET Reqs /\ IsFiniteSet(Reqs)
  BY DEF Outstanding, NonblockingConstants
<1>2. IsFiniteSet(Outstanding) /\ Cardinality(Outstanding) <= Cardinality(Reqs)
  BY <1>1, FS_Subset
<1>3. Cardinality(Outstanding) \in Nat /\ Cardinality(Reqs) \in Nat
  BY <1>1, <1>2, FS_CardinalityType
<1>4. 2^Width \in Nat \ {0} /\ Cardinality(Reqs) < 2^Width
  BY EngineAssumption DEF NonblockingConstants
<1> QED
  BY <1>2, <1>3, <1>4

LEMMA OpenNb ==
  ASSUME NonblockingConstants, NEW b \in 0..(DescMax - 1), NbInv(b), Open
  PROVE  NbInv(b)'
<1>1. /\ ~device_open /\ Stage = "idle" /\ Outstanding = {} /\ next = 1
      /\ taken = << >>
  BY DEF NbInv, SessionInv, Open
<1>2. /\ UNCHANGED <<engineVars, pc, cur, held, next>>
      /\ device_open' = TRUE /\ submit_cnt' = 0
  BY <1>1 DEF Open, engineVars
<1>3. Stage' = Stage /\ Job' = Job /\ Queued' = Queued
  BY <1>2 DEF Stage, Job, Queued
<1>4. NbTypes'
  BY <1>2 DEF NbInv, NbTypes, engineVars
<1>5. JobInv'
  BY <1>1, <1>3 DEF NbInv, JobInv, Submitting
<1>6. ListInv'
  <2>1. \A m \in DOMAIN transfer_list : "dma" \in held'[transfer_list[m][1]]
    BY <1>2 DEF NbInv, ListInv
  <2> QED
    BY <1>1, <1>2, <1>3, <2>1, ListSame DEF engineVars
<1>7. FreeInv'
  BY <1>2 DEF NbInv, FreeInv, engineVars
<1>8. HwInv' /\ XferInv(b)' /\ RingInv(b)'
  BY <1>1, <1>2, <1>3, EngineSame
<1>9. Outstanding' = {}
  BY <1>1, <1>2 DEF Outstanding
<1>10. CountInv'
  BY <1>1, <1>2, <1>3, <1>9, FS_EmptySet DEF CountInv, Counted
<1>11. SessionInv'
  BY <1>2 DEF SessionInv
<1> QED
  BY <1>4, <1>5, <1>6, <1>7, <1>8, <1>10, <1>11 DEF NbInv

(* The thread moves between places where it has no request. *)
LEMMA PollNb ==
  ASSUME NonblockingConstants, NEW b \in 0..(DescMax - 1), NbInv(b),
         Stage \in {"idle", "poll", "sleep"},
         NEW l \in {"idle", "poll", "sleep"}, pc' = [pc EXCEPT ![Thread] = l],
         device_open \/ l = "idle",
         UNCHANGED <<engineVars, device_open, submit_cnt, cur, held, next>>
  PROVE  NbInv(b)'
<1>1. Stage' = l /\ Job' = Job /\ Queued' = Queued
  BY NbConstants DEF NbInv, NbTypes, Stage, Job, Queued
<1>2. NbTypes'
  BY DEF NbInv, NbTypes, engineVars
<1>3. JobInv'
  BY <1>1 DEF NbInv, JobInv, Submitting
<1>4. ListInv'
  <2>1. \A m \in DOMAIN transfer_list : "dma" \in held'[transfer_list[m][1]]
    BY DEF NbInv, ListInv
  <2> QED
    BY <1>1, <2>1, ListSame DEF engineVars
<1>5. FreeInv'
  BY DEF NbInv, FreeInv, engineVars
<1>6. HwInv' /\ XferInv(b)' /\ RingInv(b)'
  BY <1>1, EngineSame
<1>7. Outstanding' = Outstanding
  BY DEF Outstanding
<1>8. CountInv'
  BY <1>1, <1>7 DEF NbInv, CountInv, Counted
<1>9. SessionInv'
  BY <1>1, <1>7 DEF NbInv, SessionInv, engineVars
<1> QED
  BY <1>2, <1>3, <1>4, <1>5, <1>6, <1>8, <1>9 DEF NbInv

LEMMA CloseNb ==
  ASSUME NonblockingConstants, NEW b \in 0..(DescMax - 1), NbInv(b), Close,
         NEW c \in 0..(DescMax - 1), c = desc_idx
  PROVE  NbInv(c)'
<1>1. /\ Stage = "idle" /\ Outstanding = {} /\ next' = 1 /\ taken' = << >>
      /\ UNCHANGED <<transfer_list, xfer, ring, desc_idx, running,
                     desc_dequeued, offline, hw, work, submit_cnt, pc, cur, held>>
      /\ device_open' = FALSE
  BY NbConstants DEF Close, Stage
<1>2. Stage' = "idle" /\ Job' = Job /\ Outstanding' = {}
  BY <1>1 DEF Stage, Job, Outstanding
<1>3. Job.pages = << >>
  BY <1>1 DEF NbInv, JobInv, Submitting
<1>4. Queued' = 0
  <2>1. Len(Job'.pages) = 0
    BY <1>2, <1>3, EmptySeq, Zenon
  <2>2. next' = 1
    BY <1>1
  <2> QED
    BY <2>1, <2>2 DEF Queued
<1>5. transfer_list = << >>
  <2>1. ASSUME transfer_list # << >> PROVE FALSE
    <3>1. 1 \in DOMAIN transfer_list /\ transfer_list[1][1] \in Reqs
      BY <2>1, ListMembers DEF NbInv
    <3>2. "dma" \in held[transfer_list[1][1]]
      BY <3>1 DEF NbInv, ListInv
    <3> QED
      BY <1>1, <3>1, <3>2 DEF Outstanding
  <2> QED
    BY <2>1
<1>6. \A t \in Xfers : xfer[t].pages = << >>
  <2> SUFFICES ASSUME NEW t \in Xfers PROVE xfer[t].pages = << >>
    OBVIOUS
  <2>1. t[1] \in Reqs /\ (t = <<t[1], 1>> \/ t = <<t[1], 2>>)
    BY DEF Xfers
  <2>2. "dma" \notin held[t[1]]
    BY <1>1, <2>1 DEF Outstanding
  <2> QED
    BY <2>1, <2>2 DEF NbInv, FreeInv
<1>7. Placed' = 0 /\ Through' = 0
  BY <1>1, <1>2, <1>4, <1>5 DEF Placed, Through
<1>8. NbTypes'
  <2>1. taken' \in Seq(Nat)
    BY <1>1, EmptySeq, Zenon
  <2>2. next' \in 1..(MaxPages + 1)
    BY <1>1, NbConstants
  <2> QED
    BY <1>1, <2>1, <2>2 DEF NbInv, NbTypes
<1>9. JobInv'
  BY <1>2, <1>3, <1>4 DEF JobInv, Submitting
<1>10. ListInv'
  BY <1>1, <1>5 DEF ListInv
<1>11. FreeInv'
  BY <1>1 DEF NbInv, FreeInv
<1>12. HwInv'
  <2>1. Len(taken') = 0
    BY <1>1, EmptySeq, Zenon
  <2>2. ~running' /\ ~hw'.busy /\ ~hw'.stopped /\ ~work' /\ ~hw'.err
    BY <1>1, <1>5 DEF NbInv, HwInv
  <2>3. running' = (transfer_list' # << >>)
    BY <1>1 DEF NbInv, HwInv
  <2> QED
    BY <1>7, <2>1, <2>2, <2>3 DEF HwInv
<1>13. CountInv'
  BY <1>1, <1>2 DEF NbInv, CountInv, Counted
<1>14. SessionInv'
  BY <1>1, <1>2 DEF SessionInv
<1>15. XferInv(c)'
  BY <1>1, <1>6 DEF XferInv
<1>16. RingInv(c)'
  <2>1. desc_idx' = Wrap(c + Placed')
    BY <1>1, <1>7, NbConstants DEF Wrap
  <2>2. (Through' + 1)..Placed' = {}
    BY <1>7
  <2> QED
    BY <2>1, <2>2 DEF RingInv, Wrap
<1> QED
  BY <1>8, <1>9, <1>10, <1>11, <1>12, <1>13, <1>14, <1>15, <1>16 DEF NbInv

LEMMA WriteNb ==
  ASSUME NonblockingConstants, NEW b \in 0..(DescMax - 1), NbInv(b),
         NEW n \in WritePages, Write(Thread, n)
  PROVE  NbInv(b)'
<1> DEFINE r == CHOOSE r \in FreeReqs : TRUE
           ps == [i \in 1..n |-> next + i - 1]
<1>1. /\ Stage = "idle" /\ device_open /\ next + n - 1 <= MaxPages
      /\ r \in FreeReqs
      /\ held' = [held EXCEPT ![r] = {"pages", "cb"}]
      /\ cur' = [cur EXCEPT ![Thread] = [Idle EXCEPT !.req = r, !.pages = ps]]
      /\ next' = next + n /\ pc' = [pc EXCEPT ![Thread] = "submit"]
      /\ UNCHANGED <<engineVars, device_open, submit_cnt>>
  BY NbConstants DEF Write, Stage
<1>2. r \in Reqs /\ held[r] = {}
  BY <1>1 DEF FreeReqs
<1> HIDE DEF r
<1>3. n \in Nat \ {0} /\ next \in Nat \ {0} /\ next' \in 1..(MaxPages + 1)
  <2>1. n \in Nat \ {0} /\ next \in 1..(MaxPages + 1) /\ MaxPages \in Nat
    BY NbConstants DEF NbInv, NbTypes
  <2>2. next' = next + n /\ next + n - 1 <= MaxPages
    BY <1>1
  <2> QED
    BY <2>1, <2>2
<1>4. ps \in Seq(Nat) /\ Len(ps) = n /\ \A j \in 1..n : ps[j] = next + j - 1
  <2>1. \A j \in 1..n : next + j - 1 \in Nat
    BY <1>3
  <2> QED
    BY <1>3, <2>1
<1> HIDE DEF ps
<1> DEFINE job == [Idle EXCEPT !.req = r, !.pages = ps]
<1>5. /\ job.req = r /\ job.pages = ps /\ job.k = 1
      /\ job \in [req : Reqs \cup {"none"}, pages : Seq(Nat), k : 1..3,
                  done : Seq(Nat)]
  <2>1. job.req = r /\ job.pages = ps /\ job.k = 1
    BY DEF Idle
  <2>2. ps \in Seq(Nat) /\ << >> \in Seq(Nat) /\ r \in Reqs /\ 1 \in 1..3
    BY <1>2, <1>4
  <2>3. job \in [req : Reqs \cup {"none"}, pages : Seq(Nat), k : 1..3,
                 done : Seq(Nat)]
    BY <2>2, Zenon DEF Idle
  <2> QED
    BY <2>1, <2>3
<1>6. cur' = [cur EXCEPT ![Thread] = job]
  BY <1>1
<1> HIDE DEF job
<1>7. /\ Stage' = "submit" /\ Job'.req = r /\ Job'.pages = ps /\ Job'.k = 1
  BY <1>1, <1>5, <1>6, NbConstants DEF NbInv, NbTypes, Stage, Job
<1>8. Job.pages = << >> /\ Len(Job.pages) = 0
  <2>1. Job.pages = << >>
    BY <1>1 DEF NbInv, JobInv, Submitting
  <2> QED
    BY <2>1, EmptySeq, Zenon
<1>9. Queued = next - 1 /\ Queued' = Queued
  <2>1. Len(Job.pages) = 0
    BY <1>8
  <2> QED
    BY <1>1, <1>3, <1>4, <1>7, <2>1 DEF Queued
<1>10. NbTypes'
  <2>1. cur' \in [Procs -> [req : Reqs \cup {"none"}, pages : Seq(Nat), k : 1..3,
                            done : Seq(Nat)]]
    BY <1>5, <1>6 DEF NbInv, NbTypes
  <2> QED
    BY <1>1, <1>3, <2>1 DEF NbInv, NbTypes, engineVars
<1>11. Queued >= 0
  BY <1>3, <1>9
<1>12. JobInv'
  <2>1. Job'.req \in Reqs /\ Len(Job'.pages) > 0
    BY <1>2, <1>3, <1>4, <1>7
  <2>2. \A j \in 1..Len(Job'.pages) : Job'.pages[j] = Queued' + j
    BY <1>3, <1>4, <1>7, <1>9
  <2>3. "dma" \notin held'[Job'.req]
    BY <1>1, <1>2, <1>7 DEF NbInv, NbTypes
  <2> QED
    BY <1>7, <1>9, <1>11, <2>1, <2>2, <2>3 DEF JobInv, Submitting
<1>13. \A q \in Reqs : "dma" \in held'[q] <=> "dma" \in held[q]
  BY <1>1, <1>2 DEF NbInv, NbTypes
<1>14. Outstanding' = Outstanding
  BY <1>13 DEF Outstanding
<1>15. ListInv'
  <2>1. \A m \in DOMAIN transfer_list : "dma" \in held'[transfer_list[m][1]]
    BY <1>13, ListMembers DEF NbInv, ListInv
  <2> QED
    BY <1>1, <1>7, <1>9, <2>1, ListSame DEF engineVars
<1>16. FreeInv'
  BY <1>1, <1>13 DEF NbInv, FreeInv, engineVars
<1>17. HwInv' /\ XferInv(b)' /\ RingInv(b)'
  BY <1>1, <1>7, <1>9, EngineSame
<1>18. CountInv'
  BY <1>1, <1>7, <1>14 DEF NbInv, CountInv, Counted
<1>19. SessionInv'
  BY <1>1 DEF SessionInv
<1> QED
  BY <1>10, <1>12, <1>15, <1>16, <1>17, <1>18, <1>19 DEF NbInv

LEMMA SubmitNb ==
  ASSUME NonblockingConstants, NEW b \in 0..(DescMax - 1), NbInv(b),
         Submit(Thread)
  PROVE  NbInv(b)'
<1>1. /\ Stage = "submit"
      /\ held' = [held EXCEPT ![Job.req] = @ \cup {"dma", "req"}]
      /\ pc' = [pc EXCEPT ![Thread] = "init"]
      /\ UNCHANGED <<engineVars, device_open, submit_cnt, cur, next>>
  BY NbConstants DEF Submit, Stage, Job
<1>2. Stage' = "init" /\ Job' = Job /\ Queued' = Queued
  BY <1>1, NbConstants DEF NbInv, NbTypes, Stage, Job, Queued
<1>3. Job.req \in Reqs /\ Job.k = 1 /\ "dma" \notin held[Job.req]
  BY <1>1 DEF NbInv, JobInv, Submitting
<1>4. NbTypes'
  BY <1>1, <1>3 DEF NbInv, NbTypes, engineVars
<1>5. \A q \in Reqs : "dma" \in held'[q] <=> "dma" \in held[q] \/ q = Job.req
  BY <1>1, <1>3 DEF NbInv, NbTypes
<1>6. JobInv'
  BY <1>1, <1>2, <1>3, <1>5 DEF NbInv, JobInv, Submitting
<1>7. ListInv'
  <2>1. \A m \in DOMAIN transfer_list :
          /\ "dma" \in held'[transfer_list[m][1]]
          /\ transfer_list[m][1] # Job.req
    BY <1>3, <1>5, ListMembers DEF NbInv, ListInv
  <2> QED
    BY <1>1, <1>2, <2>1, ListSame DEF engineVars
<1>8. FreeInv'
  BY <1>1, <1>5 DEF NbInv, FreeInv, engineVars
<1>9. HwInv' /\ XferInv(b)' /\ RingInv(b)'
  BY <1>1, <1>2, EngineSame
<1>10. Outstanding' = Outstanding \cup {Job.req} /\ Job.req \notin Outstanding
  BY <1>3, <1>5 DEF Outstanding
<1>11. Cardinality(Outstanding)' = Cardinality(Outstanding) + 1
  BY <1>10, OutstandingCount, FS_AddElement
<1>12. CountInv'
  BY <1>1, <1>2, <1>11, OutstandingCount DEF NbInv, CountInv, Counted
<1>13. SessionInv'
  BY <1>1 DEF NbInv, SessionInv
<1> QED
  BY <1>4, <1>6, <1>7, <1>8, <1>9, <1>12, <1>13 DEF NbInv

LEMMA CountNb ==
  ASSUME NonblockingConstants, NEW b \in 0..(DescMax - 1), NbInv(b),
         CountSubmit(Thread)
  PROVE  NbInv(b)'
<1>1. /\ Stage = "count"
      /\ submit_cnt' = (submit_cnt + 1) % 2^Width
      /\ cur' = [cur EXCEPT ![Thread] = Idle]
      /\ pc' = [pc EXCEPT ![Thread] = "idle"]
      /\ UNCHANGED <<engineVars, device_open, held, next>>
  BY DEF CountSubmit, Stage
<1>2. Stage' = "idle" /\ Job' = Idle
  BY <1>1, NbConstants DEF NbInv, NbTypes, Stage, Job
<1>3. Job.pages = << >> /\ Job'.pages = << >>
  BY <1>1, <1>2 DEF NbInv, JobInv, Submitting, Idle
<1>4. Queued' = Queued
  BY <1>1, <1>3 DEF Queued
<1>5. NbTypes'
  <2>1. << >> \in Seq(Nat)
    BY EmptySeq
  <2>2. Idle \in [req : Reqs \cup {"none"}, pages : Seq(Nat), k : 1..3,
                  done : Seq(Nat)]
    BY <2>1 DEF Idle
  <2>3. cur' \in [Procs -> [req : Reqs \cup {"none"}, pages : Seq(Nat), k : 1..3,
                            done : Seq(Nat)]]
    BY <1>1, <2>2 DEF NbInv, NbTypes
  <2> QED
    BY <1>1, <2>3 DEF NbInv, NbTypes, engineVars
<1>6. JobInv'
  BY <1>2, <1>3, <1>4 DEF NbInv, JobInv, Submitting
<1>7. ListInv'
  <2>1. \A m \in DOMAIN transfer_list : "dma" \in held'[transfer_list[m][1]]
    BY <1>1 DEF NbInv, ListInv
  <2> QED
    BY <1>1, <1>2, <1>4, <2>1, ListSame DEF engineVars
<1>8. FreeInv'
  BY <1>1 DEF NbInv, FreeInv, engineVars
<1>9. HwInv' /\ XferInv(b)' /\ RingInv(b)'
  BY <1>1, <1>2, <1>4, EngineSame
<1>10. Outstanding' = Outstanding
  BY <1>1 DEF Outstanding
<1>11. CountInv'
  <2> DEFINE c == Cardinality(Outstanding)
             m == 2^Width
  <2>1. c \in Nat /\ c < m /\ m \in Nat \ {0}
    BY OutstandingCount
  <2>2. submit_cnt = IF c - 1 < 0 THEN m - 1 ELSE c - 1
    BY <1>1 DEF NbInv, CountInv, Counted
  <2>3. submit_cnt' = (submit_cnt + 1) % m
    BY <1>1
  <2>4. Cardinality(Outstanding)' = c
    BY <1>10
  <2>5. CountInv' <=> submit_cnt' = IF c < 0 THEN m - 1 ELSE c
    BY <1>2, <2>1, <2>4 DEF CountInv, Counted
  <2> HIDE DEF c, m
  <2>6. submit_cnt + 1 = IF c = 0 THEN m ELSE c
    BY <2>1, <2>2
  <2>7. submit_cnt' = c
    BY <2>1, <2>3, <2>6, Modulo
  <2> QED
    BY <2>1, <2>5, <2>7
<1>12. SessionInv'
  BY <1>1 DEF NbInv, SessionInv
<1> QED
  BY <1>5, <1>6, <1>7, <1>8, <1>9, <1>11, <1>12 DEF NbInv

-----------------------------------------------------------------------------
(* The ring.                                                               *)

LEMMA SlotsApart ==
  ASSUME DescMax \in Nat \ {0}, NEW b \in 0..(DescMax - 1),
         NEW q \in 1..DescMax
  PROVE  /\ SlotOf(b, q) \in 0..(DescMax - 1)
         /\ \A s \in 1..DescMax : SlotOf(b, s) = SlotOf(b, q) => s = q
BY DEF SlotOf, Wrap

(* The descriptors of pages that follow each other do so up to the end of  *)
(* the ring.                                                               *)
LEMMA SlotsFollow ==
  ASSUME DescMax \in Nat \ {0}, NEW b \in 0..(DescMax - 1),
         NEW q \in 1..DescMax, NEW j \in Nat, SlotOf(b, q) + j < DescMax
  PROVE  SlotOf(b, q + j) = SlotOf(b, q) + j
BY DEF SlotOf, Wrap

(* A transfer that is on the list. *)
LEMMA ListedXfer ==
  ASSUME NonblockingConstants, NEW b \in 0..(DescMax - 1), NbInv(b),
         NEW m \in DOMAIN transfer_list, NEW t, t = transfer_list[m]
  PROVE  /\ t \in Xfers /\ t[1] \in Reqs /\ xfer[t].pages # << >>
         /\ xfer[t].cb /\ "dma" \in held[t[1]] /\ FinalPage(t) <= Queued
         /\ Stage \in {"init", "queue"} /\ t[1] = Job.req =>
              ~xfer[t].last /\ t[2] < Job.k
<1>1. t \in Xfers /\ t[1] \in Reqs
  BY ListMembers DEF NbInv
<1> QED
  BY <1>1 DEF NbInv, ListInv

(* The head of the list. *)
LEMMA HeadXfer ==
  ASSUME NonblockingConstants, NEW b \in 0..(DescMax - 1), NbInv(b),
         transfer_list # << >>
  PROVE  /\ 1 \in DOMAIN transfer_list
         /\ Through = FirstPage(transfer_list[1]) - 1
         /\ Head(transfer_list) = transfer_list[1]
<1>1. /\ transfer_list \in Seq(Xfers) /\ Len(transfer_list) \in Nat
      /\ DOMAIN transfer_list = 1..Len(transfer_list)
      /\ Len(transfer_list) > 0
  BY ListMembers DEF NbInv
<1>2. 1 \in DOMAIN transfer_list
  BY <1>1
<1>3. Head(transfer_list) = transfer_list[1]
  BY <1>1
<1> QED
  BY <1>2, <1>3 DEF Through

-----------------------------------------------------------------------------
(* The hardware.                                                           *)

LEMMA ChannelIrqNb ==
  ASSUME NonblockingConstants, NEW b \in 0..(DescMax - 1), NbInv(b),
         ChannelIrq, UNCHANGED driverVars
  PROVE  NbInv(b)'
<1>1. /\ hw.stopped /\ work' = TRUE
      /\ UNCHANGED <<transfer_list, xfer, ring, desc_idx, running,
                     desc_dequeued, offline, hw, taken>>
      /\ UNCHANGED <<device_open, submit_cnt, pc, cur, held, next>>
  BY DEF ChannelIrq, driverVars, NbInv, HwInv
<1>2. /\ Stage' = Stage /\ Job' = Job /\ Queued' = Queued /\ Placed' = Placed
      /\ Through' = Through /\ Outstanding' = Outstanding
  BY <1>1 DEF Stage, Job, Queued, Placed, Through, Outstanding, FirstPage,
     JobXfer, desc_num
<1>3. NbTypes'
  BY <1>1 DEF NbInv, NbTypes
<1>4. JobInv'
  BY <1>1, <1>2 DEF NbInv, JobInv, Submitting, JobXfer, desc_num, FirstPage
<1>5. ListInv'
  BY <1>1, <1>2 DEF NbInv, ListInv, FirstPage, FinalPage, desc_num
<1>6. FreeInv' /\ CountInv' /\ SessionInv'
  BY <1>1, <1>2 DEF NbInv, FreeInv, CountInv, Counted, SessionInv
<1>7. HwInv'
  BY <1>1, <1>2 DEF NbInv, HwInv, desc_num
<1>8. XferInv(b)' /\ RingInv(b)'
  BY <1>1, <1>2 DEF NbInv, XferInv, RingInv, FirstPage, FinalPage, desc_num,
     SlotOf, Wrap, Listed, JobXfer
<1> QED
  BY <1>3, <1>4, <1>5, <1>6, <1>7, <1>8 DEF NbInv

(* The hardware takes the page that follows those it has. *)
LEMMA NextTaken ==
  ASSUME NonblockingConstants, NEW b \in 0..(DescMax - 1), NbInv(b), hw.busy
  PROVE  /\ ring[hw.base + hw.count] = Len(taken) + 1
         /\ running /\ hw.count \in 0..(hw.num - 1) /\ hw.num \in Nat
         /\ Len(taken) = Through + hw.count /\ ~hw.stopped /\ ~work
<1>1. /\ running /\ transfer_list # << >>
      /\ hw.base = xfer[transfer_list[1]].idx
      /\ hw.num = desc_num(transfer_list[1])
      /\ hw.count \in 0..(hw.num - 1)
      /\ ~hw.stopped /\ ~work
      /\ Len(taken) = Through + hw.count
  BY DEF NbInv, HwInv
<1> DEFINE t == transfer_list[1]
           f == FirstPage(t)
<1>2. 1 \in DOMAIN transfer_list /\ Through = f - 1
  BY <1>1, HeadXfer
<1>3. t \in Xfers /\ xfer[t].pages # << >> /\ FinalPage(t) <= Queued
  BY <1>2, ListedXfer
<1> HIDE DEF t
<1>4. /\ desc_num(t) \in Nat \ {0} /\ f \in Nat \ {0}
      /\ FinalPage(t) = f + desc_num(t) - 1
  BY <1>3, XferPages
<1>5. xfer[t].idx = SlotOf(b, f) /\ xfer[t].idx + desc_num(t) <= DescMax
  BY <1>3 DEF NbInv, XferInv
<1> HIDE DEF f
<1>6. /\ Queued \in Nat /\ Placed \in Nat /\ Queued <= Placed
      /\ Placed <= DescMax
  BY PageCounts
<1> DEFINE q == f + hw.count
<1>7. hw.num = desc_num(t) /\ hw.base = SlotOf(b, f)
  BY <1>1, <1>5 DEF t
<1>8. /\ q \in (Through + 1)..Placed /\ f \in 1..DescMax
      /\ hw.count \in Nat /\ hw.num \in Nat
  <2>1. hw.count \in Nat /\ hw.num \in Nat
    BY DEF NbInv, NbTypes, HwType
  <2>2. hw.count + 1 <= desc_num(t)
    BY <1>1, <1>7, <2>1
  <2>3. f + hw.count <= Placed /\ f <= DescMax
    BY <1>3, <1>4, <1>6, <2>1, <2>2, NbConstants, SMTT(30)
  <2> QED
    BY <1>2, <1>4, <1>6, <2>1, <2>3, NbConstants
<1>9. SlotOf(b, f) \in 0..(DescMax - 1)
  BY <1>8, SlotsApart, NbConstants
<1>10. SlotOf(b, f) + hw.count < DescMax
  BY <1>1, <1>4, <1>5, <1>7, <1>8, <1>9, NbConstants, SMTT(30)
<1>11. SlotOf(b, q) = hw.base + hw.count
  BY <1>7, <1>8, <1>10, SlotsFollow, NbConstants
<1>12. ring[SlotOf(b, q)] = q
  BY <1>8 DEF NbInv, RingInv
<1>13. q = Len(taken) + 1
  BY <1>1, <1>2, <1>4, <1>8, SMTT(30)
<1> QED
  BY <1>1, <1>8, <1>11, <1>12, <1>13

LEMMA DescriptorNb ==
  ASSUME NonblockingConstants, NEW b \in 0..(DescMax - 1), NbInv(b),
         HwDescriptor, UNCHANGED driverVars
  PROVE  NbInv(b)'
<1>1. /\ hw.busy /\ taken' = Append(taken, ring[hw.base + hw.count])
      /\ hw' = [hw EXCEPT !.count = @ + 1, !.busy = ~(hw.count + 1 = hw.num),
                          !.stopped = @ \/ hw.count + 1 = hw.num]
      /\ UNCHANGED <<transfer_list, xfer, ring, desc_idx, running,
                     desc_dequeued, offline, work>>
      /\ UNCHANGED <<device_open, submit_cnt, pc, cur, held, next>>
  BY DEF HwDescriptor, driverVars
<1>2. /\ Stage' = Stage /\ Job' = Job /\ Queued' = Queued /\ Placed' = Placed
      /\ Through' = Through /\ Outstanding' = Outstanding
  BY <1>1 DEF Stage, Job, Queued, Placed, Through, Outstanding, FirstPage,
     JobXfer, desc_num
<1>3. /\ ring[hw.base + hw.count] = Len(taken) + 1
      /\ running /\ hw.count \in 0..(hw.num - 1) /\ hw.num \in Nat
      /\ Len(taken) = Through + hw.count /\ ~hw.stopped /\ ~work
  BY <1>1, NextTaken
<1>4. taken \in Seq(Nat) /\ Len(taken) \in Nat
  BY DEF NbInv, NbTypes
<1>5. /\ taken' \in Seq(Nat) /\ Len(taken') = Len(taken) + 1
      /\ \A m \in 1..Len(taken) : taken'[m] = taken[m]
      /\ taken'[Len(taken) + 1] = Len(taken) + 1
  <2>1. Len(taken) + 1 \in Nat /\ taken' = Append(taken, Len(taken) + 1)
    BY <1>1, <1>3, <1>4
  <2> QED
    BY <1>4, <2>1, AppendProperties
<1> DEFINE last == hw.count + 1 = hw.num
<1>6. /\ hw'.count = hw.count + 1 /\ hw'.num = hw.num /\ hw'.base = hw.base
      /\ hw'.busy = ~last /\ hw'.err = hw.err
      /\ hw'.stopped = (hw.stopped \/ last) /\ hw' \in HwType
  <2>1. hw' = [hw EXCEPT !.count = hw.count + 1, !.busy = ~last,
                         !.stopped = hw.stopped \/ last]
    BY <1>1
  <2>2. hw \in HwType
    BY DEF NbInv, NbTypes
  <2>3. last \in BOOLEAN /\ hw.count + 1 \in Nat
    BY <2>2 DEF HwType
  <2> HIDE DEF last
  <2> QED
    BY <2>1, <2>2, <2>3 DEF HwType
<1>7. NbTypes'
  BY <1>1, <1>5, <1>6 DEF NbInv, NbTypes
<1>8. JobInv'
  BY <1>1, <1>2 DEF NbInv, JobInv, Submitting, JobXfer, desc_num, FirstPage
<1>9. ListInv'
  BY <1>1, <1>2 DEF NbInv, ListInv, FirstPage, FinalPage, desc_num
<1>10. FreeInv' /\ CountInv'
  BY <1>1, <1>2 DEF NbInv, FreeInv, CountInv, Counted
<1>11. HwInv'
  <2>1. /\ ~hw.err /\ running = (transfer_list # << >>)
        /\ hw.base = xfer[transfer_list[1]].idx
        /\ hw.num = desc_num(transfer_list[1]) /\ desc_dequeued = 0
    BY <1>3 DEF NbInv, HwInv
  <2>2. /\ ~hw'.err /\ running' = (transfer_list' # << >>) /\ running'
        /\ hw'.base = xfer'[transfer_list'[1]].idx /\ desc_dequeued' = 0
        /\ hw'.num = desc_num(transfer_list[1])'
    BY <1>1, <1>3, <1>6, <2>1 DEF desc_num
  <2>3. \/ /\ hw'.busy /\ ~hw'.stopped /\ ~work'
           /\ hw'.count \in 0..(hw'.num - 1)
        \/ ~hw'.busy /\ hw'.stopped /\ hw'.count = hw'.num
    <3>1. CASE last
      <4>1. hw'.count = hw'.num
        BY <1>6, <3>1
      <4>2. ~hw'.busy /\ hw'.stopped
        BY <1>6, <3>1
      <4> QED
        BY <4>1, <4>2
    <3>2. CASE ~last
      <4>1. hw.count + 1 \in 0..(hw.num - 1)
        BY <1>3, <3>2
      <4>2. hw'.count \in 0..(hw'.num - 1)
        BY <1>6, <4>1
      <4>3. hw'.busy /\ ~hw'.stopped /\ ~work'
        BY <1>1, <1>3, <1>6, <3>2
      <4> QED
        BY <4>2, <4>3
    <3> QED
      BY <3>1, <3>2
  <2>4. Len(taken') = Through' + hw'.count
    <3>1. Through \in Nat /\ hw.count \in Nat
      BY <1>3, PageCounts
    <3> QED
      BY <1>2, <1>3, <1>4, <1>5, <1>6, <3>1
  <2>5. \A m \in 1..Len(taken') : taken'[m] = m
    <3>1. \A m \in 1..Len(taken) : taken[m] = m
      BY DEF NbInv, HwInv
    <3> QED
      BY <1>4, <1>5, <3>1
  <2> QED
    BY <2>2, <2>3, <2>4, <2>5 DEF HwInv
<1>12. XferInv(b)' /\ RingInv(b)'
  BY <1>1, <1>2 DEF NbInv, XferInv, RingInv, FirstPage, FinalPage, desc_num,
     SlotOf, Wrap, Listed, JobXfer
<1>13. SessionInv'
  <2>1. ASSUME ~device_open PROVE FALSE
    <3>1. Stage = "idle" /\ Outstanding = {}
      BY <2>1 DEF NbInv, SessionInv
    <3>2. transfer_list # << >>
      BY <1>3 DEF NbInv, HwInv
    <3>3. /\ transfer_list[1][1] \in Reqs
          /\ "dma" \in held[transfer_list[1][1]]
      BY <3>2, HeadXfer, ListedXfer
    <3> QED
      BY <3>1, <3>3 DEF Outstanding
  <2> QED
    BY <1>1, <2>1 DEF SessionInv
<1> QED
  BY <1>7, <1>8, <1>9, <1>10, <1>11, <1>12, <1>13 DEF NbInv

-----------------------------------------------------------------------------
(* A request becomes one transfer, or two where the ring ends.             *)

(* The chain at desc_idx: the rest of the request unless the ring ends     *)
(* before, and then the next one starts at its beginning.                  *)
LEMMA NextChain ==
  ASSUME NonblockingConstants, NEW b \in 0..(DescMax - 1), NbInv(b),
         Stage = "init", NEW n, n = ChainLength(Job.pages)
  PROVE  /\ n \in 1..Len(Job.pages) /\ desc_idx + n <= DescMax
         /\ n < Len(Job.pages) =>
              desc_idx + n = DescMax /\ Job.k = 1
         /\ (desc_idx + n) % DescMax = IF desc_idx + n = DescMax THEN 0
                                       ELSE desc_idx + n
<1>1. Job.pages \in Seq(Nat) /\ desc_idx \in 0..(DescMax - 1)
  BY NbConstants DEF NbInv, NbTypes, Job
<1>2. /\ Len(Job.pages) \in Nat /\ next - 1 = Queued + Len(Job.pages)
      /\ Queued \in Nat /\ next - 1 <= DescMax
  BY PageCounts
<1>3. /\ Len(Job.pages) > 0 /\ Job.k \in {1, 2}
      /\ Job.k = 2 => desc_idx = 0
  BY DEF NbInv, JobInv, Submitting
<1>4. DescMax \in Nat \ {0}
  BY NbConstants
<1> DEFINE l == Len(Job.pages)
<1>5. l \in 1..DescMax
  BY <1>2, <1>3, <1>4
<1>6. n = IF desc_idx + l >= DescMax THEN DescMax - desc_idx ELSE l
  BY <1>4, <1>5 DEF ChainLength
<1> HIDE DEF l
<1>7. n \in 1..l /\ desc_idx + n <= DescMax
  BY <1>1, <1>4, <1>5, <1>6
<1>8. n < l => desc_idx + n = DescMax /\ Job.k = 1
  BY <1>1, <1>3, <1>4, <1>5, <1>6
<1>9. desc_idx + n \in 0..DescMax
  BY <1>1, <1>4, <1>5, <1>7
<1>10. (desc_idx + n) % DescMax = IF desc_idx + n = DescMax THEN 0
                                  ELSE desc_idx + n
  <2> DEFINE e == desc_idx + n
  <2>1. e \in Nat /\ (e = DescMax \/ e < DescMax)
    BY <1>4, <1>9
  <2> HIDE DEF e
  <2>2. DescMax % DescMax = 0
    BY <1>4, Modulo
  <2>3. e < DescMax => e % DescMax = e
    BY <1>4, <2>1, Modulo
  <2>4. e % DescMax = IF e = DescMax THEN 0 ELSE e
    BY <1>4, <2>1, <2>2, <2>3
  <2> QED
    BY <2>4 DEF e
<1> QED
  BY <1>7, <1>8, <1>10 DEF l

LEMMA InitNb ==
  ASSUME NonblockingConstants, NEW b \in 0..(DescMax - 1), NbInv(b),
         InitTransfer(Thread)
  PROVE  NbInv(b)'
<1> DEFINE n == ChainLength(Job.pages)
           ps == SubSeq(Job.pages, 1, n)
           t == JobXfer
           x == [state |-> "NEW", idx |-> desc_idx, cb |-> Nonblock,
                 pages |-> ps, last |-> n = Len(Job.pages)]
<1>1. /\ Stage = "init" /\ xfer' = [xfer EXCEPT ![t] = x]
      /\ ring' = [i \in DOMAIN ring |->
                    IF i \in desc_idx..(desc_idx + n - 1)
                    THEN Job.pages[i - desc_idx + 1] ELSE ring[i]]
      /\ desc_idx' = (desc_idx + n) % DescMax
      /\ pc' = [pc EXCEPT ![Thread] = "queue"]
      /\ UNCHANGED <<transfer_list, running, desc_dequeued, offline, hw,
                     work, taken, device_open, submit_cnt, cur, held, next>>
  BY DEF InitTransfer, TransferInit, Stage, Job, JobXfer
<1>2. /\ n \in 1..Len(Job.pages) /\ desc_idx + n <= DescMax
      /\ n < Len(Job.pages) => desc_idx + n = DescMax /\ Job.k = 1
      /\ desc_idx' = IF desc_idx + n = DescMax THEN 0 ELSE desc_idx + n
  BY <1>1, NextChain
<1>3. Job.pages \in Seq(Nat) /\ desc_idx \in 0..(DescMax - 1) /\ Job.k \in 1..3
  BY NbConstants DEF NbInv, NbTypes, Job
<1>4. /\ Len(Job.pages) \in Nat /\ next - 1 = Queued + Len(Job.pages)
      /\ Queued \in Nat /\ next - 1 <= DescMax /\ Placed = Queued
      /\ Through \in 0..Queued
  BY <1>1, PageCounts
<1>5. /\ Job.req \in Reqs /\ Job.k \in {1, 2} /\ "dma" \in held[Job.req]
      /\ \A j \in 1..Len(Job.pages) : Job.pages[j] = Queued + j
  BY <1>1 DEF NbInv, JobInv, Submitting
<1>6. t \in Xfers /\ t[1] = Job.req /\ t[2] = Job.k
  BY <1>5 DEF JobXfer, Xfers
<1>7. DescMax \in Nat \ {0} /\ Nonblock = TRUE
  BY NbConstants
<1> HIDE DEF n
<1>8. n \in Nat \ {0} /\ n <= Len(Job.pages)
  BY <1>2, <1>4
<1>9. /\ ps \in Seq(Nat) /\ Len(ps) = n
      /\ \A j \in 1..n : ps[j] = Queued + j
  <2>1. ps \in Seq(Nat) /\ Len(ps) = n
    BY <1>3, <1>4, <1>8, SubSeqProperties
  <2>2. \A j \in 1..n : ps[j] = Job.pages[j]
    BY <1>3, <1>4, <1>8, SubSeqProperties
  <2> QED
    BY <1>4, <1>5, <1>8, <2>1, <2>2
<1> HIDE DEF ps
<1>10. x \in XferType
  BY <1>3, <1>7, <1>9 DEF XferType
<1>11. /\ x.idx = desc_idx /\ x.cb /\ x.pages = ps
       /\ x.last <=> n = Len(Job.pages)
  BY <1>7
<1> HIDE DEF x
<1>12. /\ xfer' \in [Xfers -> XferType] /\ xfer'[t] = x
       /\ \A u \in Xfers \ {t} : xfer'[u] = xfer[u]
  BY <1>1, <1>6, <1>10 DEF NbInv, NbTypes
<1>13. /\ Stage' = "queue" /\ Job' = Job /\ Queued' = Queued /\ JobXfer' = t
       /\ Outstanding' = Outstanding
  BY <1>1, NbConstants DEF NbInv, NbTypes, Stage, Job, JobXfer, Queued,
     Outstanding
<1>14. ps # << >>
  BY <1>8, <1>9
<1>15. /\ desc_num(t)' = n /\ FirstPage(t)' = Queued + 1
       /\ FinalPage(t)' = Queued + n
  <2>1. t' = t
    BY <1>13
  <2>2. desc_num(t)' = n
    BY <1>9, <1>11, <1>12, <2>1 DEF desc_num
  <2>3. FirstPage(t)' = Queued + 1
    BY <1>8, <1>9, <1>11, <1>12, <2>1 DEF FirstPage
  <2> QED
    BY <1>4, <1>8, <2>2, <2>3 DEF FinalPage
<1>16. Placed' = Queued + n
  BY <1>13, <1>15 DEF Placed
<1>17. \A u \in Xfers : u # t =>
         /\ desc_num(u)' = desc_num(u) /\ FirstPage(u)' = FirstPage(u)
         /\ FinalPage(u)' = FinalPage(u)
  BY <1>12 DEF desc_num, FirstPage, FinalPage
<1>18. \A m \in DOMAIN transfer_list :
         transfer_list[m] \in Xfers /\ transfer_list[m] # t
  <2> SUFFICES ASSUME NEW m \in DOMAIN transfer_list
               PROVE  transfer_list[m] \in Xfers /\ transfer_list[m] # t
    OBVIOUS
  <2>1. /\ transfer_list[m] \in Xfers
        /\ transfer_list[m][1] = Job.req => transfer_list[m][2] < Job.k
    BY <1>1, ListedXfer
  <2> QED
    BY <1>5, <1>6, <2>1
<1> HIDE DEF t
<1>19. Through' = Through
  <2>1. CASE transfer_list = << >>
    BY <1>1, <1>13, <2>1 DEF Through
  <2>2. CASE transfer_list # << >>
    <3>1. 1 \in DOMAIN transfer_list
      BY <2>2, HeadXfer
    <3>2. FirstPage(transfer_list[1])' = FirstPage(transfer_list[1])
      BY <1>1, <1>12, <1>18, <3>1 DEF FirstPage
    <3> QED
      BY <1>1, <2>2, <3>2 DEF Through
  <2> QED
    BY <2>1, <2>2
<1>20. NbTypes'
  <2>1. ring' \in [0..(DescMax - 1) -> Nat]
    <3>1. ring \in [0..(DescMax - 1) -> Nat]
      BY DEF NbInv, NbTypes
    <3>2. ASSUME NEW i \in 0..(DescMax - 1),
                 i \in desc_idx..(desc_idx + n - 1)
          PROVE  Job.pages[i - desc_idx + 1] \in Nat
      <4>1. i - desc_idx + 1 \in 1..Len(Job.pages)
        BY <1>3, <1>4, <1>8, <3>2
      <4> QED
        BY <1>3, <4>1, SMTT(30)
    <3> QED
      BY <1>1, <3>1, <3>2
  <2>2. desc_idx' \in 0..(DescMax - 1)
    BY <1>2, <1>3, <1>7, <1>8
  <2>3. pc' \in [Procs -> {"idle", "submit", "init", "queue", "count", "poll",
                           "sleep"}]
    BY <1>1 DEF NbInv, NbTypes
  <2> QED
    BY <1>1, <1>12, <2>1, <2>2, <2>3 DEF NbInv, NbTypes
<1>21. JobInv'
  <2>1. /\ xfer'[t].cb /\ desc_num(t)' \in 1..Len(Job.pages)
        /\ FirstPage(t)' = Queued + 1
        /\ xfer'[t].last <=> desc_num(t)' = Len(Job.pages)
    BY <1>2, <1>11, <1>12, <1>15
  <2>2. ~xfer'[t].last => Job.k = 1 /\ desc_idx' = 0
    BY <1>2, <1>4, <1>8, <1>11, <1>12
  <2>3. Len(Job.pages) > 0
    BY <1>4, <1>8
  <2>4. /\ xfer'[JobXfer'].cb /\ desc_num(JobXfer)' \in 1..Len(Job.pages)
        /\ FirstPage(JobXfer)' = Queued + 1
        /\ xfer'[JobXfer'].last <=> desc_num(JobXfer)' = Len(Job.pages)
        /\ ~xfer'[JobXfer'].last => Job.k = 1 /\ desc_idx' = 0
    BY <1>13, <2>1, <2>2 DEF t
  <2> QED
    BY <1>1, <1>4, <1>5, <1>13, <2>3, <2>4 DEF JobInv, Submitting
<1>22. ListInv'
  <2>1. \A m \in DOMAIN transfer_list :
          /\ xfer'[transfer_list[m]] = xfer[transfer_list[m]]
          /\ desc_num(transfer_list[m])' = desc_num(transfer_list[m])
          /\ FirstPage(transfer_list[m])' = FirstPage(transfer_list[m])
          /\ FinalPage(transfer_list[m])' = FinalPage(transfer_list[m])
    BY <1>1, <1>12, <1>18 DEF desc_num, FirstPage, FinalPage
  <2>2. \A m \in DOMAIN transfer_list : m # Len(transfer_list) =>
          m + 1 \in DOMAIN transfer_list
    BY ListMembers DEF NbInv
  <2> QED
    BY <1>1, <1>13, <2>1, <2>2 DEF NbInv, ListInv
<1>23. FreeInv'
  <2> SUFFICES ASSUME NEW r \in Reqs, "dma" \notin held[r]
               PROVE  xfer'[<<r, 1>>].pages = << >> /\ xfer'[<<r, 2>>].pages = << >>
    BY <1>1 DEF FreeInv
  <2>1. <<r, 1>> \in Xfers /\ <<r, 2>> \in Xfers
    BY DEF Xfers
  <2>2. <<r, 1>> # t /\ <<r, 2>> # t
    BY <1>5, <1>6
  <2> QED
    BY <1>12, <2>1, <2>2 DEF NbInv, FreeInv
<1>24. HwInv'
  <2>1. transfer_list # << >> =>
          /\ xfer'[transfer_list[1]] = xfer[transfer_list[1]]
          /\ desc_num(transfer_list[1])' = desc_num(transfer_list[1])
    <3> SUFFICES ASSUME transfer_list # << >>
                 PROVE  /\ xfer'[transfer_list[1]] = xfer[transfer_list[1]]
                        /\ desc_num(transfer_list[1])' = desc_num(transfer_list[1])
      OBVIOUS
    <3>1. 1 \in DOMAIN transfer_list
      BY HeadXfer
    <3> QED
      BY <1>1, <1>12, <1>18, <3>1 DEF desc_num
  <2> QED
    BY <1>1, <1>19, <2>1 DEF NbInv, HwInv
<1>25. CountInv' /\ SessionInv'
  BY <1>1, <1>13 DEF NbInv, CountInv, Counted, SessionInv
<1>26. desc_idx = SlotOf(b, Queued + 1)
  BY <1>4 DEF NbInv, RingInv, SlotOf
<1>27. Queued + n <= DescMax /\ Queued + 1 \in 1..DescMax
  BY <1>4, <1>7, <1>8
<1>28. \A q \in (Queued + 1)..(Queued + n) :
         SlotOf(b, q) = desc_idx + (q - Queued - 1)
  <2> SUFFICES ASSUME NEW q \in (Queued + 1)..(Queued + n)
               PROVE  SlotOf(b, q) = desc_idx + (q - Queued - 1)
    OBVIOUS
  <2> DEFINE j == q - Queued - 1
  <2>1. j \in Nat /\ Queued + 1 + j = q /\ desc_idx + j < DescMax
    BY <1>2, <1>3, <1>4, <1>7, <1>8
  <2> QED
    BY <1>7, <1>26, <1>27, <2>1, SlotsFollow
<1>29. XferInv(b)'
  <2>1. x.idx = SlotOf(b, Queued + 1) /\ x.idx + n <= DescMax
    BY <1>2, <1>11, <1>26
  <2>2. \A j \in 1..n : ps[j] = (Queued + 1) + j - 1
    BY <1>4, <1>8, <1>9
  <2>3. ASSUME NEW u \in Xfers, xfer'[u].pages # << >>, u # t
        PROVE  /\ FirstPage(u)' >= 1 /\ FinalPage(u)' <= Placed'
               /\ \A j \in 1..desc_num(u)' :
                    xfer'[u].pages[j] = FirstPage(u)' + j - 1
               /\ xfer'[u].idx = SlotOf(b, FirstPage(u)')
               /\ xfer'[u].idx + desc_num(u)' <= DescMax
               /\ Listed(u)' \/ FinalPage(u)' <= Through'
    <3>1. /\ xfer'[u] = xfer[u] /\ desc_num(u)' = desc_num(u)
          /\ FirstPage(u)' = FirstPage(u) /\ FinalPage(u)' = FinalPage(u)
      BY <1>12, <1>17, <2>3
    <3>2. Listed(u)' = Listed(u)
      BY <1>1 DEF Listed
    <3>3. /\ FirstPage(u) >= 1 /\ FinalPage(u) <= Placed
          /\ \A j \in 1..desc_num(u) : xfer[u].pages[j] = FirstPage(u) + j - 1
          /\ xfer[u].idx = SlotOf(b, FirstPage(u))
          /\ xfer[u].idx + desc_num(u) <= DescMax
          /\ Listed(u) \/ FinalPage(u) <= Through
      BY <1>1, <2>3, <3>1 DEF NbInv, XferInv
    <3>4. FinalPage(u) \in Nat
      BY <2>3, <3>1, XferPages
    <3>5. FinalPage(u) <= Placed'
      BY <1>4, <1>8, <1>16, <3>3, <3>4
    <3> QED
      BY <1>19, <3>1, <3>2, <3>3, <3>5
  <2>4. /\ FirstPage(t)' >= 1 /\ FinalPage(t)' <= Placed'
        /\ \A j \in 1..desc_num(t)' : xfer'[t].pages[j] = FirstPage(t)' + j - 1
        /\ xfer'[t].idx = SlotOf(b, FirstPage(t)')
        /\ xfer'[t].idx + desc_num(t)' <= DescMax
    BY <1>4, <1>8, <1>11, <1>12, <1>15, <1>16, <2>1, <2>2
  <2> QED
    BY <1>13, <2>3, <2>4 DEF XferInv, SlotOf, Wrap, t
<1>30. RingInv(b)'
  <2>1. desc_idx' = Wrap(b + Placed')
    <3>1. desc_idx = Wrap(b + Queued) /\ Placed' = Queued + n
      BY <1>4, <1>16 DEF NbInv, RingInv
    <3> QED
      BY <1>2, <1>4, <1>7, <1>8, <1>27, <3>1 DEF Wrap
  <2>2. ASSUME NEW q \in (Through + 1)..(Queued + n)
        PROVE  ring'[SlotOf(b, q)] = q
    <3>1. q \in Nat /\ q \in 1..DescMax
      BY <1>4, <1>7, <1>8, <1>27
    <3>2. SlotOf(b, q) \in 0..(DescMax - 1) /\ DOMAIN ring = 0..(DescMax - 1)
      BY <1>7, <3>1, SlotsApart DEF NbInv, NbTypes
    <3>3. CASE q <= Queued
      <4>1. ring[SlotOf(b, q)] = q
        <5>1. q \in (Through + 1)..Placed
          BY <1>4, <2>2, <3>1, <3>3
        <5> QED
          BY <5>1 DEF NbInv, RingInv
      <4>2. SlotOf(b, q) \notin desc_idx..(desc_idx + n - 1)
        <5> SUFFICES ASSUME SlotOf(b, q) \in desc_idx..(desc_idx + n - 1)
                     PROVE  FALSE
          OBVIOUS
        <5> DEFINE s == SlotOf(b, q) - desc_idx + Queued + 1
        <5>1. s \in (Queued + 1)..(Queued + n) /\ s \in 1..DescMax
          <6> DEFINE w == SlotOf(b, q)
          <6>1. w \in Int /\ desc_idx <= w /\ w <= desc_idx + n - 1
            BY <3>2
          <6> HIDE DEF w
          <6>2. w - desc_idx + Queued + 1 \in (Queued + 1)..(Queued + n)
            BY <1>3, <1>4, <1>8, <6>1
          <6>3. s \in (Queued + 1)..(Queued + n)
            BY <6>2 DEF w
          <6> HIDE DEF s
          <6> QED
            BY <1>4, <1>7, <1>8, <1>27, <6>3
        <5>2. SlotOf(b, s) = SlotOf(b, q)
          BY <1>3, <1>4, <1>28, <3>2, <5>1
        <5>3. s = q
          BY <1>7, <3>1, <5>1, <5>2, SlotsApart
        <5> QED
          BY <1>4, <3>3, <5>1, <5>3
      <4> QED
        BY <1>1, <3>2, <4>1, <4>2
    <3>4. CASE q > Queued
      <4> DEFINE s == SlotOf(b, q)
      <4>1. q \in (Queued + 1)..(Queued + n)
        BY <1>4, <1>8, <3>1, <3>4
      <4>2. s = desc_idx + (q - Queued - 1)
        BY <1>28, <4>1
      <4>3. /\ s \in desc_idx..(desc_idx + n - 1)
            /\ s - desc_idx + 1 = q - Queued
            /\ q - Queued \in 1..Len(Job.pages)
        BY <1>3, <1>4, <1>8, <4>1, <4>2
      <4>4. ring'[s] = Job.pages[s - desc_idx + 1]
        BY <1>1, <3>2, <4>3
      <4>5. Job.pages[q - Queued] = Queued + (q - Queued)
        BY <1>5, <4>3
      <4> HIDE DEF s
      <4> QED
        BY <1>4, <3>1, <4>3, <4>4, <4>5, SMTT(30) DEF s
    <3> QED
      BY <1>4, <3>1, <3>3, <3>4
  <2> QED
    BY <1>16, <1>19, <2>1, <2>2 DEF RingInv, SlotOf, Wrap
<1> QED
  BY <1>20, <1>21, <1>22, <1>23, <1>24, <1>25, <1>29, <1>30 DEF NbInv

(* A change of state leaves the pages of every transfer. *)
LEMMA StateChanged ==
  ASSUME NEW t \in Xfers, xfer \in [Xfers -> XferType],
         NEW s \in {"NEW", "SUBMITTED", "COMPLETED", "FAILED"},
         xfer' = [xfer EXCEPT ![t].state = s]
  PROVE  /\ xfer' \in [Xfers -> XferType]
         /\ \A u \in Xfers :
              /\ xfer'[u].pages = xfer[u].pages /\ xfer'[u].idx = xfer[u].idx
              /\ xfer'[u].cb = xfer[u].cb /\ xfer'[u].last = xfer[u].last
              /\ desc_num(u)' = desc_num(u) /\ FirstPage(u)' = FirstPage(u)
              /\ FinalPage(u)' = FinalPage(u)
<1>1. xfer[t] \in XferType
  OBVIOUS
<1>2. [xfer[t] EXCEPT !.state = s] \in XferType
  BY <1>1 DEF XferType
<1>3. xfer' \in [Xfers -> XferType]
  BY <1>2
<1>4. \A u \in Xfers :
        /\ xfer'[u].pages = xfer[u].pages /\ xfer'[u].idx = xfer[u].idx
        /\ xfer'[u].cb = xfer[u].cb /\ xfer'[u].last = xfer[u].last
  BY <1>1 DEF XferType
<1> QED
  BY <1>3, <1>4 DEF desc_num, FirstPage, FinalPage

LEMMA QueueNb ==
  ASSUME NonblockingConstants, NEW b \in 0..(DescMax - 1), NbInv(b),
         QueueTransfer(Thread)
  PROVE  NbInv(b)'
<1>0. PICK t, n, l : t = JobXfer /\ n = desc_num(t) /\ l = Len(transfer_list)
  OBVIOUS
<1> DEFINE rest == SubSeq(Job.pages, n + 1, Len(Job.pages))
<1>1. /\ Stage = "queue" /\ xfer' = [xfer EXCEPT ![t].state = "SUBMITTED"]
      /\ transfer_list' = Append(transfer_list, t) /\ running' = TRUE
      /\ IF running THEN UNCHANGED <<hw, desc_dequeued>>
         ELSE hw' = HwRun(hw, Head(transfer_list')) /\ desc_dequeued' = 0
      /\ cur' = [cur EXCEPT ![Thread].pages = rest, ![Thread].k = @ + 1]
      /\ pc' = [pc EXCEPT ![Thread] = IF rest = << >> THEN "count" ELSE "init"]
      /\ UNCHANGED <<ring, desc_idx, offline, work, taken, device_open,
                     submit_cnt, held, next>>
  BY <1>0, NbConstants DEF QueueTransfer, TransferQueue, Stage, Job, JobXfer, Rest
<1>2. /\ Job.req \in Reqs /\ Job.k \in {1, 2} /\ "dma" \in held[Job.req]
      /\ \A j \in 1..Len(Job.pages) : Job.pages[j] = Queued + j
      /\ xfer[t].cb /\ n \in 1..Len(Job.pages) /\ FirstPage(t) = Queued + 1
      /\ xfer[t].last <=> n = Len(Job.pages)
      /\ ~xfer[t].last => Job.k = 1 /\ desc_idx = 0
  BY <1>0, <1>1 DEF NbInv, JobInv, Submitting
<1>3. t \in Xfers /\ t[1] = Job.req /\ t[2] = Job.k
  BY <1>0, <1>2 DEF JobXfer, Xfers
<1>4. /\ Len(Job.pages) \in Nat /\ next - 1 = Queued + Len(Job.pages)
      /\ Queued \in Nat /\ Through \in 0..Queued
  BY <1>1, PageCounts
<1>5. Job.pages \in Seq(Nat) /\ xfer \in [Xfers -> XferType]
  BY NbConstants DEF NbInv, NbTypes, Job
<1>6. Placed = Queued + n
  BY <1>0, <1>1 DEF Placed
<1>7. /\ xfer' \in [Xfers -> XferType]
      /\ \A u \in Xfers :
           /\ xfer'[u].pages = xfer[u].pages /\ xfer'[u].idx = xfer[u].idx
           /\ xfer'[u].cb = xfer[u].cb /\ xfer'[u].last = xfer[u].last
           /\ desc_num(u)' = desc_num(u) /\ FirstPage(u)' = FirstPage(u)
           /\ FinalPage(u)' = FinalPage(u)
  BY <1>1, <1>3, <1>5, StateChanged
<1>8. n \in Nat \ {0} /\ n <= Len(Job.pages)
  BY <1>2, <1>4
<1>9. /\ rest \in Seq(Nat) /\ Len(rest) = Len(Job.pages) - n
      /\ \A j \in 1..Len(rest) : rest[j] = Job.pages[n + j]
  <2>1. n + 1 \in 1..(Len(Job.pages) + 1)
    BY <1>4, <1>8
  <2>2. rest \in Seq(Nat)
    BY <1>4, <1>5, <1>8, SubSeqNat
  <2>3. Len(rest) = Len(Job.pages) - n
    BY <1>4, <1>5, <1>8, <2>1, SubSeqProperties
  <2>4. \A j \in 1..Len(rest) : rest[j] = Job.pages[n + j]
    <3> SUFFICES ASSUME NEW j \in 1..Len(rest) PROVE rest[j] = Job.pages[n + j]
      OBVIOUS
    <3>1. j \in 1..(Len(Job.pages) - (n + 1) + 1)
      BY <1>4, <1>8, <2>3
    <3>2. rest[j] = Job.pages[(n + 1) + j - 1]
      BY <1>4, <1>5, <1>8, <2>1, <3>1, SubSeqProperties
    <3>3. (n + 1) + j - 1 = n + j
      BY <1>8, <2>3, <1>4
    <3> QED
      BY <3>2, <3>3
  <2> QED
    BY <2>2, <2>3, <2>4
<1>10. rest = << >> <=> n = Len(Job.pages)
  <2>1. rest = << >> => Len(rest) = 0
    BY EmptySeq, Zenon
  <2>2. rest # << >> => Len(rest) \in Nat \ {0}
    BY <1>9, EmptySeq
  <2> QED
    BY <1>4, <1>8, <1>9, <2>1, <2>2
<1> HIDE DEF rest
<1>11. /\ Stage' = IF rest = << >> THEN "count" ELSE "init"
       /\ Job'.pages = rest /\ Job'.k = Job.k + 1 /\ Job'.req = Job.req
  BY <1>1, NbConstants DEF NbInv, NbTypes, Stage, Job
<1>12. Queued' = Queued + n /\ Placed' = Placed
  <2>1. Queued' = next - 1 - (Len(Job.pages) - n)
    BY <1>1, <1>9, <1>11 DEF Queued
  <2>2. Queued' = Queued + n
    BY <1>4, <1>8, <2>1
  <2> QED
    BY <1>4, <1>6, <1>8, <1>11, <2>2 DEF Placed
<1>13. FinalPage(t) = Queued + n /\ xfer[t].pages # << >>
  <2>1. desc_num(t) = n
    BY <1>0
  <2>2. FinalPage(t) = Queued + n
    BY <1>2, <1>4, <1>8, <2>1 DEF FinalPage
  <2>3. Len(xfer[t].pages) = n
    BY <2>1 DEF desc_num
  <2> QED
    BY <1>3, <1>5, <1>8, <2>2, <2>3, EmptySeq
<1> DEFINE L == transfer_list
<1>14. /\ L \in Seq(Xfers) /\ l \in Nat /\ DOMAIN L = 1..l
       /\ \A m \in DOMAIN L : L[m] \in Xfers
  BY <1>0, ListMembers DEF NbInv
<1>15. /\ L' \in Seq(Xfers) /\ Len(L') = l + 1 /\ DOMAIN L' = 1..(l + 1)
       /\ \A m \in 1..l : L'[m] = L[m]
       /\ L'[l + 1] = t /\ L' # << >>
  BY <1>0, <1>1, <1>3, <1>14, AppendProperties
<1>16. Head(L') = L'[1]
  BY <1>15
<1>17. Through' = Through
  <2>1. Through' = xfer[L'[1]].pages[1] - 1
    <3>1. L'[1] \in Xfers
      BY <1>14, <1>15
    <3>2. xfer'[L'[1]].pages = xfer[L'[1]].pages
      BY <1>7, <3>1
    <3> QED
      BY <1>15, <3>2 DEF Through, FirstPage
  <2>2. CASE L = << >>
    <3>1. l = 0
      BY <1>0, <2>2, EmptySeq, Zenon
    <3>2. L'[1] = t
      BY <1>15, <3>1
    <3> QED
      <4>1. xfer[L'[1]].pages[1] = Queued + 1
        BY <1>2, <3>2 DEF FirstPage
      <4>2. Through = Queued
        BY <2>2 DEF Through
      <4> QED
        BY <1>4, <2>1, <4>1, <4>2
  <2>3. CASE L # << >>
    <3>1. 1 \in DOMAIN L
      BY <2>3, HeadXfer
    <3>2. L'[1] = L[1]
      BY <1>14, <1>15, <3>1
    <3> QED
      BY <2>1, <2>3, <3>2 DEF Through, FirstPage
  <2> QED
    BY <2>2, <2>3
<1>18. NbTypes'
  <2>1. cur' \in [Procs -> [req : Reqs \cup {"none"}, pages : Seq(Nat), k : 1..3,
                            done : Seq(Nat)]]
    <3>1. cur \in [Procs -> [req : Reqs \cup {"none"}, pages : Seq(Nat), k : 1..3,
                            done : Seq(Nat)]]
      BY DEF NbInv, NbTypes
    <3>2. Job.k + 1 \in 1..3
      BY <1>2
    <3>3. cur' = [cur EXCEPT ![Thread] = [@ EXCEPT !.pages = rest,
                                                   !.k = Job.k + 1]]
      BY <1>1, <3>1, NbConstants DEF Job
    <3>4. cur[Thread] \in [req : Reqs \cup {"none"}, pages : Seq(Nat), k : 1..3,
                           done : Seq(Nat)]
      BY <3>1, NbConstants
    <3>5. [cur[Thread] EXCEPT !.pages = rest, !.k = Job.k + 1] \in
            [req : Reqs \cup {"none"}, pages : Seq(Nat), k : 1..3,
             done : Seq(Nat)]
      BY <1>9, <3>2, <3>4
    <3> QED
      BY <3>1, <3>3, <3>5
  <2>2. hw' \in HwType /\ desc_dequeued' \in Int
    <3>1. L'[1] \in Xfers
      BY <1>14, <1>15
    <3>2. HwRun(hw, Head(L')) \in HwType
      BY <1>5, <1>16, <3>1, HwSteps DEF NbInv, NbTypes
    <3> QED
      BY <1>1, <3>2 DEF NbInv, NbTypes
  <2>3. pc' \in [Procs -> {"idle", "submit", "init", "queue", "count", "poll",
                           "sleep"}]
    BY <1>1 DEF NbInv, NbTypes
  <2> QED
    BY <1>1, <1>7, <1>15, <2>1, <2>2, <2>3 DEF NbInv, NbTypes
<1>19. JobInv'
  <2>1. CASE rest = << >>
    BY <1>4, <1>8, <1>11, <1>12, <2>1 DEF JobInv, Submitting
  <2>2. CASE rest # << >>
    <3>1. Job.k = 1 /\ desc_idx = 0
      BY <1>2, <1>10, <2>2
    <3>2. Len(rest) > 0
      BY <1>9, <2>2, EmptySeq
    <3>3. ASSUME NEW j \in 1..Len(rest) PROVE rest[j] = (Queued + n) + j
      <4>1. n + j \in 1..Len(Job.pages)
        BY <1>4, <1>8, <1>9, SMTT(30)
      <4>2. Job.pages[n + j] = Queued + (n + j)
        BY <1>2, <4>1
      <4> QED
        BY <1>4, <1>8, <1>9, <4>2
    <3> QED
      BY <1>1, <1>2, <1>4, <1>8, <1>11, <1>12, <2>2, <3>1, <3>2, <3>3
      DEF JobInv, Submitting
  <2> QED
    BY <2>1, <2>2
<1>20. ListInv'
  <2>1. ASSUME NEW m \in 1..l
        PROVE  /\ L'[m] = L[m] /\ L[m] \in Xfers /\ m \in DOMAIN L
               /\ xfer[L[m]].pages # << >> /\ xfer[L[m]].cb
               /\ "dma" \in held[L[m][1]] /\ FinalPage(L[m]) <= Queued
               /\ L[m][1] = Job.req => ~xfer[L[m]].last /\ L[m][2] < Job.k
               /\ FinalPage(L[m]) \in Nat
    <3>1. m \in DOMAIN L /\ L'[m] = L[m]
      BY <1>14, <1>15
    <3>2. /\ L[m] \in Xfers /\ xfer[L[m]].pages # << >> /\ xfer[L[m]].cb
          /\ "dma" \in held[L[m][1]] /\ FinalPage(L[m]) <= Queued
          /\ L[m][1] = Job.req => ~xfer[L[m]].last /\ L[m][2] < Job.k
      BY <1>1, <3>1, ListedXfer
    <3>3. FinalPage(L[m]) \in Nat
      BY <3>2, XferPages
    <3> QED
      BY <3>1, <3>2, <3>3
  <2>2. ASSUME NEW m \in 1..l
        PROVE  /\ FirstPage(transfer_list[m])' = FirstPage(L[m])
               /\ FinalPage(transfer_list[m])' = FinalPage(L[m])
               /\ xfer'[L'[m]].pages = xfer[L[m]].pages
               /\ xfer'[L'[m]].cb = xfer[L[m]].cb
               /\ xfer'[L'[m]].last = xfer[L[m]].last
    BY <1>7, <2>1 DEF FirstPage, FinalPage, desc_num
  <2>3. /\ FirstPage(transfer_list[l + 1])' = Queued + 1
        /\ FinalPage(transfer_list[l + 1])' = Queued'
        /\ xfer'[L'[l + 1]].pages # << >> /\ xfer'[L'[l + 1]].cb
        /\ xfer'[L'[l + 1]].last <=> rest = << >>
    <3>1. L'[l + 1] = t
      BY <1>15
    <3>2. /\ xfer'[t].pages = xfer[t].pages /\ xfer'[t].cb = xfer[t].cb
          /\ xfer'[t].last = xfer[t].last
      BY <1>3, <1>7
    <3>3. /\ FirstPage(transfer_list[l + 1])' = FirstPage(t)
          /\ FinalPage(transfer_list[l + 1])' = FinalPage(t)
      BY <3>1, <3>2 DEF FirstPage, FinalPage, desc_num
    <3> QED
      BY <1>2, <1>10, <1>12, <1>13, <3>1, <3>2, <3>3
  <2>4. ASSUME NEW m \in 1..(l + 1)
        PROVE  /\ xfer'[L'[m]].cb /\ xfer'[L'[m]].pages # << >>
               /\ "dma" \in held'[L'[m][1]]
               /\ FinalPage(transfer_list[m])' <= Queued'
               /\ Stage' \in {"init", "queue"} /\ L'[m][1] = Job'.req =>
                    ~xfer'[L'[m]].last /\ L'[m][2] < Job'.k
    <3>1. CASE m \in 1..l
      <4>1. L[m][1] = Job.req => L[m][2] < Job.k + 1
        <5>1. L[m][2] \in {1, 2}
          BY <2>1, <3>1 DEF Xfers
        <5> QED
          BY <1>2, <2>1, <3>1, <5>1
      <4>2. FinalPage(transfer_list[m])' <= Queued'
        BY <1>4, <1>8, <1>12, <2>1, <2>2, <3>1
      <4>3. /\ xfer'[L'[m]].cb /\ xfer'[L'[m]].pages # << >>
            /\ "dma" \in held'[L'[m][1]]
        BY <1>1, <2>1, <2>2, <3>1
      <4>4. L'[m][1] = Job'.req => ~xfer'[L'[m]].last /\ L'[m][2] < Job'.k
        BY <1>11, <2>1, <2>2, <3>1, <4>1
      <4> QED
        BY <4>2, <4>3, <4>4
    <3>2. CASE m = l + 1
      <4>1. L'[m] = t /\ t[2] < Job.k + 1
        BY <1>2, <1>3, <1>15, <3>2
      <4>2. FinalPage(transfer_list[m])' <= Queued'
        BY <1>4, <1>8, <1>12, <2>3, <3>2
      <4> QED
        BY <1>1, <1>2, <1>3, <1>11, <2>3, <3>2, <4>1, <4>2
    <3> QED
      BY <1>14, <3>1, <3>2
  <2>5. ASSUME NEW m \in 1..(l + 1), NEW k \in 1..(l + 1), m < k
        PROVE  /\ FinalPage(transfer_list[m])' < FirstPage(transfer_list[k])'
               /\ L'[m][1] = L'[k][1] => ~xfer'[L'[m]].last
    <3>1. m \in 1..l
      BY <1>14, <2>5
    <3>2. CASE k \in 1..l
      <4>1. /\ FinalPage(L[m]) < FirstPage(L[k])
            /\ L[m][1] = L[k][1] => ~xfer[L[m]].last
        BY <1>14, <2>5, <3>1, <3>2 DEF NbInv, ListInv
      <4> QED
        BY <2>1, <2>2, <3>1, <3>2, <4>1
    <3>3. CASE k = l + 1
      <4>1. FinalPage(L[m]) < Queued + 1
        BY <1>4, <2>1, <3>1
      <4> QED
        BY <1>3, <1>15, <2>1, <2>2, <2>3, <3>1, <3>3, <4>1
    <3> QED
      BY <1>14, <3>2, <3>3
  <2>6. ASSUME NEW m \in 1..(l + 1)
        PROVE  FinalPage(transfer_list[m])' =
                 IF m = l + 1 THEN Queued'
                 ELSE FirstPage(transfer_list[m + 1])' - 1
    <3>1. CASE m = l + 1
      BY <2>3, <3>1
    <3>2. CASE m \in 1..l /\ m # l
      <4>1. FinalPage(L[m]) = FirstPage(L[m + 1]) - 1
        BY <1>0, <1>14, <3>2 DEF NbInv, ListInv
      <4>2. m + 1 \in 1..l /\ m # l + 1
        BY <1>14, <3>2
      <4> QED
        BY <2>2, <3>2, <4>1, <4>2
    <3>3. CASE m \in 1..l /\ m = l
      <4>1. FinalPage(L[m]) = Queued
        BY <1>0, <1>14, <3>3 DEF NbInv, ListInv
      <4>2. m # l + 1
        BY <1>14, <3>3
      <4> QED
        BY <1>4, <2>2, <2>3, <3>3, <4>1, <4>2
    <3> QED
      BY <1>14, <3>1, <3>2, <3>3
  <2> QED
    BY <1>15, <2>4, <2>5, <2>6 DEF ListInv
<1>21. FreeInv'
  <2> SUFFICES ASSUME NEW r \in Reqs, "dma" \notin held[r]
               PROVE  /\ xfer'[<<r, 1>>].pages = << >>
                      /\ xfer'[<<r, 2>>].pages = << >>
    BY <1>1 DEF FreeInv
  <2>1. <<r, 1>> \in Xfers /\ <<r, 2>> \in Xfers
    BY DEF Xfers
  <2> QED
    BY <1>7, <2>1 DEF NbInv, FreeInv
<1>22. HwInv'
  <2>1. running' = (L' # << >>) /\ running'
    BY <1>1, <1>15
  <2>2. ~hw.err /\ running = (L # << >>)
    BY DEF NbInv, HwInv
  <2>3. CASE running
    <3>1. L # << >> /\ 1 \in DOMAIN L
      BY <2>2, <2>3, HeadXfer
    <3>2. L'[1] = L[1] /\ L[1] \in Xfers
      BY <1>14, <1>15, <3>1
    <3>3. /\ xfer'[L'[1]].idx = xfer[L[1]].idx
          /\ desc_num(transfer_list[1])' = desc_num(L[1])
      BY <1>7, <3>2 DEF desc_num
    <3>4. hw' = hw /\ desc_dequeued' = desc_dequeued /\ work' = work
      BY <1>1, <2>3
    <3> QED
      <4>1. /\ hw.base = xfer[L[1]].idx /\ hw.num = desc_num(L[1])
            /\ desc_dequeued = 0
            /\ \/ /\ hw.busy /\ ~hw.stopped /\ ~work
                  /\ hw.count \in 0..(hw.num - 1)
               \/ ~hw.busy /\ hw.stopped /\ hw.count = hw.num
            /\ Len(taken) = Through + hw.count
            /\ \A m \in 1..Len(taken) : taken[m] = m
        BY <2>3 DEF NbInv, HwInv
      <4>2. /\ hw'.base = xfer'[L'[1]].idx
            /\ hw'.num = desc_num(transfer_list[1])' /\ desc_dequeued' = 0
        BY <3>3, <3>4, <4>1
      <4>3. Len(taken') = Through' + hw'.count /\ taken' = taken
        BY <1>1, <1>17, <3>4, <4>1
      <4> QED
        BY <2>1, <2>2, <3>4, <4>1, <4>2, <4>3 DEF HwInv
  <2>4. CASE ~running
    <3>1. L = << >> /\ ~hw.stopped /\ ~work
      BY <2>2, <2>4 DEF NbInv, HwInv
    <3>2. l = 0
      BY <1>0, <3>1, EmptySeq, Zenon
    <3>3. L'[1] = t
      BY <1>15, <3>2
    <3>4. /\ hw' = HwRun(hw, t) /\ desc_dequeued' = 0 /\ work' = work
          /\ taken' = taken
      BY <1>1, <1>16, <2>4, <3>3
    <3>5. /\ hw'.busy /\ hw'.base = xfer[t].idx /\ hw'.num = n
          /\ hw'.count = 0 /\ hw'.stopped = hw.stopped /\ hw'.err = hw.err
      <4>1. hw \in HwType
        BY DEF NbInv, NbTypes
      <4> QED
        BY <1>0, <3>4, <4>1 DEF HwRun, HwType
    <3>6. /\ xfer'[L'[1]].idx = xfer[t].idx
          /\ desc_num(transfer_list[1])' = n
      BY <1>0, <1>3, <1>7, <3>3 DEF desc_num
    <3>7. hw'.count \in 0..(hw'.num - 1)
      BY <1>8, <3>5
    <3>8. Len(taken) = Through /\ \A m \in 1..Len(taken) : taken[m] = m
      BY <1>4, <2>4 DEF NbInv, HwInv
    <3>9. Len(taken') = Through' + hw'.count
      BY <1>4, <1>17, <3>4, <3>5, <3>8
    <3>10. hw'.busy /\ ~hw'.stopped /\ ~work' /\ ~hw'.err
      BY <2>2, <3>1, <3>4, <3>5
    <3> QED
      BY <2>1, <3>4, <3>5, <3>6, <3>7, <3>8, <3>9, <3>10 DEF HwInv
  <2> QED
    BY <2>3, <2>4
<1>23. Outstanding' = Outstanding /\ submit_cnt' = submit_cnt
  BY <1>1 DEF Outstanding
<1>24. CountInv'
  BY <1>1, <1>11, <1>23 DEF NbInv, CountInv, Counted
<1>25. SessionInv'
  BY <1>1 DEF NbInv, SessionInv
<1>26. XferInv(b)'
  <2> SUFFICES ASSUME NEW u \in Xfers, xfer'[u].pages # << >>
        PROVE  /\ FirstPage(u)' >= 1 /\ FinalPage(u)' <= Placed'
               /\ \A j \in 1..desc_num(u)' :
                    xfer'[u].pages[j] = FirstPage(u)' + j - 1
               /\ xfer'[u].idx = SlotOf(b, FirstPage(u)')
               /\ xfer'[u].idx + desc_num(u)' <= DescMax
               /\ Listed(u)' \/ FinalPage(u)' <= Through'
    BY DEF XferInv, SlotOf, Wrap
  <2>1. /\ FirstPage(u) >= 1 /\ FinalPage(u) <= Placed
        /\ \A j \in 1..desc_num(u) : xfer[u].pages[j] = FirstPage(u) + j - 1
        /\ xfer[u].idx = SlotOf(b, FirstPage(u))
        /\ xfer[u].idx + desc_num(u) <= DescMax
        /\ Listed(u) \/ u = t \/ FinalPage(u) <= Through
    BY <1>0, <1>7 DEF NbInv, XferInv
  <2>2. Listed(u) => Listed(u)'
    BY <1>14, <1>15 DEF Listed
  <2>3. u = t => Listed(u)'
    BY <1>14, <1>15 DEF Listed
  <2> QED
    BY <1>7, <1>12, <1>17, <2>1, <2>2, <2>3
<1>27. RingInv(b)'
  BY <1>1, <1>12, <1>17 DEF NbInv, RingInv, SlotOf, Wrap
<1> QED
  BY <1>18, <1>19, <1>20, <1>21, <1>22, <1>24, <1>25, <1>26, <1>27 DEF NbInv

-----------------------------------------------------------------------------
(* engine_service_work takes the head off the list.                        *)

LEMMA ServiceList ==
  ASSUME NonblockingConstants, NEW b \in 0..(DescMax - 1), NbInv(b),
         transfer_list # << >>, transfer_list' = Tail(transfer_list),
         UNCHANGED <<cur, next>>,
         Stage' = Stage \/ (Stage = "sleep" /\ Stage' = "poll"),
         \A m \in 2..Len(transfer_list) :
           /\ "dma" \in held'[transfer_list[m][1]]
           /\ xfer'[transfer_list[m]].pages = xfer[transfer_list[m]].pages
           /\ xfer'[transfer_list[m]].cb = xfer[transfer_list[m]].cb
           /\ xfer'[transfer_list[m]].last = xfer[transfer_list[m]].last,
         Stage = "queue" => xfer'[JobXfer].pages = xfer[JobXfer].pages
  PROVE  /\ Queued' = Queued /\ Placed' = Placed
         /\ Through' = FinalPage(transfer_list[1]) /\ ListInv'
         /\ transfer_list' \in Seq(Xfers)
         /\ \A u : (\E m \in 2..Len(transfer_list) : transfer_list[m] = u) =>
                  Listed(u)'
         /\ transfer_list' # << >> =>
              2 \in DOMAIN transfer_list /\ transfer_list'[1] = transfer_list[2]
<1>1. PICK l : l = Len(transfer_list)
  OBVIOUS
<1> DEFINE L == transfer_list
<1>2. /\ L \in Seq(Xfers) /\ l \in Nat \ {0} /\ DOMAIN L = 1..l
      /\ \A m \in 1..l : L[m] \in Xfers
  BY <1>1, ListMembers DEF NbInv
<1>3. /\ L' \in Seq(Xfers) /\ Len(L') = l - 1 /\ DOMAIN L' = 1..(l - 1)
      /\ \A m \in 1..(l - 1) : L'[m] = L[m + 1]
  BY <1>1, <1>2, HeadTailProperties
<1>4. Job' = Job /\ JobXfer' = JobXfer /\ Queued' = Queued
  BY DEF Job, JobXfer, Queued
<1>5. Queued \in Nat
  BY PageCounts
<1>6. Placed' = Placed
  BY <1>4 DEF Placed, desc_num
<1>7. ASSUME NEW m \in 1..(l - 1)
      PROVE  /\ m + 1 \in 1..l /\ m + 1 \in 2..l /\ L'[m] = L[m + 1]
             /\ "dma" \in held'[L'[m][1]]
             /\ xfer'[L'[m]].cb = xfer[L[m + 1]].cb
             /\ xfer'[L'[m]].pages = xfer[L[m + 1]].pages
             /\ xfer'[L'[m]].last = xfer[L[m + 1]].last
             /\ FirstPage(transfer_list[m])' = FirstPage(L[m + 1])
             /\ FinalPage(transfer_list[m])' = FinalPage(L[m + 1])
  <2>1. m + 1 \in 1..l /\ m + 1 \in 2..l /\ L'[m] = L[m + 1]
    BY <1>2, <1>3
  <2>2. /\ "dma" \in held'[L'[m][1]]
        /\ xfer'[L'[m]].cb = xfer[L[m + 1]].cb
        /\ xfer'[L'[m]].pages = xfer[L[m + 1]].pages
        /\ xfer'[L'[m]].last = xfer[L[m + 1]].last
    BY <1>1, <2>1
  <2> QED
    BY <2>1, <2>2 DEF FirstPage, FinalPage, desc_num
<1>8. Through' = FinalPage(L[1])
  <2>1. CASE l = 1
    <3>1. FinalPage(L[1]) = Queued
      BY <1>1, <1>2, <2>1 DEF NbInv, ListInv
    <3>2. L' = << >>
      BY <1>3, <2>1, EmptySeq
    <3> QED
      BY <1>4, <3>1, <3>2 DEF Through
  <2>2. CASE l # 1
    <3>1. 1 \in 1..(l - 1) /\ 1 \in 1..l
      BY <1>2, <2>2
    <3>2. FinalPage(L[1]) = FirstPage(L[1 + 1]) - 1
      BY <1>1, <1>2, <2>2, <3>1 DEF NbInv, ListInv
    <3>3. L' # << >>
      BY <1>3, <3>1, EmptySeq
    <3>4. Through' = FirstPage(transfer_list[1])' - 1
      BY <3>3 DEF Through
    <3> QED
      BY <1>7, <3>1, <3>2, <3>4
  <2> QED
    BY <2>1, <2>2
<1>9. ListInv'
  <2>1. ASSUME NEW m \in 1..(l - 1)
        PROVE  /\ xfer'[L'[m]].cb /\ xfer'[L'[m]].pages # << >>
               /\ "dma" \in held'[L'[m][1]]
               /\ FinalPage(transfer_list[m])' <= Queued'
               /\ Stage' \in {"init", "queue"} /\ L'[m][1] = Job'.req =>
                    ~xfer'[L'[m]].last /\ L'[m][2] < Job'.k
    <3>1. m + 1 \in DOMAIN L
      BY <1>2, <1>7
    <3>2. /\ xfer[L[m + 1]].pages # << >> /\ xfer[L[m + 1]].cb
          /\ FinalPage(L[m + 1]) <= Queued
          /\ Stage \in {"init", "queue"} /\ L[m + 1][1] = Job.req =>
               ~xfer[L[m + 1]].last /\ L[m + 1][2] < Job.k
      BY <3>1, ListedXfer
    <3> QED
      BY <1>4, <1>7, <3>2
  <2>2. ASSUME NEW m \in 1..(l - 1), NEW k \in 1..(l - 1), m < k
        PROVE  /\ FinalPage(transfer_list[m])' < FirstPage(transfer_list[k])'
               /\ L'[m][1] = L'[k][1] => ~xfer'[L'[m]].last
    <3>1. m + 1 \in DOMAIN L /\ k + 1 \in DOMAIN L /\ m + 1 < k + 1
      BY <1>2, <1>7, <2>2
    <3>2. /\ FinalPage(L[m + 1]) < FirstPage(L[k + 1])
          /\ L[m + 1][1] = L[k + 1][1] => ~xfer[L[m + 1]].last
      BY <3>1 DEF NbInv, ListInv
    <3> QED
      BY <1>7, <3>2
  <2>3. ASSUME NEW m \in 1..(l - 1)
        PROVE  FinalPage(transfer_list[m])' =
                 IF m = l - 1 THEN Queued'
                 ELSE FirstPage(transfer_list[m + 1])' - 1
    <3>1. m + 1 \in DOMAIN L
      BY <1>2, <1>7
    <3>2. FinalPage(L[m + 1]) = IF m + 1 = l THEN Queued
                                ELSE FirstPage(L[(m + 1) + 1]) - 1
      BY <1>1, <3>1 DEF NbInv, ListInv
    <3>3. CASE m = l - 1
      <4>1. m + 1 = l
        BY <1>2, <3>3
      <4> QED
        BY <1>4, <1>7, <3>2, <3>3, <4>1
    <3>4. CASE m # l - 1
      <4>1. m + 1 # l /\ m + 1 \in 1..(l - 1)
        BY <1>2, <3>4
      <4>2. FirstPage(transfer_list[m + 1])' = FirstPage(L[(m + 1) + 1])
        BY <1>7, <4>1
      <4> QED
        BY <1>7, <3>2, <3>4, <4>1, <4>2
    <3> QED
      BY <3>3, <3>4
  <2> QED
    BY <1>3, <2>1, <2>2, <2>3 DEF ListInv
<1>10. \A u : (\E m \in 2..l : transfer_list[m] = u) => Listed(u)'
  <2> SUFFICES ASSUME NEW u, NEW m \in 2..l, transfer_list[m] = u
               PROVE  Listed(u)'
    OBVIOUS
  <2>1. m - 1 \in 1..(l - 1) /\ (m - 1) + 1 = m
    BY <1>2
  <2>2. transfer_list'[m - 1] = u
    BY <1>3, <2>1
  <2> QED
    BY <1>3, <2>1, <2>2 DEF Listed
<1>11. L' # << >> => 2 \in DOMAIN L /\ L'[1] = L[2]
  <2> SUFFICES ASSUME L' # << >> PROVE 2 \in DOMAIN L /\ L'[1] = L[2]
    OBVIOUS
  <2>1. 1 \in 1..(l - 1)
    BY <1>2, <1>3, EmptySeq
  <2>2. 1 + 1 = 2
    OBVIOUS
  <2> QED
    BY <1>2, <1>7, <2>1, <2>2
<1> QED
  BY <1>1, <1>3, <1>4, <1>6, <1>8, <1>9, <1>10, <1>11

(* A service finds the head of the list done, and only then. *)
LEMMA ServiceHead ==
  ASSUME NonblockingConstants, NEW b \in 0..(DescMax - 1), NbInv(b),
         ServiceWork
  PROVE  /\ transfer_list # << >> /\ ~hw.err
         /\ transfer_list' = Tail(transfer_list) /\ Completion
         /\ ~work' /\ running' = (transfer_list' # << >>)
         /\ transfer_list' # << >> =>
              /\ hw' = HwRun(HwClear(hw), Head(transfer_list'))
              /\ desc_dequeued' = 0
         /\ transfer_list' = << >> => hw' = HwHalt(HwClear(hw))
         /\ desc_dequeued' \in Int
         /\ UNCHANGED <<desc_idx, offline, taken, device_open, cur, next>>
         /\ Len(taken) = FinalPage(transfer_list[1])
<1>1. /\ work /\ work' = FALSE /\ EngineService
      /\ Finishes => Completion
      /\ UNCHANGED <<desc_idx, offline, taken, device_open, cur, next>>
  BY DEF ServiceWork
<1>2. running /\ transfer_list # << >> /\ ~hw.err
  BY <1>1 DEF NbInv, HwInv
<1>3. /\ ~hw.busy /\ hw.count = hw.num /\ hw.num = desc_num(transfer_list[1])
      /\ desc_dequeued = 0 /\ Len(taken) = Through + hw.count
  BY <1>1, <1>2 DEF NbInv, HwInv
<1>4. PICK t : t = transfer_list[1]
  OBVIOUS
<1>5. /\ t = Head(transfer_list) /\ Through = FirstPage(t) - 1
      /\ t \in Xfers /\ xfer[t].pages # << >>
  BY <1>2, <1>4, HeadXfer, ListedXfer
<1>6. /\ desc_num(t) \in Nat \ {0} /\ FirstPage(t) \in Nat \ {0}
      /\ FinalPage(t) = FirstPage(t) + desc_num(t) - 1
  BY <1>5, XferPages
<1>7. hw.count > 0 /\ Len(taken) = FinalPage(t)
  BY <1>3, <1>4, <1>5, <1>6
<1>8. Finishes
  BY <1>2, <1>7 DEF Finishes
<1>9. transfer_list' = Tail(transfer_list) /\ ServiceResume(Tail(transfer_list))
  BY <1>1, <1>8 DEF EngineService
<1>10. running' = (transfer_list' # << >>)
  BY <1>9 DEF ServiceResume
<1>11. transfer_list' # << >> =>
         /\ hw' = HwRun(HwClear(hw), Head(transfer_list'))
         /\ desc_dequeued' = 0
  BY <1>3, <1>9 DEF ServiceResume
<1>12. transfer_list' = << >> =>
         /\ hw' = HwHalt(HwClear(hw))
         /\ desc_dequeued' = desc_dequeued + desc_num(t)
  BY <1>2, <1>5, <1>9 DEF ServiceResume
<1>13. desc_dequeued' \in Int
  BY <1>3, <1>6, <1>11, <1>12
<1> QED
  BY <1>1, <1>2, <1>4, <1>7, <1>8, <1>9, <1>10, <1>11, <1>12, <1>13

(* The hardware is at the start of the transfer that follows. *)
LEMMA ServiceHw ==
  ASSUME NonblockingConstants, NEW b \in 0..(DescMax - 1), NbInv(b),
         ServiceWork, Through' = FinalPage(transfer_list[1]),
         transfer_list' \in Seq(Xfers),
         transfer_list' # << >> =>
           LET t == transfer_list'[1]
           IN  /\ t \in Xfers /\ xfer'[t].idx = xfer[t].idx
               /\ xfer'[t].pages = xfer[t].pages /\ xfer[t].pages # << >>
  PROVE  HwInv' /\ hw' \in HwType
<1>1. hw \in HwType /\ xfer \in [Xfers -> XferType] /\ taken \in Seq(Nat)
  BY DEF NbInv, NbTypes
<1>2. /\ transfer_list # << >> /\ ~hw.err
      /\ ~work' /\ running' = (transfer_list' # << >>)
      /\ transfer_list' # << >> =>
           /\ hw' = HwRun(HwClear(hw), Head(transfer_list'))
           /\ desc_dequeued' = 0
      /\ transfer_list' = << >> => hw' = HwHalt(HwClear(hw))
      /\ taken' = taken /\ Len(taken) = FinalPage(transfer_list[1])
  BY ServiceHead
<1>3. \A m \in 1..Len(taken) : taken[m] = m
  BY DEF NbInv, HwInv
<1>4. HwClear(hw) \in HwType /\ ~HwClear(hw).stopped /\ ~HwClear(hw).err
  BY <1>1 DEF HwClear, HwType
<1>5. Len(taken) \in Nat
  BY <1>1
<1>6. CASE transfer_list' # << >>
  <2>1. PICK t, g : t = transfer_list'[1] /\ g = HwClear(hw)
    OBVIOUS
  <2>2. /\ t \in Xfers /\ xfer'[t].idx = xfer[t].idx
        /\ xfer'[t].pages = xfer[t].pages /\ xfer[t].pages # << >>
    BY <1>6, <2>1
  <2>3. Head(transfer_list') = t
    BY <1>6, <2>1
  <2>4. hw' = HwRun(g, t) /\ desc_dequeued' = 0 /\ running'
    BY <1>2, <1>6, <2>1, <2>3
  <2>5. g \in HwType /\ ~g.stopped /\ ~g.err
    BY <1>4, <2>1
  <2>6. /\ HwRun(g, t) \in HwType /\ HwRun(g, t).base = xfer[t].idx
        /\ HwRun(g, t).num = desc_num(t) /\ HwRun(g, t).count = 0
    BY <1>1, <2>2, <2>5, HwSteps
  <2>7. HwRun(g, t).busy /\ ~HwRun(g, t).stopped /\ ~HwRun(g, t).err
    BY <2>5 DEF HwRun, HwType
  <2>8. desc_num(t) \in Nat \ {0} /\ desc_num(t)' = desc_num(t)
    BY <2>2, XferPages DEF desc_num
  <2>9. hw'.count \in 0..(hw'.num - 1)
    BY <2>4, <2>6, <2>8
  <2>10. desc_num(transfer_list[1])' = desc_num(t)
    BY <2>1, <2>8 DEF desc_num
  <2>11. Len(taken') = Through' + hw'.count
    BY <1>2, <1>5, <2>4, <2>6
  <2> QED
    BY <1>2, <1>3, <1>6, <2>1, <2>2, <2>4, <2>6, <2>7, <2>9, <2>10, <2>11
       DEF HwInv
<1>7. CASE transfer_list' = << >>
  <2>1. hw' = HwHalt(HwClear(hw)) /\ ~running'
    BY <1>2, <1>7
  <2>2. hw' \in HwType /\ ~hw'.busy /\ ~hw'.stopped /\ ~hw'.err
    BY <1>4, <2>1 DEF HwHalt, HwType
  <2>3. Len(taken') = Through' + 0
    BY <1>2, <1>5
  <2> QED
    BY <1>2, <1>3, <2>1, <2>2, <2>3 DEF HwInv
<1> QED
  BY <1>6, <1>7

(* What a service does to the transfers that are left, whether or not it   *)
(* ends a request.                                                         *)
LEMMA ServiceRest ==
  ASSUME NonblockingConstants, NEW b \in 0..(DescMax - 1), NbInv(b),
         ServiceWork,
         xfer' \in [Xfers -> XferType],
         held' \in [Reqs -> SUBSET {"cb", "pages", "dma", "req"}],
         ring' \in [0..(DescMax - 1) -> Nat],
         pc' \in [Procs -> {"idle", "submit", "init", "queue", "count", "poll",
                            "sleep"}],
         Stage' = Stage \/ (Stage = "sleep" /\ Stage' = "poll"),
         \A t \in Xfers : xfer'[t].pages # << >> =>
           /\ xfer'[t].pages = xfer[t].pages /\ xfer'[t].idx = xfer[t].idx,
         \A m \in 2..Len(transfer_list) :
           /\ "dma" \in held'[transfer_list[m][1]]
           /\ xfer'[transfer_list[m]].pages = xfer[transfer_list[m]].pages
           /\ xfer'[transfer_list[m]].cb = xfer[transfer_list[m]].cb
           /\ xfer'[transfer_list[m]].last = xfer[transfer_list[m]].last,
         Stage \in {"init", "queue"} => "dma" \in held'[Job.req],
         Stage = "submit" => "dma" \notin held'[Job.req],
         Stage = "queue" =>
           /\ xfer'[JobXfer].pages = xfer[JobXfer].pages
           /\ xfer'[JobXfer].cb = xfer[JobXfer].cb
           /\ xfer'[JobXfer].last = xfer[JobXfer].last,
         \A q \in (FinalPage(transfer_list[1]) + 1)..Placed :
           ring'[SlotOf(b, q)] = ring[SlotOf(b, q)]
  PROVE  /\ NbTypes' /\ JobInv' /\ ListInv' /\ HwInv' /\ SessionInv'
         /\ XferInv(b)' /\ RingInv(b)'
<1>1. /\ transfer_list # << >> /\ transfer_list' = Tail(transfer_list)
      /\ ~work' /\ running' = (transfer_list' # << >>)
      /\ desc_dequeued' \in Int
      /\ UNCHANGED <<desc_idx, offline, taken, device_open, cur, next>>
  BY ServiceHead
<1>2. PICK h, l : h = transfer_list[1] /\ l = Len(transfer_list)
  OBVIOUS
<1>3. /\ Queued' = Queued /\ Placed' = Placed /\ Through' = FinalPage(h)
      /\ ListInv' /\ transfer_list' \in Seq(Xfers)
      /\ \A u : (\E m \in 2..l : transfer_list[m] = u) => Listed(u)'
      /\ transfer_list' # << >> =>
           2 \in DOMAIN transfer_list /\ transfer_list'[1] = transfer_list[2]
  <2>1. Stage = "queue" => xfer'[JobXfer].pages = xfer[JobXfer].pages
    OBVIOUS
  <2>2. UNCHANGED <<cur, next>>
    BY <1>1
  <2> QED
    BY <1>1, <1>2, <2>1, <2>2, ServiceList
<1>4. l \in Nat /\ DOMAIN transfer_list = 1..l
  BY <1>2, ListMembers DEF NbInv
<1>5. transfer_list' # << >> =>
        LET t == transfer_list'[1]
        IN  /\ t \in Xfers /\ xfer'[t].idx = xfer[t].idx
            /\ xfer'[t].pages = xfer[t].pages /\ xfer[t].pages # << >>
  <2> SUFFICES ASSUME transfer_list' # << >>, NEW t, t = transfer_list'[1]
               PROVE  /\ t \in Xfers /\ xfer'[t].idx = xfer[t].idx
                      /\ xfer'[t].pages = xfer[t].pages
                      /\ xfer[t].pages # << >>
    OBVIOUS
  <2>1. 2 \in DOMAIN transfer_list /\ t = transfer_list[2] /\ 2 \in 2..l
    BY <1>3, <1>4
  <2>2. t \in Xfers /\ xfer[t].pages # << >>
    BY <2>1, ListedXfer
  <2>3. xfer'[t].pages = xfer[t].pages
    BY <1>2, <2>1
  <2> QED
    BY <2>2, <2>3
<1>6. HwInv' /\ hw' \in HwType
  BY <1>2, <1>3, <1>5, ServiceHw
<1>7. NbTypes'
  <2>1. running' \in BOOLEAN /\ work' \in BOOLEAN
    BY <1>1, <1>6 DEF ServiceWork
  <2> QED
    BY <1>1, <1>3, <1>6, <2>1 DEF NbInv, NbTypes
<1>8. /\ Job' = Job /\ JobXfer' = JobXfer
      /\ Submitting' = Submitting
      /\ \A s \in {"init", "queue", "submit"} : Stage' = s <=> Stage = s
  BY <1>1 DEF Job, JobXfer, Submitting
<1>9. JobInv'
  <2>1. Stage = "queue" => /\ FirstPage(JobXfer)' = FirstPage(JobXfer)
                           /\ desc_num(JobXfer)' = desc_num(JobXfer)
                           /\ xfer'[JobXfer'].cb = xfer[JobXfer].cb
                           /\ xfer'[JobXfer'].last = xfer[JobXfer].last
    BY <1>8 DEF FirstPage, desc_num
  <2>2. /\ Queued' >= 0
        /\ Submitting' =>
             /\ Job'.req \in Reqs /\ Len(Job'.pages) > 0
             /\ \A j \in 1..Len(Job'.pages) : Job'.pages[j] = Queued' + j
        /\ ~Submitting' => Job'.pages = << >>
        /\ Stage' = "submit" => Job'.k = 1 /\ "dma" \notin held'[Job'.req]
        /\ Stage' \in {"init", "queue"} =>
             Job'.k \in {1, 2} /\ "dma" \in held'[Job'.req]
        /\ Stage' = "init" /\ Job'.k = 2 => desc_idx' = 0
    BY <1>1, <1>3, <1>8 DEF NbInv, JobInv
  <2>3. Stage' = "queue" =>
          /\ xfer'[JobXfer'].cb /\ desc_num(JobXfer)' \in 1..Len(Job'.pages)
          /\ FirstPage(JobXfer)' = Queued' + 1
          /\ xfer'[JobXfer'].last <=> desc_num(JobXfer)' = Len(Job'.pages)
          /\ ~xfer'[JobXfer'].last => Job'.k = 1 /\ desc_idx' = 0
    BY <1>1, <1>3, <1>8, <2>1 DEF NbInv, JobInv
  <2> QED
    BY <2>2, <2>3 DEF JobInv
<1>10. /\ h \in Xfers /\ h[1] \in Reqs /\ "dma" \in held[h[1]]
       /\ Through = FirstPage(h) - 1 /\ FinalPage(h) \in Nat
       /\ FirstPage(h) \in Nat /\ FirstPage(h) <= FinalPage(h)
       /\ FinalPage(h) <= Queued
  <2>1. /\ h \in Xfers /\ h[1] \in Reqs /\ "dma" \in held[h[1]]
        /\ Through = FirstPage(h) - 1 /\ FinalPage(h) <= Queued
        /\ xfer[h].pages # << >>
    BY <1>1, <1>2, HeadXfer, ListedXfer
  <2> QED
    BY <2>1, XferPages
<1>11. SessionInv'
  <2>1. device_open
    BY <1>10 DEF NbInv, SessionInv, Outstanding
  <2> QED
    BY <1>1, <2>1 DEF SessionInv
<1>12. XferInv(b)'
  <2> SUFFICES ASSUME NEW t \in Xfers, xfer'[t].pages # << >>
               PROVE  /\ FirstPage(t)' >= 1 /\ FinalPage(t)' <= Placed'
                      /\ \A j \in 1..desc_num(t)' :
                           xfer'[t].pages[j] = FirstPage(t)' + j - 1
                      /\ xfer'[t].idx = SlotOf(b, FirstPage(t)')
                      /\ xfer'[t].idx + desc_num(t)' <= DescMax
                      /\ \/ Listed(t)'
                         \/ Stage' = "queue" /\ t = JobXfer'
                         \/ FinalPage(t)' <= Through'
    BY DEF XferInv, SlotOf, Wrap
  <2>1. xfer'[t].pages = xfer[t].pages /\ xfer'[t].idx = xfer[t].idx
    OBVIOUS
  <2>2. /\ FirstPage(t)' = FirstPage(t) /\ desc_num(t)' = desc_num(t)
        /\ FinalPage(t)' = FinalPage(t) /\ xfer[t].pages # << >>
    BY <2>1 DEF FirstPage, FinalPage, desc_num
  <2>3. /\ FirstPage(t) >= 1 /\ FinalPage(t) <= Placed
        /\ \A j \in 1..desc_num(t) : xfer[t].pages[j] = FirstPage(t) + j - 1
        /\ xfer[t].idx = SlotOf(b, FirstPage(t))
        /\ xfer[t].idx + desc_num(t) <= DescMax
        /\ \/ Listed(t)
           \/ Stage = "queue" /\ t = JobXfer
           \/ FinalPage(t) <= Through
    BY <2>2 DEF NbInv, XferInv
  <2>4. FinalPage(t) \in Nat
    BY <2>2, XferPages
  <2>5. \/ Listed(t)'
        \/ Stage' = "queue" /\ t = JobXfer'
        \/ FinalPage(t)' <= Through'
    <3>1. CASE Listed(t)
      <4>1. PICK m \in 1..l : transfer_list[m] = t
        BY <1>4, <3>1 DEF Listed
      <4>2. CASE m = 1
        BY <1>2, <1>3, <1>10, <2>2, <4>1, <4>2
      <4>3. CASE m # 1
        <5>1. m \in 2..l
          BY <1>4, <4>3
        <5>2. \E k \in 2..l : transfer_list[k] = t
          BY <4>1, <5>1
        <5>3. Listed(t)'
          BY <1>3, <5>2, Zenon
        <5> QED
          BY <5>3, Zenon
      <4> QED
        BY <4>2, <4>3
    <3>2. CASE Stage = "queue" /\ t = JobXfer
      BY <1>8, <3>2
    <3>3. CASE FinalPage(t) <= Through
      BY <1>3, <1>10, <2>2, <2>4, <3>3
    <3> QED
      BY <2>3, <3>1, <3>2, <3>3
  <2> QED
    BY <1>3, <2>1, <2>2, <2>3, <2>5
<1>13. RingInv(b)'
  <2>1. desc_idx' = Wrap(b + Placed')
    BY <1>1, <1>3 DEF NbInv, RingInv
  <2>2. Placed \in Nat
    BY PageCounts
  <2>3. ASSUME NEW q \in (Through' + 1)..Placed' PROVE ring'[SlotOf(b, q)] = q
    <3>1. q \in (FinalPage(h) + 1)..Placed /\ q \in (Through + 1)..Placed
      BY <1>3, <1>10, <2>2
    <3> QED
      BY <1>2, <3>1 DEF NbInv, RingInv
  <2> QED
    BY <2>1, <2>3 DEF RingInv, SlotOf, Wrap
<1> QED
  BY <1>3, <1>6, <1>7, <1>9, <1>11, <1>12, <1>13

(* The request has another transfer. *)
LEMMA ServiceMore ==
  ASSUME NonblockingConstants, NEW b \in 0..(DescMax - 1), NbInv(b),
         ServiceWork, ~xfer[transfer_list[1]].last
  PROVE  NbInv(b)'
<1>1. PICK h : h = transfer_list[1]
  OBVIOUS
<1>2. transfer_list # << >> /\ Completion /\ UNCHANGED <<device_open, cur, next>>
  BY ServiceHead
<1>3. h = Head(transfer_list) /\ h \in Xfers
  BY <1>1, <1>2, HeadXfer, ListedXfer
<1>4. PICK s \in {"COMPLETED", "FAILED"} : s = Outcome
  BY DEF Outcome
<1>5. /\ xfer' = [xfer EXCEPT ![h].state = s]
      /\ UNCHANGED <<ring, submit_cnt, pc, held>>
  BY <1>1, <1>2, <1>3, <1>4 DEF Completion, Ended
<1>6. /\ xfer \in [Xfers -> XferType] /\ ring \in [0..(DescMax - 1) -> Nat]
      /\ held \in [Reqs -> SUBSET {"cb", "pages", "dma", "req"}]
      /\ pc \in [Procs -> {"idle", "submit", "init", "queue", "count", "poll",
                           "sleep"}]
  BY DEF NbInv, NbTypes
<1>7. /\ xfer' \in [Xfers -> XferType]
      /\ \A u \in Xfers :
           /\ xfer'[u].pages = xfer[u].pages /\ xfer'[u].idx = xfer[u].idx
           /\ xfer'[u].cb = xfer[u].cb /\ xfer'[u].last = xfer[u].last
  BY <1>3, <1>5, <1>6, StateChanged
<1>8. Stage' = Stage /\ Outstanding' = Outstanding
  BY <1>5 DEF Stage, Outstanding
<1>9. ASSUME NEW m \in 2..Len(transfer_list)
      PROVE  /\ "dma" \in held'[transfer_list[m][1]]
             /\ xfer'[transfer_list[m]].pages = xfer[transfer_list[m]].pages
             /\ xfer'[transfer_list[m]].cb = xfer[transfer_list[m]].cb
             /\ xfer'[transfer_list[m]].last = xfer[transfer_list[m]].last
  <2>1. m \in DOMAIN transfer_list
    BY ListMembers DEF NbInv
  <2>2. transfer_list[m] \in Xfers /\ "dma" \in held[transfer_list[m][1]]
    BY <2>1, ListedXfer
  <2> QED
    BY <1>5, <1>7, <2>2
<1>10. Submitting => Job.req \in Reqs
  BY DEF NbInv, JobInv
<1>11. /\ Stage \in {"init", "queue"} => "dma" \in held'[Job.req]
       /\ Stage = "submit" => "dma" \notin held'[Job.req]
       /\ Stage = "queue" =>
            /\ xfer'[JobXfer].pages = xfer[JobXfer].pages
            /\ xfer'[JobXfer].cb = xfer[JobXfer].cb
            /\ xfer'[JobXfer].last = xfer[JobXfer].last
  <2>1. Stage = "queue" => JobXfer \in Xfers
    BY <1>10 DEF NbInv, JobInv, Submitting, JobXfer, Xfers
  <2> QED
    BY <1>5, <1>7, <2>1 DEF NbInv, JobInv
<1>12. \A q \in (FinalPage(transfer_list[1]) + 1)..Placed :
         ring'[SlotOf(b, q)] = ring[SlotOf(b, q)]
  BY <1>5
<1>13. \A t \in Xfers : xfer'[t].pages # << >> =>
         xfer'[t].pages = xfer[t].pages /\ xfer'[t].idx = xfer[t].idx
  BY <1>7
<1>14. /\ NbTypes' /\ JobInv' /\ ListInv' /\ HwInv' /\ SessionInv'
       /\ XferInv(b)' /\ RingInv(b)'
  <2>1. /\ xfer' \in [Xfers -> XferType] /\ ring' \in [0..(DescMax - 1) -> Nat]
        /\ held' \in [Reqs -> SUBSET {"cb", "pages", "dma", "req"}]
        /\ pc' \in [Procs -> {"idle", "submit", "init", "queue", "count",
                              "poll", "sleep"}]
    BY <1>5, <1>6, <1>7
  <2> QED
    BY <1>8, <1>9, <1>11, <1>12, <1>13, <2>1, ServiceRest
<1>15. FreeInv'
  <2> SUFFICES ASSUME NEW r \in Reqs, "dma" \notin held'[r]
               PROVE  xfer'[<<r, 1>>].pages = << >> /\ xfer'[<<r, 2>>].pages = << >>
    BY DEF FreeInv
  <2>1. <<r, 1>> \in Xfers /\ <<r, 2>> \in Xfers
    BY DEF Xfers
  <2> QED
    BY <1>5, <1>7, <2>1 DEF NbInv, FreeInv
<1>16. CountInv'
  BY <1>5, <1>8 DEF NbInv, CountInv, Counted
<1> QED
  BY <1>14, <1>15, <1>16 DEF NbInv

(* The last transfer of a request is behind its others. *)
LEMMA LastBehind ==
  ASSUME NonblockingConstants, NEW b \in 0..(DescMax - 1), NbInv(b),
         transfer_list # << >>, NEW h, h = transfer_list[1], xfer[h].last
  PROVE  /\ \A m \in 2..Len(transfer_list) : transfer_list[m][1] # h[1]
         /\ Submitting => Job.req # h[1]
         /\ \A t \in Xfers : t[1] = h[1] /\ xfer[t].pages # << >> =>
              FinalPage(t) <= FinalPage(h)
<1>1. /\ 1 \in DOMAIN transfer_list /\ Through = FirstPage(h) - 1
  BY HeadXfer
<1>2. /\ h \in Xfers /\ h[1] \in Reqs /\ xfer[h].pages # << >>
      /\ "dma" \in held[h[1]]
      /\ Stage \in {"init", "queue"} /\ h[1] = Job.req => ~xfer[h].last
  BY <1>1, ListedXfer
<1>3. Len(transfer_list) \in Nat /\ DOMAIN transfer_list = 1..Len(transfer_list)
  BY ListMembers DEF NbInv
<1>4. ASSUME NEW m \in 2..Len(transfer_list) PROVE transfer_list[m][1] # h[1]
  <2>1. m \in DOMAIN transfer_list /\ 1 < m
    BY <1>3
  <2> QED
    BY <1>1, <2>1 DEF NbInv, ListInv
<1>5. Submitting => Job.req # h[1]
  BY <1>2 DEF NbInv, JobInv, Submitting
<1>6. ASSUME NEW t \in Xfers, t[1] = h[1], xfer[t].pages # << >>
      PROVE  FinalPage(t) <= FinalPage(h)
  <2>1. /\ FinalPage(t) \in Nat /\ FinalPage(h) \in Nat
        /\ FirstPage(h) \in Nat /\ FirstPage(h) <= FinalPage(h)
    BY <1>2, <1>6, XferPages
  <2>2. \/ Listed(t)
        \/ Stage = "queue" /\ t = JobXfer
        \/ FinalPage(t) <= Through
    BY <1>6 DEF NbInv, XferInv
  <2>3. CASE Listed(t)
    <3>1. PICK m \in DOMAIN transfer_list : transfer_list[m] = t
      BY <2>3 DEF Listed
    <3>2. m = 1
      BY <1>3, <1>4, <1>6, <3>1
    <3> QED
      BY <2>1, <3>1, <3>2
  <2>4. CASE Stage = "queue" /\ t = JobXfer
    BY <1>5, <1>6, <2>4 DEF JobXfer, Submitting
  <2>5. CASE FinalPage(t) <= Through
    BY <1>1, <2>1, <2>5
  <2> QED
    BY <2>2, <2>3, <2>4, <2>5
<1> QED
  BY <1>4, <1>5, <1>6

(* The descriptors of such a transfer are not those of later pages. *)
LEMMA SlotsBehind ==
  ASSUME NonblockingConstants, NEW b \in 0..(DescMax - 1), NbInv(b),
         NEW t \in Xfers, NEW q \in 1..Placed,
         xfer[t].pages # << >> => FinalPage(t) < q
  PROVE  SlotOf(b, q) \notin Slots(t)
<1>1. Placed \in Nat /\ Placed <= DescMax /\ DescMax \in Nat \ {0}
  BY PageCounts, NbConstants
<1>2. xfer[t] \in XferType
  BY DEF NbInv, NbTypes
<1>3. xfer[t].idx \in Nat /\ xfer[t].pages \in Seq(Nat)
  BY <1>1, <1>2 DEF XferType
<1>4. CASE xfer[t].pages = << >>
  <2>1. desc_num(t) = 0
    BY <1>4, EmptySeq, Zenon DEF desc_num
  <2> QED
    BY <1>3, <2>1 DEF Slots
<1>5. CASE xfer[t].pages # << >>
  <2>1. PICK f, n : f = FirstPage(t) /\ n = desc_num(t)
    OBVIOUS
  <2>2. /\ n \in Nat \ {0} /\ f \in Nat \ {0} /\ FinalPage(t) = f + n - 1
    BY <1>5, <2>1, XferPages
  <2>3. xfer[t].idx = SlotOf(b, f) /\ xfer[t].idx + n <= DescMax
    BY <1>5, <2>1 DEF NbInv, XferInv
  <2>4. f + n - 1 < q
    BY <1>5, <2>2
  <2>5. f \in 1..DescMax /\ q \in 1..DescMax
    BY <1>1, <2>2, <2>4
  <2>6. SlotOf(b, f) \in Nat
    BY <1>3, <2>3
  <2> SUFFICES ASSUME SlotOf(b, q) \in Slots(t) PROVE FALSE
    OBVIOUS
  <2>7. SlotOf(b, q) \in 0..(DescMax - 1)
    BY <1>1, <2>5, SlotsApart
  <2>8. PICK j \in 0..(n - 1) : SlotOf(b, q) = SlotOf(b, f) + j
    <3>1. SlotOf(b, q) \in SlotOf(b, f)..(SlotOf(b, f) + n - 1)
      BY <2>1, <2>3 DEF Slots
    <3>2. SlotOf(b, q) - SlotOf(b, f) \in 0..(n - 1)
      BY <2>2, <2>6, <2>7, <3>1
    <3>3. SlotOf(b, q) = SlotOf(b, f) + (SlotOf(b, q) - SlotOf(b, f))
      BY <2>6, <2>7
    <3> QED
      BY <3>2, <3>3
  <2>9. j \in Nat /\ SlotOf(b, f) + j < DescMax
    BY <1>1, <2>2, <2>3, <2>6
  <2>10. SlotOf(b, f + j) = SlotOf(b, f) + j
    BY <1>1, <2>5, <2>9, SlotsFollow
  <2>11. f + j \in 1..DescMax /\ f + j < q
    BY <1>1, <2>2, <2>4, <2>5, <2>9
  <2>12. f + j = q
    BY <1>1, <2>5, <2>8, <2>10, <2>11, SlotsApart
  <2> QED
    BY <2>2, <2>9, <2>11, <2>12
<1> QED
  BY <1>4, <1>5

(* The request is through: its callback frees it. *)
LEMMA ServiceLast ==
  ASSUME NonblockingConstants, NEW b \in 0..(DescMax - 1), NbInv(b),
         ServiceWork, xfer[transfer_list[1]].last
  PROVE  NbInv(b)'
<1>1. PICK h, r : h = transfer_list[1] /\ r = h[1]
  OBVIOUS
<1>2. transfer_list # << >> /\ Completion /\ UNCHANGED <<device_open, cur, next>>
  BY ServiceHead
<1>3. /\ h = Head(transfer_list) /\ h \in Xfers /\ r \in Reqs /\ xfer[h].cb
      /\ "dma" \in held[r] /\ xfer[h].pages # << >>
  BY <1>1, <1>2, HeadXfer, ListedXfer
<1>4. /\ TransferDestroy(Reaped(r)) /\ xfer' = Freed(r)
      /\ held' = [held EXCEPT ![r] = {}]
      /\ submit_cnt' = (submit_cnt - 1) % 2^Width /\ WakePollers
  BY <1>1, <1>2, <1>3 DEF Completion, Callback
<1>5. /\ xfer \in [Xfers -> XferType] /\ ring \in [0..(DescMax - 1) -> Nat]
      /\ held \in [Reqs -> SUBSET {"cb", "pages", "dma", "req"}]
      /\ pc \in [Procs -> {"idle", "submit", "init", "queue", "count", "poll",
                           "sleep"}]
  BY DEF NbInv, NbTypes
<1>6. /\ \A m \in 2..Len(transfer_list) : transfer_list[m][1] # r
      /\ Submitting => Job.req # r
      /\ \A t \in Xfers : t[1] = r /\ xfer[t].pages # << >> =>
           FinalPage(t) <= FinalPage(h)
  BY <1>1, <1>2, LastBehind
<1>7. NoXfer \in XferType /\ NoXfer.pages = << >>
  BY EmptySeq, NbConstants DEF NoXfer, XferType
<1>8. /\ xfer' \in [Xfers -> XferType]
      /\ \A t \in Xfers : xfer'[t] = IF t[1] = r THEN NoXfer ELSE xfer[t]
  BY <1>4, <1>5, <1>7 DEF Freed
<1>9. /\ held' \in [Reqs -> SUBSET {"cb", "pages", "dma", "req"}]
      /\ \A p \in Reqs : "dma" \in held'[p] <=> "dma" \in held[p] /\ p # r
  BY <1>3, <1>4, <1>5
<1>10. /\ pc' \in [Procs -> {"idle", "submit", "init", "queue", "count", "poll",
                             "sleep"}]
       /\ Stage' = IF Stage = "sleep" THEN "poll" ELSE Stage
  BY <1>4, <1>5, NbConstants DEF WakePollers, Stage
<1>11. /\ ring' \in [0..(DescMax - 1) -> Nat]
       /\ \A i \in 0..(DescMax - 1) :
            (\A t \in Reaped(r) : i \notin Slots(t)) => ring'[i] = ring[i]
  BY <1>4, <1>5 DEF TransferDestroy
<1>12. \A t \in Reaped(r) : t \in Xfers /\ t[1] = r
  BY <1>3 DEF Reaped, Xfers
<1>13. ASSUME NEW q \in (FinalPage(h) + 1)..Placed
       PROVE  ring'[SlotOf(b, q)] = ring[SlotOf(b, q)]
  <2>1. FinalPage(h) \in Nat
    BY <1>3, XferPages
  <2>2. Placed \in Nat /\ Placed <= DescMax
    BY PageCounts
  <2>3. q \in 1..Placed /\ q \in 1..DescMax /\ FinalPage(h) < q
    BY <2>1, <2>2, NbConstants
  <2>4. ASSUME NEW t \in Reaped(r) PROVE SlotOf(b, q) \notin Slots(t)
    <3>1. t \in Xfers /\ t[1] = r
      BY <1>12
    <3>2. ASSUME xfer[t].pages # << >> PROVE FinalPage(t) < q
      <4>1. FinalPage(t) <= FinalPage(h) /\ FinalPage(t) \in Nat
        BY <1>6, <3>1, <3>2, XferPages
      <4> QED
        BY <2>1, <2>3, <4>1
    <3> QED
      BY <2>3, <3>1, <3>2, SlotsBehind
  <2>5. SlotOf(b, q) \in 0..(DescMax - 1)
    BY <2>3, SlotsApart, NbConstants
  <2> QED
    BY <1>11, <2>4, <2>5
<1>14. ASSUME NEW m \in 2..Len(transfer_list)
       PROVE  /\ "dma" \in held'[transfer_list[m][1]]
              /\ xfer'[transfer_list[m]].pages = xfer[transfer_list[m]].pages
              /\ xfer'[transfer_list[m]].cb = xfer[transfer_list[m]].cb
              /\ xfer'[transfer_list[m]].last = xfer[transfer_list[m]].last
  <2>1. m \in DOMAIN transfer_list
    BY ListMembers DEF NbInv
  <2>2. /\ transfer_list[m] \in Xfers /\ "dma" \in held[transfer_list[m][1]]
        /\ transfer_list[m][1] \in Reqs
    BY <2>1, ListedXfer
  <2> QED
    BY <1>6, <1>8, <1>9, <2>2
<1>15. Submitting => Job.req \in Reqs /\ Job.req # r
  BY <1>6 DEF NbInv, JobInv
<1>16. /\ Stage \in {"init", "queue"} => "dma" \in held'[Job.req]
       /\ Stage = "submit" => "dma" \notin held'[Job.req]
  BY <1>9, <1>15 DEF NbInv, JobInv, Submitting
<1>17. Stage = "queue" => xfer'[JobXfer] = xfer[JobXfer]
  <2>1. Stage = "queue" => JobXfer \in Xfers /\ JobXfer[1] # r
    BY <1>15 DEF NbInv, JobInv, Submitting, JobXfer, Xfers
  <2> QED
    BY <1>8, <2>1
<1>18. \A t \in Xfers : xfer'[t].pages # << >> =>
         xfer'[t].pages = xfer[t].pages /\ xfer'[t].idx = xfer[t].idx
  BY <1>7, <1>8
<1>19. /\ NbTypes' /\ JobInv' /\ ListInv' /\ HwInv' /\ SessionInv'
       /\ XferInv(b)' /\ RingInv(b)'
  <2>1. Stage' = Stage \/ (Stage = "sleep" /\ Stage' = "poll")
    BY <1>10
  <2>2. \A q \in (FinalPage(transfer_list[1]) + 1)..Placed :
          ring'[SlotOf(b, q)] = ring[SlotOf(b, q)]
    BY <1>1, <1>13
  <2>3. Stage = "queue" =>
          /\ xfer'[JobXfer].pages = xfer[JobXfer].pages
          /\ xfer'[JobXfer].cb = xfer[JobXfer].cb
          /\ xfer'[JobXfer].last = xfer[JobXfer].last
    BY <1>17
  <2> QED
    BY <1>8, <1>9, <1>10, <1>11, <1>14, <1>16, <1>18, <2>1, <2>2, <2>3,
       ServiceRest
<1>20. FreeInv'
  <2> SUFFICES ASSUME NEW p \in Reqs, "dma" \notin held'[p]
               PROVE  xfer'[<<p, 1>>].pages = << >> /\ xfer'[<<p, 2>>].pages = << >>
    BY DEF FreeInv
  <2>1. <<p, 1>> \in Xfers /\ <<p, 2>> \in Xfers
    BY DEF Xfers
  <2>2. p # r =>
          xfer[<<p, 1>>].pages = << >> /\ xfer[<<p, 2>>].pages = << >>
    BY <1>9 DEF NbInv, FreeInv
  <2> QED
    BY <1>7, <1>8, <2>1, <2>2
<1>21. CountInv'
  <2>1. PICK c, m, e : /\ c = Cardinality(Outstanding) /\ m = 2^Width
                       /\ e = IF Stage \in {"init", "queue", "count"} THEN 1 ELSE 0
    OBVIOUS
  <2>2. c \in Nat /\ c < m /\ m \in Nat \ {0} /\ e \in {0, 1}
    BY <2>1, OutstandingCount
  <2>3. r \in Outstanding /\ Outstanding' = Outstanding \ {r}
    BY <1>3, <1>9 DEF Outstanding
  <2>4. Cardinality(Outstanding') = c - 1 /\ c > 0
    <3>1. Cardinality(Outstanding \ {r}) = c - 1
      BY <2>1, <2>3, OutstandingCount, FS_RemoveElement
    <3>2. IsFiniteSet(Outstanding \ {r})
      BY OutstandingCount, FS_RemoveElement
    <3>3. c - 1 \in Nat
      BY <3>1, <3>2, FS_CardinalityType
    <3> QED
      BY <2>2, <2>3, <3>1, <3>3
  <2>5. submit_cnt = IF c - e < 0 THEN m - 1 ELSE c - e
    BY <2>1 DEF NbInv, CountInv, Counted
  <2>6. submit_cnt' = (submit_cnt - 1) % m
    BY <1>4, <2>1
  <2>7. e = IF Stage' \in {"init", "queue", "count"} THEN 1 ELSE 0
    BY <1>10, <2>1
  <2>8. submit_cnt = c - e
    BY <2>2, <2>4, <2>5
  <2>9. submit_cnt' = IF c - e = 0 THEN m - 1 ELSE c - e - 1
    <3>1. CASE c - e = 0
      BY <2>2, <2>6, <2>8, <3>1, Modulo
    <3>2. CASE c - e # 0
      <4>1. c - e - 1 \in Nat /\ c - e - 1 < m
        BY <2>2, <2>4, <3>2
      <4> QED
        BY <2>2, <2>6, <2>8, <3>2, <4>1, Modulo
    <3> QED
      BY <3>1, <3>2
  <2>10. submit_cnt' = IF c - 1 - e < 0 THEN m - 1 ELSE c - 1 - e
    BY <2>2, <2>4, <2>9
  <2> QED
    BY <2>1, <2>4, <2>7, <2>10 DEF CountInv, Counted
<1> QED
  BY <1>19, <1>20, <1>21 DEF NbInv

-----------------------------------------------------------------------------
(* The invariant.                                                          *)

LEMMA NbNext ==
  ASSUME NonblockingConstants, NEW b \in 0..(DescMax - 1), NbInv(b),
         [Next]_vars
  PROVE  \E c \in 0..(DescMax - 1) : NbInv(c)'
<1>1. Procs = {Thread} /\ Nonblock = TRUE /\ Faults = {} /\ ~offline
  BY NbConstants DEF NbInv, NbTypes
<1>2. Stage = pc[Thread] /\ Stage \notin {"lock", "wait", "woken"}
  BY <1>1 DEF NbInv, NbTypes, Stage
<1>3. CASE UNCHANGED vars
  <2>1. /\ UNCHANGED <<transfer_list, xfer, ring, desc_idx, running,
                       desc_dequeued, offline, hw, work, taken>>
        /\ UNCHANGED <<device_open, submit_cnt, pc, cur, held, next>>
    BY <1>3 DEF vars, engineVars, driverVars
  <2>2. /\ Stage' = Stage /\ Job' = Job /\ Queued' = Queued /\ Placed' = Placed
        /\ Through' = Through /\ Outstanding' = Outstanding
    BY <2>1 DEF Stage, Job, Queued, Placed, Through, Outstanding, FirstPage,
       JobXfer, desc_num
  <2>3. NbTypes'
    BY <2>1 DEF NbInv, NbTypes
  <2>4. JobInv'
    BY <2>1, <2>2 DEF NbInv, JobInv, Submitting, JobXfer, desc_num, FirstPage
  <2>5. ListInv'
    BY <2>1, <2>2 DEF NbInv, ListInv, FirstPage, FinalPage, desc_num
  <2>6. FreeInv' /\ CountInv' /\ SessionInv'
    BY <2>1, <2>2 DEF NbInv, FreeInv, CountInv, Counted, SessionInv
  <2>7. HwInv'
    BY <2>1, <2>2 DEF NbInv, HwInv, desc_num
  <2>8. XferInv(b)' /\ RingInv(b)'
    BY <2>1, <2>2 DEF NbInv, XferInv, RingInv, FirstPage, FinalPage, desc_num,
       SlotOf, Wrap, Listed, JobXfer
  <2>9. NbInv(b)'
    BY <2>3, <2>4, <2>5, <2>6, <2>7, <2>8 DEF NbInv
  <2> QED
    BY <2>9
<1>4. CASE Open
  BY <1>4, OpenNb
<1>5. CASE Close
  <2>1. desc_idx \in 0..(DescMax - 1)
    BY DEF NbInv, NbTypes
  <2>2. PICK c \in 0..(DescMax - 1) : c = desc_idx
    BY <2>1
  <2>3. NbInv(c)'
    BY <1>5, <2>2, CloseNb
  <2> QED
    BY <2>3
<1>6. ASSUME NEW p \in Procs, NEW n \in WritePages, Write(p, n)
      PROVE  NbInv(b)'
  BY <1>1, <1>6, WriteNb
<1>7. ASSUME NEW p \in Procs, Poll(p) PROVE NbInv(b)'
  <2>1. /\ p = Thread /\ Stage = "idle" /\ device_open
        /\ pc' = [pc EXCEPT ![Thread] = "poll"]
        /\ UNCHANGED <<engineVars, device_open, submit_cnt, cur, held, next>>
    BY <1>1, <1>7 DEF Poll, Stage
  <2> QED
    BY <2>1, PollNb
<1>8. ASSUME NEW p \in Procs, Interrupt(p) PROVE FALSE
  BY <1>1, <1>2, <1>8 DEF Interrupt
<1>9. ASSUME NEW p \in Procs, Continue(p) PROVE NbInv(b)'
  <2>1. p = Thread
    BY <1>1
  <2>2. ~SubmitOffline(p) /\ ~Lock(p) /\ ~QueueOffline(p) /\ ~Wake(p)
    BY <1>1, <1>2, <2>1 DEF SubmitOffline, Lock, QueueOffline, Wake
  <2>3. ~Completes(p) /\ ~Gives(p)
    BY <1>2, <2>1 DEF Completes, Gives
  <2>4. CASE PollCheck(p)
    <3>1. PICK l \in {"idle", "sleep"} :
            l = IF submit_cnt = 0 THEN "idle" ELSE "sleep"
      OBVIOUS
    <3>2. /\ Stage = "poll" /\ pc' = [pc EXCEPT ![Thread] = l]
          /\ UNCHANGED <<engineVars, device_open, submit_cnt, cur, held, next>>
      BY <2>1, <2>4, <3>1 DEF PollCheck, Stage
    <3>3. device_open
      BY <3>2 DEF NbInv, SessionInv
    <3> QED
      BY <3>2, <3>3, PollNb
  <2> QED
    BY <1>9, <2>1, <2>2, <2>3, <2>4, SubmitNb, InitNb, QueueNb, CountNb
       DEF Continue
<1>10. CASE Engine
  <2>1. CASE ServiceWork
    BY <2>1, ServiceMore, ServiceLast
  <2>2. ~HwError
    BY <1>1 DEF HwError
  <2> QED
    BY <1>10, <2>1, <2>2, DescriptorNb, ChannelIrqNb DEF Engine
<1>11. ~Offline
  BY <1>1 DEF Offline
<1> QED
  BY <1>3, <1>4, <1>5, <1>6, <1>7, <1>8, <1>9, <1>10, <1>11 DEF Next

LEMMA NonblockingInvariant ==
  ASSUME NonblockingConstants
  PROVE  Spec => [](\E b \in 0..(DescMax - 1) : NbInv(b))
<1> DEFINE Inv == \E b \in 0..(DescMax - 1) : NbInv(b)
<1>1. Init => Inv
  <2>1. 0 \in 0..(DescMax - 1)
    BY NbConstants
  <2> QED
    BY <2>1, NbInit
<1>2. Inv /\ [Next]_vars => Inv'
  <2> SUFFICES ASSUME NEW b \in 0..(DescMax - 1), NbInv(b), [Next]_vars
               PROVE  Inv'
    OBVIOUS
  <2>1. PICK c \in 0..(DescMax - 1) : NbInv(c)'
    BY NbNext
  <2> QED
    BY <2>1
<1> HIDE DEF Inv
<1>3. Spec => []Inv
  BY <1>1, <1>2, PTL DEF Spec
<1> QED
  BY <1>3 DEF Inv

(* Once submit_cnt lets poll report the device ready, every page written   *)
(* has reached the core in the order of the message: although the count is *)
(* increased only after the request is queued and may pass below zero, and *)
(* wherever the requests are cut at the end of the ring.                   *)
THEOREM NonblockingReadyMeansDelivered ==
  ASSUME NonblockingConstants PROVE Spec => []ReadyMeansDelivered
<1>1. (\E b \in 0..(DescMax - 1) : NbInv(b)) => ReadyMeansDelivered
  <2> SUFFICES ASSUME NEW b \in 0..(DescMax - 1), NbInv(b), submit_cnt = 0,
                      \A p \in Procs : pc[p] \in {"idle", "poll"}
               PROVE  taken = [i \in 1..(next - 1) |-> i]
    BY DEF ReadyMeansDelivered
  <2>1. Stage \in {"idle", "poll"}
    BY NbConstants DEF Stage
  <2>2. Cardinality(Outstanding) = 0
    <3>1. PICK c, m : c = Cardinality(Outstanding) /\ m = 2^Width
      OBVIOUS
    <3>2. c \in Nat /\ m \in Nat \ {0}
      BY <3>1, OutstandingCount
    <3>3. submit_cnt = IF c - 0 < 0 THEN m - 1 ELSE c - 0
      BY <2>1, <3>1 DEF NbInv, CountInv, Counted
    <3> QED
      BY <3>1, <3>2, <3>3
  <2>3. Outstanding = {}
    BY <2>2, OutstandingCount, FS_EmptySet
  <2>4. transfer_list = << >>
    <3> SUFFICES ASSUME transfer_list # << >> PROVE FALSE
      OBVIOUS
    <3>1. /\ transfer_list[1][1] \in Reqs
          /\ "dma" \in held[transfer_list[1][1]]
      BY HeadXfer, ListedXfer
    <3> QED
      BY <2>3, <3>1 DEF Outstanding
  <2>5. Len(Job.pages) = 0
    <3>1. Job.pages = << >>
      BY <2>1 DEF NbInv, JobInv, Submitting
    <3> QED
      BY <3>1, EmptySeq, Zenon
  <2>6. Through = next - 1 /\ next - 1 \in Nat
    BY <2>4, <2>5, PageCounts DEF Through
  <2>7. ~running /\ \A m \in 1..Len(taken) : taken[m] = m
    BY <2>4 DEF NbInv, HwInv
  <2>8. Len(taken) = Through + 0
    BY <2>7 DEF NbInv, HwInv
  <2>9. taken \in Seq(Nat) /\ Len(taken) = next - 1
    BY <2>6, <2>8 DEF NbInv, NbTypes
  <2>10. taken = [i \in 1..Len(taken) |-> taken[i]]
    BY <2>9
  <2> QED
    BY <2>7, <2>9, <2>10
<1> QED
  BY <1>1, NonblockingInvariant, PTL

(* With O_NONBLOCK nothing holds back a writer while its transfers are     *)
(* queued, and desc_used is not tested: what keeps the descriptors of a    *)
(* queued transfer is that the ring is at least as long as the message.    *)
THEOREM NonblockingRingIntact ==
  ASSUME NonblockingConstants PROVE Spec => []RingIntact
<1>1. (\E b \in 0..(DescMax - 1) : NbInv(b)) => RingIntact
  <2> SUFFICES ASSUME NEW b \in 0..(DescMax - 1), NbInv(b),
                      NEW i \in DOMAIN transfer_list, NEW t,
                      t = transfer_list[i], NEW j \in DOMAIN xfer[t].pages
               PROVE  ring[xfer[t].idx + j - 1] = xfer[t].pages[j]
    BY DEF RingIntact
  <2>1. /\ t \in Xfers /\ xfer[t].pages # << >> /\ FinalPage(t) <= Queued
    BY ListedXfer
  <2>2. PICK f, n : f = FirstPage(t) /\ n = desc_num(t)
    OBVIOUS
  <2>3. /\ f \in Nat \ {0} /\ n \in Nat \ {0} /\ FinalPage(t) = f + n - 1
        /\ xfer[t].pages \in Seq(Nat) /\ Len(xfer[t].pages) = n
    BY <2>1, <2>2, XferPages
  <2>4. j \in 1..n
    BY <2>3
  <2>5. /\ xfer[t].pages[j] = f + j - 1 /\ xfer[t].idx = SlotOf(b, f)
        /\ xfer[t].idx + n <= DescMax
    BY <2>1, <2>2, <2>4 DEF NbInv, XferInv
  <2>6. /\ Queued \in Nat /\ Placed \in Nat /\ Queued <= Placed
        /\ Placed <= DescMax /\ DescMax \in Nat \ {0}
    BY PageCounts, NbConstants
  <2>7. Through \in Nat /\ Through + 1 <= f
    <3>1. PICK h : h = transfer_list[1]
      OBVIOUS
    <3>2. transfer_list # << >>
      BY EmptySeq
    <3>3. 1 \in DOMAIN transfer_list /\ Through = FirstPage(h) - 1
      BY <3>1, <3>2, HeadXfer
    <3>4. h \in Xfers /\ xfer[h].pages # << >>
      BY <3>1, <3>3, ListedXfer
    <3>5. /\ FirstPage(h) \in Nat \ {0} /\ FinalPage(h) \in Nat
          /\ FirstPage(h) <= FinalPage(h)
      BY <3>4, XferPages
    <3>6. CASE i = 1
      BY <2>2, <3>1, <3>3, <3>5, <3>6
    <3>7. CASE i # 1
      <4>1. 1 < i
        BY <3>7, ListMembers DEF NbInv
      <4>2. FinalPage(transfer_list[1]) < FirstPage(transfer_list[i])
        BY <3>3, <4>1 DEF NbInv, ListInv
      <4>3. PICK g, e : g = FirstPage(h) /\ e = FinalPage(h)
        OBVIOUS
      <4>4. /\ g \in Nat \ {0} /\ e \in Nat /\ g <= e /\ e < f /\ f \in Nat
            /\ Through = g - 1
        BY <2>2, <2>3, <3>1, <3>3, <3>5, <4>2, <4>3
      <4> QED
        BY <4>4
    <3> QED
      BY <3>6, <3>7
  <2>8. PICK q : q = f + (j - 1)
    OBVIOUS
  <2>9. q \in (Through + 1)..Placed /\ f \in 1..DescMax /\ j - 1 \in Nat
    <3>1. j - 1 \in Nat /\ j \in Nat /\ j <= n
      BY <2>3, <2>4
    <3>2. f + n - 1 <= Placed
      BY <2>1, <2>3, <2>6, SMTT(30)
    <3>3. q \in Nat /\ q <= Placed /\ f <= q
      BY <2>3, <2>6, <2>8, <3>1, <3>2, SMTT(30)
    <3> QED
      BY <2>3, <2>6, <2>7, <3>1, <3>3, SMTT(30)
  <2>10. SlotOf(b, f) \in 0..(DescMax - 1)
    BY <2>6, <2>9, SlotsApart
  <2>11. SlotOf(b, f) + (j - 1) < DescMax
    BY <2>3, <2>4, <2>5, <2>6, <2>10
  <2>12. SlotOf(b, q) = SlotOf(b, f) + (j - 1)
    BY <2>6, <2>8, <2>9, <2>11, SlotsFollow
  <2>13. ring[SlotOf(b, q)] = q
    BY <2>9 DEF NbInv, RingInv
  <2>14. /\ xfer[t].idx + j - 1 = SlotOf(b, q) /\ xfer[t].pages[j] = q
    BY <2>3, <2>4, <2>5, <2>8, <2>10, <2>12
  <2> QED
    BY <2>13, <2>14
<1> QED
  BY <1>1, NonblockingInvariant, PTL

(* The WARN_ON of engine_service_final_transfer never fires for them       *)
(* either: a service finds exactly one transfer completed, and the count   *)
(* starts again with the next one.                                         *)
THEOREM NonblockingCountFits ==
  ASSUME NonblockingConstants PROVE Spec => []CountFits
<1>1. (\E b \in 0..(DescMax - 1) : NbInv(b)) => CountFits
  <2> SUFFICES ASSUME NEW b \in 0..(DescMax - 1), NbInv(b), Finishes
               PROVE  Completed <= desc_num(Head(transfer_list))
    BY DEF CountFits
  <2>1. running /\ transfer_list # << >>
    BY DEF Finishes
  <2>2. Head(transfer_list) = transfer_list[1]
    BY <2>1, HeadXfer
  <2>3. /\ desc_dequeued = 0 /\ hw.num = desc_num(transfer_list[1])
        /\ hw.count \in 0..(hw.num - 1) \/ hw.count = hw.num
    BY <2>1 DEF NbInv, HwInv
  <2>4. hw.count \in Nat /\ hw.num \in Nat
    BY DEF NbInv, NbTypes, HwType
  <2>5. 2^Width \in Nat \ {0}
    BY EngineAssumption
  <2>6. hw.count <= hw.num
    BY <2>3, <2>4
  <2>7. Completed = hw.count % 2^Width
    BY <2>3, <2>4 DEF Completed
  <2>8. Completed \in Nat /\ Completed <= hw.count
    BY <2>4, <2>5, <2>7, ModuloAtMost
  <2> QED
    BY <2>2, <2>3, <2>4, <2>6, <2>8
<1> QED
  BY <1>1, NonblockingInvariant, PTL

(* What is allocated for a request goes up the same way for every write:   *)
(* the request is there while its pages are mapped for the device.         *)
HeldInv ==
  /\ held \in [Reqs -> SUBSET {"cb", "pages", "dma", "req"}]
  /\ \A r \in Reqs : "dma" \in held[r] => "req" \in held[r]

LEMMA HeldInvariant == Spec => []HeldInv
<1>1. Init => HeldInv
  BY DEF Init, HeldInv
<1>2. HeldInv /\ [Next]_vars => HeldInv'
  <2> SUFFICES ASSUME HeldInv, [Next]_vars PROVE HeldInv'
    OBVIOUS
  <2>1. ASSUME UNCHANGED held PROVE HeldInv'
    BY <2>1 DEF HeldInv
  <2>2. ASSUME NEW r, NEW a \in SUBSET {"cb", "pages", "dma", "req"},
               held' = [held EXCEPT ![r] = a], "dma" \in a => "req" \in a
        PROVE  HeldInv'
    BY <2>2 DEF HeldInv
  <2>3. ASSUME NEW p \in Procs, NEW n \in WritePages, Write(p, n) PROVE HeldInv'
    <3>1. PICK r : held' = [held EXCEPT ![r] =
                      {"pages"} \cup (IF Nonblock THEN {"cb"} ELSE {})]
      BY <2>3 DEF Write
    <3> QED
      BY <2>2, <3>1
  <2>4. ASSUME NEW p \in Procs, Submit(p) PROVE HeldInv'
    BY <2>4 DEF Submit, HeldInv
  <2>5. ASSUME NEW p \in Procs, SubmitOffline(p) PROVE HeldInv'
    BY <2>5 DEF SubmitOffline, HeldInv
  <2>6. ASSUME NEW p \in Procs, QueueOffline(p) PROVE HeldInv'
    BY <2>6 DEF QueueOffline, HeldInv
  <2>7. ASSUME NEW p \in Procs, NEW done, Finish(p, done) PROVE HeldInv'
    BY <2>2, <2>7 DEF Finish
  <2>8. ASSUME NEW p \in Procs, Completes(p) PROVE HeldInv'
    BY <2>1, <2>7, <2>8 DEF Completes
  <2>9. ASSUME NEW p \in Procs, Gives(p) PROVE HeldInv'
    BY <2>7, <2>9 DEF Gives
  <2>10. ASSUME ServiceWork PROVE HeldInv'
    BY <2>1, <2>2, <2>10 DEF ServiceWork, Completion, Callback
  <2>11. ASSUME NEW p \in Procs,
                Lock(p) \/ InitTransfer(p) \/ QueueTransfer(p) \/ CountSubmit(p)
                \/ Wake(p) \/ PollCheck(p) \/ Poll(p) \/ Interrupt(p)
         PROVE  HeldInv'
    BY <2>1, <2>11 DEF Lock, InitTransfer, QueueTransfer, CountSubmit, Wake,
       PollCheck, Poll, Interrupt
  <2>12. ASSUME Open \/ Close \/ UNCHANGED driverVars \/ UNCHANGED vars
         PROVE  HeldInv'
    BY <2>1, <2>12 DEF Open, Close, driverVars, vars
  <2> QED
    BY <2>3, <2>4, <2>5, <2>6, <2>8, <2>9, <2>10, <2>11, <2>12
    DEF Next, Continue, Engine
<1> QED
  BY <1>1, <1>2, PTL DEF Spec

(* The callback of one request frees it under the engine's lock, while     *)
(* other transfers are on the list: none of them is of that request, which *)
(* was freed with its last transfer.                                       *)
THEOREM NonblockingListIsLive ==
  ASSUME NonblockingConstants PROVE Spec => []ListIsLive
<1>1. (\E b \in 0..(DescMax - 1) : NbInv(b)) /\ HeldInv => ListIsLive
  <2> SUFFICES ASSUME NEW b \in 0..(DescMax - 1), NbInv(b), HeldInv,
                      NEW i \in DOMAIN transfer_list
               PROVE  "req" \in held[transfer_list[i][1]]
    BY DEF ListIsLive
  <2>1. transfer_list[i][1] \in Reqs /\ "dma" \in held[transfer_list[i][1]]
    BY ListedXfer
  <2> QED
    BY <2>1 DEF HeldInv
<1> QED
  BY <1>1, NonblockingInvariant, HeldInvariant, PTL

-----------------------------------------------------------------------------
(* Probe, reset and removal of the device (module PcieProbe).  What is     *)
(* acquired is given back once, as long as none of the failures in         *)
(* Uncleaned occurs: with each of them the code leaks or gives back twice. *)
(* What programs do with open nodes does not matter for this.              *)

DeviceConstants ==
  /\ Channels \in Nat \ {0} /\ UserMax \in Nat /\ MaxProbes \in Nat
  /\ \A f \in Uncleaned : f \notin ProbeFaults

(* Besides, a node is closed when its channel has no work left, and the    *)
(* device is not removed under an open node.                               *)
ProbeConstants ==
  DeviceConstants /\ "hasty" \notin ProbeFaults /\ "unplug" \notin ProbeFaults

(* The device is there for programs, or about to be. *)
UpPlaces == {"create", "node", "wqh", "live", "offline", "reset", "error",
             "frozen", "online", "create_fail"}

(* How much is acquired at place p; "err_out" is reached with the device   *)
(* open (up) and without it.                                               *)
LevelOf(p, up) ==
  IF p = "out" THEN 0
  ELSE IF p = "unbound" THEN 1
  ELSE IF p \in {"xdev", "free_xpdev", "oops"} \/ (p = "err_out" /\ ~up) THEN 2
  ELSE IF p \in {"list", "free_xdev"} THEN 3
  ELSE IF p \in {"enable", "err_enable"} THEN 4
  ELSE IF p \in {"regions", "err_regions"} THEN 5
  ELSE IF p \in {"map", "err_map"} THEN 6
  ELSE IF p \in {"mask", "err_mask", "engines"} THEN 7
  ELSE IF p \in {"vectors", "err_engines"} THEN 8
  ELSE IF p \in {"irqs", "err_msix"} THEN 9
  ELSE IF p \in {"up", "close"} THEN 10 ELSE 11

Level == LevelOf(place, xpdev.xdev)

(* The engines whose resources are allocated. *)
Made ==
  IF Level >= 8 THEN Served
  ELSE IF place = "engines" THEN {e \in Served : e < index} ELSE {}

HasLines == Level >= 10 /\ place \notin {"reset", "error", "frozen"}

(* What is held once at this place; "enable" and "node" are kept apart.    *)
Owns(r) ==
  \/ r[1] \in {"class", "cache"} /\ Level >= 1
  \/ r[1] = "xpdev" /\ Level >= 2
  \/ r[1] = "xdev" /\ Level >= 3
  \/ r[1] = "list" /\ Level >= 4
  \/ r[1] = "threads" /\ Level >= 4 /\ card.poll
  \/ r[1] = "regions" /\ Level >= 6
  \/ r[1] = "bar" /\ r[2] \in xdev.bars
  \/ r[1] = "desc" /\ r[2] \in Made
  \/ r[1] = "writeback" /\ r[2] \in Made /\ card.poll
  \/ r[1] = "vectors" /\ Level >= 9 /\ (xdev.msix \/ xdev.msi)
  \/ r[1] = "irq" /\ HasLines /\ r[2] \in Wanted
  \/ r[1] = "chrdev" /\ Level = 11 /\ xpdev.major
  \/ r[1] = "cdev" /\ Level = 11 /\ r[2] \in xpdev.magic

Plain == {r \in Resources : r[1] \notin {"enable", "node"}}

Enabled == Level >= 5 /\ place # "frozen" /\ ~xdev.regions_in_use

HoldPlain ==
  /\ hold \in [Resources -> Int]
  /\ \A r \in Plain : hold[r] = IF Owns(r) THEN 1 ELSE 0

(* A device whose regions were taken stays enabled. *)
HoldEnable ==
  /\ refused \in Nat
  /\ hold[<<"enable", 0>>] = IF Enabled THEN refused + 1 ELSE refused

HoldNode ==
  \A c \in 0..(Channels - 1) :
    hold[<<"node", c>>] = 0 \/
    (hold[<<"node", c>>] = 1 /\ Level = 11 /\ c \in xpdev.sys)

HoldInv == HoldPlain /\ HoldEnable /\ HoldNode

XdevType ==
  [bars : SUBSET (0..5), user_bar : Int, got_regions : BOOLEAN,
   regions_in_use : BOOLEAN, h2c : 0..Channels, c2h : 0..Channels,
   magic : SUBSET Nat, msix : BOOLEAN, msi : BOOLEAN, irq_line : BOOLEAN,
   lines : SUBSET Nat, offline : BOOLEAN]

(* The BARs of the card are mapped, one after the other.                   *)
BarInv ==
  /\ Level >= 6 => xdev.got_regions
  /\ place \in {"list", "enable", "regions"} \/ Level >= 6 => ~xdev.regions_in_use
  /\ Level >= 7 => xdev.bars = Present
  /\ Level >= 7 /\ "nouser" \notin ProbeFaults => xdev.user_bar = Slot(1)
  /\ place = "map" =>
       index \in 0..6 /\ xdev.bars = {b \in Present : b < index}
  /\ Level < 7 /\ place # "map" => xdev.bars = {}

(* The engines below the loop counter are set up, as far as each direction *)
(* goes, then all that the channel counts cover.                           *)
EngineInv ==
  /\ place \in {"list", "enable", "regions", "map", "mask"} =>
       xdev.h2c = Channels /\ xdev.c2h = Channels
  /\ place = "engines" =>
       /\ index \in 0..(2 * Channels) /\ xdev.c2h = Channels
       /\ index < Channels => xdev.h2c = Channels
  /\ Made \subseteq xdev.magic

(* irq_teardown finds every line that irq_setup got; there are no resets   *)
(* in poll mode.                                                           *)
LineInv ==
  /\ Level >= 10 /\ xdev.msix => Served \subseteq xdev.lines
  /\ Level >= 10 /\ ~xdev.msix => xdev.irq_line
  /\ place \in {"offline", "reset", "error", "frozen", "online"} => ~card.poll

XdevInv == xdev \in XdevType /\ BarInv /\ EngineInv /\ LineInv

XpdevType ==
  [xdev : BOOLEAN, closing : BOOLEAN, h2c : 0..Channels, major : BOOLEAN,
   magic : SUBSET Nat, sys : SUBSET Nat, wqh : SUBSET Nat]

(* No interface was created. *)
Fresh ==
  ~xpdev.major /\ xpdev.magic = {} /\ xpdev.sys = {} /\ xpdev.wqh = {}

OpeningPlaces == {"xdev", "list", "enable", "regions", "map", "mask",
                  "engines", "vectors", "irqs", "up"}

ErrorPlaces == {"err_msix", "err_engines", "err_mask", "err_map",
                "err_regions", "err_enable", "free_xdev"}

Places ==
  UpPlaces \cup OpeningPlaces \cup ErrorPlaces \cup
  {"out", "unbound", "close", "err_out", "free_xpdev", "oops"}

XpdevInv ==
  /\ place \in Places
  /\ xpdev \in XpdevType
  /\ place \in UpPlaces => xpdev.xdev
  /\ place \notin UpPlaces \cup {"err_out"} => ~xpdev.xdev
  /\ Level = 11 => xpdev.h2c = xdev.h2c
  /\ place \in OpeningPlaces \cup {"create_fail"} => Fresh
  /\ place \in ErrorPlaces => xpdev.closing \/ Fresh
  /\ place = "close" => xpdev.closing
  /\ place = "err_out" => xpdev.xdev \/ Fresh
  /\ xpdev.magic \subseteq 0..(xpdev.h2c - 1)
  /\ xpdev.sys \subseteq xpdev.magic /\ xpdev.wqh \subseteq xpdev.magic
  /\ place \in {"create", "node", "wqh"} => index \in 0..xpdev.h2c
  /\ place \in {"node", "wqh"} => index < xpdev.h2c /\ xpdev.major
  /\ place = "create" =>
       /\ xpdev.magic = 0..(index - 1) /\ xpdev.sys = 0..(index - 1)
       /\ xpdev.wqh = 0..(index - 1) /\ (xpdev.major <=> index > 0)
  /\ place = "node" =>
       /\ xpdev.magic = 0..index /\ xpdev.sys = 0..(index - 1)
       /\ xpdev.wqh = 0..(index - 1)
  /\ place = "wqh" =>
       /\ xpdev.magic = 0..index /\ xpdev.sys = 0..index
       /\ xpdev.wqh = 0..(index - 1)

(* Transfers and work items belong to open nodes, and these to a device    *)
(* that is up.                                                             *)
FileInv ==
  /\ dma \in [0..(Channels - 1) -> {"idle", "running", "over", "stopped"}]
  /\ file \subseteq xpdev.magic /\ queued \subseteq file
  /\ "early" \in ProbeFaults \/ file \subseteq xpdev.wqh
  /\ \A c \in 0..(Channels - 1) : dma[c] # "idle" => c \in file
  /\ place \notin UpPlaces => file = {}

DeviceInv == card \in Cards /\ HoldInv /\ XdevInv /\ XpdevInv

ProbeInv == DeviceInv /\ FileInv
-----------------------------------------------------------------------------
(* Places and resources.                                                   *)

LEMMA ResourceNames ==
  ASSUME NEW r \in Resources
  PROVE  /\ r = <<r[1], r[2]>>
         /\ r[1] \in {"class", "cache", "xpdev", "xdev", "list", "threads",
                      "enable", "regions", "vectors", "chrdev"} => r[2] = 0
         /\ r[1] = "bar" => r[2] \in 0..5
         /\ r[1] \in {"desc", "writeback"} => r[2] \in Engines
         /\ r[1] = "irq" => r[2] \in 0..SharedLine
         /\ r[1] \in {"cdev", "node"} => r[2] \in 0..(Channels - 1)
         /\ r[1] \in {"class", "cache", "xpdev", "xdev", "list", "threads",
                      "enable", "regions", "vectors", "chrdev", "bar", "desc",
                      "writeback", "irq", "cdev", "node"}
  BY DEF Resources, DeviceResources, BarSlots

LEMMA ResourceMembers ==
  /\ \A s \in {"class", "cache", "xpdev", "xdev", "list", "threads", "enable",
               "regions", "vectors", "chrdev"} : <<s, 0>> \in Resources
  /\ \A b \in 0..5 : <<"bar", b>> \in Resources
  /\ \A e \in Engines : /\ <<"desc", e>> \in Resources
                              /\ <<"writeback", e>> \in Resources
  /\ \A l \in 0..SharedLine : <<"irq", l>> \in Resources
  /\ \A c \in 0..(Channels - 1) : /\ <<"cdev", c>> \in Resources
                                  /\ <<"node", c>> \in Resources
  BY DEF Resources, DeviceResources, BarSlots

(* rs comes on top of what the place owned; rs was part of it. *)
Gained(rs) ==
  \A r \in Plain :
    (Owns(r)' <=> Owns(r) \/ r \in rs) /\ ~(Owns(r) /\ r \in rs)

Lost(rs) ==
  \A r \in Plain :
    (Owns(r)' <=> Owns(r) /\ r \notin rs) /\ (r \in rs => Owns(r))

(* Acquire and Release by resource. *)
LEMMA AcquireValues ==
  ASSUME hold \in [Resources -> Int], NEW rs, Acquire(rs)
  PROVE  /\ hold' \in [Resources -> Int]
         /\ \A r \in Resources :
              hold'[r] = IF r \in rs THEN hold[r] + 1 ELSE hold[r]
  BY DEF Acquire

LEMMA ReleaseValues ==
  ASSUME hold \in [Resources -> Int], NEW rs, Release(rs)
  PROVE  /\ hold' \in [Resources -> Int]
         /\ \A r \in Resources :
              hold'[r] = IF r \in rs THEN hold[r] - 1 ELSE hold[r]
  BY DEF Release

LEMMA PlainAcquire ==
  ASSUME HoldPlain, NEW rs, Acquire(rs), Gained(rs)
  PROVE  HoldPlain'
<1>1. Plain' = Plain /\ Resources' = Resources
  BY DEF Plain, Resources
<1>2. ASSUME NEW r \in Plain PROVE hold'[r] = IF Owns(r)' THEN 1 ELSE 0
  <2>1. r \in Resources
    BY DEF Plain
  <2>2. hold[r] = IF Owns(r) THEN 1 ELSE 0
    BY DEF HoldPlain
  <2>3. hold'[r] = IF r \in rs THEN hold[r] + 1 ELSE hold[r]
    BY <2>1, AcquireValues DEF HoldPlain
  <2>4. (Owns(r)' <=> Owns(r) \/ r \in rs) /\ ~(Owns(r) /\ r \in rs)
    BY DEF Gained
  <2> QED
    BY <2>2, <2>3, <2>4
<1> QED
  BY <1>1, <1>2, AcquireValues DEF HoldPlain

LEMMA PlainRelease ==
  ASSUME HoldPlain, NEW rs, Release(rs), Lost(rs)
  PROVE  HoldPlain'
<1>1. Plain' = Plain /\ Resources' = Resources
  BY DEF Plain, Resources
<1>2. ASSUME NEW r \in Plain PROVE hold'[r] = IF Owns(r)' THEN 1 ELSE 0
  <2>1. r \in Resources
    BY DEF Plain
  <2>2. hold[r] = IF Owns(r) THEN 1 ELSE 0
    BY DEF HoldPlain
  <2>3. hold'[r] = IF r \in rs THEN hold[r] - 1 ELSE hold[r]
    BY <2>1, ReleaseValues DEF HoldPlain
  <2>4. (Owns(r)' <=> Owns(r) /\ r \notin rs) /\ (r \in rs => Owns(r))
    BY DEF Lost
  <2> QED
    BY <2>2, <2>3, <2>4
<1> QED
  BY <1>1, <1>2, ReleaseValues DEF HoldPlain

LEMMA CardSame ==
  ASSUME card' = card
  PROVE  /\ Present' = Present /\ Slot(1)' = Slot(1)
         /\ Cards' = Cards
  BY DEF Present, Slot, Cards, Layouts

LEMMA ServedSame ==
  ASSUME xdev'.h2c = xdev.h2c, xdev'.c2h = xdev.c2h
  PROVE  Served' = Served
  BY DEF Served

(* What one thread of the driver or the error handlers do. *)
DeviceStep ==
  \/ ModInit \/ ModExit \/ XpdevAlloc \/ RemoveOne
  \/ GoOffline \/ XdmaDeviceOpen \/ Unwind
  \/ Interfaces \/ Reset

(* The steps that leave xdev alone. *)
LEMMA XdevTypeKept ==
  ASSUME xdev \in XdevType, xdev' = xdev
  PROVE  (xdev \in XdevType)'
  BY DEF XdevType

(* Every card has a BAR; the user BAR, if there is one, is the first. *)
LEMMA LayoutCases ==
  ASSUME card \in Cards
  PROVE  /\ card.wide \in BOOLEAN
         /\ card.bars \in {<<"user", "config">>, <<"user", "config", "bypass">>}
            \/ /\ "nouser" \in ProbeFaults
               /\ card.bars \in {<<"config">>, <<"config", "bypass">>}
  BY DEF Cards, Layouts

LEMMA PresentSlots ==
  ASSUME card \in Cards
  PROVE  /\ Present \subseteq 0..5
         /\ Slot(1) \in Present /\ 1 \in DOMAIN card.bars
         /\ "nouser" \notin ProbeFaults => card.bars[1] = "user"
<1>1. /\ "nouser" \notin ProbeFaults => card.bars[1] = "user"
      /\ \/ DOMAIN card.bars = 1..1
         \/ DOMAIN card.bars = 1..2 \/ DOMAIN card.bars = 1..3
  BY LayoutCases
<1>2. card.wide \in BOOLEAN
  BY LayoutCases
<1> QED
  BY <1>1, <1>2 DEF Present, Slot

LEMMA CardinalityOfInterval ==
  ASSUME NEW n \in Nat
  PROVE  Cardinality(1..n) = n
BY FS_Interval

LEMMA UserBarIsFirst ==
  ASSUME card \in Cards
  PROVE  /\ UserBar(card.bars) \in Int
         /\ "nouser" \notin ProbeFaults => UserBar(card.bars) = Slot(1)
<1>1. Slot(1) \in Int /\ UserBar(card.bars) \in Int
  BY DEF Slot, UserBar
<1>2. CASE card.bars = <<"user", "config">>
  <2>1. /\ DOMAIN card.bars = 1..2 /\ card.bars[1] = "user"
        /\ card.bars[2] = "config"
    BY <1>2
  <2>2. Cardinality(DOMAIN card.bars) = 2
    BY <2>1, CardinalityOfInterval
  <2>3. (CHOOSE n \in DOMAIN card.bars : card.bars[n] = "config") = 2
    BY <2>1
  <2>4. UserBar(card.bars) =
          IF (2 = 2 /\ 2 - 1 = 1) \/ (2 \in {3, 4} /\ 2 - 1 \in {1, 2})
          THEN Slot(1) ELSE -1
    BY <2>2, <2>3, Zenon DEF UserBar
  <2> QED
    BY <1>1, <2>4
<1>3. CASE card.bars = <<"user", "config", "bypass">>
  <2>1. /\ DOMAIN card.bars = 1..3 /\ card.bars[1] = "user"
        /\ card.bars[2] = "config" /\ card.bars[3] = "bypass"
    BY <1>3
  <2>2. Cardinality(DOMAIN card.bars) = 3
    BY <2>1, CardinalityOfInterval
  <2>3. (CHOOSE n \in DOMAIN card.bars : card.bars[n] = "config") = 2
    BY <2>1
  <2>4. UserBar(card.bars) =
          IF (3 = 2 /\ 2 - 1 = 1) \/ (3 \in {3, 4} /\ 2 - 1 \in {1, 2})
          THEN Slot(1) ELSE -1
    BY <2>2, <2>3, Zenon DEF UserBar
  <2> QED
    BY <1>1, <2>4
<1> QED
  BY <1>1, <1>2, <1>3, LayoutCases

LEMMA WithLinesFields ==
  ASSUME DeviceConstants, xdev \in XdevType, NEW ls
  PROVE  /\ WithLines(ls) \in XdevType
         /\ WithLines(ls).bars = xdev.bars
         /\ WithLines(ls).user_bar = xdev.user_bar
         /\ WithLines(ls).got_regions = xdev.got_regions
         /\ WithLines(ls).regions_in_use = xdev.regions_in_use
         /\ WithLines(ls).h2c = xdev.h2c
         /\ WithLines(ls).c2h = xdev.c2h
         /\ WithLines(ls).magic = xdev.magic
         /\ WithLines(ls).msix = xdev.msix
         /\ WithLines(ls).msi = xdev.msi
         /\ WithLines(ls).lines = xdev.lines \cup (ls \cap Engines)
         /\ (WithLines(ls).irq_line <=> xdev.irq_line \/ ~xdev.msix)
<1> DEFINE new == xdev.lines \cup (ls \cap Engines)
           flag == xdev.irq_line \/ ~xdev.msix
<1>1. new \in SUBSET Nat
  BY DEF XdevType, Engines, DeviceConstants
<1>2. flag \in BOOLEAN
  OBVIOUS
<1>3. WithLines(ls) = [xdev EXCEPT !.lines = new, !.irq_line = flag]
  BY Zenon DEF WithLines
<1> HIDE DEF new, flag
<1>4. flag <=> xdev.irq_line \/ ~xdev.msix
  BY Zenon DEF flag
<1>5. /\ WithLines(ls) \in XdevType
      /\ WithLines(ls).bars = xdev.bars
      /\ WithLines(ls).user_bar = xdev.user_bar
      /\ WithLines(ls).got_regions = xdev.got_regions
      /\ WithLines(ls).regions_in_use = xdev.regions_in_use
      /\ WithLines(ls).h2c = xdev.h2c
      /\ WithLines(ls).c2h = xdev.c2h
      /\ WithLines(ls).magic = xdev.magic
      /\ WithLines(ls).msix = xdev.msix
      /\ WithLines(ls).msi = xdev.msi
      /\ WithLines(ls).lines = new
      /\ WithLines(ls).irq_line = flag
  BY <1>1, <1>2, <1>3 DEF XdevType
<1> QED
  BY <1>4, <1>5, Zenon DEF new

LEMMA NewXdevFields ==
  ASSUME DeviceConstants
  PROVE  /\ NewXdev \in XdevType /\ NewXdev.bars = {}
         /\ ~NewXdev.got_regions /\ ~NewXdev.regions_in_use
         /\ NewXdev.h2c = Channels /\ NewXdev.c2h = Channels
  BY DEF NewXdev, XdevType, DeviceConstants

(* With MSI-X every engine has a line of its own. *)
LEMMA WantedCovers ==
  ASSUME DeviceConstants, xdev \in XdevType
  PROVE  /\ Served \subseteq Engines
         /\ xdev.msix => Served \subseteq Wanted \cap Engines
  BY DEF Served, Engines, Wanted, XdevType, DeviceConstants

(* irq_setup, from xdma_device_open and from xdma_device_online. *)
LEMMA LinesOpened ==
  ASSUME DeviceConstants, DeviceInv, OpenIrqs \/ OnlineIrqs
  PROVE  /\ xdev' \in XdevType
         /\ xdev'.bars = xdev.bars /\ xdev'.user_bar = xdev.user_bar
         /\ xdev'.got_regions = xdev.got_regions
         /\ xdev'.regions_in_use = xdev.regions_in_use
         /\ xdev'.h2c = xdev.h2c /\ xdev'.c2h = xdev.c2h
         /\ xdev'.magic = xdev.magic
         /\ xdev'.msix = xdev.msix /\ xdev'.msi = xdev.msi
         /\ place' # "err_msix" => /\ xdev.msix => Served \subseteq xdev'.lines
                                   /\ ~xdev.msix => xdev'.irq_line
         /\ card' = card /\ xpdev' = xpdev
         /\ \/ place = "irqs" /\ place' = "up"
            \/ place = "irqs" /\ place' = "err_msix"
            \/ place = "reset" /\ place' = "online"
<1>1. /\ card' = card /\ xpdev' = xpdev
      /\ \/ place = "irqs" /\ place' = "up"
         \/ place = "irqs" /\ place' = "err_msix"
         \/ place = "reset" /\ place' = "online"
  BY DEF OpenIrqs, OnlineIrqs, At, Go
<1>2. xdev \in XdevType
  BY DEF DeviceInv, XdevInv
<1>3. PICK ls : /\ xdev' = WithLines(ls)
                /\ place' # "err_msix" => ls = Wanted
  <2>1. CASE OpenIrqs
    BY <2>1 DEF OpenIrqs, IrqSetup, IrqSetupFails, Go
  <2>2. CASE OnlineIrqs
    <3>1. ~card.poll /\ "online_irq" \notin ProbeFaults
      BY <2>2 DEF OnlineIrqs, At, DeviceInv, XdevInv, LineInv,
         DeviceConstants, Uncleaned
    <3> QED
      BY <2>2, <3>1 DEF OnlineIrqs, IrqSetup, Fails
  <2> QED
    BY <2>1, <2>2
<1>4. /\ xdev' \in XdevType
      /\ xdev'.bars = xdev.bars /\ xdev'.user_bar = xdev.user_bar
      /\ xdev'.got_regions = xdev.got_regions
      /\ xdev'.regions_in_use = xdev.regions_in_use
      /\ xdev'.h2c = xdev.h2c /\ xdev'.c2h = xdev.c2h
      /\ xdev'.magic = xdev.magic
      /\ xdev'.msix = xdev.msix /\ xdev'.msi = xdev.msi
      /\ xdev'.lines = xdev.lines \cup (ls \cap Engines)
      /\ (xdev'.irq_line <=> xdev.irq_line \/ ~xdev.msix)
  BY <1>2, <1>3, WithLinesFields, Zenon
<1>5. place' # "err_msix" /\ xdev.msix => Served \subseteq xdev'.lines
  BY <1>2, <1>3, <1>4, WantedCovers
<1>6. ~xdev.msix => xdev'.irq_line
  BY <1>4, Zenon
<1> QED
  BY <1>1, <1>4, <1>5, <1>6, Zenon

LEMMA DeviceKeepsCard ==
  ASSUME DeviceStep
  PROVE  card' = card
  BY DEF DeviceStep, XdmaDeviceOpen, Unwind, Interfaces,
     Reset, ModInit, ModExit, XpdevAlloc,
     RemoveOne, GoOffline, AllocDevInstance,
     XdevListAdd, PciEnableDevice, RequestRegions,
     MapSingleBar, MapBars, SetDmaMask,
     ProbeForEngine, ProbeEnginesBreak, ProbeEnginesEnd,
     EnableMsiMsix, OpenIrqs, OpenDone, DeviceClose,
     DisableMsiMsix, RemoveEngines, UnwindBars,
     ReleaseRegions, DisableDevice, XdevListRemove,
     FreeXdev, Sha256Create, DeviceCreate,
     InitWaitqueue, ProbeDone, CreateFails, XpdevFree,
     XpdevFreeOops, FreeXpdev, OfflineIrqs,
     ErrorDisables, SlotReset, OnlineIrqs, OnlineDone

(* struct xdma_dev stays well-formed. *)
LEMMA XdevTypeNext ==
  ASSUME DeviceConstants, DeviceInv, DeviceStep
  PROVE  (xdev \in XdevType)'
<1> USE DEF DeviceInv, XdevInv, At, Go, Loop, devVars
<1>1. CASE ModInit
  BY <1>1, XdevTypeKept DEF ModInit
<1>2. CASE ModExit
  BY <1>2, XdevTypeKept DEF ModExit
<1>3. CASE XpdevAlloc
  BY <1>3, XdevTypeKept DEF XpdevAlloc
<1>4. CASE RemoveOne
  BY <1>4, XdevTypeKept DEF RemoveOne
<1>5. CASE GoOffline
  BY <1>5, XdevTypeKept DEF GoOffline, XdevType
<1>6. CASE AllocDevInstance
  BY <1>6, XdevTypeKept, NewXdevFields DEF AllocDevInstance
<1>7. CASE XdevListAdd
  BY <1>7, XdevTypeKept DEF XdevListAdd
<1>8. CASE PciEnableDevice
  BY <1>8, XdevTypeKept DEF PciEnableDevice
<1>9. CASE RequestRegions
  BY <1>9, XdevTypeKept DEF RequestRegions, XdevType
<1>10. CASE MapSingleBar
  BY <1>10, XdevTypeKept DEF MapSingleBar, XdevType, UnmapBars,
     BarSlots
<1>11. CASE MapBars
  BY <1>11, XdevTypeKept, UserBarIsFirst DEF MapBars, XdevType,
     UnmapBars
<1>12. CASE SetDmaMask
  BY <1>12, XdevTypeKept DEF SetDmaMask
<1>13. CASE ProbeForEngine
  BY <1>13, XdevTypeKept DEF ProbeForEngine, XdevType, Engines,
     DeviceConstants
<1>14. CASE ProbeEnginesBreak
  BY <1>14, XdevTypeKept DEF ProbeEnginesBreak, XdevType, Engines,
     DeviceConstants
<1>15. CASE ProbeEnginesEnd
  BY <1>15, XdevTypeKept DEF ProbeEnginesEnd
<1>16. CASE EnableMsiMsix
  BY <1>16, XdevTypeKept DEF EnableMsiMsix, XdevType
<1>17. CASE OpenIrqs
  BY <1>17, XdevTypeKept, LinesOpened
<1>18. CASE OpenDone
  BY <1>18, XdevTypeKept DEF OpenDone, XdevType
<1>19. CASE DeviceClose
  BY <1>19, XdevTypeKept DEF DeviceClose
<1>20. CASE DisableMsiMsix
  BY <1>20, XdevTypeKept DEF DisableMsiMsix, XdevType
<1>21. CASE RemoveEngines
  BY <1>21, XdevTypeKept DEF RemoveEngines, XdevType
<1>22. CASE UnwindBars
  BY <1>22, XdevTypeKept DEF UnwindBars, XdevType, UnmapBars
<1>23. CASE ReleaseRegions
  BY <1>23, XdevTypeKept DEF ReleaseRegions
<1>24. CASE DisableDevice
  BY <1>24, XdevTypeKept DEF DisableDevice
<1>25. CASE XdevListRemove
  BY <1>25, XdevTypeKept DEF XdevListRemove
<1>26. CASE FreeXdev
  BY <1>26, XdevTypeKept DEF FreeXdev
<1>27. CASE Sha256Create
  BY <1>27, XdevTypeKept DEF Sha256Create
<1>28. CASE DeviceCreate
  BY <1>28, XdevTypeKept DEF DeviceCreate
<1>29. CASE InitWaitqueue
  BY <1>29, XdevTypeKept DEF InitWaitqueue
<1>30. CASE ProbeDone
  BY <1>30, XdevTypeKept DEF ProbeDone
<1>31. CASE CreateFails
  BY <1>31, XdevTypeKept DEF CreateFails
<1>32. CASE XpdevFree
  BY <1>32, XdevTypeKept DEF XpdevFree
<1>33. CASE XpdevFreeOops
  BY <1>33, XdevTypeKept DEF XpdevFreeOops
<1>34. CASE FreeXpdev
  BY <1>34, XdevTypeKept DEF FreeXpdev
<1>35. CASE OfflineIrqs
  BY <1>35, XdevTypeKept DEF OfflineIrqs
<1>36. CASE ErrorDisables
  BY <1>36, XdevTypeKept DEF ErrorDisables
<1>37. CASE SlotReset
  BY <1>37, XdevTypeKept DEF SlotReset
<1>38. CASE OnlineIrqs
  BY <1>38, XdevTypeKept, LinesOpened
<1>39. CASE OnlineDone
  BY <1>39, XdevTypeKept DEF OnlineDone, XdevType
<1> QED
  BY <1>1, <1>2, <1>3, <1>4, <1>5, <1>6, <1>7, <1>8, <1>9, <1>10, <1>11,
     <1>12, <1>13, <1>14, <1>15, <1>16, <1>17, <1>18, <1>19, <1>20, <1>21,
     <1>22, <1>23, <1>24, <1>25, <1>26, <1>27, <1>28, <1>29, <1>30, <1>31,
     <1>32, <1>33, <1>34, <1>35, <1>36, <1>37, <1>38, <1>39, ZenonT(60)
     DEF DeviceStep, XdmaDeviceOpen, Unwind, Interfaces, Reset

(* BARs: map_bars maps them all or none, and only the error labels and     *)
(* xdma_device_close unmap them.                                           *)
LEMMA BarNext ==
  ASSUME DeviceConstants, DeviceInv, DeviceStep
  PROVE  BarInv'
<1> USE DEF DeviceInv, XdevInv, BarInv, XpdevInv, At, Go, Loop,
         devVars, Level, LevelOf, UpPlaces
<1>1. CASE ModInit
  BY <1>1, CardSame DEF ModInit
<1>2. CASE ModExit
  BY <1>2, CardSame DEF ModExit
<1>3. CASE XpdevAlloc
  BY <1>3, CardSame DEF XpdevAlloc
<1>4. CASE RemoveOne
  BY <1>4, CardSame DEF RemoveOne
<1>5. CASE GoOffline
  BY <1>5, CardSame DEF GoOffline
<1>6. CASE AllocDevInstance
  <2>1. CASE xdev' = NewXdev /\ place' = "list"
    BY <1>6, <2>1 DEF DeviceInv, XdevInv, BarInv, Level, LevelOf, NewXdev,
       At, UpPlaces
  <2>2. CASE xdev' = xdev /\ place' = "err_out"
    BY <1>6, <2>2 DEF DeviceInv, XdevInv, BarInv, XpdevInv, Level, LevelOf,
       AllocDevInstance, At, UpPlaces
  <2> QED
    BY <1>6, <2>1, <2>2 DEF AllocDevInstance, Go
<1>7. CASE XdevListAdd
  BY <1>7, CardSame DEF XdevListAdd
<1>8. CASE PciEnableDevice
  BY <1>8, CardSame DEF PciEnableDevice
<1>9. CASE RequestRegions
  <2>1. CASE /\ xdev' = [xdev EXCEPT !.got_regions = TRUE]
             /\ place' = "map"
             /\ index' = 0
    <3>1. xdev'.bars = {} /\ xdev'.got_regions /\ ~xdev'.regions_in_use
      BY <1>9, <2>1 DEF RequestRegions, At, DeviceInv, XdevInv,
         BarInv, XdevType, Level, LevelOf
    <3>2. {b \in Present : b < 0} = {}
      BY PresentSlots DEF DeviceInv
    <3>3. Present' = Present
      BY <1>9, CardSame DEF RequestRegions
    <3> QED
      BY <2>1, <3>1, <3>2, <3>3 DEF BarInv, Level, LevelOf
  <2>2. CASE /\ xdev' = [xdev EXCEPT !.regions_in_use = TRUE]
             /\ place' = "err_regions"
    BY <1>9, <2>2 DEF RequestRegions, At, DeviceInv, XdevInv,
       BarInv, XdevType, Level, LevelOf
  <2> QED
    BY <1>9, <2>1, <2>2 DEF RequestRegions, Go
<1>10. CASE MapSingleBar
  BY <1>10, CardSame, PresentSlots DEF MapSingleBar, XdevType,
     UnmapBars, BarSlots
<1>11. CASE MapBars
  <2>1. CASE /\ xdev' = [xdev EXCEPT !.user_bar = UserBar(card.bars)]
             /\ place' = "mask"
    <3>1. xdev.bars = Present
      <4>1. place = "map" /\ index \notin 0..5
        BY <1>11 DEF MapBars, At, BarSlots
      <4>2. index = 6 /\ xdev.bars = {b \in Present : b < 6}
        BY <4>1 DEF DeviceInv, XdevInv, BarInv
      <4>3. Present \subseteq 0..5
        BY PresentSlots DEF DeviceInv
      <4>4. \A b \in Present : b < 6
        BY <4>3
      <4>5. {b \in Present : b < 6} = Present
        BY <4>4, Zenon
      <4> QED
        BY <4>2, <4>5
    <3>2. /\ xdev'.bars = Present
          /\ "nouser" \notin ProbeFaults => xdev'.user_bar = Slot(1)
          /\ xdev'.got_regions = xdev.got_regions
          /\ xdev'.regions_in_use = xdev.regions_in_use
      BY <2>1, <3>1, UserBarIsFirst DEF DeviceInv, XdevInv, XdevType
    <3> QED
      BY <1>11, <2>1, <3>2, CardSame DEF MapBars, At, DeviceInv,
         XdevInv, BarInv, Level, LevelOf
  <2>2. CASE xdev' = [xdev EXCEPT !.bars = {}] /\ place' = "err_map"
    BY <1>11, <2>2 DEF MapBars, At, DeviceInv, XdevInv, BarInv,
       XdevType, Level, LevelOf
  <2> QED
    BY <1>11, <2>1, <2>2 DEF MapBars, Go, UnmapBars
<1>12. CASE SetDmaMask
  BY <1>12, CardSame DEF SetDmaMask
<1>13. CASE ProbeForEngine
  BY <1>13, CardSame DEF ProbeForEngine
<1>14. CASE ProbeEnginesBreak
  BY <1>14, CardSame DEF ProbeEnginesBreak, XdevType
<1>15. CASE ProbeEnginesEnd
  BY <1>15, CardSame DEF ProbeEnginesEnd
<1>16. CASE EnableMsiMsix
  BY <1>16, CardSame DEF EnableMsiMsix
<1>17. CASE OpenIrqs
  BY <1>17, CardSame, LinesOpened
<1>18. CASE OpenDone
  BY <1>18, CardSame DEF OpenDone
<1>19. CASE DeviceClose
  BY <1>19, CardSame DEF DeviceClose
<1>20. CASE DisableMsiMsix
  BY <1>20, CardSame DEF DisableMsiMsix
<1>21. CASE RemoveEngines
  BY <1>21, CardSame DEF RemoveEngines
<1>22. CASE UnwindBars
  BY <1>22, CardSame DEF UnwindBars, XdevType, UnmapBars
<1>23. CASE ReleaseRegions
  BY <1>23, CardSame DEF ReleaseRegions
<1>24. CASE DisableDevice
  BY <1>24, CardSame DEF DisableDevice
<1>25. CASE XdevListRemove
  BY <1>25, CardSame DEF XdevListRemove
<1>26. CASE FreeXdev
  BY <1>26, CardSame DEF FreeXdev
<1>27. CASE Sha256Create
  BY <1>27, CardSame DEF Sha256Create
<1>28. CASE DeviceCreate
  BY <1>28, CardSame DEF DeviceCreate
<1>29. CASE InitWaitqueue
  BY <1>29, CardSame DEF InitWaitqueue
<1>30. CASE ProbeDone
  BY <1>30, CardSame DEF ProbeDone
<1>31. CASE CreateFails
  BY <1>31, CardSame DEF CreateFails
<1>32. CASE XpdevFree
  BY <1>32, CardSame DEF XpdevFree
<1>33. CASE XpdevFreeOops
  BY <1>33, CardSame DEF XpdevFreeOops
<1>34. CASE FreeXpdev
  BY <1>34, CardSame DEF FreeXpdev
<1>35. CASE OfflineIrqs
  BY <1>35, CardSame DEF OfflineIrqs
<1>36. CASE ErrorDisables
  BY <1>36, CardSame DEF ErrorDisables
<1>37. CASE SlotReset
  BY <1>37, CardSame DEF SlotReset
<1>38. CASE OnlineIrqs
  BY <1>38, CardSame, LinesOpened
<1>39. CASE OnlineDone
  BY <1>39, CardSame DEF OnlineDone
<1> QED
  BY <1>1, <1>2, <1>3, <1>4, <1>5, <1>6, <1>7, <1>8, <1>9, <1>10, <1>11,
     <1>12, <1>13, <1>14, <1>15, <1>16, <1>17, <1>18, <1>19, <1>20, <1>21,
     <1>22, <1>23, <1>24, <1>25, <1>26, <1>27, <1>28, <1>29, <1>30, <1>31,
     <1>32, <1>33, <1>34, <1>35, <1>36, <1>37, <1>38, <1>39, ZenonT(60)
     DEF DeviceStep, XdmaDeviceOpen, Unwind, Interfaces, Reset

(* Engines: at every step of probe_engines those below the loop counter    *)
(* are set up; remove_engines finds them all.                              *)
LEMMA EngineNext ==
  ASSUME DeviceConstants, DeviceInv, DeviceStep
  PROVE  EngineInv'
<1> USE DEF DeviceInv, XdevInv, EngineInv, Made, XpdevInv, At, Go,
         Loop, devVars, Level, LevelOf, UpPlaces
<1>1. CASE ModInit
  BY <1>1, ServedSame DEF ModInit
<1>2. CASE ModExit
  BY <1>2, ServedSame DEF ModExit
<1>3. CASE XpdevAlloc
  BY <1>3, ServedSame DEF XpdevAlloc
<1>4. CASE RemoveOne
  BY <1>4, ServedSame DEF RemoveOne
<1>5. CASE GoOffline
  BY <1>5, ServedSame DEF GoOffline
<1>6. CASE AllocDevInstance
  BY <1>6, ServedSame DEF AllocDevInstance, XdevType, NewXdev
<1>7. CASE XdevListAdd
  BY <1>7, ServedSame DEF XdevListAdd
<1>8. CASE PciEnableDevice
  BY <1>8, ServedSame DEF PciEnableDevice
<1>9. CASE RequestRegions
  BY <1>9, ServedSame DEF RequestRegions, XdevType
<1>10. CASE MapSingleBar
  BY <1>10, ServedSame DEF MapSingleBar, XdevType, UnmapBars
<1>11. CASE MapBars
  BY <1>11, ServedSame DEF MapBars, XdevType, UnmapBars
<1>12. CASE SetDmaMask
  BY <1>12, ServedSame DEF SetDmaMask, XdevType, DeviceConstants,
     Served
<1>13. CASE ProbeForEngine
  BY <1>13, ServedSame DEF ProbeForEngine, XdevType, DeviceConstants,
     Served, Engines
<1>14. CASE ProbeEnginesBreak
  BY <1>14, ServedSame DEF ProbeEnginesBreak, XdevType, DeviceConstants,
     Served, Engines
<1>15. CASE ProbeEnginesEnd
  <2>1. {e \in Served : e < index} = Served
    BY <1>15 DEF ProbeEnginesEnd, DeviceInv, XdevInv, EngineInv, XdevType,
       DeviceConstants, Served, Engines, At
  <2>2. Made = Served
    BY <1>15, <2>1 DEF ProbeEnginesEnd, Made, At, Level, LevelOf
  <2>3. Made' = Made
    BY <1>15, <2>2, ServedSame DEF ProbeEnginesEnd, Made, Go,
       devVars, Level, LevelOf
  <2> QED
    BY <1>15, <2>3 DEF ProbeEnginesEnd, Go, devVars, DeviceInv,
       XdevInv, EngineInv
<1>16. CASE EnableMsiMsix
  BY <1>16, ServedSame DEF EnableMsiMsix
<1>17. CASE OpenIrqs
  BY <1>17, ServedSame, LinesOpened
<1>18. CASE OpenDone
  BY <1>18, ServedSame DEF OpenDone
<1>19. CASE DeviceClose
  BY <1>19, ServedSame DEF DeviceClose
<1>20. CASE DisableMsiMsix
  BY <1>20, ServedSame DEF DisableMsiMsix
<1>21. CASE RemoveEngines
  BY <1>21, ServedSame DEF RemoveEngines
<1>22. CASE UnwindBars
  BY <1>22, ServedSame DEF UnwindBars
<1>23. CASE ReleaseRegions
  BY <1>23, ServedSame DEF ReleaseRegions
<1>24. CASE DisableDevice
  BY <1>24, ServedSame DEF DisableDevice
<1>25. CASE XdevListRemove
  BY <1>25, ServedSame DEF XdevListRemove
<1>26. CASE FreeXdev
  BY <1>26, ServedSame DEF FreeXdev
<1>27. CASE Sha256Create
  BY <1>27, ServedSame DEF Sha256Create
<1>28. CASE DeviceCreate
  BY <1>28, ServedSame DEF DeviceCreate
<1>29. CASE InitWaitqueue
  BY <1>29, ServedSame DEF InitWaitqueue
<1>30. CASE ProbeDone
  BY <1>30, ServedSame DEF ProbeDone
<1>31. CASE CreateFails
  BY <1>31, ServedSame DEF CreateFails
<1>32. CASE XpdevFree
  BY <1>32, ServedSame DEF XpdevFree
<1>33. CASE XpdevFreeOops
  BY <1>33, ServedSame DEF XpdevFreeOops
<1>34. CASE FreeXpdev
  BY <1>34, ServedSame DEF FreeXpdev
<1>35. CASE OfflineIrqs
  BY <1>35, ServedSame DEF OfflineIrqs
<1>36. CASE ErrorDisables
  BY <1>36, ServedSame DEF ErrorDisables
<1>37. CASE SlotReset
  BY <1>37, ServedSame DEF SlotReset
<1>38. CASE OnlineIrqs
  BY <1>38, ServedSame, LinesOpened
<1>39. CASE OnlineDone
  BY <1>39, ServedSame DEF OnlineDone
<1> QED
  BY <1>1, <1>2, <1>3, <1>4, <1>5, <1>6, <1>7, <1>8, <1>9, <1>10, <1>11,
     <1>12, <1>13, <1>14, <1>15, <1>16, <1>17, <1>18, <1>19, <1>20, <1>21,
     <1>22, <1>23, <1>24, <1>25, <1>26, <1>27, <1>28, <1>29, <1>30, <1>31,
     <1>32, <1>33, <1>34, <1>35, <1>36, <1>37, <1>38, <1>39, ZenonT(60)
     DEF DeviceStep, XdmaDeviceOpen, Unwind, Interfaces, Reset

(* Interrupt lines: those that irq_teardown will look for are recorded. *)
LEMMA LineNext ==
  ASSUME DeviceConstants, DeviceInv, DeviceStep
  PROVE  LineInv'
<1> USE DEF DeviceInv, XdevInv, LineInv, XpdevInv, At, Go,
         Loop,
         devVars, Level, LevelOf, UpPlaces
<1>1. CASE ModInit
  BY <1>1, ServedSame DEF ModInit
<1>2. CASE ModExit
  BY <1>2, ServedSame DEF ModExit
<1>3. CASE XpdevAlloc
  BY <1>3, ServedSame DEF XpdevAlloc
<1>4. CASE RemoveOne
  BY <1>4, ServedSame DEF RemoveOne
<1>5. CASE GoOffline
  BY <1>5, ServedSame DEF GoOffline, XdevType, Fails,
     DeviceConstants, Uncleaned
<1>6. CASE AllocDevInstance
  BY <1>6, ServedSame DEF AllocDevInstance
<1>7. CASE XdevListAdd
  BY <1>7, ServedSame DEF XdevListAdd
<1>8. CASE PciEnableDevice
  BY <1>8, ServedSame DEF PciEnableDevice
<1>9. CASE RequestRegions
  BY <1>9, ServedSame DEF RequestRegions
<1>10. CASE MapSingleBar
  BY <1>10, ServedSame DEF MapSingleBar
<1>11. CASE MapBars
  BY <1>11, ServedSame DEF MapBars
<1>12. CASE SetDmaMask
  BY <1>12, ServedSame DEF SetDmaMask
<1>13. CASE ProbeForEngine
  BY <1>13, ServedSame DEF ProbeForEngine
<1>14. CASE ProbeEnginesBreak
  BY <1>14, ServedSame DEF ProbeEnginesBreak
<1>15. CASE ProbeEnginesEnd
  BY <1>15, ServedSame DEF ProbeEnginesEnd
<1>16. CASE EnableMsiMsix
  BY <1>16, ServedSame DEF EnableMsiMsix
<1>17. CASE OpenIrqs
  BY <1>17, ServedSame, LinesOpened
<1>18. CASE OpenDone
  BY <1>18, ServedSame DEF OpenDone
<1>19. CASE DeviceClose
  BY <1>19, ServedSame DEF DeviceClose
<1>20. CASE DisableMsiMsix
  BY <1>20, ServedSame DEF DisableMsiMsix
<1>21. CASE RemoveEngines
  BY <1>21, ServedSame DEF RemoveEngines
<1>22. CASE UnwindBars
  BY <1>22, ServedSame DEF UnwindBars
<1>23. CASE ReleaseRegions
  BY <1>23, ServedSame DEF ReleaseRegions
<1>24. CASE DisableDevice
  BY <1>24, ServedSame DEF DisableDevice
<1>25. CASE XdevListRemove
  BY <1>25, ServedSame DEF XdevListRemove
<1>26. CASE FreeXdev
  BY <1>26, ServedSame DEF FreeXdev
<1>27. CASE Sha256Create
  BY <1>27, ServedSame DEF Sha256Create
<1>28. CASE DeviceCreate
  BY <1>28, ServedSame DEF DeviceCreate
<1>29. CASE InitWaitqueue
  BY <1>29, ServedSame DEF InitWaitqueue
<1>30. CASE ProbeDone
  BY <1>30, ServedSame DEF ProbeDone
<1>31. CASE CreateFails
  BY <1>31, ServedSame DEF CreateFails
<1>32. CASE XpdevFree
  BY <1>32, ServedSame DEF XpdevFree
<1>33. CASE XpdevFreeOops
  BY <1>33, ServedSame DEF XpdevFreeOops
<1>34. CASE FreeXpdev
  BY <1>34, ServedSame DEF FreeXpdev
<1>35. CASE OfflineIrqs
  BY <1>35, ServedSame DEF OfflineIrqs
<1>36. CASE ErrorDisables
  BY <1>36, ServedSame DEF ErrorDisables
<1>37. CASE SlotReset
  BY <1>37, ServedSame DEF SlotReset
<1>38. CASE OnlineIrqs
  BY <1>38, ServedSame, LinesOpened
<1>39. CASE OnlineDone
  BY <1>39, ServedSame DEF OnlineDone
<1> QED
  BY <1>1, <1>2, <1>3, <1>4, <1>5, <1>6, <1>7, <1>8, <1>9, <1>10, <1>11,
     <1>12, <1>13, <1>14, <1>15, <1>16, <1>17, <1>18, <1>19, <1>20, <1>21,
     <1>22, <1>23, <1>24, <1>25, <1>26, <1>27, <1>28, <1>29, <1>30, <1>31,
     <1>32, <1>33, <1>34, <1>35, <1>36, <1>37, <1>38, <1>39, ZenonT(60)
     DEF DeviceStep, XdmaDeviceOpen, Unwind, Interfaces, Reset

(* struct xdma_pci_dev: how far the interfaces are, and that xdev is set   *)
(* exactly while the device is up.                                         *)
LEMMA XpdevNext ==
  ASSUME DeviceConstants, DeviceInv, DeviceStep
  PROVE  XpdevInv'
<1> USE DEF DeviceInv, XpdevInv, OpeningPlaces, ErrorPlaces, Places, Fresh,
         At, Go, Loop, devVars, Level, LevelOf, UpPlaces
<1>1. CASE ModInit
  BY <1>1 DEF ModInit
<1>2. CASE ModExit
  BY <1>2 DEF ModExit
<1>3. CASE XpdevAlloc
  <2>1. CASE xpdev' = NewXpdev /\ place' = "xdev"
    <3>1. /\ xpdev' \in XpdevType /\ ~xpdev'.xdev /\ ~xpdev'.major
          /\ xpdev'.magic = {} /\ xpdev'.sys = {} /\ xpdev'.wqh = {}
      BY <2>1 DEF NewXpdev, XpdevType, DeviceConstants
    <3> QED
      BY <2>1, <3>1 DEF XpdevInv, Fresh, Places, OpeningPlaces, ErrorPlaces,
         UpPlaces, Level, LevelOf
  <2>2. CASE xpdev' = xpdev /\ place' = "unbound"
    BY <1>3, <2>2 DEF DeviceInv, XpdevInv, XpdevAlloc, At, Places,
       OpeningPlaces, ErrorPlaces, UpPlaces, Fresh, Level, LevelOf
  <2> QED
    BY <1>3, <2>1, <2>2 DEF XpdevAlloc, Go
<1>4. CASE RemoveOne
  BY <1>4 DEF RemoveOne
<1>5. CASE GoOffline
  BY <1>5 DEF GoOffline
<1>6. CASE AllocDevInstance
  BY <1>6 DEF AllocDevInstance
<1>7. CASE XdevListAdd
  BY <1>7 DEF XdevListAdd
<1>8. CASE PciEnableDevice
  BY <1>8 DEF PciEnableDevice
<1>9. CASE RequestRegions
  BY <1>9 DEF RequestRegions
<1>10. CASE MapSingleBar
  BY <1>10 DEF MapSingleBar
<1>11. CASE MapBars
  BY <1>11 DEF MapBars
<1>12. CASE SetDmaMask
  BY <1>12 DEF SetDmaMask
<1>13. CASE ProbeForEngine
  BY <1>13 DEF ProbeForEngine
<1>14. CASE ProbeEnginesBreak
  BY <1>14 DEF ProbeEnginesBreak
<1>15. CASE ProbeEnginesEnd
  BY <1>15 DEF ProbeEnginesEnd
<1>16. CASE EnableMsiMsix
  BY <1>16 DEF EnableMsiMsix
<1>17. CASE OpenIrqs
  BY <1>17 DEF OpenIrqs
<1>18. CASE OpenDone
  <2>1. place = "up" /\ place' = "create" /\ index' = 0
    BY <1>18 DEF OpenDone, At, Go
  <2>2. Fresh /\ xpdev \in XpdevType
    BY <2>1 DEF DeviceInv, XpdevInv, OpeningPlaces
  <2>3. /\ xpdev' \in XpdevType /\ xpdev'.xdev /\ ~xpdev'.major
        /\ xpdev'.magic = {} /\ xpdev'.sys = {} /\ xpdev'.wqh = {}
        /\ xpdev'.h2c = xdev.h2c /\ xdev.h2c \in Nat
    <3>1. xdev.h2c \in 0..Channels /\ xdev.h2c \in Nat
      BY DEF DeviceInv, XdevInv, XdevType, DeviceConstants
    <3>2. xpdev' = [xpdev EXCEPT !.xdev = TRUE, !.h2c = xdev.h2c]
      BY <1>18 DEF OpenDone
    <3> QED
      BY <2>2, <3>1, <3>2 DEF XpdevType, Fresh
  <2>4. xdev'.h2c = xdev.h2c
    BY <1>18 DEF OpenDone, DeviceInv, XdevInv, XdevType
  <2>5. 0..(0 - 1) = {}
    OBVIOUS
  <2> QED
    BY <2>1, <2>3, <2>4, <2>5 DEF XpdevInv, Places, OpeningPlaces,
       ErrorPlaces, UpPlaces
<1>19. CASE DeviceClose
  BY <1>19 DEF DeviceClose
<1>20. CASE DisableMsiMsix
  BY <1>20 DEF DisableMsiMsix
<1>21. CASE RemoveEngines
  BY <1>21 DEF RemoveEngines
<1>22. CASE UnwindBars
  BY <1>22 DEF UnwindBars
<1>23. CASE ReleaseRegions
  BY <1>23 DEF ReleaseRegions
<1>24. CASE DisableDevice
  BY <1>24 DEF DisableDevice
<1>25. CASE XdevListRemove
  BY <1>25 DEF XdevListRemove
<1>26. CASE FreeXdev
  BY <1>26 DEF FreeXdev
<1>27. CASE Sha256Create
  <2>1. /\ place = "create" /\ index < xpdev.h2c /\ index \in Nat
        /\ xpdev.h2c \in Nat /\ xdev' = xdev /\ xpdev.xdev
        /\ xpdev.h2c = xdev.h2c /\ xpdev \in XpdevType
    BY <1>27 DEF Sha256Create, At, DeviceInv, XpdevInv, XpdevType,
       DeviceConstants, UpPlaces, Level, LevelOf
  <2>2. /\ xpdev.magic = 0..(index - 1) /\ xpdev.sys = 0..(index - 1)
        /\ xpdev.wqh = 0..(index - 1) /\ (xpdev.major <=> index > 0)
    BY <2>1 DEF DeviceInv, XpdevInv
  <2>3. CASE /\ xpdev' = [xpdev EXCEPT !.major = TRUE, !.magic = @ \cup {index}]
             /\ place' = "node" /\ index' = index
    <3>1. /\ xpdev' \in XpdevType /\ xpdev'.xdev /\ xpdev'.major
          /\ xpdev'.magic = xpdev.magic \cup {index} /\ xpdev'.sys = xpdev.sys
          /\ xpdev'.wqh = xpdev.wqh /\ xpdev'.h2c = xpdev.h2c
      BY <2>1, <2>3 DEF XpdevType
    <3>2. (0..(index - 1)) \cup {index} = 0..index
      BY <2>1
    <3> QED
      BY <2>1, <2>2, <2>3, <3>1, <3>2 DEF XpdevInv, Places, OpeningPlaces,
         ErrorPlaces, UpPlaces
  <2>4. CASE xpdev' = xpdev /\ ~xpdev.major /\ place' = "create_fail"
    <3>1. index = 0 /\ 0..(0 - 1) = {}
      BY <2>1, <2>2, <2>4
    <3> QED
      BY <1>27, <2>1, <2>2, <2>4, <3>1 DEF DeviceInv, XpdevInv, Fresh, Places,
         OpeningPlaces, ErrorPlaces, UpPlaces
  <2> QED
    BY <1>27, <2>3, <2>4 DEF Sha256Create, Go, Fails,
       DeviceConstants, Uncleaned
<1>28. CASE DeviceCreate
  BY <1>28 DEF DeviceCreate, XpdevType
<1>29. CASE InitWaitqueue
  BY <1>29 DEF InitWaitqueue, XpdevType
<1>30. CASE ProbeDone
  BY <1>30 DEF ProbeDone
<1>31. CASE CreateFails
  BY <1>31 DEF CreateFails
<1>32. CASE XpdevFree
  BY <1>32 DEF XpdevFree, XpdevType
<1>33. CASE XpdevFreeOops
  BY <1>33 DEF XpdevFreeOops
<1>34. CASE FreeXpdev
  BY <1>34 DEF FreeXpdev
<1>35. CASE OfflineIrqs
  BY <1>35 DEF OfflineIrqs
<1>36. CASE ErrorDisables
  BY <1>36 DEF ErrorDisables
<1>37. CASE SlotReset
  BY <1>37 DEF SlotReset
<1>38. CASE OnlineIrqs
  BY <1>38, LinesOpened DEF XdevInv
<1>39. CASE OnlineDone
  BY <1>39 DEF OnlineDone
<1> QED
  BY <1>1, <1>2, <1>3, <1>4, <1>5, <1>6, <1>7, <1>8, <1>9, <1>10, <1>11,
     <1>12, <1>13, <1>14, <1>15, <1>16, <1>17, <1>18, <1>19, <1>20, <1>21,
     <1>22, <1>23, <1>24, <1>25, <1>26, <1>27, <1>28, <1>29, <1>30, <1>31,
     <1>32, <1>33, <1>34, <1>35, <1>36, <1>37, <1>38, <1>39, ZenonT(60)
     DEF DeviceStep, XdmaDeviceOpen, Unwind, Interfaces, Reset

(* No node is open when the device goes. *)
LEMMA FileNext ==
  ASSUME ProbeConstants, ProbeInv, DeviceStep
  PROVE  FileInv'
<1> USE DEF ProbeInv, DeviceInv, FileInv, XpdevInv, UpPlaces, Fresh, At, Go,
         Loop, devVars, fileVars
<1>1. CASE ModInit
  BY <1>1 DEF ModInit
<1>2. CASE ModExit
  BY <1>2 DEF ModExit
<1>3. CASE XpdevAlloc
  BY <1>3 DEF XpdevAlloc
<1>4. CASE RemoveOne
  BY <1>4 DEF RemoveOne, Fails, ProbeConstants, DeviceConstants, Uncleaned
<1>5. CASE GoOffline
  BY <1>5 DEF GoOffline
<1>6. CASE AllocDevInstance
  BY <1>6 DEF AllocDevInstance
<1>7. CASE XdevListAdd
  BY <1>7 DEF XdevListAdd
<1>8. CASE PciEnableDevice
  BY <1>8 DEF PciEnableDevice
<1>9. CASE RequestRegions
  BY <1>9 DEF RequestRegions
<1>10. CASE MapSingleBar
  BY <1>10 DEF MapSingleBar
<1>11. CASE MapBars
  BY <1>11 DEF MapBars
<1>12. CASE SetDmaMask
  BY <1>12 DEF SetDmaMask
<1>13. CASE ProbeForEngine
  BY <1>13 DEF ProbeForEngine
<1>14. CASE ProbeEnginesBreak
  BY <1>14 DEF ProbeEnginesBreak
<1>15. CASE ProbeEnginesEnd
  BY <1>15 DEF ProbeEnginesEnd
<1>16. CASE EnableMsiMsix
  BY <1>16 DEF EnableMsiMsix
<1>17. CASE OpenIrqs
  BY <1>17 DEF OpenIrqs
<1>18. CASE OpenDone
  BY <1>18 DEF OpenDone
<1>19. CASE DeviceClose
  BY <1>19 DEF DeviceClose
<1>20. CASE DisableMsiMsix
  BY <1>20 DEF DisableMsiMsix
<1>21. CASE RemoveEngines
  BY <1>21 DEF RemoveEngines
<1>22. CASE UnwindBars
  BY <1>22 DEF UnwindBars
<1>23. CASE ReleaseRegions
  BY <1>23 DEF ReleaseRegions
<1>24. CASE DisableDevice
  BY <1>24 DEF DisableDevice
<1>25. CASE XdevListRemove
  BY <1>25 DEF XdevListRemove
<1>26. CASE FreeXdev
  BY <1>26 DEF FreeXdev
<1>27. CASE Sha256Create
  <2>1. xpdev \in XpdevType /\ FileInv
    OBVIOUS
  <2>2. place' \in UpPlaces
    BY <1>27 DEF Sha256Create
  <2> HIDE DEF ProbeInv, DeviceInv, XpdevInv, UpPlaces
  <2>3. /\ dma' = dma /\ file' = file /\ queued' = queued
        /\ \/ xpdev' = xpdev
           \/ xpdev' = [xpdev EXCEPT !.major = TRUE, !.magic = @ \cup {index}]
    BY <1>27 DEF Sha256Create
  <2>4. xpdev'.wqh = xpdev.wqh /\ xpdev.magic \subseteq xpdev'.magic
    <3> DEFINE more == xpdev.magic \cup {index}
    <3>1. \/ xpdev' = xpdev
          \/ xpdev' = [xpdev EXCEPT !.major = TRUE, !.magic = more]
      BY <2>3, Zenon
    <3>2. xpdev.magic \subseteq more
      OBVIOUS
    <3> HIDE DEF more, FileInv
    <3>3. /\ xpdev'.wqh = xpdev.wqh
          /\ xpdev'.magic = xpdev.magic \/ xpdev'.magic = more
      BY <2>1, <3>1 DEF XpdevType
    <3> QED
      BY <3>2, <3>3
  <2> QED
    BY <2>1, <2>2, <2>3, <2>4
<1>28. CASE DeviceCreate
  BY <1>28 DEF DeviceCreate
<1>29. CASE InitWaitqueue
  BY <1>29 DEF InitWaitqueue
<1>30. CASE ProbeDone
  BY <1>30 DEF ProbeDone
<1>31. CASE CreateFails
  BY <1>31 DEF CreateFails
<1>32. CASE XpdevFree
  BY <1>32 DEF XpdevFree
<1>33. CASE XpdevFreeOops
  BY <1>33 DEF XpdevFreeOops
<1>34. CASE FreeXpdev
  BY <1>34 DEF FreeXpdev
<1>35. CASE OfflineIrqs
  BY <1>35 DEF OfflineIrqs
<1>36. CASE ErrorDisables
  BY <1>36 DEF ErrorDisables
<1>37. CASE SlotReset
  BY <1>37 DEF SlotReset
<1>38. CASE OnlineIrqs
  BY <1>38 DEF OnlineIrqs
<1>39. CASE OnlineDone
  BY <1>39 DEF OnlineDone
<1> QED
  BY <1>1, <1>2, <1>3, <1>4, <1>5, <1>6, <1>7, <1>8, <1>9, <1>10, <1>11,
     <1>12, <1>13, <1>14, <1>15, <1>16, <1>17, <1>18, <1>19, <1>20, <1>21,
     <1>22, <1>23, <1>24, <1>25, <1>26, <1>27, <1>28, <1>29, <1>30, <1>31,
     <1>32, <1>33, <1>34, <1>35, <1>36, <1>37, <1>38, <1>39, ZenonT(60)
     DEF DeviceStep, XdmaDeviceOpen, Unwind, Interfaces, Reset

LEMMA WantedSame ==
  ASSUME xdev'.h2c = xdev.h2c, xdev'.c2h = xdev.c2h, xdev'.msix = xdev.msix
  PROVE  Wanted' = Wanted
  BY DEF Wanted, Served, UserLines, SharedLine

LEMMA PlainSame ==
  ASSUME HoldPlain, hold' = hold, Gained({})
  PROVE  HoldPlain'
  BY DEF HoldPlain, Gained, Plain, Resources

(* irq_teardown finds every line of irq_setup. *)
LEMMA TeardownFindsLines ==
  ASSUME DeviceInv, Level >= 10, IrqTeardown
  PROVE  Release(Lines(Wanted))
<1>1. CASE xdev.msix
  <2>1. Served \subseteq xdev.lines
    BY <1>1 DEF DeviceInv, XdevInv, LineInv
  <2>2. UserLines \cup
          {e \in Served : \A d \in Served :
             (d < Channels <=> e < Channels) /\ d <= e => d \in xdev.lines}
        = Wanted
    BY <1>1, <2>1 DEF Wanted
  <2> QED
    BY <1>1, <2>2, Zenon DEF IrqTeardown
<1>2. CASE ~xdev.msix
  <2>1. xdev.irq_line
    BY <1>2 DEF DeviceInv, XdevInv, LineInv
  <2>2. Wanted = {SharedLine}
    BY <1>2 DEF Wanted
  <2> QED
    BY <1>2, <2>1, <2>2, Zenon DEF IrqTeardown
<1> QED
  BY <1>1, <1>2

(* A line that is refused is the shared one: no engine has got its own.    *)
LEMMA RefusedIsShared ==
  ASSUME DeviceConstants, DeviceInv, NEW l \in Wanted,
         Fails(LineFault(l))
  PROVE  ~xdev.msix /\ Wanted \cap Engines = {}
<1>1. l \notin Engines /\ l \notin UserLines
  BY DEF Fails, LineFault, DeviceConstants, Uncleaned
<1>2. xdev \in XdevType
  BY DEF DeviceInv, XdevInv
<1>3. ~xdev.msix
  BY <1>1, <1>2, WantedCovers DEF Wanted
<1>4. Wanted = {SharedLine}
  BY <1>3 DEF Wanted
<1>5. SharedLine \notin Engines
  BY DEF SharedLine, Engines, DeviceConstants
<1> QED
  BY <1>3, <1>4, <1>5

(* irq_setup acquires lines and nothing else. *)
LEMMA LinesAcquired ==
  ASSUME DeviceConstants, DeviceInv, OpenIrqs \/ OnlineIrqs
  PROVE  \E ls : Acquire(Lines(ls))
<1>1. CASE OpenIrqs
  BY <1>1 DEF OpenIrqs, IrqSetup, IrqSetupFails
<1>2. CASE OnlineIrqs
  <2>1. ~card.poll /\ "online_irq" \notin ProbeFaults
    BY <1>2 DEF OnlineIrqs, At, DeviceInv, XdevInv, LineInv,
       DeviceConstants, Uncleaned
  <2> QED
    BY <1>2, <2>1 DEF OnlineIrqs, IrqSetup, Fails
<1> QED
  BY <1>1, <1>2

(* What the places own is what is held: every acquisition comes on top of  *)
(* it, every release is part of it.                                        *)
LEMMA PlainNext ==
  ASSUME DeviceConstants, DeviceInv, DeviceStep
  PROVE  HoldPlain'
<1> HoldPlain
  BY DEF DeviceInv, HoldInv
<1> USE DEF Gained, Lost, Owns, Plain, Made, Level, LevelOf, HasLines, At,
         Go, Loop, devVars, Single, DeviceInv, XdevInv,
         BarInv
<1>1. CASE ModInit
  <2>1. CASE /\ Acquire({Single("class"), Single("cache")})
             /\ place' = "unbound"
    <3>1. Gained({Single("class"), Single("cache")})
      BY <1>1, <2>1, ResourceNames, ServedSame, WantedSame DEF ModInit
    <3> HIDE DEF Owns, Plain, Made, Level, LevelOf, HasLines,
             At, Go, Loop, devVars, Single, DeviceInv, XdevInv, BarInv
    <3> QED
      BY <2>1, <3>1, PlainAcquire
  <2> QED
    BY <1>1, <2>1 DEF ModInit, At, Go, Loop,
       UnmapBars, Fails, DeviceConstants, Uncleaned
<1>2. CASE ModExit
  <2>1. Release({Single("class"), Single("cache")})
    BY <1>2 DEF ModExit
  <2>2. Lost({Single("class"), Single("cache")})
    BY <1>2, ResourceNames, ServedSame, WantedSame DEF ModExit
  <2> HIDE DEF Owns, Plain, Made, Level, LevelOf, HasLines,
           At, Go, Loop, devVars, Single, DeviceInv, XdevInv, BarInv
  <2> QED
    BY <2>1, <2>2, PlainRelease
<1>3. CASE XpdevAlloc
  <2>1. CASE /\ Acquire({Single("xpdev")})
             /\ place' = "xdev"
    <3>1. Gained({Single("xpdev")})
      BY <1>3, <2>1, ResourceNames, ServedSame, WantedSame, SMTT(30) DEF
         XpdevAlloc
    <3> HIDE DEF Owns, Plain, Made, Level, LevelOf, HasLines,
             At, Go, Loop, devVars, Single, DeviceInv, XdevInv, BarInv
    <3> QED
      BY <2>1, <3>1, PlainAcquire
  <2>2. CASE /\ hold' = hold
             /\ place' = "unbound"
    <3>1. Gained({})
      BY <1>3, <2>2, ResourceNames, ServedSame, WantedSame, SMTT(30) DEF
         XpdevAlloc
    <3> QED
      BY <2>2, <3>1, PlainSame
  <2> QED
    BY <1>3, <2>1, <2>2 DEF XpdevAlloc, At, Go, Loop,
       UnmapBars, Fails, DeviceConstants, Uncleaned
<1>4. CASE RemoveOne
  <2>1. hold' = hold
    BY <1>4 DEF RemoveOne
  <2>2. Gained({})
    BY <1>4, ResourceNames, ServedSame, WantedSame DEF RemoveOne,
       XpdevInv, UpPlaces, DeviceConstants, Uncleaned, Fails
  <2> QED
    BY <2>1, <2>2, PlainSame
<1>5. CASE GoOffline
  <2>1. hold' = hold
    BY <1>5 DEF GoOffline
  <2>2. Gained({})
    BY <1>5, ResourceNames, ServedSame, WantedSame DEF GoOffline,
       XdevType
  <2> QED
    BY <2>1, <2>2, PlainSame
<1>6. CASE AllocDevInstance
  <2>1. CASE /\ Acquire({Single("xdev")})
             /\ xdev' = NewXdev
             /\ place' = "list"
    <3>1. Gained({Single("xdev")})
      BY <1>6, <2>1, ResourceNames, ServedSame, WantedSame, NewXdevFields,
         SMTT(30) DEF
         AllocDevInstance
    <3> HIDE DEF Owns, Plain, Made, Level, LevelOf, HasLines,
             At, Go, Loop, devVars, Single, DeviceInv, XdevInv, BarInv
    <3> QED
      BY <2>1, <3>1, PlainAcquire
  <2>2. CASE /\ hold' = hold
             /\ xdev' = xdev
             /\ place' = "err_out"
    <3>1. Gained({})
      BY <1>6, <2>2, ResourceNames, ServedSame, WantedSame DEF
         AllocDevInstance, XpdevInv, UpPlaces
    <3> QED
      BY <2>2, <3>1, PlainSame
  <2> QED
    BY <1>6, <2>1, <2>2 DEF AllocDevInstance, At, Go,
       Loop, UnmapBars, Fails, DeviceConstants, Uncleaned
<1>7. CASE XdevListAdd
  <2>1. CASE /\ Acquire(
                    {Single("list")} \cup
                    IF card.poll THEN {Single("threads")} ELSE {})
             /\ place' = "enable"
    <3>1. Gained(
              {Single("list")} \cup
              IF card.poll THEN {Single("threads")} ELSE {})
      BY <1>7, <2>1, ResourceNames, ServedSame, WantedSame, SMTT(30) DEF
         XdevListAdd
    <3> HIDE DEF Owns, Plain, Made, Level, LevelOf, HasLines,
             At, Go, Loop, devVars, Single, DeviceInv, XdevInv, BarInv
    <3> QED
      BY <2>1, <3>1, PlainAcquire
  <2>2. CASE /\ hold' = hold
             /\ place' = "free_xdev"
    <3>1. Gained({})
      BY <1>7, <2>2, ResourceNames, ServedSame, WantedSame DEF
         XdevListAdd
    <3> QED
      BY <2>2, <3>1, PlainSame
  <2> QED
    BY <1>7, <2>1, <2>2 DEF XdevListAdd, At, Go, Loop,
       UnmapBars, Fails, DeviceConstants, Uncleaned
<1>8. CASE PciEnableDevice
  <2>1. CASE /\ Acquire({Single("enable")})
             /\ place' = "regions"
    <3>1. Gained({Single("enable")})
      BY <1>8, <2>1, ResourceNames, ServedSame, WantedSame, SMTT(30) DEF
         PciEnableDevice
    <3> HIDE DEF Owns, Plain, Made, Level, LevelOf, HasLines,
             At, Go, Loop, devVars, Single, DeviceInv, XdevInv, BarInv
    <3> QED
      BY <2>1, <3>1, PlainAcquire
  <2>2. CASE /\ hold' = hold
             /\ place' = "err_enable"
    <3>1. Gained({})
      BY <1>8, <2>2, ResourceNames, ServedSame, WantedSame DEF
         PciEnableDevice
    <3> QED
      BY <2>2, <3>1, PlainSame
  <2> QED
    BY <1>8, <2>1, <2>2 DEF PciEnableDevice, At, Go,
       Loop, UnmapBars, Fails, DeviceConstants, Uncleaned
<1>9. CASE RequestRegions
  <2>1. CASE /\ Acquire({Single("regions")})
             /\ xdev' = [xdev EXCEPT !.got_regions = TRUE]
             /\ place' = "map"
    <3>1. Gained({Single("regions")})
      BY <1>9, <2>1, ResourceNames, ServedSame, WantedSame DEF
         RequestRegions, XdevType
    <3> HIDE DEF Owns, Plain, Made, Level, LevelOf, HasLines,
             At, Go, Loop, devVars, Single, DeviceInv, XdevInv, BarInv
    <3> QED
      BY <2>1, <3>1, PlainAcquire
  <2>2. CASE /\ hold' = hold
             /\ xdev' = [xdev EXCEPT !.regions_in_use = TRUE]
             /\ place' = "err_regions"
    <3>1. Gained({})
      BY <1>9, <2>2, ResourceNames, ServedSame, WantedSame DEF
         RequestRegions, XdevType
    <3> QED
      BY <2>2, <3>1, PlainSame
  <2> QED
    BY <1>9, <2>1, <2>2 DEF RequestRegions, At, Go,
       Loop, UnmapBars, Fails, DeviceConstants, Uncleaned
<1>10. CASE MapSingleBar
  <2>1. CASE /\ hold' = hold
             /\ xdev' = xdev
             /\ place' = "map"
    <3>1. Gained({})
      BY <1>10, <2>1, ResourceNames, ServedSame, WantedSame DEF
         MapSingleBar
    <3> QED
      BY <2>1, <3>1, PlainSame
  <2>2. CASE /\ Acquire({<<"bar", index>>})
             /\ xdev' = [xdev EXCEPT !.bars = @ \cup {index}]
             /\ place' = "map"
    <3>1. Gained({<<"bar", index>>})
      BY <1>10, <2>2, ResourceNames, ServedSame, WantedSame, PresentSlots DEF
         MapSingleBar, XdevType
    <3> HIDE DEF Owns, Plain, Made, Level, LevelOf, HasLines,
             At, Go, Loop, devVars, Single, DeviceInv, XdevInv, BarInv
    <3> QED
      BY <2>2, <3>1, PlainAcquire
  <2>3. CASE /\ Release(MappedBars)
             /\ xdev' = [xdev EXCEPT !.bars = {}]
             /\ place' = "err_map"
    <3>1. Lost(MappedBars)
      BY <1>10, <2>3, ResourceNames, ServedSame, WantedSame DEF
         MapSingleBar, XdevType, MappedBars
    <3> HIDE DEF Owns, Plain, Made, Level, LevelOf, HasLines,
             At, Go, Loop, devVars, Single, DeviceInv, XdevInv, BarInv
    <3> QED
      BY <2>3, <3>1, PlainRelease
  <2> QED
    BY <1>10, <2>1, <2>2, <2>3, SMTT(30) DEF MapSingleBar, At, Go,
       Loop, UnmapBars, Fails, DeviceConstants, Uncleaned
<1>11. CASE MapBars
  <2>1. CASE /\ hold' = hold
             /\ xdev' = [xdev EXCEPT !.user_bar = UserBar(card.bars)]
             /\ place' = "mask"
    <3>1. Gained({})
      BY <1>11, <2>1, ResourceNames, ServedSame, WantedSame DEF MapBars,
         XdevType
    <3> QED
      BY <2>1, <3>1, PlainSame
  <2>2. CASE /\ Release(MappedBars)
             /\ xdev' = [xdev EXCEPT !.bars = {}]
             /\ place' = "err_map"
    <3>1. Lost(MappedBars)
      BY <1>11, <2>2, ResourceNames, ServedSame, WantedSame DEF MapBars,
         XdevType, MappedBars
    <3> HIDE DEF Owns, Plain, Made, Level, LevelOf, HasLines,
             At, Go, Loop, devVars, Single, DeviceInv, XdevInv, BarInv
    <3> QED
      BY <2>2, <3>1, PlainRelease
  <2> QED
    BY <1>11, <2>1, <2>2 DEF MapBars, At, Go, Loop,
       UnmapBars, Fails, DeviceConstants, Uncleaned
<1>12. CASE SetDmaMask
  <2>1. hold' = hold
    BY <1>12 DEF SetDmaMask
  <2>2. Gained({})
    BY <1>12, ResourceNames, ServedSame, WantedSame DEF SetDmaMask,
       XdevType, EngineInv, Served, Engines, DeviceConstants
  <2> QED
    BY <2>1, <2>2, PlainSame
<1>13. CASE ProbeForEngine
  <2>1. Acquire(EngineResources(index))
    BY <1>13 DEF ProbeForEngine
  <2>2. Gained(EngineResources(index))
    BY <1>13, ResourceNames, ServedSame, WantedSame DEF ProbeForEngine,
       XdevType, EngineInv, Served, Engines, DeviceConstants,
       EngineResources
  <2> HIDE DEF Owns, Plain, Made, Level, LevelOf, HasLines,
           At, Go, Loop, devVars, Single, DeviceInv, XdevInv, BarInv
  <2> QED
    BY <2>1, <2>2, PlainAcquire
<1>14. CASE ProbeEnginesBreak
  <2>1. hold' = hold
    BY <1>14 DEF ProbeEnginesBreak
  <2>2. Gained({})
    BY <1>14, ResourceNames, ServedSame, WantedSame DEF
       ProbeEnginesBreak, XdevType, EngineInv, Served,
       Engines, DeviceConstants
  <2> QED
    BY <2>1, <2>2, PlainSame
<1>15. CASE ProbeEnginesEnd
  <2>1. hold' = hold
    BY <1>15 DEF ProbeEnginesEnd
  <2>2. Gained({})
    BY <1>15, ResourceNames, ServedSame, WantedSame DEF ProbeEnginesEnd,
       XdevType, EngineInv, Served, Engines, DeviceConstants
  <2> QED
    BY <2>1, <2>2, PlainSame
<1>16. CASE EnableMsiMsix
  <2>1. CASE /\ Acquire(
                    IF card.mode = "legacy" THEN {} ELSE {Single("vectors")})
             /\ place' = "irqs"
    <3>1. Gained(IF card.mode = "legacy" THEN {} ELSE {Single("vectors")})
      BY <1>16, <2>1, ResourceNames, ServedSame, WantedSame, SMTT(30) DEF
         EnableMsiMsix, XdevType, Cards
    <3> HIDE DEF Owns, Plain, Made, Level, LevelOf, HasLines,
             At, Go, Loop, devVars, Single, DeviceInv, XdevInv, BarInv
    <3> QED
      BY <2>1, <3>1, PlainAcquire
  <2>2. CASE /\ hold' = hold
             /\ place' = "err_engines"
    <3>1. Gained({})
      BY <1>16, <2>2, ResourceNames, ServedSame, WantedSame DEF
         EnableMsiMsix, XdevType
    <3> QED
      BY <2>2, <3>1, PlainSame
  <2> QED
    BY <1>16, <2>1, <2>2 DEF EnableMsiMsix, At, Go,
       Loop, UnmapBars, Fails, DeviceConstants, Uncleaned
<1>17. CASE OpenIrqs
  <2>1. CASE IrqSetup /\ place' = "up"
    <3>1. Acquire(Lines(Wanted))
      BY <2>1 DEF IrqSetup
    <3>2. Gained(Lines(Wanted))
      BY <1>17, <2>1, ResourceNames, ServedSame, WantedSame, LinesOpened DEF
         Gained, Owns, Plain, Made, Level, LevelOf, HasLines, OpenIrqs,
         At, Lines
    <3> HIDE DEF Owns, Plain, Made, Level, LevelOf, HasLines,
             At, Go, Loop, devVars, Single, DeviceInv, XdevInv, BarInv
    <3> QED
      BY <3>1, <3>2, PlainAcquire
  <2>2. ASSUME NEW l \in Wanted, Fails(LineFault(l)),
               IrqSetupFails(l), place' = "err_msix"
        PROVE  HoldPlain'
    <3>1. Acquire({})
      <4>1. Lines({m \in Wanted \cap Engines : m < l}) = {}
        BY <2>2, RefusedIsShared DEF Lines
      <4> QED
        BY <2>2, <4>1 DEF IrqSetupFails
    <3>2. Gained({})
      BY <1>17, <2>2, ResourceNames, ServedSame, WantedSame, LinesOpened DEF
         Gained, Owns, Plain, Made, Level, LevelOf, HasLines, OpenIrqs,
         At
    <3> HIDE DEF Owns, Plain, Made, Level, LevelOf, HasLines,
             At, Go, Loop, devVars, Single, DeviceInv, XdevInv, BarInv
    <3> QED
      BY <3>1, <3>2, PlainAcquire
  <2> QED
    BY <1>17, <2>1, <2>2 DEF OpenIrqs, Go
<1>18. CASE OpenDone
  <2>1. hold' = hold
    BY <1>18 DEF OpenDone
  <2>2. Gained({})
    BY <1>18, ResourceNames, ServedSame, WantedSame DEF OpenDone,
       XdevType, XpdevType, XpdevInv, OpeningPlaces, Fresh
  <2> QED
    BY <2>1, <2>2, PlainSame
<1>19. CASE DeviceClose
  <2>1. Release(Lines(Wanted))
    BY <1>19, TeardownFindsLines DEF DeviceClose, Level, LevelOf,
       At
  <2>2. Lost(Lines(Wanted))
    BY <1>19, ResourceNames, ServedSame, WantedSame DEF DeviceClose,
       Lines
  <2> HIDE DEF Owns, Plain, Made, Level, LevelOf, HasLines,
           At, Go, Loop, devVars, Single, DeviceInv, XdevInv, BarInv
  <2> QED
    BY <2>1, <2>2, PlainRelease
<1>20. CASE DisableMsiMsix
  <2>1. Release(
            IF xdev.msix \/ xdev.msi THEN {Single("vectors")} ELSE {})
    BY <1>20 DEF DisableMsiMsix
  <2>2. Lost(IF xdev.msix \/ xdev.msi THEN {Single("vectors")} ELSE {})
    BY <1>20, ResourceNames, ServedSame, WantedSame DEF DisableMsiMsix,
       XdevType
  <2> HIDE DEF Owns, Plain, Made, Level, LevelOf, HasLines,
           At, Go, Loop, devVars, Single, DeviceInv, XdevInv, BarInv
  <2> QED
    BY <2>1, <2>2, PlainRelease
<1>21. CASE RemoveEngines
  <2>1. Release(
            {r \in UNION {EngineResources(e)
               : e \in Served \cap xdev.magic} : hold[r] > 0})
    BY <1>21 DEF RemoveEngines
  <2>2. Lost(
            {r \in UNION {EngineResources(e)
               : e \in Served \cap xdev.magic} : hold[r] > 0})
    BY <1>21, ResourceNames, ServedSame, WantedSame DEF RemoveEngines,
       XdevType, EngineInv, HoldPlain, EngineResources
  <2> HIDE DEF Owns, Plain, Made, Level, LevelOf, HasLines,
           At, Go, Loop, devVars, Single, DeviceInv, XdevInv, BarInv
  <2> QED
    BY <2>1, <2>2, PlainRelease
<1>22. CASE UnwindBars
  <2>1. Release(MappedBars)
    BY <1>22 DEF UnwindBars, UnmapBars
  <2>2. Lost(MappedBars)
    BY <1>22, ResourceNames, ServedSame, WantedSame DEF UnwindBars,
       XdevType, MappedBars, UnmapBars
  <2> HIDE DEF Owns, Plain, Made, Level, LevelOf, HasLines,
           At, Go, Loop, devVars, Single, DeviceInv, XdevInv, BarInv
  <2> QED
    BY <2>1, <2>2, PlainRelease
<1>23. CASE ReleaseRegions
  <2>1. Release(
            IF xdev.got_regions THEN {Single("regions")} ELSE {})
    BY <1>23 DEF ReleaseRegions
  <2>2. Lost(IF xdev.got_regions THEN {Single("regions")} ELSE {})
    BY <1>23, ResourceNames, ServedSame, WantedSame DEF ReleaseRegions
  <2> HIDE DEF Owns, Plain, Made, Level, LevelOf, HasLines,
           At, Go, Loop, devVars, Single, DeviceInv, XdevInv, BarInv
  <2> QED
    BY <2>1, <2>2, PlainRelease
<1>24. CASE DisableDevice
  <2>1. Release(
            IF xdev.regions_in_use THEN {} ELSE {Single("enable")})
    BY <1>24 DEF DisableDevice
  <2>2. Lost(IF xdev.regions_in_use THEN {} ELSE {Single("enable")})
    BY <1>24, ResourceNames, ServedSame, WantedSame DEF DisableDevice
  <2> HIDE DEF Owns, Plain, Made, Level, LevelOf, HasLines,
           At, Go, Loop, devVars, Single, DeviceInv, XdevInv, BarInv
  <2> QED
    BY <2>1, <2>2, PlainRelease
<1>25. CASE XdevListRemove
  <2>1. Release(
            {Single("list")} \cup
            IF card.poll THEN {Single("threads")} ELSE {})
    BY <1>25 DEF XdevListRemove
  <2>2. Lost(
            {Single("list")} \cup
            IF card.poll THEN {Single("threads")} ELSE {})
    BY <1>25, ResourceNames, ServedSame, WantedSame DEF XdevListRemove
  <2> HIDE DEF Owns, Plain, Made, Level, LevelOf, HasLines,
           At, Go, Loop, devVars, Single, DeviceInv, XdevInv, BarInv
  <2> QED
    BY <2>1, <2>2, PlainRelease
<1>26. CASE FreeXdev
  <2>1. Release({Single("xdev")})
    BY <1>26 DEF FreeXdev
  <2>2. Lost({Single("xdev")})
    BY <1>26, ResourceNames, ServedSame, WantedSame DEF FreeXdev,
       XpdevInv, UpPlaces
  <2> HIDE DEF Owns, Plain, Made, Level, LevelOf, HasLines,
           At, Go, Loop, devVars, Single, DeviceInv, XdevInv, BarInv
  <2> QED
    BY <2>1, <2>2, PlainRelease
<1>27. CASE Sha256Create
  <2>1. CASE /\ Acquire(
                    {<<"cdev", index>>} \cup
                    IF xpdev.major THEN {} ELSE {Single("chrdev")})
             /\ xpdev' = [xpdev EXCEPT !.major = TRUE, !.magic = @ \cup {index}]
             /\ place' = "node"
    <3>1. Gained(
              {<<"cdev", index>>} \cup
              IF xpdev.major THEN {} ELSE {Single("chrdev")})
      BY <1>27, <2>1, ResourceNames, ServedSame, WantedSame, SMTT(30) DEF
         Sha256Create, XpdevInv, XpdevType, UpPlaces
    <3> HIDE DEF Owns, Plain, Made, Level, LevelOf, HasLines,
             At, Go, Loop, devVars, Single, DeviceInv, XdevInv, BarInv
    <3> QED
      BY <2>1, <3>1, PlainAcquire
  <2>2. CASE /\ hold' = hold
             /\ xpdev' = xpdev
             /\ place' = "create_fail"
    <3>1. Gained({})
      BY <1>27, <2>2, ResourceNames, ServedSame, WantedSame DEF
         Sha256Create, XpdevInv, UpPlaces
    <3> QED
      BY <2>2, <3>1, PlainSame
  <2> QED
    BY <1>27, <2>1, <2>2 DEF Sha256Create, At, Go,
       Loop, UnmapBars, Fails, DeviceConstants, Uncleaned
<1>28. CASE DeviceCreate
  <2>1. CASE /\ Acquire({<<"node", index>>})
             /\ place' = "wqh"
    <3>1. Gained({<<"node", index>>})
      BY <1>28, <2>1, ResourceNames, ServedSame, WantedSame, SMTT(30) DEF
         DeviceCreate, XpdevInv, XpdevType
    <3> HIDE DEF Owns, Plain, Made, Level, LevelOf, HasLines,
             At, Go, Loop, devVars, Single, DeviceInv, XdevInv, BarInv
    <3> QED
      BY <2>1, <3>1, PlainAcquire
  <2>2. CASE /\ hold' = hold
             /\ place' = "wqh"
    <3>1. Gained({})
      BY <1>28, <2>2, ResourceNames, ServedSame, WantedSame DEF
         DeviceCreate, XpdevInv, XpdevType
    <3> QED
      BY <2>2, <3>1, PlainSame
  <2> QED
    BY <1>28, <2>1, <2>2 DEF DeviceCreate, At, Go,
       Loop, UnmapBars, Fails, DeviceConstants, Uncleaned
<1>29. CASE InitWaitqueue
  <2>1. hold' = hold
    BY <1>29 DEF InitWaitqueue
  <2>2. Gained({})
    BY <1>29, ResourceNames, ServedSame, WantedSame DEF InitWaitqueue,
       XpdevInv, XpdevType
  <2> QED
    BY <2>1, <2>2, PlainSame
<1>30. CASE ProbeDone
  <2>1. hold' = hold
    BY <1>30 DEF ProbeDone
  <2>2. Gained({})
    BY <1>30, ResourceNames, ServedSame, WantedSame DEF ProbeDone,
       XpdevInv, UpPlaces
  <2> QED
    BY <2>1, <2>2, PlainSame
<1>31. CASE CreateFails
  <2>1. Release((({"cdev"} \X Destroyed)
                \cup {<<"node", c>> : c \in {d \in Destroyed \cap xpdev.sys :
                                           Held("node", d)}}
                \cup IF xpdev.major THEN {Single("chrdev")} ELSE {}))
    BY <1>31 DEF CreateFails, DestroyInterfaces
  <2>2. Lost((({"cdev"} \X Destroyed)
                \cup {<<"node", c>> : c \in {d \in Destroyed \cap xpdev.sys :
                                           Held("node", d)}}
                \cup IF xpdev.major THEN {Single("chrdev")} ELSE {}))
    BY <1>31, ResourceNames, ServedSame, WantedSame DEF CreateFails,
       XpdevInv, UpPlaces, Fresh, Destroyed
  <2> HIDE DEF Owns, Plain, Made, Level, LevelOf, HasLines,
           At, Go, Loop, devVars, Single, DeviceInv, XdevInv, BarInv
  <2> QED
    BY <2>1, <2>2, PlainRelease
<1>32. CASE XpdevFree
  <2>1. Release((({"cdev"} \X Destroyed)
                \cup {<<"node", c>> : c \in {d \in Destroyed \cap xpdev.sys :
                                           Held("node", d)}}
                \cup IF xpdev.major THEN {Single("chrdev")} ELSE {}))
    BY <1>32 DEF XpdevFree, DestroyInterfaces
  <2>2. Lost((({"cdev"} \X Destroyed)
                \cup {<<"node", c>> : c \in {d \in Destroyed \cap xpdev.sys :
                                           Held("node", d)}}
                \cup IF xpdev.major THEN {Single("chrdev")} ELSE {}))
    BY <1>32, ResourceNames, ServedSame, WantedSame DEF XpdevFree,
       XpdevInv, XpdevType, UpPlaces, Fresh, Destroyed
  <2> HIDE DEF Owns, Plain, Made, Level, LevelOf, HasLines,
           At, Go, Loop, devVars, Single, DeviceInv, XdevInv, BarInv
  <2> QED
    BY <2>1, <2>2, PlainRelease
<1>33. CASE XpdevFreeOops
  <2>1. hold' = hold
    BY <1>33 DEF XpdevFreeOops
  <2>2. Gained({})
    BY <1>33, ResourceNames, ServedSame, WantedSame DEF XpdevFreeOops,
       XpdevInv, UpPlaces
  <2> QED
    BY <2>1, <2>2, PlainSame
<1>34. CASE FreeXpdev
  <2>1. Release({Single("xpdev")})
    BY <1>34 DEF FreeXpdev
  <2>2. Lost({Single("xpdev")})
    BY <1>34, ResourceNames, ServedSame, WantedSame DEF FreeXpdev
  <2> HIDE DEF Owns, Plain, Made, Level, LevelOf, HasLines,
           At, Go, Loop, devVars, Single, DeviceInv, XdevInv, BarInv
  <2> QED
    BY <2>1, <2>2, PlainRelease
<1>35. CASE OfflineIrqs
  <2>1. Release(Lines(Wanted))
    BY <1>35, TeardownFindsLines DEF OfflineIrqs, Level, LevelOf,
       At
  <2>2. Lost(Lines(Wanted))
    BY <1>35, ResourceNames, ServedSame, WantedSame DEF OfflineIrqs,
       Lines
  <2> HIDE DEF Owns, Plain, Made, Level, LevelOf, HasLines,
           At, Go, Loop, devVars, Single, DeviceInv, XdevInv, BarInv
  <2> QED
    BY <2>1, <2>2, PlainRelease
<1>36. CASE ErrorDisables
  <2>1. Release({Single("enable")})
    BY <1>36 DEF ErrorDisables
  <2>2. Lost({Single("enable")})
    BY <1>36, ResourceNames, ServedSame, WantedSame DEF ErrorDisables
  <2> HIDE DEF Owns, Plain, Made, Level, LevelOf, HasLines,
           At, Go, Loop, devVars, Single, DeviceInv, XdevInv, BarInv
  <2> QED
    BY <2>1, <2>2, PlainRelease
<1>37. CASE SlotReset
  <2>1. Acquire({Single("enable")})
    BY <1>37 DEF SlotReset
  <2>2. Gained({Single("enable")})
    BY <1>37, ResourceNames, ServedSame, WantedSame DEF SlotReset
  <2> HIDE DEF Owns, Plain, Made, Level, LevelOf, HasLines,
           At, Go, Loop, devVars, Single, DeviceInv, XdevInv, BarInv
  <2> QED
    BY <2>1, <2>2, PlainAcquire
<1>38. CASE OnlineIrqs
  <2>1. Acquire(Lines(Wanted))
    <3>1. ~card.poll /\ "online_irq" \notin ProbeFaults
      BY <1>38 DEF OnlineIrqs, At, DeviceInv, XdevInv, LineInv,
         DeviceConstants, Uncleaned
    <3> QED
      BY <1>38, <3>1 DEF OnlineIrqs, IrqSetup, Fails
  <2>2. place = "reset" /\ place' = "online"
    BY <1>38 DEF OnlineIrqs, At, Go
  <2>3. Gained(Lines(Wanted))
    BY <1>38, <2>2, ResourceNames, ServedSame, WantedSame, LinesOpened DEF
       Gained, Owns, Plain, Made, Level, LevelOf, HasLines, Lines
  <2> HIDE DEF Owns, Plain, Made, Level, LevelOf, HasLines,
           At, Go, Loop, devVars, Single, DeviceInv, XdevInv, BarInv
  <2> QED
    BY <2>1, <2>3, PlainAcquire
<1>39. CASE OnlineDone
  <2>1. hold' = hold
    BY <1>39 DEF OnlineDone
  <2>2. Gained({})
    BY <1>39, ResourceNames, ServedSame, WantedSame DEF OnlineDone,
       XdevType
  <2> QED
    BY <2>1, <2>2, PlainSame
<1> QED
  BY <1>1, <1>2, <1>3, <1>4, <1>5, <1>6, <1>7, <1>8, <1>9, <1>10, <1>11,
     <1>12, <1>13, <1>14, <1>15, <1>16, <1>17, <1>18, <1>19, <1>20, <1>21,
     <1>22, <1>23, <1>24, <1>25, <1>26, <1>27, <1>28, <1>29, <1>30, <1>31,
     <1>32, <1>33, <1>34, <1>35, <1>36, <1>37, <1>38, <1>39, ZenonT(60)
     DEF DeviceStep, XdmaDeviceOpen, Unwind, Interfaces, Reset

(* pci_enable_device and pci_disable_device. *)
LEMMA EnableNext ==
  ASSUME DeviceConstants, DeviceInv, DeviceStep
  PROVE  HoldEnable'
<1>a. <<"enable", 0>> \in Resources
  BY ResourceMembers
<1>b. hold \in [Resources -> Int]
  BY DEF DeviceInv, HoldInv, HoldPlain
<1>c. /\ refused \in Nat
      /\ hold[<<"enable", 0>>] = IF Enabled THEN refused + 1 ELSE refused
  BY DEF DeviceInv, HoldInv, HoldEnable
<1> USE DEF HoldEnable, Enabled, XdevInv, XpdevInv, BarInv, At, Go,
         Loop, devVars, countVars, Single, DeviceInv,
         Level,
         LevelOf, UpPlaces
<1>1. CASE ModInit
  BY <1>1, <1>a, <1>b, <1>c, AcquireValues, ReleaseValues DEF ModInit
<1>2. CASE ModExit
  BY <1>2, <1>a, <1>b, <1>c, AcquireValues, ReleaseValues DEF ModExit
<1>3. CASE XpdevAlloc
  BY <1>3, <1>a, <1>b, <1>c, AcquireValues, ReleaseValues DEF XpdevAlloc
<1>4. CASE RemoveOne
  BY <1>4, <1>a, <1>b, <1>c, AcquireValues, ReleaseValues DEF RemoveOne,
     Fails, DeviceConstants, Uncleaned
<1>5. CASE GoOffline
  BY <1>5, <1>a, <1>b, <1>c, AcquireValues, ReleaseValues DEF GoOffline,
     XdevType
<1>6. CASE AllocDevInstance
  BY <1>6, <1>a, <1>b, <1>c, AcquireValues, ReleaseValues, NewXdevFields DEF
     AllocDevInstance
<1>7. CASE XdevListAdd
  BY <1>7, <1>a, <1>b, <1>c, AcquireValues, ReleaseValues DEF
     XdevListAdd
<1>8. CASE PciEnableDevice
  BY <1>8, <1>a, <1>b, <1>c, AcquireValues, ReleaseValues DEF
     PciEnableDevice
<1>9. CASE RequestRegions
  BY <1>9, <1>a, <1>b, <1>c, AcquireValues, ReleaseValues DEF
     RequestRegions, XdevType
<1>10. CASE MapSingleBar
  BY <1>10, <1>a, <1>b, <1>c, AcquireValues, ReleaseValues DEF
     MapSingleBar, XdevType, UnmapBars, MappedBars
<1>11. CASE MapBars
  BY <1>11, <1>a, <1>b, <1>c, AcquireValues, ReleaseValues DEF MapBars,
     XdevType, UnmapBars, MappedBars
<1>12. CASE SetDmaMask
  BY <1>12, <1>a, <1>b, <1>c, AcquireValues, ReleaseValues DEF
     SetDmaMask
<1>13. CASE ProbeForEngine
  BY <1>13, <1>a, <1>b, <1>c, AcquireValues, ReleaseValues DEF
     ProbeForEngine, XdevType, EngineResources
<1>14. CASE ProbeEnginesBreak
  BY <1>14, <1>a, <1>b, <1>c, AcquireValues, ReleaseValues DEF
     ProbeEnginesBreak, XdevType
<1>15. CASE ProbeEnginesEnd
  BY <1>15, <1>a, <1>b, <1>c, AcquireValues, ReleaseValues DEF
     ProbeEnginesEnd
<1>16. CASE EnableMsiMsix
  BY <1>16, <1>a, <1>b, <1>c, AcquireValues, ReleaseValues DEF
     EnableMsiMsix, XdevType
<1>17. CASE OpenIrqs
  <2>1. PICK ls : Acquire(Lines(ls))
    BY <1>17, LinesAcquired
  <2>2. hold'[<<"enable", 0>>] = hold[<<"enable", 0>>]
    BY <2>1, <1>a, <1>b, AcquireValues DEF Lines
  <2>3. refused' = refused
    BY <1>17 DEF OpenIrqs, countVars
  <2>4. Enabled' <=> Enabled
    BY <1>17, LinesOpened DEF Enabled, Level, LevelOf
  <2> QED
    BY <2>2, <2>3, <2>4, <1>c DEF HoldEnable
<1>18. CASE OpenDone
  BY <1>18, <1>a, <1>b, <1>c, AcquireValues, ReleaseValues DEF OpenDone,
     XdevType
<1>19. CASE DeviceClose
  BY <1>19, <1>a, <1>b, <1>c, AcquireValues, ReleaseValues DEF
     DeviceClose, IrqTeardown, Lines
<1>20. CASE DisableMsiMsix
  BY <1>20, <1>a, <1>b, <1>c, AcquireValues, ReleaseValues DEF
     DisableMsiMsix, XdevType
<1>21. CASE RemoveEngines
  BY <1>21, <1>a, <1>b, <1>c, AcquireValues, ReleaseValues DEF
     RemoveEngines, XdevType, EngineResources
<1>22. CASE UnwindBars
  BY <1>22, <1>a, <1>b, <1>c, AcquireValues, ReleaseValues DEF
     UnwindBars, XdevType, UnmapBars, MappedBars
<1>23. CASE ReleaseRegions
  BY <1>23, <1>a, <1>b, <1>c, AcquireValues, ReleaseValues DEF
     ReleaseRegions
<1>24. CASE DisableDevice
  BY <1>24, <1>a, <1>b, <1>c, AcquireValues, ReleaseValues DEF
     DisableDevice
<1>25. CASE XdevListRemove
  BY <1>25, <1>a, <1>b, <1>c, AcquireValues, ReleaseValues DEF
     XdevListRemove
<1>26. CASE FreeXdev
  BY <1>26, <1>a, <1>b, <1>c, AcquireValues, ReleaseValues DEF FreeXdev
<1>27. CASE Sha256Create
  <2>1. hold'[<<"enable", 0>>] = hold[<<"enable", 0>>]
    BY <1>27, <1>a, <1>b, AcquireValues DEF Sha256Create, Fails,
       DeviceConstants, Uncleaned
  <2>2. refused' = refused
    BY <1>27 DEF Sha256Create, countVars
  <2>3. Enabled' <=> Enabled
    BY <1>27 DEF Sha256Create, Enabled, Level, LevelOf, At, Go
  <2> QED
    BY <2>1, <2>2, <2>3, <1>c DEF HoldEnable
<1>28. CASE DeviceCreate
  <2>1. hold'[<<"enable", 0>>] = hold[<<"enable", 0>>]
    BY <1>28, <1>a, <1>b, AcquireValues DEF DeviceCreate, Fails,
       DeviceConstants, Uncleaned
  <2>2. refused' = refused
    BY <1>28 DEF DeviceCreate, countVars
  <2>3. Enabled' <=> Enabled
    BY <1>28 DEF DeviceCreate, Enabled, Level, LevelOf, At, Go
  <2> QED
    BY <2>1, <2>2, <2>3, <1>c DEF HoldEnable
<1>29. CASE InitWaitqueue
  BY <1>29, <1>a, <1>b, <1>c, AcquireValues, ReleaseValues DEF
     InitWaitqueue
<1>30. CASE ProbeDone
  BY <1>30, <1>a, <1>b, <1>c, AcquireValues, ReleaseValues DEF ProbeDone
<1>31. CASE CreateFails
  BY <1>31, <1>a, <1>b, <1>c, AcquireValues, ReleaseValues DEF
     CreateFails, DestroyInterfaces
<1>32. CASE XpdevFree
  BY <1>32, <1>a, <1>b, <1>c, AcquireValues, ReleaseValues DEF
     XpdevFree, DestroyInterfaces
<1>33. CASE XpdevFreeOops
  BY <1>33, <1>a, <1>b, <1>c, AcquireValues, ReleaseValues DEF
     XpdevFreeOops
<1>34. CASE FreeXpdev
  BY <1>34, <1>a, <1>b, <1>c, AcquireValues, ReleaseValues DEF FreeXpdev
<1>35. CASE OfflineIrqs
  BY <1>35, <1>a, <1>b, <1>c, AcquireValues, ReleaseValues DEF
     OfflineIrqs, IrqTeardown, Lines
<1>36. CASE ErrorDisables
  BY <1>36, <1>a, <1>b, <1>c, AcquireValues, ReleaseValues DEF
     ErrorDisables
<1>37. CASE SlotReset
  BY <1>37, <1>a, <1>b, <1>c, AcquireValues, ReleaseValues DEF SlotReset
<1>38. CASE OnlineIrqs
  <2>1. PICK ls : Acquire(Lines(ls))
    BY <1>38, LinesAcquired
  <2>2. hold'[<<"enable", 0>>] = hold[<<"enable", 0>>]
    BY <2>1, <1>a, <1>b, AcquireValues DEF Lines
  <2>3. refused' = refused
    BY <1>38 DEF OnlineIrqs, countVars
  <2>4. Enabled' <=> Enabled
    BY <1>38, LinesOpened DEF Enabled, Level, LevelOf
  <2> QED
    BY <2>2, <2>3, <2>4, <1>c DEF HoldEnable
<1>39. CASE OnlineDone
  BY <1>39, <1>a, <1>b, <1>c, AcquireValues, ReleaseValues DEF
     OnlineDone, XdevType
<1> QED
  BY <1>1, <1>2, <1>3, <1>4, <1>5, <1>6, <1>7, <1>8, <1>9, <1>10, <1>11,
     <1>12, <1>13, <1>14, <1>15, <1>16, <1>17, <1>18, <1>19, <1>20, <1>21,
     <1>22, <1>23, <1>24, <1>25, <1>26, <1>27, <1>28, <1>29, <1>30, <1>31,
     <1>32, <1>33, <1>34, <1>35, <1>36, <1>37, <1>38, <1>39, ZenonT(60)
     DEF DeviceStep, XdmaDeviceOpen, Unwind, Interfaces, Reset

(* The device nodes; device_create may have failed for some. *)
LEMMA NodeNext ==
  ASSUME DeviceConstants, DeviceInv, DeviceStep
  PROVE  HoldNode'
<1> SUFFICES ASSUME NEW c \in 0..(Channels - 1)
             PROVE  \/ hold'[<<"node", c>>] = 0
                    \/ hold'[<<"node", c>>] = 1 /\ Level' = 11 /\ c \in xpdev'.sys
  BY DEF HoldNode
<1>a. <<"node", c>> \in Resources
  BY ResourceMembers
<1>b. hold \in [Resources -> Int]
  BY DEF DeviceInv, HoldInv, HoldPlain
<1>c. \/ hold[<<"node", c>>] = 0
      \/ hold[<<"node", c>>] = 1 /\ Level = 11 /\ c \in xpdev.sys
  BY DEF DeviceInv, HoldInv, HoldNode
<1> USE DEF At, Go, Loop, devVars, Single,
         DeviceInv,
         Level, LevelOf, UpPlaces
<1>1. CASE ModInit
  BY <1>1, <1>a, <1>b, <1>c, AcquireValues, ReleaseValues DEF ModInit
<1>2. CASE ModExit
  BY <1>2, <1>a, <1>b, <1>c, AcquireValues, ReleaseValues DEF ModExit
<1>3. CASE XpdevAlloc
  BY <1>3, <1>a, <1>b, <1>c, AcquireValues, ReleaseValues DEF XpdevAlloc
<1>4. CASE RemoveOne
  BY <1>4, <1>a, <1>b, <1>c, AcquireValues, ReleaseValues DEF RemoveOne,
     XpdevInv
<1>5. CASE GoOffline
  BY <1>5, <1>a, <1>b, <1>c, AcquireValues, ReleaseValues DEF GoOffline
<1>6. CASE AllocDevInstance
  BY <1>6, <1>a, <1>b, <1>c, AcquireValues, ReleaseValues DEF
     AllocDevInstance, XpdevInv
<1>7. CASE XdevListAdd
  BY <1>7, <1>a, <1>b, <1>c, AcquireValues, ReleaseValues DEF
     XdevListAdd
<1>8. CASE PciEnableDevice
  BY <1>8, <1>a, <1>b, <1>c, AcquireValues, ReleaseValues DEF
     PciEnableDevice
<1>9. CASE RequestRegions
  BY <1>9, <1>a, <1>b, <1>c, AcquireValues, ReleaseValues DEF
     RequestRegions
<1>10. CASE MapSingleBar
  BY <1>10, <1>a, <1>b, <1>c, AcquireValues, ReleaseValues DEF
     MapSingleBar, UnmapBars, MappedBars
<1>11. CASE MapBars
  BY <1>11, <1>a, <1>b, <1>c, AcquireValues, ReleaseValues DEF MapBars,
     UnmapBars, MappedBars
<1>12. CASE SetDmaMask
  BY <1>12, <1>a, <1>b, <1>c, AcquireValues, ReleaseValues DEF
     SetDmaMask
<1>13. CASE ProbeForEngine
  BY <1>13, <1>a, <1>b, <1>c, AcquireValues, ReleaseValues DEF
     ProbeForEngine, EngineResources
<1>14. CASE ProbeEnginesBreak
  BY <1>14, <1>a, <1>b, <1>c, AcquireValues, ReleaseValues DEF
     ProbeEnginesBreak
<1>15. CASE ProbeEnginesEnd
  BY <1>15, <1>a, <1>b, <1>c, AcquireValues, ReleaseValues DEF
     ProbeEnginesEnd
<1>16. CASE EnableMsiMsix
  BY <1>16, <1>a, <1>b, <1>c, AcquireValues, ReleaseValues DEF
     EnableMsiMsix
<1>17. CASE OpenIrqs
  <2>1. PICK ls : Acquire(Lines(ls))
    BY <1>17, LinesAcquired
  <2>2. hold'[<<"node", c>>] = hold[<<"node", c>>]
    BY <2>1, <1>a, <1>b, AcquireValues DEF Lines
  <2>3. xpdev' = xpdev /\ (Level = 11 => Level' = 11)
    BY <1>17, LinesOpened DEF Level, LevelOf
  <2> QED
    BY <2>2, <2>3, <1>c
<1>18. CASE OpenDone
  BY <1>18, <1>a, <1>b, <1>c, AcquireValues, ReleaseValues DEF OpenDone
<1>19. CASE DeviceClose
  BY <1>19, <1>a, <1>b, <1>c, AcquireValues, ReleaseValues DEF
     DeviceClose, IrqTeardown, Lines
<1>20. CASE DisableMsiMsix
  BY <1>20, <1>a, <1>b, <1>c, AcquireValues, ReleaseValues DEF
     DisableMsiMsix
<1>21. CASE RemoveEngines
  BY <1>21, <1>a, <1>b, <1>c, AcquireValues, ReleaseValues DEF
     RemoveEngines, EngineResources
<1>22. CASE UnwindBars
  BY <1>22, <1>a, <1>b, <1>c, AcquireValues, ReleaseValues DEF
     UnwindBars, UnmapBars, MappedBars
<1>23. CASE ReleaseRegions
  BY <1>23, <1>a, <1>b, <1>c, AcquireValues, ReleaseValues DEF
     ReleaseRegions
<1>24. CASE DisableDevice
  BY <1>24, <1>a, <1>b, <1>c, AcquireValues, ReleaseValues DEF
     DisableDevice
<1>25. CASE XdevListRemove
  BY <1>25, <1>a, <1>b, <1>c, AcquireValues, ReleaseValues DEF
     XdevListRemove
<1>26. CASE FreeXdev
  BY <1>26, <1>a, <1>b, <1>c, AcquireValues, ReleaseValues DEF FreeXdev
<1>27. CASE Sha256Create
  <2>1. hold'[<<"node", c>>] = hold[<<"node", c>>]
    BY <1>27, <1>a, <1>b, AcquireValues DEF Sha256Create, Single,
       Fails, DeviceConstants, Uncleaned
  <2>2. Level' = 11 /\ xpdev'.sys = xpdev.sys
    BY <1>27 DEF Sha256Create, Level, LevelOf, Go, Fails,
       DeviceConstants, Uncleaned, DeviceInv, XpdevInv, XpdevType
  <2> QED
    BY <2>1, <2>2, <1>c
<1>28. CASE DeviceCreate
  BY <1>28, <1>a, <1>b, <1>c, AcquireValues, ReleaseValues DEF
     DeviceCreate, XpdevType, XpdevInv
<1>29. CASE InitWaitqueue
  BY <1>29, <1>a, <1>b, <1>c, AcquireValues, ReleaseValues DEF
     InitWaitqueue, XpdevType, XpdevInv
<1>30. CASE ProbeDone
  BY <1>30, <1>a, <1>b, <1>c, AcquireValues, ReleaseValues DEF ProbeDone
<1>31. CASE CreateFails
  <2>1. PICK rs : Release(rs) /\ (<<"node", c>> \in rs => c \in xpdev.sys)
    BY <1>31 DEF CreateFails, DestroyInterfaces, Single
  <2>2. xpdev.sys = {}
    BY <1>31 DEF CreateFails, At, DeviceInv, XpdevInv, Fresh
  <2> QED
    BY <2>1, <2>2, <1>a, <1>b, <1>c, ReleaseValues
<1>32. CASE XpdevFree
  <2> DEFINE nodes == {<<"node", d>> : d \in {e \in Destroyed \cap xpdev.sys :
                                              Held("node", e)}}
             rs == (({"cdev"} \X Destroyed) \cup nodes \cup
                    IF xpdev.major THEN {Single("chrdev")} ELSE {})
  <2>0. Release(rs)
    BY <1>32 DEF XpdevFree, DestroyInterfaces
  <2>1. <<"node", c>> \in rs <=>
          c \in Destroyed \cap xpdev.sys /\ hold[<<"node", c>>] > 0
    BY DEF Single, Held
  <2> HIDE DEF rs, nodes
  <2>2. c \in xpdev.sys => c \in Destroyed
    BY DEF Destroyed, DeviceInv, XpdevInv
  <2>3. hold'[<<"node", c>>] = IF <<"node", c>> \in rs THEN hold[<<"node", c>>] - 1
                               ELSE hold[<<"node", c>>]
    BY <2>0, <1>a, <1>b, ReleaseValues
  <2> QED
    BY <2>1, <2>2, <2>3, <1>b, <1>c
<1>33. CASE XpdevFreeOops
  BY <1>33, <1>a, <1>b, <1>c, AcquireValues, ReleaseValues DEF
     XpdevFreeOops
<1>34. CASE FreeXpdev
  BY <1>34, <1>a, <1>b, <1>c, AcquireValues, ReleaseValues DEF FreeXpdev
<1>35. CASE OfflineIrqs
  BY <1>35, <1>a, <1>b, <1>c, AcquireValues, ReleaseValues DEF
     OfflineIrqs, IrqTeardown, Lines
<1>36. CASE ErrorDisables
  BY <1>36, <1>a, <1>b, <1>c, AcquireValues, ReleaseValues DEF
     ErrorDisables
<1>37. CASE SlotReset
  BY <1>37, <1>a, <1>b, <1>c, AcquireValues, ReleaseValues DEF SlotReset
<1>38. CASE OnlineIrqs
  <2>1. PICK ls : Acquire(Lines(ls))
    BY <1>38, LinesAcquired
  <2>2. hold'[<<"node", c>>] = hold[<<"node", c>>]
    BY <2>1, <1>a, <1>b, AcquireValues DEF Lines
  <2>3. xpdev' = xpdev /\ (Level = 11 => Level' = 11)
    BY <1>38, LinesOpened DEF Level, LevelOf
  <2> QED
    BY <2>2, <2>3, <1>c
<1>39. CASE OnlineDone
  BY <1>39, <1>a, <1>b, <1>c, AcquireValues, ReleaseValues DEF
     OnlineDone
<1> QED
  BY <1>1, <1>2, <1>3, <1>4, <1>5, <1>6, <1>7, <1>8, <1>9, <1>10, <1>11,
     <1>12, <1>13, <1>14, <1>15, <1>16, <1>17, <1>18, <1>19, <1>20, <1>21,
     <1>22, <1>23, <1>24, <1>25, <1>26, <1>27, <1>28, <1>29, <1>30, <1>31,
     <1>32, <1>33, <1>34, <1>35, <1>36, <1>37, <1>38, <1>39, ZenonT(60)
     DEF DeviceStep, XdmaDeviceOpen, Unwind, Interfaces, Reset

(* The steps of programs and interrupts, and stuttering. *)
LEMMA DeviceKept ==
  ASSUME DeviceInv, card' = card, place' = place, index' = index,
         hold' = hold, xdev' = xdev, xpdev' = xpdev, refused' = refused
  PROVE  (card \in Cards)' /\ HoldInv' /\ XdevInv' /\ XpdevInv'
<1>1. /\ Level' = Level /\ Resources' = Resources
      /\ Served' = Served /\ Wanted' = Wanted
      /\ Present' = Present /\ Slot(1)' = Slot(1)
      /\ Cards' = Cards
  BY CardSame, ServedSame, WantedSame DEF Level, Resources
<1>2. Made' = Made /\ Plain' = Plain
  BY <1>1 DEF Made, Plain
<1>3. (card \in Cards)' /\ XpdevInv'
  BY <1>1 DEF DeviceInv, XpdevInv, XpdevType, Fresh
<1>4. XdevInv'
  BY <1>1, <1>2 DEF DeviceInv, XdevInv, XdevType, BarInv, EngineInv, LineInv
<1>5. \A r \in Plain : Owns(r)' <=> Owns(r)
  BY <1>1, <1>2 DEF Owns, HasLines
<1>6. HoldPlain'
  BY <1>1, <1>2, <1>5 DEF DeviceInv, HoldInv, HoldPlain
<1>7. HoldEnable' /\ HoldNode'
  BY <1>1 DEF DeviceInv, HoldInv, HoldEnable, HoldNode, Enabled
<1> QED
  BY <1>3, <1>4, <1>6, <1>7 DEF HoldInv

ProgramStep(c) ==
  \/ OpenFile(c) \/ SubmitTransfer(c) \/ SubmitBehind(c) \/ CloseFile(c)
  \/ XdmaChannelIrq(c) \/ Service(c) \/ Expire(c)

LEMMA ProgramKeepsDevice ==
  ASSUME NEW c, ProgramStep(c)
  PROVE  /\ card' = card /\ place' = place /\ index' = index /\ hold' = hold
         /\ xdev' = xdev /\ xpdev' = xpdev /\ refused' = refused
  BY DEF ProgramStep, OpenFile, SubmitTransfer, SubmitBehind, CloseFile,
     XdmaChannelIrq, Service, Expire, devVars,
     countVars

(* Programs open nodes of a device that is up, and transfers are theirs. *)
LEMMA ProgramNext ==
  ASSUME ProbeConstants, ProbeInv, NEW c \in DOMAIN dma, ProgramStep(c)
  PROVE  FileInv'
<1>1. c \in 0..(Channels - 1)
  BY DEF ProbeInv, FileInv
<1> USE DEF ProbeInv, DeviceInv, FileInv
<1>2. CASE OpenFile(c)
  <2>1. hold[<<"node", c>>] > 0
    BY <1>2 DEF OpenFile, Held
  <2>2. Level = 11 /\ place \in Places /\ c \in xpdev.magic
    BY <1>1, <2>1 DEF HoldInv, HoldNode, XpdevInv
  <2>3. ~Removing /\ (c \in xpdev.wqh \/ "early" \in ProbeFaults)
    BY <1>2 DEF OpenFile, Fails, ProbeConstants
  <2>4. place \in UpPlaces
    BY <2>2, <2>3 DEF Removing, Places, OpeningPlaces, ErrorPlaces,
       Level, LevelOf, UpPlaces
  <2> QED
    BY <1>2, <2>2, <2>3, <2>4 DEF OpenFile, devVars
<1>3. CASE SubmitTransfer(c)
  BY <1>1, <1>3 DEF SubmitTransfer, devVars
<1>4. CASE CloseFile(c)
  BY <1>1, <1>4 DEF CloseFile, devVars, Fails, ProbeConstants
<1>5. CASE XdmaChannelIrq(c)
  BY <1>1, <1>5 DEF XdmaChannelIrq, devVars
<1>6. CASE Service(c)
  BY <1>1, <1>6 DEF Service, devVars
<1>7. CASE Expire(c)
  BY <1>1, <1>7 DEF Expire, devVars
<1>8. CASE SubmitBehind(c)
  BY <1>1, <1>8 DEF SubmitBehind, devVars
<1> QED
  BY <1>2, <1>3, <1>4, <1>5, <1>6, <1>7, <1>8 DEF ProgramStep

LEMMA DeviceInvInit ==
  ASSUME DeviceConstants, ProbeInit
  PROVE  DeviceInv
<1>1. /\ place = "out" /\ Level = 0 /\ card \in Cards
      /\ xdev = NewXdev /\ xpdev = NewXpdev /\ refused = 0
      /\ hold = [r \in Resources |-> 0]
  BY DEF ProbeInit, Level, LevelOf
<1>2. Made = {}
  BY <1>1 DEF Made
<1>3. XdevInv
  BY <1>1, <1>2, NewXdevFields DEF XdevInv, BarInv, EngineInv, LineInv
<1>4. /\ xpdev \in XpdevType /\ ~xpdev.xdev
      /\ xpdev.magic = {} /\ xpdev.sys = {} /\ xpdev.wqh = {}
  BY <1>1 DEF NewXpdev, XpdevType, DeviceConstants
<1>5. XpdevInv
  BY <1>1, <1>4 DEF XpdevInv, Places, OpeningPlaces, ErrorPlaces, UpPlaces
<1>6. \A r \in Plain : ~Owns(r)
  BY <1>1, <1>2, NewXdevFields DEF Owns, HasLines
<1>7. HoldPlain
  BY <1>1, <1>6 DEF HoldPlain, Plain
<1>8. HoldEnable
  <2>1. hold[<<"enable", 0>>] = 0 /\ ~Enabled
    BY <1>1, ResourceMembers DEF Enabled
  <2> QED
    BY <1>1, <2>1 DEF HoldEnable
<1>9. HoldNode
  BY <1>1, ResourceMembers DEF HoldNode
<1> QED
  BY <1>1, <1>3, <1>5, <1>7, <1>8, <1>9 DEF DeviceInv, HoldInv

(* Programs do not touch what the device holds. *)
LEMMA DeviceInvNext ==
  ASSUME DeviceConstants, DeviceInv, [ProbeNext]_probeVars
  PROVE  DeviceInv'
<1>1. CASE DeviceStep
  <2>1. card' = card
    BY <1>1, DeviceKeepsCard
  <2>2. (card \in Cards)'
    BY <2>1, CardSame DEF DeviceInv
  <2> QED
    BY <1>1, <2>2, XdevTypeNext, BarNext, EngineNext, LineNext, XpdevNext,
       PlainNext, EnableNext, NodeNext
    DEF DeviceInv, HoldInv, XdevInv
<1>2. ASSUME NEW c \in DOMAIN dma, ProgramStep(c)
      PROVE  DeviceInv'
  BY <1>2, ProgramKeepsDevice, DeviceKept DEF DeviceInv
<1>3. CASE UNCHANGED probeVars
  BY <1>3, DeviceKept DEF DeviceInv, probeVars, devVars, countVars
<1> QED
  BY <1>1, <1>2, <1>3 DEF ProbeNext, DeviceStep, ProgramStep

LEMMA DeviceInvariant ==
  ASSUME DeviceConstants PROVE ProbeSpec => []DeviceInv
  BY DeviceInvInit, DeviceInvNext, PTL DEF ProbeSpec

LEMMA ProbeInvariant ==
  ASSUME ProbeConstants PROVE ProbeSpec => []ProbeInv
<1>1. DeviceConstants
  BY DEF ProbeConstants
<1>2. ProbeInit => FileInv
  BY DEF ProbeInit, FileInv, NewXpdev
<1>3. DeviceInv /\ FileInv /\ [ProbeNext]_probeVars => FileInv'
  <2> SUFFICES ASSUME ProbeInv, [ProbeNext]_probeVars PROVE FileInv'
    BY DEF ProbeInv
  <2>1. CASE DeviceStep
    BY <2>1, FileNext
  <2>2. ASSUME NEW c \in DOMAIN dma, ProgramStep(c) PROVE FileInv'
    BY <2>2, ProgramNext
  <2>3. CASE UNCHANGED probeVars
    BY <2>3 DEF ProbeInv, FileInv, probeVars, devVars, fileVars
  <2> QED
    BY <2>1, <2>2, <2>3 DEF ProbeNext, DeviceStep, ProgramStep
<1>4. ProbeSpec => []DeviceInv
  BY <1>1, DeviceInvariant
<1> QED
  BY <1>2, <1>3, <1>4, PTL DEF ProbeSpec, ProbeInv

(* As long as none of the failures of Uncleaned occurs, and whatever else  *)
(* fails or programs do: by whatever way a reset, an error label or the    *)
(* removal comes to a release, nothing is released that is not held, and   *)
(* nothing of the device is left behind (ResourcesBalanced).               *)
THEOREM ProbeBalancesResources ==
  ASSUME DeviceConstants PROVE ProbeSpec => []ResourcesBalanced
<1>1. DeviceInv => ResourcesBalanced
  <2> SUFFICES ASSUME DeviceInv PROVE ResourcesBalanced
    OBVIOUS
  <2> USE DEF DeviceInv, HoldInv
  <2>1. ASSUME NEW r \in Resources PROVE hold[r] >= 0
    <3>1. CASE r \in Plain
      BY <3>1 DEF HoldPlain
    <3>2. CASE r[1] = "enable"
      BY <3>2, ResourceNames DEF HoldEnable
    <3>3. CASE r[1] = "node"
      BY <3>3, ResourceNames DEF HoldNode
    <3> QED
      BY <3>1, <3>2, <3>3 DEF Plain
  <2>2. /\ hold[<<"class", 0>>] = IF Level >= 1 THEN 1 ELSE 0
        /\ hold[<<"cache", 0>>] = IF Level >= 1 THEN 1 ELSE 0
        /\ hold[<<"xpdev", 0>>] = IF Level >= 2 THEN 1 ELSE 0
        /\ hold[<<"xdev", 0>>] = IF Level >= 3 THEN 1 ELSE 0
    BY ResourceMembers DEF HoldPlain, Plain, Owns
  <2>3. ASSUME place \in {"out", "unbound"} \/ (place = "err_out" /\ Level < 3),
               NEW r \in DeviceResources \ {Single("xpdev")}
        PROVE  hold[r] = IF r = Single("enable") THEN refused ELSE 0
    <3>1. Level \in Int /\ Level < 3 /\ place \notin {"map", "engines"}
      BY <2>3 DEF Level, LevelOf
    <3>2. xdev.bars = {} /\ Made = {}
      BY <3>1, <2>3 DEF XdevInv, BarInv, Made, Level, LevelOf
    <3>3. r \in Resources /\ r[1] \notin {"class", "cache", "xpdev"}
      BY <2>3, ResourceNames DEF Resources, DeviceResources,
         Single
    <3>4. CASE r \in Plain
      <4>1. ~Owns(r)
        BY <3>1, <3>2, <3>3 DEF Owns, HasLines
      <4>2. r # Single("enable")
        BY <3>4 DEF Plain, Single
      <4> QED
        BY <3>4, <4>1, <4>2 DEF HoldPlain
    <3>5. CASE r[1] = "enable"
      <4>1. r = Single("enable")
        BY <3>3, <3>5, ResourceNames DEF Single
      <4>2. ~Enabled
        BY <3>1 DEF Enabled
      <4> QED
        BY <4>1, <4>2 DEF HoldEnable, Single
    <3>6. CASE r[1] = "node"
      BY <3>1, <3>3, <3>6, ResourceNames DEF HoldNode, Single
    <3> QED
      BY <3>3, <3>4, <3>5, <3>6 DEF Plain
  <2>4. /\ place \in {"out", "unbound"} => Level < 2
        /\ place = "out" => Level < 1
        /\ Level \in Int
    BY DEF Level, LevelOf
  <2> QED
    BY <2>1, <2>2, <2>3, <2>4 DEF ResourcesBalanced, At,
       Held, Single
<1> QED
  BY <1>1, DeviceInvariant, PTL

(* As long as none of the failures of Uncleaned occurs, a node is closed   *)
(* when its channel has no work left and the device is removed when its    *)
(* nodes are closed: an interrupt or a work item finds the device, its     *)
(* BARs and the descriptors of its engine (HandlerHasDevice), through the  *)
(* other failures of a probe, resets and the removal.                      *)
THEOREM ProbeHandlersHaveDevice ==
  ASSUME ProbeConstants PROVE ProbeSpec => []HandlerHasDevice
<1>1. ProbeInv => HandlerHasDevice
  <2> SUFFICES ASSUME ProbeInv PROVE HandlerHasDevice
    OBVIOUS
  <2> USE DEF ProbeInv, DeviceInv, HoldInv
  <2>1. Level \in Int
    BY DEF Level, LevelOf
  <2>2. Level >= 10 => /\ hold[<<"xdev", 0>>] = 1 /\ hold[<<"list", 0>>] = 1
                       /\ xdev.bars # {}
    BY <2>1, ResourceMembers, PresentSlots DEF HoldPlain, Plain, Owns,
       XdevInv, BarInv
  <2>3. ASSUME NEW l \in 0..SharedLine, hold[<<"irq", l>>] > 0
        PROVE  Level >= 10 /\ l \in Wanted
    BY <2>3, ResourceMembers DEF HoldPlain, Plain, Owns, HasLines
  <2>4. ASSUME NEW e \in Engines, Level >= 8, e \in Served
        PROVE  hold[<<"desc", e>>] > 0 /\ e \in xdev.magic
    <3>1. e \in Made
      BY <2>4 DEF Made
    <3>2. <<"desc", e>> \in Plain /\ Owns(<<"desc", e>>)
      BY <3>1, ResourceMembers DEF Plain, Owns
    <3> QED
      BY <3>1, <3>2 DEF HoldPlain, XdevInv, EngineInv
  <2>5. ASSUME NEW e \in Engines, hold[<<"irq", e>>] > 0
        PROVE  Level >= 8 /\ e \in Served
    <3>1. e \in 0..SharedLine /\ e # SharedLine
          /\ e \notin UserLines
      BY DEF Engines, SharedLine, UserLines, ProbeConstants, DeviceConstants
    <3> QED
      BY <2>1, <2>3, <2>5, <3>1 DEF Wanted
  <2>6. ASSUME NEW e \in queued PROVE Level >= 8 /\ e \in Served
    <3>1. e \in xpdev.magic /\ place \in UpPlaces
      BY <2>6 DEF FileInv, XpdevInv
    <3>2. Level = 11
      BY <3>1 DEF Level, LevelOf, UpPlaces
    <3>3. e \in 0..(xdev.h2c - 1)
      BY <3>1, <3>2 DEF XpdevInv
    <3> QED
      BY <3>2, <3>3 DEF Served
  <2> QED
    BY <2>2, <2>3, <2>4, <2>5, <2>6 DEF HandlerHasDevice, Held
<1> QED
  BY <1>1, ProbeInvariant, PTL

(* Under the same conditions, for a card with a user BAR whose nodes are   *)
(* opened once sha256_create is through: a node that a program has open,   *)
(* or may open, leads to an engine of a device whose user BAR is mapped    *)
(* (NodeHasDevice).                                                        *)
THEOREM ProbeNodesHaveDevice ==
  ASSUME ProbeConstants, "nouser" \notin ProbeFaults,
         "early" \notin ProbeFaults
  PROVE  ProbeSpec => []NodeHasDevice
<1>1. ProbeInv => NodeHasDevice
  <2> SUFFICES ASSUME ProbeInv, NEW c \in 0..(Channels - 1),
                      hold[<<"cdev", c>>] > 0 \/ c \in file
               PROVE  /\ hold[<<"xdev", 0>>] > 0 /\ hold[<<"xpdev", 0>>] > 0
                      /\ c \in xdev.magic
                      /\ \E n \in DOMAIN card.bars :
                           /\ card.bars[n] = "user"
                           /\ Slot(n) = xdev.user_bar
                      /\ xdev.user_bar \in xdev.bars
                      /\ c \in file => c \in xpdev.wqh
    BY DEF NodeHasDevice, Held
  <2> USE DEF ProbeInv, DeviceInv, HoldInv
  <2>1. Level = 11 /\ c \in xpdev.magic
    <3>1. CASE hold[<<"cdev", c>>] > 0
      <4>1. <<"cdev", c>> \in Plain
        BY ResourceMembers DEF Plain
      <4>2. Owns(<<"cdev", c>>)
        BY <3>1, <4>1 DEF HoldPlain
      <4> QED
        BY <4>2 DEF Owns
    <3>2. CASE c \in file
      BY <3>2 DEF FileInv, XpdevInv, Level, LevelOf, UpPlaces
    <3> QED
      BY <3>1, <3>2
  <2>2. hold[<<"xdev", 0>>] > 0 /\ hold[<<"xpdev", 0>>] > 0
    BY <2>1, ResourceMembers DEF HoldPlain, Plain, Owns
  <2>3. c \in xdev.magic
    BY <2>1 DEF XpdevInv, XdevInv, EngineInv, Made, Served
  <2>4. xdev.user_bar = Slot(1) /\ xdev.bars = Present
    BY <2>1 DEF XdevInv, BarInv
  <2>5. c \in file => c \in xpdev.wqh
    BY DEF FileInv
  <2> QED
    BY <2>2, <2>3, <2>4, <2>5, PresentSlots
<1> QED
  BY <1>1, ProbeInvariant, PTL
=============================================================================
