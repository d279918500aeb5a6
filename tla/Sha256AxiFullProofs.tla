------------------------- MODULE Sha256AxiFullProofs -------------------------
(***************************************************************************)
(* The AXI4 wrapper, for every block length, number of rounds and message: *)
(* a master that keeps one write outstanding loses no word and gets every  *)
(* beat and response of its bursts; with one read outstanding it may also  *)
(* believe the interrupt and the busy bit.                                 *)
(*                                                                         *)
(* The lemmas about the core are those of AxiLiteProofs, which is about    *)
(* the registers of another bus.                                           *)
(***************************************************************************)
EXTENDS Sha256AxiFull, SequenceTheorems, TLAPS

(* The core's registers agree with each other: the counter counts the      *)
(* words of the chunk while a block is loaded, a full chunk is hashed as a *)
(* whole, and hashed words come in blocks.                                 *)
CoreInv(c) ==
  /\ c.state \in FsmStates
  /\ c.chunk \in Seq(Nat) /\ c.H8 \in Seq(Nat)
  /\ c.state = "IDLE" => c.counter = 0 /\ c.chunk = << >>
  /\ c.state = "LOAD" => c.counter \in 1..LoadWords /\ c.counter = Len(c.chunk)
  /\ c.state = "PROC" => Len(c.chunk) = LoadWords
  /\ c.state = "FINISH" => c.chunk = << >>
  /\ Len(c.H8) % LoadWords = 0
  /\ c.irq_finish \in BOOLEAN /\ (c.irq_finish => c.state = "IDLE")

(* The core is at work on a full block. *)
Full(c) == c.state \in {"PROC", "FINISH"}
           \/ (c.state = "LOAD" /\ c.counter = LoadWords)

Bursts == ControlBursts \cup DataBursts

(* An address register at beat i of burst b. *)
AtBeat(r, b, i) ==
  /\ r = [addr |-> BeatAddr(b, i), burst |-> b.burst, len |-> b.len, cntr |-> i]
  /\ i \in 0..b.len

(* What the address generator needs of a burst: its beats fit the 8-bit    *)
(* counter, an incrementing one stays inside the slave, a wrapping one     *)
(* fills the second of the blocks of its length (the data region, or the   *)
(* hash region below it).                                                  *)
Sound(b) ==
  /\ b.burst \in {"FIXED", "INCR", "WRAP"} /\ b.addr \in Nat
  /\ b.len \in 0..LoadWords
  /\ b.burst = "INCR" => b.addr + b.len < AddrWords
  /\ b.burst = "WRAP" => /\ b.addr \in (b.len + 1)..(2 * b.len + 1)
                         /\ 2 * b.len + 1 < AddrWords

(* The one write: none under way, its address on offer, its data due.      *)
WriteIdle ==
  /\ ws = << >> /\ aws = << >> /\ wbeat = 0
  /\ ~awvalid /\ ~wvalid /\ ~axi_awready /\ ~axi_wready /\ ~axi_awv_awr_flag
  /\ \/ resps = 0 /\ ~axi_bvalid
     \/ resps = 1 /\ axi_bvalid

AddressDue(b) ==
  /\ ws = <<b>> /\ aws = <<b>> /\ wbeat = 0
  /\ resps = 0 /\ ~axi_bvalid /\ ~axi_wready
  /\ \/ ~axi_awready /\ ~axi_awv_awr_flag
     \/ axi_awready /\ axi_awv_awr_flag /\ awvalid /\ AtBeat(aw, b, 0)

DataDue(b) ==
  /\ ws = <<b>> /\ aws = << >>
  /\ resps = 0 /\ ~axi_bvalid /\ ~awvalid /\ ~axi_awready
  /\ axi_awv_awr_flag /\ AtBeat(aw, b, wbeat)

WriteBus ==
  /\ WriteIdle \/ \E b \in Bursts : AddressDue(b) \/ DataDue(b)
  /\ awvalid \in BOOLEAN /\ wvalid \in BOOLEAN /\ axi_bvalid \in BOOLEAN
  /\ axi_awready \in BOOLEAN /\ axi_awv_awr_flag \in BOOLEAN
  /\ axi_wready \in BOOLEAN

(* The read, of which the slave accepts one at a time: none accepted, or   *)
(* one that is at beat rbeat.                                              *)
ReadIdle ==
  /\ rq = << >> /\ rbeat = 0 /\ ~axi_rvalid /\ ~axi_rlast
  /\ \/ ~axi_arready /\ ~axi_arv_arr_flag
     \/ axi_arready /\ axi_arv_arr_flag /\ arvalid /\ AtBeat(ar, arreq, 0)

ReadDue(b) ==
  /\ rq = <<b>> /\ ~axi_arready /\ axi_arv_arr_flag
  /\ AtBeat(ar, b, rbeat)
  /\ axi_rlast = (axi_rvalid /\ rbeat = b.len)

ReadBus ==
  /\ arreq \in ReadBursts
  /\ ReadIdle \/ \E b \in ReadBursts : ReadDue(b)
  /\ arvalid \in BOOLEAN /\ axi_arready \in BOOLEAN /\ axi_rvalid \in BOOLEAN
  /\ axi_arv_arr_flag \in BOOLEAN /\ axi_rlast \in BOOLEAN

(* The control register: the reset bit is up for one cycle, in which no    *)
(* beat can be taken, and between writes a full core shows as busy.        *)
Status ==
  /\ slv_reg0 \in Control /\ sent \in Nat
  /\ slv_reg0.reset => ~axi_wready /\ sent = 0 /\ core = CoreReset
  /\ ws = << >> /\ resps = 0 /\ Full(core) => slv_reg0.busy

(* What the master has been told: a poll begun after the last write, and   *)
(* the end of the work announced by the interrupt or by such a poll.       *)
Polled ==
  /\ fresh \in BOOLEAN
  /\ fresh => /\ ws = << >> /\ resps = 0
              /\ arvalid => Region(arreq.addr) = "CTRL"
              /\ rq # << >> => Region(Head(rq).addr) = "CTRL"
              /\ axi_rvalid /\ ~reg_data_out.ctrl.busy => ~Full(core)

Told ==
  /\ announced \in BOOLEAN
  /\ announced => /\ ws = << >> /\ ~Full(core)
                  /\ axi_rvalid /\ Region(ar.addr) = "HASH" =>
                       reg_data_out.H8 = core.H8

BusInv == CoreInv(core) /\ NoWordLost /\ WriteBus /\ ReadBus /\ Status

FullInv == BusInv /\ Polled /\ Told

-----------------------------------------------------------------------------
(* Arithmetic and sequences.                                               *)

LEMMA MultipleMod ==
  ASSUME NEW n \in Nat \ {0}, NEW q \in Nat PROVE (n * q) % n = 0
  BY Z3

LEMMA NextMultiple ==
  ASSUME NEW a \in Nat, NEW n \in Nat \ {0}, a % n = 0 PROVE (a + n) % n = 0
<1>1. PICK q \in Nat : a = n * q
  BY Z3
<1>2. a + n = n * (q + 1) /\ q + 1 \in Nat
  BY <1>1, Z3
<1> QED
  BY <1>2, MultipleMod

LEMMA AppendToConcat ==
  ASSUME NEW s \in Seq(Nat), NEW t \in Seq(Nat), NEW e \in Nat
  PROVE  s \o Append(t, e) = Append(s \o t, e)
  OBVIOUS

LEMMA ConcatEmptyNat == ASSUME NEW s \in Seq(Nat) PROVE s \o << >> = s
  OBVIOUS

LEMMA ConcatLen ==
  ASSUME NEW s \in Seq(Nat), NEW t \in Seq(Nat)
  PROVE  s \o t \in Seq(Nat) /\ Len(s \o t) = Len(s) + Len(t)
  BY ConcatProperties

LEMMA AppendLen ==
  ASSUME NEW s \in Seq(Nat), NEW e \in Nat
  PROVE  Append(s, e) \in Seq(Nat) /\ Len(Append(s, e)) = Len(s) + 1
  OBVIOUS

-----------------------------------------------------------------------------
(* The core.                                                               *)

LEMMA CoreResetInv == CoreInv(CoreReset) /\ Taken(CoreReset) = << >>
<1>1. << >> \in Seq(Nat)
  OBVIOUS
<1>2. Len(<< >>) % LoadWords = 0
  BY FsmAssumption
<1> QED
  BY <1>1, <1>2, ConcatEmptyNat DEF CoreInv, CoreReset, FsmStates, Taken

(* A core that is not full takes a word that is presented, a full one      *)
(* takes none, and either way the words it has taken stay in order.        *)
LEMMA CoreStepInv ==
  ASSUME NEW c, NEW vld \in BOOLEAN, NEW dat \in Nat, CoreInv(c)
  PROVE  /\ CoreInv(CoreStep(c, vld, dat))
         /\ Taken(CoreStep(c, vld, dat)) =
              IF vld /\ ~Full(c) THEN Append(Taken(c), dat) ELSE Taken(c)
         /\ ~vld /\ ~Full(c) => CoreStep(c, vld, dat).state = c.state
                             /\ CoreStep(c, vld, dat).counter = c.counter
<1> DEFINE st == StateNext(c.state, c.counter, vld)
           d == CoreStep(c, vld, dat)
<1>0. LoadWords \in Nat \ {0} /\ LoadWords < 255
  BY FsmAssumption
<1>1. /\ c.state \in FsmStates /\ c.chunk \in Seq(Nat) /\ c.H8 \in Seq(Nat)
      /\ Len(c.chunk) \in Nat /\ Len(c.H8) \in Nat
  BY DEF CoreInv
<1>2. /\ d.state = st /\ d.counter = CounterNext(c.state, c.counter, vld)
      /\ d.irq_finish = (c.state = "FINISH")
      /\ d.chunk = IF st = "FINISH" THEN << >>
                   ELSE IF vld /\ st = "LOAD" THEN Append(c.chunk, dat)
                   ELSE c.chunk
      /\ d.H8 = IF st = "FINISH" THEN c.H8 \o c.chunk ELSE c.H8
  BY DEF CoreStep
<1> SUFFICES /\ CoreInv(d)
             /\ Taken(d) = IF vld /\ ~Full(c) THEN Append(Taken(c), dat)
                           ELSE Taken(c)
             /\ ~vld /\ ~Full(c) => d.state = c.state /\ d.counter = c.counter
  OBVIOUS
<1> HIDE DEF d
<1>3. CASE c.state = "IDLE" /\ ~vld
  <2>1. st = "IDLE" /\ d.counter = 0
    BY <1>2, <1>3 DEF StateNext, CounterNext
  <2>2. d.chunk = c.chunk /\ d.H8 = c.H8 /\ d.irq_finish = FALSE
    BY <1>2, <1>3, <2>1
  <2> QED
    BY <1>2, <1>3, <2>1, <2>2 DEF CoreInv, Taken, Full
<1>4. CASE c.state = "IDLE" /\ vld
  <2>1. st = "LOAD" /\ d.counter = 1
    BY <1>2, <1>4 DEF StateNext, CounterNext, PipelineStart, CoreInv
  <2>2. d.chunk = Append(c.chunk, dat) /\ d.H8 = c.H8 /\ d.irq_finish = FALSE
    BY <1>2, <1>4, <2>1
  <2>3. d.chunk \in Seq(Nat) /\ Len(d.chunk) = 1
    BY <2>2, <1>4, <1>1, AppendLen DEF CoreInv
  <2>4. Taken(d) = Append(Taken(c), dat)
    BY <2>2, <1>1, AppendToConcat DEF Taken
  <2>5. CoreInv(d)
    <3>1. d.counter = Len(d.chunk) /\ d.counter \in 1..LoadWords
      BY <1>0, <2>1, <2>3
    <3> QED
      BY <1>1, <1>2, <2>1, <2>2, <2>3, <3>1 DEF CoreInv, FsmStates
  <2> QED
    BY <1>4, <2>4, <2>5 DEF Full
<1>5. CASE c.state = "LOAD" /\ c.counter = LoadWords
  <2>1. st = "PROC"
    BY <1>2, <1>5 DEF StateNext
  <2>2. d.chunk = c.chunk /\ d.H8 = c.H8 /\ d.irq_finish = FALSE
    BY <1>2, <1>5, <2>1
  <2> QED
    BY <1>1, <1>2, <1>5, <2>1, <2>2 DEF CoreInv, Taken, Full, FsmStates
<1>6. CASE c.state = "LOAD" /\ c.counter # LoadWords /\ ~vld
  <2>1. st = "LOAD" /\ d.counter = c.counter
    BY <1>2, <1>6 DEF StateNext, CounterNext, PipelineStart
  <2>2. d.chunk = c.chunk /\ d.H8 = c.H8 /\ d.irq_finish = FALSE
    BY <1>2, <1>6, <2>1
  <2> QED
    BY <1>1, <1>2, <1>6, <2>1, <2>2 DEF CoreInv, Taken, Full, FsmStates
<1>7. CASE c.state = "LOAD" /\ c.counter # LoadWords /\ vld
  <2>1. st = "LOAD" /\ d.counter = c.counter + 1
    <3>1. c.counter \in 1..LoadWords /\ c.counter < LoadWords
      BY <1>7, <1>0 DEF CoreInv
    <3>2. (c.counter + 1) % 256 = c.counter + 1
      BY <3>1, <1>0
    <3> QED
      BY <1>2, <1>7, <3>2 DEF StateNext, CounterNext, PipelineStart
  <2>2. d.chunk = Append(c.chunk, dat) /\ d.H8 = c.H8 /\ d.irq_finish = FALSE
    BY <1>2, <1>7, <2>1
  <2>3. d.chunk \in Seq(Nat) /\ Len(d.chunk) = Len(c.chunk) + 1
    BY <2>2, <1>1, AppendLen
  <2>4. Taken(d) = Append(Taken(c), dat)
    BY <2>2, <1>1, AppendToConcat DEF Taken
  <2>5. CoreInv(d)
    <3>1. d.counter = Len(d.chunk) /\ d.counter \in 1..LoadWords
      BY <1>0, <1>7, <2>1, <2>3 DEF CoreInv
    <3> QED
      BY <1>1, <1>2, <2>1, <2>2, <2>3, <3>1 DEF CoreInv, FsmStates
  <2> QED
    BY <1>7, <2>4, <2>5 DEF Full
<1>8. CASE c.state = "PROC" /\ c.counter # Rounds
  <2>1. st = "PROC"
    BY <1>2, <1>8 DEF StateNext
  <2>2. d.chunk = c.chunk /\ d.H8 = c.H8 /\ d.irq_finish = FALSE
    BY <1>2, <1>8, <2>1
  <2> QED
    BY <1>1, <1>2, <1>8, <2>1, <2>2 DEF CoreInv, Taken, Full, FsmStates
<1>9. CASE c.state = "PROC" /\ c.counter = Rounds
  <2>1. st = "FINISH"
    BY <1>2, <1>9 DEF StateNext
  <2>2. d.chunk = << >> /\ d.H8 = c.H8 \o c.chunk /\ d.irq_finish = FALSE
    BY <1>2, <1>9, <2>1
  <2>3. d.H8 \in Seq(Nat) /\ Len(d.H8) = Len(c.H8) + LoadWords
    <3>1. Len(c.chunk) = LoadWords
      BY <1>9 DEF CoreInv
    <3> QED
      BY <2>2, <1>1, <3>1, ConcatLen
  <2>4. Len(d.H8) % LoadWords = 0
    BY <2>3, <1>0, <1>1, NextMultiple DEF CoreInv
  <2>5. Taken(d) = Taken(c)
    BY <2>2, <2>3, ConcatEmptyNat DEF Taken
  <2>6. << >> \in Seq(Nat)
    OBVIOUS
  <2> QED
    BY <1>1, <1>2, <1>9, <2>1, <2>2, <2>3, <2>4, <2>5, <2>6
    DEF CoreInv, Full, FsmStates
<1>10. CASE c.state = "FINISH"
  <2>1. st = "IDLE" /\ d.counter = 0
    BY <1>2, <1>10 DEF StateNext, CounterNext
  <2>2. d.chunk = c.chunk /\ d.H8 = c.H8 /\ d.irq_finish = TRUE
    BY <1>2, <1>10, <2>1
  <2> QED
    BY <1>1, <1>2, <1>10, <2>1, <2>2 DEF CoreInv, Taken, Full, FsmStates
<1> QED
  BY <1>1, <1>3, <1>4, <1>5, <1>6, <1>7, <1>8, <1>9, <1>10 DEF FsmStates

(* How full the core is: a block is loaded word by word, and once it is    *)
(* full the core stays full until it is idle again.                        *)
LEMMA CoreStepSize ==
  ASSUME NEW c, NEW vld \in BOOLEAN, NEW dat \in Nat, CoreInv(c)
  PROVE  LET d == CoreStep(c, vld, dat)
         IN  /\ ~Full(c) /\ vld => /\ d.state = "LOAD"
                                   /\ Len(d.chunk) = Len(c.chunk) + 1
             /\ ~Full(c) /\ ~vld => d.state = c.state /\ d.chunk = c.chunk
             /\ Full(c) => Full(d) \/ d.state = "IDLE"
             /\ d.irq_finish = (c.state = "FINISH")
<1> DEFINE st == StateNext(c.state, c.counter, vld)
           d == CoreStep(c, vld, dat)
<1>1. /\ c.state \in FsmStates /\ c.chunk \in Seq(Nat)
      /\ d.state = st /\ d.irq_finish = (c.state = "FINISH")
      /\ d.chunk = IF st = "FINISH" THEN << >>
                   ELSE IF vld /\ st = "LOAD" THEN Append(c.chunk, dat)
                   ELSE c.chunk
  BY DEF CoreStep, CoreInv
<1> HIDE DEF d
<1>2. ~Full(c) /\ vld => st = "LOAD"
  BY <1>1 DEF Full, FsmStates, StateNext
<1>3. ~Full(c) /\ ~vld => st = c.state /\ st # "FINISH"
  BY <1>1 DEF Full, FsmStates, StateNext
<1>4. Full(c) => st \in {"PROC", "FINISH", "IDLE"}
  BY <1>1 DEF Full, FsmStates, StateNext
<1> HIDE DEF st
<1>5. ~Full(c) /\ vld => d.state = "LOAD" /\ Len(d.chunk) = Len(c.chunk) + 1
  BY <1>1, <1>2, AppendLen
<1>6. ~Full(c) /\ ~vld => d.state = c.state /\ d.chunk = c.chunk
  BY <1>1, <1>3
<1>7. Full(c) => Full(d) \/ d.state = "IDLE"
  BY <1>1, <1>4 DEF Full
<1> QED
  BY <1>1, <1>5, <1>6, <1>7 DEF d

(* hash_busy_o is high exactly while the core is full. *)
LEMMA BusyMeansFull ==
  ASSUME NEW c, NEW vld \in BOOLEAN, CoreInv(c)
  PROVE  CoreBusy(c, vld) <=> Full(c)
  BY FsmAssumption DEF CoreInv, CoreBusy, Busy, StateNext, Full, FsmStates

LEMMA SmallMod ==
  ASSUME NEW n \in Nat, NEW a \in Nat, a < n PROVE a % n = a
  BY Z3

LEMMA SecondBlock ==
  ASSUME NEW n \in Nat \ {0}, NEW k \in 0..(n - 1) PROVE (n + k) % n = k
  BY Z3

LEMMA MessageAppend ==
  ASSUME NEW n \in Nat
  PROVE  Append(Message(n), n + 1) = Message(n + 1)
  BY DEF Message

LEMMA MessagePrefix ==
  ASSUME NEW s \in Seq(Nat), NEW t \in Seq(Nat), NEW n \in Nat,
         s \o t = Message(n)
  PROVE  s = Message(Len(s)) /\ n = Len(s) + Len(t)
<1>1. Message(n) \in Seq(Nat) /\ Len(Message(n)) = n
  BY DEF Message
<1>2. n = Len(s) + Len(t)
  BY <1>1, ConcatProperties
<1>3. \A i \in 1..Len(s) : s[i] = i
  <2>1. \A i \in 1..Len(s) : s[i] = (s \o t)[i]
    OBVIOUS
  <2>2. \A i \in 1..n : Message(n)[i] = i
    BY DEF Message
  <2> QED
    BY <1>2, <2>1, <2>2
<1> QED
  BY <1>2, <1>3 DEF Message

LEMMA WholeBlocks ==
  ASSUME NEW a \in Nat, NEW b \in Nat, a % LoadWords = 0, b < LoadWords,
         LoadWords \in Nat \ {0}
  PROVE  a = Blocks(a + b)
<1>1. PICK q \in Nat : a = LoadWords * q
  BY Z3
<1>2. (LoadWords * q + b) \div LoadWords = q
  BY Z3
<1> QED
  BY <1>1, <1>2 DEF Blocks

LEMMA Single ==
  ASSUME NEW b
  PROVE  /\ <<b>> # << >> /\ Head(<<b>>) = b /\ Tail(<<b>>) = << >>
         /\ Len(<<b>>) = 1 /\ << >> \o <<b>> = <<b>> /\ <<b>> \o << >> = <<b>>
         /\ Append(<< >>, b) = <<b>>
<1>1. << >> \in Seq({b}) /\ <<b>> \in Seq({b})
  OBVIOUS
<1> QED
  BY <1>1

LEMMA Empty == << >> \o << >> = << >> /\ Len(<< >>) = 0
  OBVIOUS

LEMMA SoundBursts ==
  \A b \in ControlBursts \cup DataBursts \cup ReadBursts : Sound(b)
<1>1. LoadWords \in Nat /\ LoadWords > 1
  BY FsmAssumption, FullAssumption
<1>2. /\ LoadWords \div 2 \in Nat /\ LoadWords \div 2 > 0
      /\ LoadWords \div 2 < LoadWords
  BY <1>1
<1> HIDE DEF Sound
<1>3. \A b \in ControlBursts : Sound(b)
  BY <1>1 DEF ControlBursts, Burst, Sound, AddrWords
<1>4. \A b \in DataBursts : Sound(b)
  BY <1>1, <1>2 DEF DataBursts, Burst, Sound, AddrWords
<1>5. /\ LoadWords \div 4 \in Nat /\ LoadWords \div 4 < LoadWords \div 2
      /\ (LoadWords \div 2) + (LoadWords \div 2) <= LoadWords
  BY <1>1
<1>6. \A b \in ReadBursts : Sound(b)
  BY <1>1, <1>2, <1>5 DEF ReadBursts, Read, Sound, AddrWords
<1> QED
  BY <1>3, <1>4, <1>6

LEMMA Division ==
  ASSUME NEW n \in Nat \ {0}, NEW x \in Nat
  PROVE  /\ x \div n \in Nat /\ n * (x \div n) \in Nat
         /\ x % n \in 0..(n - 1) /\ x = n * (x \div n) + (x % n)
<1>1. x % n \in 0..(n - 1)
  BY Z3
<1>2. x \div n \in Nat
  BY Z3
<1>3. n * (x \div n) \in Nat
  BY <1>2, Z3
<1>4. x = n * (x \div n) + (x % n)
  BY Z3
<1> QED
  BY <1>1, <1>2, <1>3, <1>4

(* A wrapping burst stays in its block. *)
LEMMA WrapStep ==
  ASSUME NEW n \in Nat \ {0}, NEW x \in Nat
  PROVE  /\ x % n = n - 1 => (x + 1) % n = 0
         /\ x % n # n - 1 => (x + 1) % n = (x % n) + 1
         /\ x % n \in 0..(n - 1)
<1> DEFINE q == x \div n
           p == n * q
           k == x % n
<1>1. q \in Nat /\ p \in Nat /\ k \in 0..(n - 1) /\ x = p + k
  BY Division
<1>2. \A r \in 0..(n - 1) : (n * q + r) % n = r
  BY <1>1, Z3
<1>3. (n * q + n) % n = 0
  <2>1. n * q + n = n * (q + 1) /\ q + 1 \in Nat
    BY <1>1, Z3
  <2> QED
    BY <2>1, MultipleMod
<1>4. (p + n) % n = 0 /\ \A r \in 0..(n - 1) : (p + r) % n = r
  BY <1>2, <1>3
<1> HIDE DEF p, k, q
<1>5. k = n - 1 => x + 1 = p + n
  BY <1>1
<1>6. k # n - 1 => x + 1 = p + (k + 1) /\ k + 1 \in 0..(n - 1)
  BY <1>1
<1>7. (k = n - 1 => (x + 1) % n = 0) /\ (k # n - 1 => (x + 1) % n = k + 1)
  BY <1>4, <1>5, <1>6
<1> QED
  BY <1>1, <1>7 DEF k

LEMMA WrapAddr ==
  ASSUME NEW b, Sound(b), b.burst = "WRAP", NEW i \in Nat, NEW n, n = b.len + 1
  PROVE  BeatAddr(b, i) = n + ((b.addr + i) % n)
<1>1. n \in Nat \ {0} /\ b.addr \in n..(2 * n - 1)
  BY FsmAssumption DEF Sound
<1>2. b.addr \div n = 1
  BY <1>1, Z3
<1>3. BeatAddr(b, i) = (n * (b.addr \div n)) + ((b.addr + i) % n)
  BY b.burst = "WRAP" DEF BeatAddr
<1> QED
  BY <1>1, <1>2, <1>3

(* The address generator takes a burst from beat to beat. *)
LEMMA BeatStep ==
  ASSUME NEW b, Sound(b), NEW r, NEW i, AtBeat(r, b, i), i # b.len
  PROVE  AtBeat(Advance(r), b, i + 1)
<1>1. /\ LoadWords \in Nat \ {0} /\ LoadWords < 254 /\ b.len \in 0..LoadWords
      /\ b.addr \in Nat /\ i \in 0..b.len
  BY FsmAssumption DEF Sound, AtBeat
<1>2. (i + 1) % 256 = i + 1 /\ i + 1 \in 0..b.len
  BY <1>1
<1>3. NextAddr(r) = BeatAddr(b, i + 1)
  <2>1. r.addr = BeatAddr(b, i) /\ r.burst = b.burst /\ r.len = b.len
    BY DEF AtBeat
  <2>2. CASE b.burst = "FIXED"
    BY <2>1, <2>2 DEF NextAddr, BeatAddr
  <2>3. CASE b.burst = "INCR"
    <3>1. /\ b.addr + i + 1 \in Nat /\ AddrWords \in Nat
          /\ b.addr + i + 1 < AddrWords
      BY <1>1, <1>2, <2>3 DEF Sound, AddrWords
    <3>2. (b.addr + i) % AddrWords = b.addr + i
      BY <1>1, <3>1, SmallMod
    <3>3. (b.addr + i + 1) % AddrWords = b.addr + i + 1
      BY <3>1, SmallMod
    <3>4. b.addr + (i + 1) = b.addr + i + 1
      BY <1>1
    <3> QED
      BY <2>1, <2>3, <3>2, <3>3, <3>4 DEF NextAddr, BeatAddr
  <2>4. CASE b.burst = "WRAP"
    <3> DEFINE x == b.addr + i
               n == b.len + 1
    <3>0. /\ n \in Nat \ {0} /\ 2 * n <= AddrWords /\ AddrWords \in Nat
          /\ n = b.len + 1
      BY <3>0, <1>1, <2>4 DEF Sound, AddrWords
    <3>1. r.addr = n + (x % n)
      BY <3>0, <1>1, <2>1, <2>4, WrapAddr
    <3>2. BeatAddr(b, i + 1) = n + ((x + 1) % n)
      <4>1. b.addr + (i + 1) = x + 1
        BY <1>1
      <4> QED
        BY <3>0, <1>1, <2>4, <4>1, WrapAddr
    <3>3. x \in Nat /\ r.len + 1 = n
      BY <3>0, <1>1, <2>1, <2>4 DEF Sound
    <3> HIDE DEF x, n
    <3>4. x % n \in 0..(n - 1)
      BY <3>0, <1>1, <3>3, WrapStep
    <3>5. r.addr % n = x % n
      <4>1. \A k \in 0..(n - 1) : (n + k) % n = k
        BY <3>0, SecondBlock
      <4> QED
        BY <3>1, <3>4, <4>1
    <3>6. wrap_en(r) <=> x % n = n - 1
      BY <3>0, <1>1, <3>3, <3>5, <2>1, <2>4 DEF wrap_en, Sound
    <3>7. CASE wrap_en(r)
      <4>1. NextAddr(r) = r.addr - r.len
        BY <2>1, <2>4, <3>7 DEF NextAddr
      <4>2. (x + 1) % n = 0 /\ x % n = n - 1
        BY <3>0, <1>1, <3>3, <3>6, <3>7, WrapStep
      <4>3. r.len = n - 1
        BY <3>0, <1>1, <2>1, <3>3
      <4> QED
        BY <3>0, <1>1, <3>1, <3>2, <4>1, <4>2, <4>3
    <3>8. CASE ~wrap_en(r)
      <4>1. NextAddr(r) = (r.addr + 1) % AddrWords
        BY <2>1, <2>4, <3>8 DEF NextAddr
      <4>2. (x + 1) % n = (x % n) + 1
        BY <3>0, <1>1, <3>3, <3>6, <3>8, WrapStep
      <4>3. (r.addr + 1) % AddrWords = r.addr + 1
        <5>1. r.addr + 1 \in Nat /\ r.addr + 1 < AddrWords
          BY <3>0, <3>1, <3>4, <3>6, <3>8
        <5> QED
          BY <3>0, <5>1, SmallMod
      <4> QED
        BY <3>0, <1>1, <3>1, <3>2, <3>4, <4>1, <4>2, <4>3
    <3> QED
      BY <3>7, <3>8
  <2> QED
    BY <2>2, <2>3, <2>4 DEF Sound
<1> DEFINE a == NextAddr(r)
           f == BeatAddr(b, i)
<1> HIDE DEF a, f
<1>4. r = [addr |-> f, burst |-> b.burst, len |-> b.len, cntr |-> i]
  BY DEF AtBeat, f
<1>5. Advance(r) = [r EXCEPT !.addr = a, !.cntr = (r.cntr + 1) % 256]
  BY DEF Advance, a
<1>6. Advance(r) = [addr |-> a, burst |-> b.burst, len |-> b.len,
                    cntr |-> (i + 1) % 256]
  BY <1>4, <1>5
<1> QED
  BY <1>2, <1>3, <1>6 DEF AtBeat, a

LEMMA FirstBeat ==
  ASSUME NEW b, Sound(b)
  PROVE  AtBeat(Latch(b), b, 0)
<1>1. /\ LoadWords \in Nat \ {0} /\ b.len \in 0..LoadWords /\ b.addr \in Nat
  BY FsmAssumption DEF Sound
<1>2. BeatAddr(b, 0) = b.addr
  <2>2. CASE b.burst = "FIXED"
    BY <2>2 DEF BeatAddr
  <2>3. CASE b.burst = "INCR"
    <3>1. (b.addr + 0) % AddrWords = b.addr
      BY <1>1, <2>3 DEF Sound, AddrWords
    <3> QED
      BY <2>3, <3>1 DEF BeatAddr
  <2>4. CASE b.burst = "WRAP"
    <3> DEFINE n == b.len + 1
    <3>1. n \in Nat \ {0} /\ b.addr \in n..(2 * n - 1) /\ n = b.len + 1
      BY <1>1, <2>4 DEF Sound
    <3> HIDE DEF n
    <3>2. b.addr % n = b.addr - n
      <4>1. \A k \in 0..(n - 1) : (n + k) % n = k
        BY <3>1, SecondBlock
      <4>2. b.addr - n \in 0..(n - 1) /\ n + (b.addr - n) = b.addr
        BY <3>1
      <4> QED
        BY <4>1, <4>2
    <3>3. BeatAddr(b, 0) = n + ((b.addr + 0) % n)
      BY <2>4, <3>1, WrapAddr
    <3> QED
      BY <1>1, <3>1, <3>2, <3>3
  <2> QED
    BY <2>2, <2>3, <2>4 DEF Sound
<1> QED
  BY <1>1, <1>2 DEF AtBeat, Latch
-----------------------------------------------------------------------------
(* The write channels.                                                     *)

(* The slave is offered an address it has not accepted. *)
Offered == ~axi_awready /\ awvalid /\ ~axi_awv_awr_flag

(* The slave's write channels at an edge, in terms of the handshakes. *)
WriteEdge(bready) ==
  /\ axi_awready' = IF Offered /\ ~axi_arv_arr_flag THEN TRUE
                    ELSE w_done /\ axi_awready
  /\ axi_awv_awr_flag' = ((Offered /\ ~axi_arv_arr_flag)
                          \/ (axi_awv_awr_flag /\ ~w_done))
  /\ Offered /\ aws # << >> => aw' = Latch(Head(aws))
  /\ ~Offered => aw' = IF aw.cntr <= aw.len /\ w_handshake
                       THEN Advance(aw) ELSE aw
  /\ axi_wready' = IF ~axi_wready /\ wvalid /\ axi_awv_awr_flag THEN TRUE
                   ELSE axi_wready /\ ~(wvalid /\ wbeat = Head(ws).len)
  /\ axi_bvalid' = IF axi_awv_awr_flag /\ w_done /\ ~axi_bvalid THEN TRUE
                   ELSE axi_bvalid /\ ~bready

LEMMA SlaveWrites ==
  ASSUME NEW bready, NEW rready, Tick(bready, rready)
  PROVE  WriteEdge(bready)
<1> DEFINE m == Inputs(bready, rready)
<1>1. /\ m.awvalid = awvalid /\ m.wvalid = wvalid /\ m.bready = bready
      /\ m.wlast = (wvalid /\ wbeat = Head(ws).len)
      /\ aws # << >> => m.aw = Head(aws)
  BY DEF Inputs
<1>2. /\ WriteAddress(m, hash_busy_o) /\ WriteData(m)
      /\ WriteResponse(m, hash_busy_o)
  BY DEF Tick, SlaveStep
<1> HIDE DEF m
<1>3. accept_write(m) <=> Offered /\ ~axi_arv_arr_flag
  BY <1>1 DEF accept_write, Offered
<1>4. reg_write_en(m, hash_busy_o) <=> w_handshake
  BY <1>1 DEF reg_write_en, w_handshake
<1>5. m.wlast /\ S_AXI_WREADY(hash_busy_o) <=> w_done
  BY <1>1 DEF w_done, w_handshake
<1>6. axi_awready' = IF accept_write(m) THEN TRUE
                     ELSE (m.wlast /\ S_AXI_WREADY(hash_busy_o)) /\ axi_awready
  BY <1>2, Zenon DEF WriteAddress
<1>7. axi_awv_awr_flag' =
        (accept_write(m) \/ (axi_awv_awr_flag
                             /\ ~(m.wlast /\ S_AXI_WREADY(hash_busy_o))))
  BY <1>2, Zenon DEF WriteAddress
<1>8. aw' = IF ~axi_awready /\ m.awvalid /\ ~axi_awv_awr_flag THEN Latch(m.aw)
            ELSE IF aw.cntr <= aw.len /\ reg_write_en(m, hash_busy_o)
            THEN Advance(aw) ELSE aw
  BY <1>2, Zenon DEF WriteAddress
<1>9. axi_awready' = IF Offered /\ ~axi_arv_arr_flag THEN TRUE
                     ELSE w_done /\ axi_awready
  BY <1>3, <1>5, <1>6, Zenon
<1>10. axi_awv_awr_flag' = ((Offered /\ ~axi_arv_arr_flag)
                            \/ (axi_awv_awr_flag /\ ~w_done))
  BY <1>3, <1>5, <1>7, Zenon
<1>11. Offered /\ aws # << >> => aw' = Latch(Head(aws))
  BY <1>1, <1>8, Zenon DEF Offered
<1>12. ~Offered => aw' = IF aw.cntr <= aw.len /\ w_handshake
                         THEN Advance(aw) ELSE aw
  BY <1>1, <1>4, <1>8, Zenon DEF Offered
<1>13. axi_wready' = IF ~axi_wready /\ wvalid /\ axi_awv_awr_flag THEN TRUE
                     ELSE axi_wready /\ ~(wvalid /\ wbeat = Head(ws).len)
  BY <1>1, <1>2, Zenon DEF WriteData
<1>14. axi_bvalid' = IF axi_awv_awr_flag /\ w_done /\ ~axi_bvalid THEN TRUE
                     ELSE axi_bvalid /\ ~bready
  <2>1. (/\ axi_awv_awr_flag /\ reg_write_en(m, hash_busy_o)
         /\ ~axi_bvalid /\ m.wlast)
        <=> (axi_awv_awr_flag /\ w_done /\ ~axi_bvalid)
    BY <1>1, <1>4, Zenon DEF w_done, w_handshake
  <2> QED
    BY <1>1, <1>2, <2>1, Zenon DEF WriteResponse
<1> QED
  BY <1>9, <1>10, <1>11, <1>12, <1>13, <1>14, Zenon DEF WriteEdge

(* A burst is started only when none is under way or unanswered. *)
LEMMA MasterWrites ==
  ASSUME MaxWrites = 1, NEW bready, NEW rready, Tick(bready, rready)
  PROVE  /\ resps' = resps + (IF w_done THEN 1 ELSE 0)
                           - (IF axi_bvalid /\ bready THEN 1 ELSE 0)
         /\ \/ /\ WriteChannels(<< >>)
               /\ StartRead(rready) \/ StartNothing(rready)
            \/ /\ Len(ws) + resps # 1 /\ NoNewRead /\ ~fresh' /\ ~announced'
               /\ \E b \in Bursts : WriteChannels(<<b>>)
  BY DEF Tick, ResponseChannel, StartWrite, StartRead, StartNothing, NewWrites,
    Bursts

LEMMA WriteIdleStep ==
  ASSUME MaxWrites = 1, WriteBus, WriteIdle, NEW bready \in BReady, NEW rready,
         Tick(bready, rready)
  PROVE  /\ WriteBus' /\ ~w_handshake
         /\ resps = 0 => resps' = 0
         /\ WriteChannels(<< >>) => ws' = << >>
<1>1. ~Offered /\ ~w_handshake /\ ~w_done /\ ~aw_handshake
  BY DEF WriteIdle, Offered, w_handshake, w_done, aw_handshake
<1>2. /\ axi_awready' = FALSE /\ axi_awv_awr_flag' = FALSE
      /\ axi_wready' = FALSE
      /\ axi_bvalid' = (axi_bvalid /\ ~bready)
  <2>1. WriteEdge(bready)
    BY SlaveWrites
  <2>2. axi_awready' = FALSE /\ axi_awv_awr_flag' = FALSE
    BY <1>1, <2>1, Zenon DEF WriteIdle, WriteEdge
  <2>3. axi_wready' = FALSE
    BY <2>1, Zenon DEF WriteIdle, WriteEdge
  <2>4. axi_bvalid' = (axi_bvalid /\ ~bready)
    BY <1>1, <2>1, Zenon DEF WriteEdge
  <2> QED
    BY <2>2, <2>3, <2>4
<1>3. resps' = resps - (IF axi_bvalid /\ bready THEN 1 ELSE 0)
  <2>1. resps \in {0, 1}
    BY DEF WriteIdle
  <2> QED
    BY <1>1, <2>1, MasterWrites
<1>4. bready \in BOOLEAN /\ axi_bvalid \in BOOLEAN /\ axi_bvalid' \in BOOLEAN
  BY <1>2, Zenon DEF BReady, WriteBus
<1>5. \/ resps' = 0 /\ ~axi_bvalid'
      \/ resps' = 1 /\ axi_bvalid'
  <2>1. CASE resps = 0 /\ ~axi_bvalid
    <3>1. resps' = 0 - 0
      BY <1>3, <2>1
    <3>2. resps' = 0
      BY <3>1
    <3> QED
      BY <1>2, <2>1, <3>2, Zenon
  <2>2. CASE resps = 1 /\ axi_bvalid /\ bready
    <3>1. resps' = 1 - 1
      BY <1>3, <2>2
    <3>2. resps' = 0
      BY <3>1
    <3> QED
      BY <1>2, <2>2, <3>2, Zenon
  <2>3. CASE resps = 1 /\ axi_bvalid /\ ~bready
    <3>1. resps' = 1 - 0
      BY <1>3, <2>3
    <3>2. resps' = 1
      BY <3>1
    <3> QED
      BY <1>2, <2>3, <3>2, Zenon
  <2> QED
    BY <1>4, <2>1, <2>2, <2>3, Zenon DEF WriteIdle
<1>6. resps = 0 => resps' = 0
  <2>1. resps = 0 => ~axi_bvalid
    BY 0 # 1, Zenon DEF WriteIdle
  <2>2. resps = 0 => resps' = 0 - 0
    BY <1>3, <2>1
  <2> QED
    BY <2>2
<1>7. ASSUME NEW new, WriteChannels(new)
      PROVE  /\ aws' = << >> \o new /\ ws' = << >> \o new /\ wbeat' = 0
             /\ awvalid' \in BOOLEAN /\ wvalid' \in BOOLEAN
             /\ awvalid' => aws' # << >>
             /\ wvalid' => ws' # << >>
  BY <1>1, <1>7, Zenon DEF WriteChannels, WriteIdle
<1>8. CASE WriteChannels(<< >>)
  <2>1. aws' = << >> /\ ws' = << >> /\ ~awvalid' /\ ~wvalid'
    BY <1>7, <1>8, Empty
  <2> QED
    BY <1>1, <1>2, <1>4, <1>5, <1>6, <1>7, <1>8, <2>1, Zenon
    DEF WriteBus, WriteIdle
<1>9. ASSUME NEW b \in Bursts, WriteChannels(<<b>>), Len(ws) + resps # 1
      PROVE  /\ WriteBus' /\ ~w_handshake
             /\ resps = 0 => resps' = 0
             /\ ws' # << >>
  <2>1. aws' = <<b>> /\ ws' = <<b>> /\ <<b>> # << >>
    BY <1>7, <1>9, Single
  <2>2. resps = 0 /\ ~axi_bvalid
    BY <1>9, Empty DEF WriteIdle
  <2>3. resps' = 0 /\ ~axi_bvalid'
    BY <1>2, <1>6, <2>2
  <2>4. AddressDue(b)'
    BY <1>2, <1>7, <1>9, <2>1, <2>3, Zenon DEF AddressDue
  <2> QED
    BY <1>1, <1>2, <1>4, <1>6, <1>7, <1>9, <2>1, <2>4, Zenon DEF WriteBus
<1>10. CASE ws' # << >>
  <2>1. \E b \in Bursts : WriteChannels(<<b>>) /\ Len(ws) + resps # 1
    BY <1>8, <1>10, <1>7, Empty, MasterWrites
  <2> QED
    BY <1>9, <1>10, <1>7, <2>1, Empty
<1>11. CASE ws' = << >>
  <2>1. WriteChannels(<< >>)
    BY <1>9, <1>11, MasterWrites
  <2> QED
    BY <1>8, <2>1, <1>1, <1>6, <1>11, Zenon
<1> QED
  BY <1>10, <1>11

LEMMA AddressDueStep ==
  ASSUME MaxWrites = 1, WriteBus, NEW b \in Bursts, AddressDue(b),
         NEW bready, NEW rready, Tick(bready, rready)
  PROVE  WriteBus' /\ ~w_handshake /\ WriteChannels(<< >>) /\ ws' # << >>
<1>1. /\ <<b>> # << >> /\ Head(<<b>>) = b /\ Tail(<<b>>) = << >>
      /\ Len(<<b>>) = 1 /\ <<b>> \o << >> = <<b>> /\ Sound(b)
  BY Single, SoundBursts DEF Bursts
<1>2. ~w_handshake /\ ~w_done /\ WriteEdge(bready)
  BY SlaveWrites DEF AddressDue, w_handshake, w_done, S_AXI_WREADY
<1>3. WriteChannels(<< >>) /\ resps' = resps
  <2>1. Len(ws) + resps = 1
    BY <1>1 DEF AddressDue
  <2>2. resps' = resps + 0 - 0
    BY <1>2, MasterWrites DEF AddressDue
  <2>3. resps' = resps
    BY <2>2 DEF AddressDue
  <2> QED
    BY <2>1, <2>3, MasterWrites, Zenon
<1>4. ws' = <<b>> /\ wbeat' = 0
  BY <1>1, <1>2, <1>3 DEF WriteChannels, AddressDue
<1>5. /\ awvalid' \in BOOLEAN /\ wvalid' \in BOOLEAN
      /\ awvalid' => aws' # << >>
      /\ awvalid /\ ~aw_handshake => awvalid'
  BY <1>3, Zenon DEF WriteChannels
<1>6. /\ resps' = 0 /\ ~axi_bvalid' /\ axi_bvalid' \in BOOLEAN
  <2>1. axi_bvalid' = FALSE
    BY <1>2, Zenon DEF WriteEdge, AddressDue
  <2> QED
    BY <1>3, <2>1, Zenon DEF AddressDue
<1>7. CASE ~axi_awready /\ ~axi_awv_awr_flag
  <2>1. ~aw_handshake
    BY <1>7 DEF aw_handshake
  <2>2. aws' = <<b>>
    BY <1>1, <1>3, <2>1 DEF WriteChannels, AddressDue
  <2>3. axi_wready' = FALSE
    BY <1>2, <1>7, Zenon DEF WriteEdge, AddressDue
  <2>4. CASE awvalid /\ ~axi_arv_arr_flag
    <3>1. Offered
      BY <1>7, <2>4 DEF Offered
    <3>2. axi_awready' = TRUE /\ axi_awv_awr_flag' = TRUE
      BY <1>2, <2>4, <3>1, Zenon DEF WriteEdge
    <3>3. aw' = Latch(b)
      BY <1>1, <1>2, <3>1, Zenon DEF WriteEdge, AddressDue
    <3>4. AtBeat(aw', b, 0)
      BY <1>1, <3>3, FirstBeat
    <3>5. awvalid'
      BY <1>5, <2>1, <2>4
    <3>6. AddressDue(b)'
      BY <1>4, <1>6, <2>2, <2>3, <3>2, <3>4, <3>5, Zenon DEF AddressDue, AtBeat
    <3> QED
      BY <1>1, <1>2, <1>3, <1>4, <1>5, <1>6, <2>3, <3>2, <3>6,
        Zenon DEF WriteBus
  <2>5. CASE ~(awvalid /\ ~axi_arv_arr_flag)
    <3>1. axi_awready' = FALSE /\ axi_awv_awr_flag' = FALSE
      BY <1>2, <1>7, <2>5, Zenon DEF WriteEdge, Offered
    <3>2. AddressDue(b)'
      BY <1>4, <1>6, <2>2, <2>3, <3>1, Zenon DEF AddressDue
    <3> QED
      BY <1>1, <1>2, <1>3, <1>4, <1>5, <1>6, <2>3, <3>1, <3>2,
        Zenon DEF WriteBus
  <2> QED
    BY <2>4, <2>5
<1>8. CASE axi_awready /\ axi_awv_awr_flag /\ awvalid /\ AtBeat(aw, b, 0)
  <2>1. aw_handshake /\ ~Offered
    BY <1>8 DEF aw_handshake, Offered
  <2>2. aws' = << >>
    BY <1>1, <1>3, <2>1, Empty DEF WriteChannels, AddressDue
  <2>3. axi_awready' = FALSE /\ axi_awv_awr_flag' = TRUE
    BY <1>2, <1>8, <2>1, Zenon DEF WriteEdge
  <2>4. axi_wready' \in BOOLEAN
    BY <1>2, Zenon DEF WriteEdge
  <2>5. aw' = aw
    BY <1>2, <2>1, Zenon DEF WriteEdge
  <2>6. AtBeat(aw', b, wbeat')
    BY <1>4, <1>8, <2>5
  <2>7. DataDue(b)'
    BY <1>4, <1>5, <1>6, <2>2, <2>3, <2>6, Zenon DEF DataDue, AtBeat
  <2> QED
    BY <1>1, <1>2, <1>3, <1>4, <1>5, <1>6, <2>3, <2>4, <2>7, Zenon DEF WriteBus
<1> QED
  BY <1>7, <1>8 DEF AddressDue

(* A beat is taken only in the data phase; the last one is answered.       *)
LEMMA DataDueStep ==
  ASSUME MaxWrites = 1, WriteBus, NEW b \in Bursts, DataDue(b),
         NEW bready, NEW rready, Tick(bready, rready)
  PROVE  /\ WriteBus' /\ WriteChannels(<< >>)
         /\ w_done => resps' = 1 /\ ~axi_wready'
         /\ ~w_done => ws' # << >>
<1>1. /\ <<b>> # << >> /\ Head(<<b>>) = b /\ Tail(<<b>>) = << >>
      /\ Len(<<b>>) = 1 /\ <<b>> \o << >> = <<b>> /\ Sound(b)
  BY Single, SoundBursts DEF Bursts
<1>2. ~aw_handshake /\ ~Offered /\ WriteEdge(bready)
  BY SlaveWrites DEF DataDue, aw_handshake, Offered
<1>3. WriteChannels(<< >>)
  <2>1. Len(ws) + resps = 1
    BY <1>1 DEF DataDue
  <2> QED
    BY <2>1, MasterWrites, Zenon
<1>4. /\ awvalid' \in BOOLEAN /\ wvalid' \in BOOLEAN
      /\ awvalid' => aws' # << >>
      /\ wvalid' => ws' # << >>
  BY <1>3, Zenon DEF WriteChannels
<1>5. aws' = << >>
  BY <1>2, <1>3, Empty DEF WriteChannels, DataDue
<1>6. axi_awready' = FALSE /\ axi_wready' \in BOOLEAN
  BY <1>2, Zenon DEF WriteEdge, DataDue
<1>7. CASE w_done
  <2>1. ws' = << >> /\ wbeat' = 0
    BY <1>1, <1>3, <1>7, Empty DEF WriteChannels, DataDue
  <2>2. axi_bvalid' = TRUE /\ axi_awv_awr_flag' = FALSE
    BY <1>2, <1>7, Zenon DEF WriteEdge, DataDue
  <2>3. axi_wready' = FALSE
    BY <1>2, <1>7, Zenon DEF WriteEdge, w_done, w_handshake, S_AXI_WREADY
  <2>4. resps' = 1
    <3>1. resps' = 0 + 1 - 0
      BY <1>7, MasterWrites DEF DataDue
    <3> QED
      BY <3>1
  <2>5. WriteIdle'
    BY <1>4, <1>5, <1>6, <2>1, <2>2, <2>3, <2>4, Zenon DEF WriteIdle
  <2> QED
    BY <1>3, <1>4, <1>6, <1>7, <2>2, <2>3, <2>4, <2>5, Zenon DEF WriteBus
<1>8. CASE ~w_done
  <2>1. ws' = <<b>>
    BY <1>1, <1>3, <1>8 DEF WriteChannels, DataDue
  <2>2. axi_bvalid' = FALSE /\ axi_awv_awr_flag' = TRUE
    BY <1>2, <1>8, Zenon DEF WriteEdge, DataDue
  <2>3. resps' = 0
    <3>1. resps' = 0 + 0 - 0
      BY <1>8, MasterWrites DEF DataDue
    <3> QED
      BY <3>1
  <2>4. AtBeat(aw', b, wbeat')
    <3>1. CASE w_handshake
      <4>1. wbeat # b.len
        BY <1>1, <1>8, <3>1 DEF w_done, DataDue
      <4>2. aw.cntr <= aw.len
        <5>1. /\ aw.cntr = wbeat /\ aw.len = b.len
              /\ wbeat \in 0..b.len /\ b.len \in Nat
          BY <1>1, FsmAssumption DEF DataDue, AtBeat, Sound
        <5> QED
          BY <5>1
      <4>3. aw' = Advance(aw) /\ wbeat' = wbeat + 1
        BY <1>2, <1>3, <1>8, <3>1, <4>2, Zenon DEF WriteEdge, WriteChannels
      <4> QED
        BY <1>1, <4>1, <4>3, BeatStep DEF DataDue
    <3>2. CASE ~w_handshake
      <4>1. aw' = aw /\ wbeat' = wbeat
        BY <1>2, <1>3, <1>8, <3>2, Zenon DEF WriteEdge, WriteChannels
      <4> QED
        BY <4>1 DEF DataDue
    <3> QED
      BY <3>1, <3>2
  <2>5. DataDue(b)'
    BY <1>4, <1>5, <1>6, <2>1, <2>2, <2>3, <2>4, Zenon DEF DataDue, AtBeat
  <2> QED
    BY <1>1, <1>3, <1>4, <1>6, <1>8, <2>1, <2>2, <2>5, Zenon DEF WriteBus
<1> QED
  BY <1>7, <1>8

-----------------------------------------------------------------------------
(* The read channels.                                                      *)

ReadOffered == ~axi_arready /\ arvalid /\ ~axi_arv_arr_flag

(* The beat on the bus is the last one, and it is taken. *)
LastTaken(rready) == r_handshake(rready) /\ ar.cntr = ar.len

ReadEdge(rready) ==
  /\ axi_arready' = IF ReadOffered /\ ~axi_awv_awr_flag THEN TRUE
                    ELSE LastTaken(rready) /\ axi_arready
  /\ axi_arv_arr_flag' = ((ReadOffered /\ ~axi_awv_awr_flag)
                          \/ (axi_arv_arr_flag /\ ~LastTaken(rready)))
  /\ ReadOffered => ar' = Latch(arreq) /\ axi_rlast' = FALSE
  /\ ~ReadOffered /\ ar.cntr <= ar.len /\ r_handshake(rready) =>
       ar' = Advance(ar) /\ axi_rlast' = FALSE
  /\ ~ReadOffered /\ ~r_handshake(rready) =>
       /\ ar' = ar
       /\ axi_rlast' = IF ar.cntr = ar.len /\ ~axi_rlast /\ axi_arv_arr_flag
                       THEN TRUE ELSE axi_rlast /\ ~rready
  /\ axi_rvalid' = IF axi_arv_arr_flag /\ ~axi_rvalid THEN TRUE
                   ELSE axi_rvalid /\ ~rready

LEMMA SlaveReads ==
  ASSUME NEW bready, NEW rready, Tick(bready, rready)
  PROVE  ReadEdge(rready)
<1> DEFINE m == Inputs(bready, rready)
<1>1. m.arvalid = arvalid /\ m.ar = arreq /\ m.rready = rready
  BY DEF Inputs
<1>2. ReadAddress(m) /\ ReadBeat(m) /\ ReadResponse(m)
  BY DEF Tick, SlaveStep
<1> HIDE DEF m
<1>3. accept_read(m) <=> ReadOffered /\ ~axi_awv_awr_flag
  BY <1>1 DEF accept_read, ReadOffered
<1>4. axi_rvalid /\ m.rready /\ ar.cntr = ar.len <=> LastTaken(rready)
  BY <1>1, Zenon DEF LastTaken, r_handshake
<1>5. axi_arready' = IF accept_read(m) THEN TRUE
                     ELSE (axi_rvalid /\ m.rready /\ ar.cntr = ar.len) /\ axi_arready
  BY <1>2, Zenon DEF ReadAddress
<1>6. axi_arv_arr_flag' =
        (accept_read(m) \/ (axi_arv_arr_flag
                            /\ ~(axi_rvalid /\ m.rready /\ ar.cntr = ar.len)))
  BY <1>2, Zenon DEF ReadAddress
<1>7. axi_arready' = IF ReadOffered /\ ~axi_awv_awr_flag THEN TRUE
                     ELSE LastTaken(rready) /\ axi_arready
  BY <1>3, <1>4, <1>5, Zenon
<1>8. axi_arv_arr_flag' = ((ReadOffered /\ ~axi_awv_awr_flag)
                           \/ (axi_arv_arr_flag /\ ~LastTaken(rready)))
  BY <1>3, <1>4, <1>6, Zenon
<1>9. ReadOffered => ar' = Latch(arreq) /\ axi_rlast' = FALSE
  BY <1>1, <1>2, Zenon DEF ReadBeat, ReadOffered
<1>10. ~ReadOffered /\ ar.cntr <= ar.len /\ r_handshake(rready) =>
         ar' = Advance(ar) /\ axi_rlast' = FALSE
  BY <1>1, <1>2, Zenon DEF ReadBeat, ReadOffered, r_handshake
<1>11. ~ReadOffered /\ ~r_handshake(rready) =>
         /\ ar' = ar
         /\ axi_rlast' = IF ar.cntr = ar.len /\ ~axi_rlast /\ axi_arv_arr_flag
                         THEN TRUE ELSE axi_rlast /\ ~rready
  BY <1>1, <1>2, Zenon DEF ReadBeat, ReadOffered, r_handshake
<1>12. axi_rvalid' = IF axi_arv_arr_flag /\ ~axi_rvalid THEN TRUE
                     ELSE axi_rvalid /\ ~rready
  BY <1>1, <1>2, Zenon DEF ReadResponse
<1> QED
  BY <1>7, <1>8, <1>9, <1>10, <1>11, <1>12, Zenon DEF ReadEdge

(* A request stays on the bus until it is accepted. *)
LEMMA MasterReads ==
  ASSUME NEW bready, NEW rready, Tick(bready, rready)
  PROVE  /\ ReadChannels(rready)
         /\ \/ NoNewRead
            \/ /\ ~arvalid \/ ar_handshake
               /\ arvalid' = TRUE /\ arreq' \in ReadBursts
  BY DEF Tick, StartWrite, StartRead, StartNothing, BeginRead

LEMMA ReadIdleStep ==
  ASSUME ReadBus, ReadIdle, NEW bready, NEW rready,
         Tick(bready, rready)
  PROVE  /\ ReadBus'
         /\ axi_rvalid' => axi_arv_arr_flag /\ ar' = ar
         /\ rq' # << >> => arvalid /\ rq' = <<arreq>>
<1>1. /\ ~r_handshake(rready) /\ ~LastTaken(rready) /\ ~r_done(rready)
      /\ ReadEdge(rready) /\ Sound(arreq)
  BY SlaveReads, SoundBursts
  DEF ReadIdle, r_handshake, LastTaken, r_done, ReadBus
<1>2. rbeat' = 0 /\ rq' = IF ar_handshake THEN Append(<< >>, arreq) ELSE << >>
  BY <1>1, MasterReads, Zenon DEF ReadChannels, ReadIdle
<1>3. arreq' \in ReadBursts /\ arvalid' \in BOOLEAN
  BY MasterReads, Zenon DEF NoNewRead, ReadBus
<1>4. CASE ~axi_arready /\ ~axi_arv_arr_flag
  <2>1. rq' = << >> /\ axi_rvalid' = FALSE
    BY <1>1, <1>2, <1>4, Zenon DEF ReadEdge, ReadIdle, ar_handshake
  <2>2. axi_rlast' = FALSE
    <3>1. CASE ReadOffered
      BY <1>1, <3>1, Zenon DEF ReadEdge
    <3>2. CASE ~ReadOffered
      BY <1>1, <1>4, <3>2, Zenon DEF ReadEdge, ReadIdle
    <3> QED
      BY <3>1, <3>2
  <2>3. CASE ReadOffered /\ ~axi_awv_awr_flag
    <3>1. axi_arready' = TRUE /\ axi_arv_arr_flag' = TRUE /\ ar' = Latch(arreq)
      BY <1>1, <2>3, Zenon DEF ReadEdge
    <3>2. arvalid' /\ arreq' = arreq
      BY <1>4, <2>3, MasterReads, Zenon
      DEF NoNewRead, ReadOffered, ar_handshake
    <3>3. AtBeat(ar', arreq', 0)
      BY <1>1, <3>1, <3>2, FirstBeat
    <3>4. ReadIdle'
      BY <1>2, <2>1, <2>2, <3>1, <3>2, <3>3, Zenon DEF ReadIdle, AtBeat
    <3> QED
      BY <1>3, <2>1, <2>2, <3>1, <3>4, Zenon DEF ReadBus
  <2>4. CASE ~(ReadOffered /\ ~axi_awv_awr_flag)
    <3>1. axi_arready' = FALSE /\ axi_arv_arr_flag' = FALSE
      BY <1>1, <1>4, <2>4, Zenon DEF ReadEdge
    <3>2. ReadIdle'
      BY <1>2, <2>1, <2>2, <3>1, Zenon DEF ReadIdle
    <3> QED
      BY <1>3, <2>1, <2>2, <3>1, <3>2, Zenon DEF ReadBus
  <2> QED
    BY <2>3, <2>4
<1>5. CASE axi_arready /\ axi_arv_arr_flag /\ arvalid /\ AtBeat(ar, arreq, 0)
  <2>1. ar_handshake /\ ~ReadOffered
    BY <1>5 DEF ar_handshake, ReadOffered
  <2>2. rq' = <<arreq>> /\ <<arreq>> # << >>
    BY <1>2, <2>1, Single
  <2>4. axi_arready' = FALSE /\ axi_arv_arr_flag' = TRUE /\ axi_rvalid' = TRUE
    BY <1>1, <1>5, <2>1, Zenon DEF ReadEdge, ReadIdle
  <2>5. ar' = ar /\ axi_rlast' = IF ar.cntr = ar.len THEN TRUE ELSE FALSE
    BY <1>1, <1>5, <2>1, Zenon DEF ReadEdge, ReadIdle
  <2>6. ar.cntr = 0 /\ ar.len = arreq.len
    BY <1>5 DEF AtBeat
  <2>7. axi_rlast' = (axi_rvalid' /\ rbeat' = arreq.len)
    BY <1>2, <2>4, <2>5, <2>6, Zenon
  <2>8. AtBeat(ar', arreq, rbeat')
    BY <1>2, <1>5, <2>5
  <2>9. PICK d \in ReadBursts : d = arreq
    BY DEF ReadBus
  <2>10. ReadDue(d)'
    BY <2>2, <2>4, <2>7, <2>8, <2>9, Zenon DEF ReadDue, AtBeat
  <2> QED
    BY <1>3, <1>5, <2>2, <2>4, <2>5, <2>10, Zenon DEF ReadBus
<1> QED
  BY <1>4, <1>5 DEF ReadIdle

LEMMA ReadDueStep ==
  ASSUME ReadBus, NEW b \in ReadBursts, ReadDue(b),
         NEW bready, NEW rready \in RReady, Tick(bready, rready)
  PROVE  /\ ReadBus'
         /\ axi_rvalid' => ar' = ar
         /\ rq' # << >> => rq' = rq
<1>1. /\ <<b>> # << >> /\ Head(<<b>>) = b /\ Tail(<<b>>) = << >>
      /\ Sound(b)
  BY Single, SoundBursts
<1>2. ReadEdge(rready) /\ ~ReadOffered /\ ~ar_handshake
  BY SlaveReads DEF ReadDue, ReadOffered, ar_handshake
<1>3. rready \in BOOLEAN /\ axi_rvalid \in BOOLEAN
  BY Zenon DEF RReady, ReadBus
<1>4. ar.cntr = rbeat /\ ar.len = b.len /\ ar.cntr <= ar.len
  <2>1. /\ ar.cntr = rbeat /\ ar.len = b.len
        /\ rbeat \in 0..b.len /\ b.len \in Nat
    BY <1>1, FsmAssumption DEF ReadDue, AtBeat, Sound
  <2> QED
    BY <2>1
<1>5. LastTaken(rready) <=> r_done(rready)
  BY <1>1, <1>4, Zenon DEF LastTaken, r_done, ReadDue
<1>6. arreq' \in ReadBursts /\ arvalid' \in BOOLEAN
  BY MasterReads, Zenon DEF NoNewRead, ReadBus
<1>7. axi_arready' = FALSE
  BY <1>2, Zenon DEF ReadEdge, ReadDue
<1>8. CASE r_done(rready)
  <2>1. r_handshake(rready) /\ axi_rvalid /\ rready
    BY <1>8 DEF r_done, r_handshake
  <2>2. rq' = << >> /\ rbeat' = 0
    BY <1>1, <1>2, <1>8, MasterReads, Zenon DEF ReadChannels, ReadDue
  <2>3. axi_rvalid' = FALSE /\ axi_rlast' = FALSE /\ axi_arv_arr_flag' = FALSE
    BY <1>2, <1>4, <1>5, <1>8, <2>1, Zenon DEF ReadEdge
  <2>4. ReadIdle'
    BY <1>7, <2>2, <2>3, Zenon DEF ReadIdle
  <2> QED
    BY <1>6, <1>7, <2>2, <2>3, <2>4, Zenon DEF ReadBus
<1>9. CASE ~r_done(rready)
  <2>1. rq' = <<b>>
    BY <1>2, <1>9, MasterReads, Zenon DEF ReadChannels, ReadDue
  <2>3. axi_arv_arr_flag' = TRUE
    BY <1>2, <1>5, <1>9, Zenon DEF ReadEdge, ReadDue
  <2>4. CASE r_handshake(rready)
    <3>1. rbeat # b.len
      BY <1>1, <1>9, <2>4, Zenon DEF r_done, ReadDue
    <3>2. ar' = Advance(ar) /\ rbeat' = rbeat + 1 /\ axi_rlast' = FALSE
      BY <1>2, <1>4, <1>9, <2>4, MasterReads, Zenon DEF ReadEdge, ReadChannels
    <3>3. axi_rvalid' = FALSE
      BY <1>2, <2>4, Zenon DEF ReadEdge, r_handshake
    <3>4. AtBeat(ar', b, rbeat')
      BY <1>1, <3>1, <3>2, BeatStep DEF ReadDue
    <3>5. ReadDue(b)'
      BY <1>7, <2>1, <2>3, <3>2, <3>3, <3>4, Zenon DEF ReadDue, AtBeat
    <3> QED
      BY <1>6, <1>7, <2>1, <2>3, <3>2, <3>3, <3>5, Zenon DEF ReadBus, ReadDue
  <2>5. CASE ~r_handshake(rready)
    <3>1. ar' = ar /\ rbeat' = rbeat
      BY <1>2, <1>9, <2>5, MasterReads, Zenon DEF ReadEdge, ReadChannels
    <3>2. axi_rvalid' = TRUE
      BY <1>2, <1>3, <2>5, Zenon DEF ReadEdge, r_handshake, ReadDue
    <3>3. axi_rlast' = IF ar.cntr = ar.len /\ ~axi_rlast THEN TRUE
                       ELSE axi_rlast /\ ~rready
      BY <1>2, <2>5, Zenon DEF ReadEdge, ReadDue
    <3>4. axi_rlast' = (rbeat = b.len)
      <4>1. CASE rbeat = b.len
        <5>1. ar.cntr = ar.len
          BY <1>4, <4>1
        <5>2. axi_rlast => ~rready
          BY <2>5, Zenon DEF ReadDue, r_handshake
        <5> QED
          BY <3>3, <4>1, <5>1, <5>2, Zenon
      <4>2. CASE rbeat # b.len
        <5>1. ar.cntr # ar.len /\ axi_rlast = FALSE
          BY <1>4, <4>2, Zenon DEF ReadDue
        <5> QED
          BY <3>3, <4>2, <5>1, Zenon
      <4> QED
        BY <4>1, <4>2
    <3>5. axi_rlast' = (axi_rvalid' /\ rbeat' = b.len)
      BY <3>1, <3>2, <3>4, Zenon
    <3>6. AtBeat(ar', b, rbeat')
      BY <3>1 DEF ReadDue
    <3>7. ReadDue(b)'
      BY <1>7, <2>1, <2>3, <3>2, <3>5, <3>6, Zenon DEF ReadDue, AtBeat
    <3> QED
      BY <1>6, <1>7, <2>1, <2>3, <3>1, <3>2, <3>4, <3>7, Zenon DEF ReadBus,
        ReadDue
  <2> QED
    BY <2>4, <2>5
<1> QED
  BY <1>8, <1>9

-----------------------------------------------------------------------------
(* The two buses.                                                          *)

LEMMA WriteStep ==
  ASSUME MaxWrites = 1, WriteBus, NEW bready \in BReady, NEW rready,
         Tick(bready, rready)
  PROVE  /\ WriteBus'
         /\ w_handshake => \E b \in Bursts : ws = <<b>> /\ AtBeat(aw, b, wbeat)
         /\ w_done => ~axi_wready'
         /\ ws' = << >> /\ resps' = 0 => ws = << >>
         /\ ws = << >> /\ WriteChannels(<< >>) => ws' = << >>
         /\ ws = << >> /\ resps = 0 => resps' = 0
<1>1. CASE WriteIdle
  <2>1. ~w_done /\ ws = << >>
    BY <1>1, WriteIdleStep DEF w_done, WriteIdle
  <2> QED
    BY <1>1, <2>1, WriteIdleStep
<1>2. ASSUME NEW b \in Bursts, AddressDue(b)
      PROVE  /\ WriteBus' /\ ~w_handshake /\ ~w_done
             /\ ws' # << >> /\ ws # << >>
  <2>1. ws # << >>
    BY <1>2, Single DEF AddressDue
  <2>2. WriteBus' /\ ~w_handshake /\ ws' # << >>
    BY <1>2, AddressDueStep
  <2> QED
    BY <2>1, <2>2 DEF w_done
<1>3. ASSUME NEW b \in Bursts, DataDue(b)
      PROVE  /\ WriteBus' /\ ws = <<b>> /\ AtBeat(aw, b, wbeat) /\ ws # << >>
             /\ w_done => ~axi_wready'
             /\ ws' = << >> => resps' # 0
  <2>1. ws # << >> /\ ws = <<b>> /\ AtBeat(aw, b, wbeat)
    BY <1>3, Single DEF DataDue
  <2>2. /\ WriteBus' /\ (w_done => resps' = 1 /\ ~axi_wready')
        /\ ~w_done => ws' # << >>
    BY <1>3, DataDueStep
  <2> QED
    BY <2>1, <2>2
<1>4. CASE \E b \in Bursts : AddressDue(b)
  BY <1>2, <1>4, Zenon
<1>5. CASE \E b \in Bursts : DataDue(b)
  BY <1>3, <1>5, Zenon
<1> QED
  BY <1>1, <1>4, <1>5, Zenon DEF WriteBus

LEMMA ReadStep ==
  ASSUME ReadBus, NEW bready, NEW rready \in RReady,
         Tick(bready, rready)
  PROVE  /\ ReadBus'
         /\ axi_rvalid' => axi_arv_arr_flag /\ ar' = ar
         /\ rq' # << >> => rq' = rq \/ (arvalid /\ rq' = <<arreq>>)
<1>1. CASE ReadIdle
  BY <1>1, ReadIdleStep
<1>2. ASSUME NEW b \in ReadBursts, ReadDue(b)
      PROVE  /\ ReadBus'
             /\ axi_rvalid' => axi_arv_arr_flag /\ ar' = ar
             /\ rq' # << >> => rq' = rq
  <2>1. axi_arv_arr_flag
    BY <1>2 DEF ReadDue
  <2> QED
    BY <1>2, <2>1, ReadDueStep
<1> QED
  BY <1>1, <1>2, Zenon DEF ReadBus

-----------------------------------------------------------------------------
(* The control register and the core.                                      *)

(* Only a burst of a single beat sets the reset bit. *)
LEMMA ControlOfBursts ==
  \A b \in Bursts : /\ b.ctrl \in Control
                    /\ 0 \in b.strb /\ b.ctrl.reset => b.len = 0
<1>1. ControlReset \in Control /\ ~ControlReset.reset
  BY DEF Control, ControlReset
<1>2. \A b \in DataBursts : b.ctrl = ControlReset
  BY DEF DataBursts, Burst
<1>3. ASSUME NEW b \in ControlBursts
      PROVE  b.ctrl \in Control /\ (0 \in b.strb /\ b.ctrl.reset => b.len = 0)
  <2>1. CASE b = Burst(0, "FIXED", 1, ControlReset, {})
    <3>1. b.ctrl = ControlReset
      BY <2>1 DEF Burst
    <3> QED
      BY <1>1, <3>1
  <2>2. CASE b # Burst(0, "FIXED", 1, ControlReset, {})
    <3>1. PICK r \in BOOLEAN :
            b = Burst(0, "INCR", 0,
                      [reset |-> r, irq_en |-> TRUE, busy |-> FALSE], {0, 1})
      BY <2>2, Zenon DEF ControlBursts
    <3>2. b.ctrl = [reset |-> r, irq_en |-> TRUE, busy |-> FALSE] /\ b.len = 0
      BY <3>1 DEF Burst
    <3> QED
      BY <3>2 DEF Control
  <2> QED
    BY <2>1, <2>2
<1> QED
  BY <1>1, <1>2, <1>3 DEF Bursts

LEMMA BusyIsFull ==
  ASSUME CoreInv(core)
  PROVE  hash_busy_o = Full(core) /\ Full(core) \in BOOLEAN
<1>1. hash_busy_o <=> Full(core)
  BY BusyMeansFull DEF hash_busy_o
<1>2. hash_busy_o \in BOOLEAN /\ Full(core) \in BOOLEAN
  BY DEF hash_busy_o, CoreBusy, Busy, Full
<1> QED
  BY <1>1, <1>2

LEMMA ControlEdge ==
  ASSUME MaxWrites = 1, CoreInv(core), WriteBus, Status,
         NEW bready \in BReady, NEW rready, Tick(bready, rready)
  PROVE  /\ slv_reg0' \in Control
         /\ slv_reg0'.reset => w_done /\ sent' = 0
         /\ w_handshake /\ Region(aw.addr) = "DATA" =>
              sent' = sent + 1 /\ ~slv_reg0'.reset
         /\ ~(w_handshake /\ Region(aw.addr) = "DATA") /\ ~slv_reg0'.reset =>
              sent' = sent
         /\ ~w_handshake => /\ slv_reg0'.busy = Full(core) /\ ~slv_reg0'.reset
                            /\ sent' = sent
<1> DEFINE m == Inputs(bready, rready)
           cw == ControlWrite(m)
           nxt == slv_reg0_nxt(hash_busy_o)
           region == Region(BeatAddr(Head(ws), wbeat))
<1>1. slv_reg0 \in Control /\ sent \in Nat
  BY DEF Status
<1>2. slv_reg0' = IF w_handshake /\ Region(aw.addr) = "CTRL" THEN cw ELSE nxt
  <2>1. m.wvalid = wvalid
    BY DEF Inputs
  <2>2. reg_write_en(m, hash_busy_o) <=> w_handshake
    BY <2>1 DEF reg_write_en, w_handshake
  <2>3. ControlRegister(m, hash_busy_o)
    BY DEF Tick, SlaveStep
  <2> QED
    BY <2>2, <2>3, Zenon DEF ControlRegister
<1>3. nxt \in Control /\ ~nxt.reset /\ nxt.busy = Full(core)
  BY <1>1, BusyIsFull DEF slv_reg0_nxt, Control
<1>4. sent' = IF ~w_handshake THEN sent
              ELSE IF region = "DATA" THEN sent + 1
              ELSE IF region = "CTRL" /\ ControlWrite(Inputs(FALSE, FALSE)).reset
              THEN 0 ELSE sent
  BY Zenon DEF Tick, Account
<1>5. ControlWrite(Inputs(FALSE, FALSE)).reset = cw.reset
  BY DEF Inputs, ControlWrite
<1>6. CASE ~w_handshake
  BY <1>2, <1>3, <1>4, <1>6, Zenon
<1>7. CASE w_handshake
  <2>1. PICK b \in Bursts : ws = <<b>> /\ AtBeat(aw, b, wbeat)
    BY <1>7, WriteStep
  <2>2. Head(ws) = b /\ ws # << >>
    BY <2>1, Single
  <2>3. region = Region(aw.addr)
    BY <2>1, <2>2 DEF AtBeat
  <2>4. ~slv_reg0.reset
    BY <1>7 DEF Status, w_handshake, S_AXI_WREADY
  <2>5. m.ctrl = b.ctrl /\ m.strb = b.strb
    BY <2>2 DEF Inputs
  <2>6. b.ctrl \in Control /\ (0 \in b.strb /\ b.ctrl.reset => b.len = 0)
    BY ControlOfBursts
  <2>7. cw \in Control
    BY <1>1, <2>5, <2>6 DEF ControlWrite, Control
  <2>8. cw.reset => b.len = 0
    BY <2>4, <2>5, <2>6 DEF ControlWrite
  <2>9. cw.reset => w_done
    <3>1. b.len = 0 => wbeat = b.len
      BY <2>1 DEF AtBeat
    <3> QED
      BY <1>7, <2>2, <2>8, <3>1 DEF w_done
  <2> HIDE DEF region, cw, nxt
  <2>10. CASE Region(aw.addr) = "CTRL"
    <3>1. slv_reg0' = cw /\ sent' = IF cw.reset THEN 0 ELSE sent
      BY <1>2, <1>4, <1>5, <1>7, <2>3, <2>10
    <3> QED
      BY <1>7, <2>7, <2>9, <2>10, <3>1
  <2>11. CASE Region(aw.addr) # "CTRL"
    <3>1. /\ slv_reg0' = nxt
          /\ sent' = IF Region(aw.addr) = "DATA" THEN sent + 1 ELSE sent
      BY <1>2, <1>4, <1>7, <2>3, <2>11
    <3> QED
      BY <1>3, <1>7, <2>11, <3>1
  <2> QED
    BY <2>10, <2>11
<1> QED
  BY <1>6, <1>7

(* A core that is not full and gets no word stays as it is. *)
LEMMA CoreStepIdle ==
  ASSUME NEW c, NEW dat \in Nat, CoreInv(c), ~Full(c)
  PROVE  ~Full(CoreStep(c, FALSE, dat)) /\ CoreStep(c, FALSE, dat).H8 = c.H8
<1> DEFINE d == CoreStep(c, FALSE, dat)
<1>1. d.state = c.state /\ d.counter = c.counter
  BY CoreStepInv
<1>2. c.state # "FINISH" /\ d.state = StateNext(c.state, c.counter, FALSE)
      /\ d.H8 = IF d.state = "FINISH" THEN c.H8 \o c.chunk ELSE c.H8
  BY DEF CoreStep, Full
<1> HIDE DEF d
<1>3. ~Full(d) /\ d.H8 = c.H8
  BY <1>1, <1>2 DEF Full
<1> QED
  BY <1>3 DEF d

(* The core at an edge: it takes the word that is handshaken, and nothing  *)
(* else.                                                                   *)
LEMMA CoreAndWords ==
  ASSUME MaxWrites = 1, CoreInv(core), NoWordLost, WriteBus, Status,
         NEW bready \in BReady, NEW rready, Tick(bready, rready)
  PROVE  /\ CoreInv(core)' /\ NoWordLost' /\ sent' \in Nat
         /\ slv_reg0.reset \/ slv_reg0'.reset => core' = CoreReset /\ sent' = 0
         /\ ~w_handshake /\ ~Full(core) => ~Full(core') /\ core'.H8 = core.H8
<1>1. /\ Taken(core) = Message(sent) /\ sent \in Nat /\ wdata \in Nat
      /\ wdata = sent + 1
  BY DEF NoWordLost, Status, wdata
<1>2. core' = IF slv_reg0.reset \/ slv_reg0'.reset THEN CoreReset
              ELSE CoreStep(core, dat_vaild_i, wdata)
  BY Zenon DEF Tick, CoreEdge
<1>3. Message(0) = << >> /\ 0 \in Nat
  BY DEF Message
<1>4. CASE slv_reg0.reset \/ slv_reg0'.reset
  <2>1. core' = CoreReset
    BY <1>2, <1>4
  <2>2. sent' = 0
    <3>1. CASE slv_reg0'.reset
      BY <3>1, ControlEdge
    <3>2. CASE slv_reg0.reset
      <4>1. ~w_handshake /\ sent = 0
        BY <3>2 DEF Status, w_handshake, S_AXI_WREADY
      <4> QED
        BY <4>1, ControlEdge
    <3> QED
      BY <1>4, <3>1, <3>2
  <2>3. CoreInv(core)' /\ NoWordLost'
    BY <1>3, <2>1, <2>2, CoreResetInv DEF NoWordLost
  <2>4. ~w_handshake /\ ~Full(core) => ~Full(core') /\ core'.H8 = core.H8
    <3>1. ASSUME ~w_handshake PROVE core = CoreReset
      BY <1>4, <3>1, ControlEdge DEF Status
    <3>2. ~Full(CoreReset)
      BY DEF Full, CoreReset
    <3> QED
      BY <2>1, <3>1, <3>2
  <2> QED
    BY <1>3, <2>1, <2>2, <2>3, <2>4
<1>5. CASE ~(slv_reg0.reset \/ slv_reg0'.reset)
  <2>1. core' = CoreStep(core, dat_vaild_i, wdata)
    BY <1>2, <1>5
  <2>2. dat_vaild_i = (w_handshake /\ Region(aw.addr) = "DATA")
    BY Zenon DEF dat_vaild_i, w_handshake
  <2>3. dat_vaild_i \in BOOLEAN
    BY <2>2
  <2>4. dat_vaild_i => ~Full(core)
    <3>1. dat_vaild_i => ~hash_busy_o
      BY DEF dat_vaild_i, S_AXI_WREADY
    <3> QED
      BY <3>1, BusyIsFull
  <2>5. CASE dat_vaild_i
    <3>1. sent' = sent + 1
      BY <2>2, <2>5, ControlEdge
    <3>2. Taken(core') = Append(Taken(core), wdata) /\ CoreInv(core')
      BY <1>1, <2>1, <2>3, <2>4, <2>5, CoreStepInv
    <3>3. Taken(core') = Message(sent')
      BY <1>1, <3>1, <3>2, MessageAppend
    <3>4. sent' \in Nat
      BY <1>1, <3>1
    <3>5. w_handshake
      BY <2>2, <2>5
    <3> QED
      BY <1>5, <3>2, <3>3, <3>4, <3>5 DEF NoWordLost
  <2>6. CASE ~dat_vaild_i
    <3>1. sent' = sent
      BY <1>5, <2>2, <2>6, ControlEdge
    <3>2. Taken(core') = Taken(core) /\ CoreInv(core')
      BY <1>1, <2>1, <2>3, <2>6, CoreStepInv
    <3>3. core' = CoreStep(core, FALSE, wdata)
      BY <2>1, <2>3, <2>6
    <3>4. ~Full(core) => ~Full(core') /\ core'.H8 = core.H8
      BY <1>1, <3>3, CoreStepIdle
    <3> QED
      BY <1>1, <1>5, <3>1, <3>2, <3>4 DEF NoWordLost
  <2> QED
    BY <2>5, <2>6
<1> QED
  BY <1>4, <1>5

LEMMA StatusStep ==
  ASSUME MaxWrites = 1, CoreInv(core), NoWordLost, WriteBus, Status,
         NEW bready \in BReady, NEW rready, Tick(bready, rready)
  PROVE  Status'
<1>1. slv_reg0' \in Control /\ sent' \in Nat
  BY ControlEdge, CoreAndWords
<1>2. slv_reg0'.reset => ~axi_wready' /\ sent' = 0 /\ core' = CoreReset
  <2>1. slv_reg0'.reset => w_done
    BY ControlEdge
  <2>2. w_done => ~axi_wready'
    BY WriteStep
  <2>3. slv_reg0'.reset => core' = CoreReset /\ sent' = 0
    BY CoreAndWords
  <2> QED
    BY <2>1, <2>2, <2>3
<1>3. ASSUME ws' = << >>, resps' = 0, Full(core') PROVE slv_reg0'.busy
  <2>1. ws = << >>
    BY <1>3, WriteStep
  <2>2. ~w_handshake
    <3>1. ASSUME w_handshake PROVE FALSE
      BY <2>1, <3>1, WriteStep, Single
    <3> QED
      BY <3>1
  <2>3. Full(core)
    BY <1>3, <2>2, CoreAndWords
  <2>4. slv_reg0'.busy = Full(core)
    BY <2>2, ControlEdge
  <2> QED
    BY <2>3, <2>4
<1>4. ws' = << >> /\ resps' = 0 /\ Full(core)' => slv_reg0'.busy
  BY <1>3 DEF Full
<1> QED
  BY <1>1, <1>2, <1>4, Zenon DEF Status

-----------------------------------------------------------------------------
(* What the master has been told.                                          *)

(* Every beat of a poll reads the control register. *)
LEMMA PollStaysThere ==
  ASSUME NEW b \in ReadBursts, Region(b.addr) = "CTRL", NEW r, NEW i,
         AtBeat(r, b, i)
  PROVE  Region(r.addr) = "CTRL"
<1>1. LoadWords \in Nat /\ LoadWords > 1
  BY FsmAssumption, FullAssumption
<1>2. b.burst = "FIXED" \/ b.len = 0
  <2>1. \/ b = Read(0, "INCR", 0) \/ b = Read(0, "FIXED", 1)
        \/ b.addr \in {LoadWords \div 2, LoadWords \div 2 + LoadWords \div 4}
    BY DEF ReadBursts, Read
  <2>2. ASSUME NEW a \in {LoadWords \div 2, LoadWords \div 2 + LoadWords \div 4}
        PROVE  a # 0 /\ a \in (LoadWords \div 2)..(LoadWords - 1)
    BY <1>1
  <2>3. b.addr \notin {LoadWords \div 2, LoadWords \div 2 + LoadWords \div 4}
    BY <2>2 DEF Region
  <2> QED
    BY <2>1, <2>3 DEF Read
<1>3. r.addr = BeatAddr(b, i) /\ i \in 0..b.len
  BY DEF AtBeat
<1>4. AtBeat(Latch(b), b, 0)
  BY SoundBursts, FirstBeat
<1>5. BeatAddr(b, 0) = b.addr
  BY <1>4 DEF AtBeat, Latch
<1>6. CASE b.burst = "FIXED"
  BY <1>3, <1>6 DEF BeatAddr
<1>7. CASE b.len = 0
  BY <1>3, <1>5, <1>7
<1> QED
  BY <1>2, <1>6, <1>7

(* While the last write is answered and no new one is made, nothing        *)
(* reaches the core.                                                       *)
LEMMA Quiet ==
  ASSUME MaxWrites = 1, FullInv, NEW bready \in BReady, NEW rready,
         Tick(bready, rready), ws = << >>
  PROVE  /\ ~w_handshake
         /\ WriteChannels(<< >>) => ws' = << >>
         /\ resps = 0 => resps' = 0
         /\ ~Full(core) => ~Full(core') /\ core'.H8 = core.H8
<1>1. ASSUME w_handshake PROVE FALSE
  BY <1>1, WriteStep, Single DEF FullInv, BusInv
<1> QED
  BY <1>1, WriteStep, CoreAndWords DEF FullInv, BusInv

LEMMA PolledStep ==
  ASSUME MaxWrites = 1, MaxReads = 1, FullInv, NEW bready \in BReady,
         NEW rready \in RReady, Tick(bready, rready)
  PROVE  Polled'
<1>1. ReadBus' /\ ReadBus
  BY ReadStep DEF FullInv, BusInv
<1>2. CASE StartWrite(rready)
  BY <1>2 DEF StartWrite, Polled
<1>3. CASE StartRead(rready)
  <2>1. PICK req \in ReadBursts :
          /\ BeginRead(req)
          /\ fresh' = (Region(req.addr) = "CTRL" /\ ws = << >> /\ resps = 0)
    BY <1>3 DEF StartRead
  <2>2. fresh' \in BOOLEAN /\ arreq' = req /\ WriteChannels(<< >>)
    BY <1>3, <2>1 DEF BeginRead, StartRead
  <2>3. rq' = << >> /\ ~axi_rvalid'
    <3>1. Len(rq') < 1
      BY <2>1 DEF BeginRead
    <3>2. ASSUME NEW b, rq' = <<b>> PROVE FALSE
      BY <3>1, <3>2, Single
    <3>3. ReadIdle'
      BY <1>1, <3>2, Zenon DEF ReadBus, ReadDue
    <3> QED
      BY <3>3 DEF ReadIdle
  <2>4. fresh' => ws' = << >> /\ resps' = 0 /\ Region(req.addr) = "CTRL"
    BY <2>1, <2>2, Quiet
  <2> QED
    BY <2>2, <2>3, <2>4, Zenon DEF Polled
<1>4. CASE StartNothing(rready)
  <2>1. /\ fresh' \in BOOLEAN /\ (fresh' => fresh) /\ WriteChannels(<< >>)
        /\ arreq' = arreq /\ (arvalid' => arvalid)
    BY <1>4 DEF StartNothing, NoNewRead
  <2>2. CASE ~fresh'
    BY <2>1, <2>2, Zenon DEF Polled
  <2>3. CASE fresh'
    <3>1. /\ ws = << >> /\ resps = 0 /\ slv_reg0 \in Control
          /\ arvalid => Region(arreq.addr) = "CTRL"
          /\ rq # << >> => Region(Head(rq).addr) = "CTRL"
          /\ Full(core) => slv_reg0.busy
      BY <2>1, <2>3 DEF FullInv, BusInv, Polled, Status
    <3>2. ws' = << >> /\ resps' = 0 /\ (~Full(core) => ~Full(core'))
      BY <2>1, <3>1, Quiet
    <3>3. arvalid' => Region(arreq'.addr) = "CTRL"
      BY <2>1, <3>1
    <3>4. rq' # << >> => Region(Head(rq').addr) = "CTRL"
      <4>1. rq' # << >> => rq' = rq \/ (arvalid /\ rq' = <<arreq>>)
        BY ReadStep DEF FullInv, BusInv
      <4> QED
        BY <3>1, <4>1, Single
    <3>5. ASSUME axi_rvalid', ~reg_data_out'.ctrl.busy PROVE ~Full(core')
      <4>1. axi_arv_arr_flag
        BY <3>5, ReadStep DEF FullInv, BusInv
      <4>2. Region(ar.addr) = "CTRL"
        <5>1. CASE ReadIdle
          <6>1. arvalid /\ AtBeat(ar, arreq, 0) /\ arreq \in ReadBursts
            BY <1>1, <4>1, <5>1 DEF ReadIdle, ReadBus
          <6> QED
            BY <3>1, <6>1, PollStaysThere
        <5>2. ASSUME NEW b \in ReadBursts, ReadDue(b)
              PROVE  Region(ar.addr) = "CTRL"
          <6>1. AtBeat(ar, b, rbeat) /\ Head(rq) = b /\ rq # << >>
            BY <5>2, Single DEF ReadDue
          <6> QED
            BY <3>1, <6>1, PollStaysThere
        <5> QED
          BY <1>1, <5>1, <5>2, Zenon DEF ReadBus
      <4>3. reg_data_out' = Word(slv_reg0, << >>)
        BY <4>1, <4>2 DEF Tick, SlaveStep, ReadData
      <4>4. reg_data_out'.ctrl = slv_reg0
        BY <4>3 DEF Word
      <4> QED
        BY <3>1, <3>2, <3>5, <4>4
    <3>6. axi_rvalid' /\ ~reg_data_out'.ctrl.busy => ~Full(core)'
      BY <3>5 DEF Full
    <3> QED
      BY <2>1, <3>2, <3>3, <3>4, <3>6, Zenon DEF Polled
  <2> QED
    BY <2>2, <2>3
<1> QED
  BY <1>2, <1>3, <1>4 DEF Tick

LEMMA ToldStep ==
  ASSUME MaxWrites = 1, MaxReads = 1, FullInv, NEW bready \in BReady,
         NEW rready \in RReady, Tick(bready, rready)
  PROVE  Told'
<1>1. CASE StartWrite(rready)
  BY <1>1 DEF StartWrite, Told
<1>2. CASE StartRead(rready) \/ StartNothing(rready)
  <2>1. Announce(rready) /\ WriteChannels(<< >>)
    BY <1>2 DEF StartRead, StartNothing
  <2>2. announced' \in BOOLEAN
    BY <2>1 DEF Announce
  <2>3. ASSUME announced' PROVE ws = << >> /\ ~Full(core)
    <3>1. CASE announced
      BY <3>1 DEF FullInv, BusInv, Told
    <3>2. CASE irq_hash_finish /\ ws = << >>
      BY <3>2 DEF irq_hash_finish, FullInv, BusInv, CoreInv, Full
    <3>3. CASE PollSaysIdle(rready)
      BY <3>3 DEF PollSaysIdle, r_done, r_handshake, FullInv, BusInv, Polled
    <3> QED
      BY <2>1, <2>3, <3>1, <3>2, <3>3 DEF Announce
  <2>4. CASE ~announced'
    BY <2>2, <2>4, Zenon DEF Told
  <2>5. CASE announced'
    <3>1. ws' = << >> /\ ~Full(core') /\ core'.H8 = core.H8
      BY <2>1, <2>3, <2>5, Quiet
    <3>2. ASSUME axi_rvalid', Region(ar'.addr) = "HASH"
          PROVE  reg_data_out'.H8 = core'.H8
      <4>1. axi_arv_arr_flag /\ Region(ar.addr) = "HASH"
        BY <3>2, ReadStep DEF FullInv, BusInv
      <4>2. reg_data_out' = Word(ControlReset, core.H8)
        BY <4>1 DEF Tick, SlaveStep, ReadData
      <4> QED
        BY <3>1, <4>2 DEF Word
    <3>3. ~Full(core)'
      BY <3>1 DEF Full
    <3> QED
      BY <2>2, <3>1, <3>2, <3>3, Zenon DEF Told
  <2> QED
    BY <2>4, <2>5
<1> QED
  BY <1>1, <1>2 DEF Tick

-----------------------------------------------------------------------------
(* The theorems.                                                           *)

LEMMA FullInit == ASSUME Init PROVE BusInv /\ FullInv
<1>1. CoreInv(core) /\ NoWordLost
  <2>1. Message(0) = << >>
    BY DEF Message
  <2> QED
    BY <2>1, CoreResetInv DEF Init, NoWordLost
<1>2. WriteBus
  <2>1. WriteIdle
    BY DEF Init, SlaveInit, WriteIdle
  <2> QED
    BY <2>1 DEF Init, SlaveInit, WriteBus
<1>3. ReadBus
  <2>1. ReadIdle
    BY DEF Init, SlaveInit, ReadIdle
  <2>2. arreq \in ReadBursts
    BY DEF Init, ReadBursts
  <2> QED
    BY <2>1, <2>2 DEF Init, SlaveInit, ReadBus
<1>4. Status
  <2>1. ControlReset \in Control /\ ~ControlReset.reset /\ ~Full(CoreReset)
    BY DEF Control, ControlReset, Full, CoreReset
  <2> QED
    BY <2>1 DEF Init, SlaveInit, Status
<1>5. Polled /\ Told
  BY DEF Init, Polled, Told
<1> QED
  BY <1>1, <1>2, <1>3, <1>4, <1>5 DEF BusInv, FullInv

LEMMA BusStep == ASSUME MaxWrites = 1, BusInv, [Next]_vars PROVE BusInv'
<1>1. CASE Next
  <2>1. PICK bready \in BReady, rready \in RReady : Tick(bready, rready)
    BY <1>1 DEF Next
  <2>2. CoreInv(core)' /\ NoWordLost' /\ Status'
    BY <2>1, CoreAndWords, StatusStep DEF BusInv
  <2>3. WriteBus' /\ ReadBus'
    BY <2>1, WriteStep, ReadStep DEF BusInv
  <2> QED
    BY <2>2, <2>3 DEF BusInv
<1>2. CASE UNCHANGED vars
  <2> USE <1>2 DEF vars, slaveVars, masterVars
  <2>1. CoreInv(core)' = CoreInv(core) /\ UNCHANGED NoWordLost
    BY DEF CoreInv, NoWordLost, Taken
  <2>2. UNCHANGED WriteBus
    BY DEF WriteBus, WriteIdle, AddressDue, DataDue, AtBeat
  <2>3. UNCHANGED ReadBus
    BY DEF ReadBus, ReadIdle, ReadDue, AtBeat
  <2>4. UNCHANGED Status
    BY DEF Status, Full
  <2> QED
    BY <2>1, <2>2, <2>3, <2>4 DEF BusInv
<1> QED
  BY <1>1, <1>2

LEMMA FullStep ==
  ASSUME MaxWrites = 1, MaxReads = 1, FullInv, [Next]_vars PROVE FullInv'
<1>1. BusInv'
  BY BusStep DEF FullInv
<1>2. CASE Next
  BY <1>1, <1>2, PolledStep, ToldStep DEF Next, FullInv
<1>3. CASE UNCHANGED vars
  <2>1. UNCHANGED <<Polled, Told>>
    BY <1>3 DEF vars, slaveVars, masterVars, Polled, Told, Full
  <2> QED
    BY <1>1, <2>1 DEF FullInv
<1> QED
  BY <1>2, <1>3

(* Back-pressure alone is enough: the core takes every word written to the *)
(* data region once and in order, in bursts of any of the three types,     *)
(* wherever they fall on the block boundaries.                             *)
THEOREM FullLosesNoWord ==
  ASSUME MaxWrites = 1 PROVE Spec => []NoWordLost
<1>1. BusInv => NoWordLost
  BY DEF BusInv
<1> QED
  BY <1>1, FullInit, BusStep, PTL DEF Spec

(* The address generator follows the addresses of AXI4 through every beat  *)
(* of a fixed, incrementing or wrapping burst.                             *)
THEOREM FullBurstAddresses ==
  ASSUME MaxWrites = 1 PROVE Spec => []BurstAddresses
<1>1. BusInv => BurstAddresses
  <2>1. SUFFICES ASSUME BusInv PROVE BurstAddresses
    OBVIOUS
  <2>2. ASSUME axi_wready PROVE aw.addr = BeatAddr(Head(ws), wbeat)
    <3>1. PICK b \in Bursts : DataDue(b)
      BY <2>1, <2>2, Zenon DEF BusInv, WriteBus, WriteIdle, AddressDue
    <3> QED
      BY <3>1, Single DEF DataDue, AtBeat
  <2>3. ASSUME axi_rvalid PROVE ar.addr = BeatAddr(Head(rq), rbeat)
    <3>1. PICK b \in ReadBursts : ReadDue(b)
      BY <2>1, <2>3, Zenon DEF BusInv, ReadBus, ReadIdle
    <3> QED
      BY <3>1, Single DEF ReadDue, AtBeat
  <2> QED
    BY <2>2, <2>3 DEF BurstAddresses
<1> QED
  BY <1>1, FullInit, BusStep, PTL DEF Spec

(* RVALID is up only for a read that was accepted, and RLAST with its last *)
(* beat and no other.                                                      *)
THEOREM FullReadBeats ==
  ASSUME MaxWrites = 1 PROVE Spec => []ReadBeats
<1>1. BusInv => ReadBeats
  <2>1. SUFFICES ASSUME BusInv, axi_rvalid
                 PROVE  rq # << >> /\ (axi_rlast <=> rbeat = Head(rq).len)
    BY DEF ReadBeats
  <2>2. PICK b \in ReadBursts : ReadDue(b)
    BY <2>1, Zenon DEF BusInv, ReadBus, ReadIdle
  <2>3. rq # << >> /\ Head(rq) = b
    BY <2>2, Single DEF ReadDue
  <2>4. axi_rlast = (axi_rvalid /\ rbeat = b.len)
    BY <2>2 DEF ReadDue
  <2> QED
    BY <2>1, <2>3, <2>4, Zenon
<1> QED
  BY <1>1, FullInit, BusStep, PTL DEF Spec

(* BVALID is up exactly while a completed burst waits for its response. *)
THEOREM FullResponseMatchesBurst ==
  ASSUME MaxWrites = 1 PROVE Spec => []ResponseMatchesBurst
<1>1. BusInv => ResponseMatchesBurst
  <2>1. SUFFICES ASSUME BusInv PROVE axi_bvalid <=> resps > 0
    BY DEF ResponseMatchesBurst
  <2>2. (resps = 0 /\ ~axi_bvalid) \/ (resps = 1 /\ axi_bvalid)
    BY <2>1, Zenon DEF BusInv, WriteBus, WriteIdle, AddressDue, DataDue
  <2> QED
    BY <2>2
<1> QED
  BY <1>1, FullInit, BusStep, PTL DEF Spec

(* Once the interrupt or a poll has announced the end of what was written, *)
(* the digest in the registers, and the one on the read bus, is that of    *)
(* every whole block.                                                      *)
THEOREM FullAnnouncedIsFinal ==
  ASSUME MaxWrites = 1, MaxReads = 1 PROVE Spec => []AnnouncedIsFinal
<1>1. FullInv => AnnouncedIsFinal
  <2>1. SUFFICES ASSUME FullInv, announced PROVE core.H8 = Message(Blocks(sent))
    BY DEF AnnouncedIsFinal, FullInv, Told
  <2>2. /\ CoreInv(core) /\ ~Full(core) /\ sent \in Nat
        /\ core.H8 \o core.chunk = Message(sent)
    BY <2>1 DEF FullInv, BusInv, Told, Status, NoWordLost, Taken
  <2>3. /\ core.H8 \in Seq(Nat) /\ core.chunk \in Seq(Nat)
        /\ Len(core.H8) \in Nat /\ Len(core.chunk) \in Nat
        /\ Len(core.H8) % LoadWords = 0 /\ LoadWords \in Nat \ {0}
    <3>1. /\ core.H8 \in Seq(Nat) /\ core.chunk \in Seq(Nat)
          /\ Len(core.H8) % LoadWords = 0
      BY <2>2 DEF CoreInv
    <3>2. Len(core.H8) \in Nat /\ Len(core.chunk) \in Nat
      BY <3>1, LenProperties
    <3>3. LoadWords \in Nat \ {0}
      BY FsmAssumption
    <3> QED
      BY <3>1, <3>2, <3>3
  <2>4. Len(core.chunk) < LoadWords
    <3>1. CASE core.state = "IDLE"
      BY <2>2, <2>3, <3>1 DEF CoreInv
    <3>2. CASE core.state = "LOAD"
      BY <2>2, <2>3, <3>2 DEF CoreInv, Full
    <3> QED
      BY <2>2, <3>1, <3>2 DEF CoreInv, Full, FsmStates
  <2>5. /\ core.H8 = Message(Len(core.H8))
        /\ sent = Len(core.H8) + Len(core.chunk)
    BY <2>2, <2>3, MessagePrefix
  <2> QED
    BY <2>3, <2>4, <2>5, WholeBlocks
<1> QED
  BY <1>1, FullInit, FullStep, PTL DEF Spec
=============================================================================
