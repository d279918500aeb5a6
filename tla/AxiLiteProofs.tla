---------------------------- MODULE AxiLiteProofs ----------------------------
(***************************************************************************)
(* What the AXI4-Lite and the AXI4-Stream wrapper have in common: the core *)
(* between two clock edges, and the handshakes of the register slave with  *)
(* a master that keeps one write and one read outstanding.                 *)
(***************************************************************************)
EXTENDS AxiLiteMaster, SequenceTheorems, TLAPS

(* The core's registers agree with each other: the counter counts the      *)
(* words of the chunk while a block is loaded, a full chunk is hashed as a *)
(* whole, and hashed words come in blocks.                                 *)
CoreInv(c) ==
  /\ c.state \in FsmStates
  /\ c.chunk \in Seq(Nat) /\ c.H8 \in Seq(Nat)
  /\ c.state = "IDLE" => c.counter = 0 /\ c.chunk = << >>
  /\ c.state = "LOAD" => c.counter \in 1..LoadWords /\ c.counter = Len(c.chunk)
  /\ c.state = "PROC" => Len(c.chunk) = LoadWords
  /\ c.state = "FINISH" => c.chunk = << >>
  /\ Len(c.H8) % LoadWords = 0
  /\ c.irq_finish \in BOOLEAN /\ (c.irq_finish => c.state = "IDLE")

(* The core is at work on a full block. *)
Full(c) == c.state \in {"PROC", "FINISH"}
           \/ (c.state = "LOAD" /\ c.counter = LoadWords)

(* Where a write is, and which of the slave's registers are up then. *)
WriteBus ==
  /\ wphase \in {"idle", "addr", "resp"}
  /\ wphase = "idle" =>
       ~awvalid /\ ~wvalid /\ ~axi_awready /\ ~axi_wready /\ aw_en /\ ~axi_bvalid
  /\ wphase = "addr" =>
       /\ ~axi_bvalid
       /\ axi_awready <=> axi_wready
       /\ axi_awready => awvalid /\ wvalid /\ ~aw_en /\ axi_awaddr = wr.addr
       /\ ~axi_awready => aw_en
  /\ wphase = "resp" =>
       /\ ~awvalid /\ ~wvalid /\ ~axi_awready /\ ~axi_wready /\ ~aw_en
       /\ axi_bvalid
  /\ axi_awready \in BOOLEAN /\ axi_wready \in BOOLEAN /\ aw_en \in BOOLEAN
  /\ axi_bvalid \in BOOLEAN /\ awvalid \in BOOLEAN /\ wvalid \in BOOLEAN

(* The same for reads, of which there is one at a time. *)
ReadBus ==
  /\ reads \in {0, 1}
  /\ axi_rvalid <=> reads = 1
  /\ arvalid => reads = 0
  /\ axi_arready => arvalid /\ axi_araddr = araddr
  /\ axi_arready \in BOOLEAN /\ axi_rvalid \in BOOLEAN /\ arvalid \in BOOLEAN

WriteSide(bready) ==
  /\ WriteAddress(bready) /\ WriteData /\ WriteResponse(bready)
  /\ (\E w : BeginWrite(w)) \/ ContinueWrite(bready)

ReadSide(rready) ==
  /\ ReadAddress /\ ReadResponse(rready) /\ CountReads(rready)
  /\ (\E a : BeginRead(a)) \/ ContinueRead

-----------------------------------------------------------------------------
(* Arithmetic and sequences.                                               *)

LEMMA MultipleMod ==
  ASSUME NEW n \in Nat \ {0}, NEW q \in Nat PROVE (n * q) % n = 0
  BY Z3

LEMMA NextMultiple ==
  ASSUME NEW a \in Nat, NEW n \in Nat \ {0}, a % n = 0 PROVE (a + n) % n = 0
<1>1. PICK q \in Nat : a = n * q
  BY Z3
<1>2. a + n = n * (q + 1) /\ q + 1 \in Nat
  BY <1>1, Z3
<1> QED
  BY <1>2, MultipleMod

LEMMA NoMultipleBetween ==
  ASSUME NEW a \in Nat, NEW b \in Nat, NEW n \in Nat \ {0},
         a % n = 0, (a + b) % n = 0, b < n
  PROVE  b = 0
<1>1. PICK q \in Nat : a = n * q
  BY Z3
<1>2. PICK r \in Nat : a + b = n * r
  BY Z3
<1>3. b = n * (r - q)
  BY <1>1, <1>2, Z3
<1>4. r - q < 1
  BY <1>3, Z3
<1>5. r - q > -1
  BY <1>3, Z3
<1> QED
  BY <1>3, <1>4, <1>5

LEMMA AppendToConcat ==
  ASSUME NEW s \in Seq(Nat), NEW t \in Seq(Nat), NEW e \in Nat
  PROVE  s \o Append(t, e) = Append(s \o t, e)
  OBVIOUS

LEMMA ConcatEmptyNat == ASSUME NEW s \in Seq(Nat) PROVE s \o << >> = s
  OBVIOUS

LEMMA ConcatLen ==
  ASSUME NEW s \in Seq(Nat), NEW t \in Seq(Nat)
  PROVE  s \o t \in Seq(Nat) /\ Len(s \o t) = Len(s) + Len(t)
  BY ConcatProperties

LEMMA AppendLen ==
  ASSUME NEW s \in Seq(Nat), NEW e \in Nat
  PROVE  Append(s, e) \in Seq(Nat) /\ Len(Append(s, e)) = Len(s) + 1
  OBVIOUS

-----------------------------------------------------------------------------
(* The core.                                                               *)

LEMMA CoreResetInv == CoreInv(CoreReset) /\ Taken(CoreReset) = << >>
<1>1. << >> \in Seq(Nat)
  OBVIOUS
<1>2. Len(<< >>) % LoadWords = 0
  BY FsmAssumption
<1> QED
  BY <1>1, <1>2, ConcatEmptyNat DEF CoreInv, CoreReset, FsmStates, Taken

(* A core that is not full takes a word that is presented, a full one      *)
(* takes none, and either way the words it has taken stay in order.        *)
LEMMA CoreStepInv ==
  ASSUME NEW c, NEW vld \in BOOLEAN, NEW dat \in Nat, CoreInv(c)
  PROVE  /\ CoreInv(CoreStep(c, vld, dat))
         /\ Taken(CoreStep(c, vld, dat)) =
              IF vld /\ ~Full(c) THEN Append(Taken(c), dat) ELSE Taken(c)
         /\ ~vld /\ ~Full(c) => CoreStep(c, vld, dat).state = c.state
                             /\ CoreStep(c, vld, dat).counter = c.counter
<1> DEFINE st == StateNext(c.state, c.counter, vld)
           d == CoreStep(c, vld, dat)
<1>0. LoadWords \in Nat \ {0} /\ LoadWords < 255
  BY FsmAssumption
<1>1. /\ c.state \in FsmStates /\ c.chunk \in Seq(Nat) /\ c.H8 \in Seq(Nat)
      /\ Len(c.chunk) \in Nat /\ Len(c.H8) \in Nat
  BY DEF CoreInv
<1>2. /\ d.state = st /\ d.counter = CounterNext(c.state, c.counter, vld)
      /\ d.irq_finish = (c.state = "FINISH")
      /\ d.chunk = IF st = "FINISH" THEN << >>
                   ELSE IF vld /\ st = "LOAD" THEN Append(c.chunk, dat)
                   ELSE c.chunk
      /\ d.H8 = IF st = "FINISH" THEN c.H8 \o c.chunk ELSE c.H8
  BY DEF CoreStep
<1> SUFFICES /\ CoreInv(d)
             /\ Taken(d) = IF vld /\ ~Full(c) THEN Append(Taken(c), dat)
                           ELSE Taken(c)
             /\ ~vld /\ ~Full(c) => d.state = c.state /\ d.counter = c.counter
  OBVIOUS
<1> HIDE DEF d
<1>3. CASE c.state = "IDLE" /\ ~vld
  <2>1. st = "IDLE" /\ d.counter = 0
    BY <1>2, <1>3 DEF StateNext, CounterNext
  <2>2. d.chunk = c.chunk /\ d.H8 = c.H8 /\ d.irq_finish = FALSE
    BY <1>2, <1>3, <2>1
  <2> QED
    BY <1>2, <1>3, <2>1, <2>2 DEF CoreInv, Taken, Full
<1>4. CASE c.state = "IDLE" /\ vld
  <2>1. st = "LOAD" /\ d.counter = 1
    BY <1>2, <1>4 DEF StateNext, CounterNext, PipelineStart, CoreInv
  <2>2. d.chunk = Append(c.chunk, dat) /\ d.H8 = c.H8 /\ d.irq_finish = FALSE
    BY <1>2, <1>4, <2>1
  <2>3. d.chunk \in Seq(Nat) /\ Len(d.chunk) = 1
    BY <2>2, <1>4, <1>1, AppendLen DEF CoreInv
  <2>4. Taken(d) = Append(Taken(c), dat)
    BY <2>2, <1>1, AppendToConcat DEF Taken
  <2>5. CoreInv(d)
    <3>1. d.counter = Len(d.chunk) /\ d.counter \in 1..LoadWords
      BY <1>0, <2>1, <2>3
    <3> QED
      BY <1>1, <1>2, <2>1, <2>2, <2>3, <3>1 DEF CoreInv, FsmStates
  <2> QED
    BY <1>4, <2>4, <2>5 DEF Full
<1>5. CASE c.state = "LOAD" /\ c.counter = LoadWords
  <2>1. st = "PROC"
    BY <1>2, <1>5 DEF StateNext
  <2>2. d.chunk = c.chunk /\ d.H8 = c.H8 /\ d.irq_finish = FALSE
    BY <1>2, <1>5, <2>1
  <2> QED
    BY <1>1, <1>2, <1>5, <2>1, <2>2 DEF CoreInv, Taken, Full, FsmStates
<1>6. CASE c.state = "LOAD" /\ c.counter # LoadWords /\ ~vld
  <2>1. st = "LOAD" /\ d.counter = c.counter
    BY <1>2, <1>6 DEF StateNext, CounterNext, PipelineStart
  <2>2. d.chunk = c.chunk /\ d.H8 = c.H8 /\ d.irq_finish = FALSE
    BY <1>2, <1>6, <2>1
  <2> QED
    BY <1>1, <1>2, <1>6, <2>1, <2>2 DEF CoreInv, Taken, Full, FsmStates
<1>7. CASE c.state = "LOAD" /\ c.counter # LoadWords /\ vld
  <2>1. st = "LOAD" /\ d.counter = c.counter + 1
    <3>1. c.counter \in 1..LoadWords /\ c.counter < LoadWords
      BY <1>7, <1>0 DEF CoreInv
    <3>2. (c.counter + 1) % 256 = c.counter + 1
      BY <3>1, <1>0
    <3> QED
      BY <1>2, <1>7, <3>2 DEF StateNext, CounterNext, PipelineStart
  <2>2. d.chunk = Append(c.chunk, dat) /\ d.H8 = c.H8 /\ d.irq_finish = FALSE
    BY <1>2, <1>7, <2>1
  <2>3. d.chunk \in Seq(Nat) /\ Len(d.chunk) = Len(c.chunk) + 1
    BY <2>2, <1>1, AppendLen
  <2>4. Taken(d) = Append(Taken(c), dat)
    BY <2>2, <1>1, AppendToConcat DEF Taken
  <2>5. CoreInv(d)
    <3>1. d.counter = Len(d.chunk) /\ d.counter \in 1..LoadWords
      BY <1>0, <1>7, <2>1, <2>3 DEF CoreInv
    <3> QED
      BY <1>1, <1>2, <2>1, <2>2, <2>3, <3>1 DEF CoreInv, FsmStates
  <2> QED
    BY <1>7, <2>4, <2>5 DEF Full
<1>8. CASE c.state = "PROC" /\ c.counter # Rounds
  <2>1. st = "PROC"
    BY <1>2, <1>8 DEF StateNext
  <2>2. d.chunk = c.chunk /\ d.H8 = c.H8 /\ d.irq_finish = FALSE
    BY <1>2, <1>8, <2>1
  <2> QED
    BY <1>1, <1>2, <1>8, <2>1, <2>2 DEF CoreInv, Taken, Full, FsmStates
<1>9. CASE c.state = "PROC" /\ c.counter = Rounds
  <2>1. st = "FINISH"
    BY <1>2, <1>9 DEF StateNext
  <2>2. d.chunk = << >> /\ d.H8 = c.H8 \o c.chunk /\ d.irq_finish = FALSE
    BY <1>2, <1>9, <2>1
  <2>3. d.H8 \in Seq(Nat) /\ Len(d.H8) = Len(c.H8) + LoadWords
    <3>1. Len(c.chunk) = LoadWords
      BY <1>9 DEF CoreInv
    <3> QED
      BY <2>2, <1>1, <3>1, ConcatLen
  <2>4. Len(d.H8) % LoadWords = 0
    BY <2>3, <1>0, <1>1, NextMultiple DEF CoreInv
  <2>5. Taken(d) = Taken(c)
    BY <2>2, <2>3, ConcatEmptyNat DEF Taken
  <2>6. << >> \in Seq(Nat)
    OBVIOUS
  <2> QED
    BY <1>1, <1>2, <1>9, <2>1, <2>2, <2>3, <2>4, <2>5, <2>6
    DEF CoreInv, Full, FsmStates
<1>10. CASE c.state = "FINISH"
  <2>1. st = "IDLE" /\ d.counter = 0
    BY <1>2, <1>10 DEF StateNext, CounterNext
  <2>2. d.chunk = c.chunk /\ d.H8 = c.H8 /\ d.irq_finish = TRUE
    BY <1>2, <1>10, <2>1
  <2> QED
    BY <1>1, <1>2, <1>10, <2>1, <2>2 DEF CoreInv, Taken, Full, FsmStates
<1> QED
  BY <1>1, <1>3, <1>4, <1>5, <1>6, <1>7, <1>8, <1>9, <1>10 DEF FsmStates

(* How full the core is: a block is loaded word by word, and once it is    *)
(* full the core stays full until it is idle again.                        *)
LEMMA CoreStepSize ==
  ASSUME NEW c, NEW vld \in BOOLEAN, NEW dat \in Nat, CoreInv(c)
  PROVE  LET d == CoreStep(c, vld, dat)
         IN  /\ ~Full(c) /\ vld => /\ d.state = "LOAD"
                                   /\ Len(d.chunk) = Len(c.chunk) + 1
             /\ ~Full(c) /\ ~vld => d.state = c.state /\ d.chunk = c.chunk
             /\ Full(c) => Full(d) \/ d.state = "IDLE"
             /\ d.irq_finish = (c.state = "FINISH")
<1> DEFINE st == StateNext(c.state, c.counter, vld)
           d == CoreStep(c, vld, dat)
<1>1. /\ c.state \in FsmStates /\ c.chunk \in Seq(Nat)
      /\ d.state = st /\ d.irq_finish = (c.state = "FINISH")
      /\ d.chunk = IF st = "FINISH" THEN << >>
                   ELSE IF vld /\ st = "LOAD" THEN Append(c.chunk, dat)
                   ELSE c.chunk
  BY DEF CoreStep, CoreInv
<1> HIDE DEF d
<1>2. ~Full(c) /\ vld => st = "LOAD"
  BY <1>1 DEF Full, FsmStates, StateNext
<1>3. ~Full(c) /\ ~vld => st = c.state /\ st # "FINISH"
  BY <1>1 DEF Full, FsmStates, StateNext
<1>4. Full(c) => st \in {"PROC", "FINISH", "IDLE"}
  BY <1>1 DEF Full, FsmStates, StateNext
<1> HIDE DEF st
<1>5. ~Full(c) /\ vld => d.state = "LOAD" /\ Len(d.chunk) = Len(c.chunk) + 1
  BY <1>1, <1>2, AppendLen
<1>6. ~Full(c) /\ ~vld => d.state = c.state /\ d.chunk = c.chunk
  BY <1>1, <1>3
<1>7. Full(c) => Full(d) \/ d.state = "IDLE"
  BY <1>1, <1>4 DEF Full
<1> QED
  BY <1>1, <1>5, <1>6, <1>7 DEF d

(* hash_busy_o is high exactly while the core is full. *)
LEMMA BusyMeansFull ==
  ASSUME NEW c, NEW vld \in BOOLEAN, CoreInv(c)
  PROVE  CoreBusy(c, vld) <=> Full(c)
  BY FsmAssumption DEF CoreInv, CoreBusy, Busy, StateNext, Full, FsmStates

-----------------------------------------------------------------------------
(* The bus.                                                                *)

LEMMA BusInit == ASSUME SlaveInit, MasterInit PROVE WriteBus /\ ReadBus
<1>1. WriteBus
  BY DEF SlaveInit, MasterInit, WriteBus
<1>2. ReadBus
  <2>1. reads = 0 /\ reads # 1 /\ reads \in {0, 1}
    BY DEF MasterInit
  <2> QED
    BY <2>1, Zenon DEF SlaveInit, MasterInit, ReadBus
<1> QED
  BY <1>1, <1>2

LEMMA WriteBusStep ==
  ASSUME WriteBus, NEW bready \in BReady, WriteSide(bready)
  PROVE  WriteBus'
<1> USE DEF WriteBus, WriteSide, WriteAddress, WriteData, WriteResponse,
      accept_write, slv_reg_wren
<1>1. CASE \E w : BeginWrite(w)
  BY <1>1 DEF BeginWrite, BReady
<1>2. CASE NoWrite
  BY <1>2 DEF NoWrite, BReady
<1>3. CASE OfferWrite
  BY <1>3 DEF OfferWrite, BReady
<1>4. CASE WriteHandshake
  BY <1>4 DEF WriteHandshake, BReady
<1>5. CASE AwaitResponse(bready)
  BY <1>5 DEF AwaitResponse, BReady
<1> QED
  BY <1>1, <1>2, <1>3, <1>4, <1>5 DEF ContinueWrite

LEMMA ReadBusStep ==
  ASSUME MaxReads = 1, ReadBus, NEW rready \in RReady, ReadSide(rready)
  PROVE  ReadBus'
<1>1. /\ reads \in {0, 1} /\ (axi_rvalid <=> reads = 1)
      /\ arvalid => reads = 0
      /\ axi_arready => arvalid /\ axi_araddr = araddr
      /\ axi_arready \in BOOLEAN /\ axi_rvalid \in BOOLEAN /\ arvalid \in BOOLEAN
  BY DEF ReadBus
<1>2. /\ axi_arready' = (~axi_arready /\ arvalid)
      /\ ~axi_arready /\ arvalid => axi_araddr' = araddr
  BY DEF ReadSide, ReadAddress
<1> DEFINE more == IF arvalid /\ axi_arready THEN 1 ELSE 0
           less == IF axi_rvalid /\ rready THEN 1 ELSE 0
<1>3. /\ reads' = reads + more - less
      /\ axi_rvalid' = IF axi_arready /\ arvalid /\ ~axi_rvalid THEN TRUE
                       ELSE IF axi_rvalid /\ rready THEN FALSE
                       ELSE axi_rvalid
      /\ rready \in BOOLEAN
  BY <1>1, Zenon DEF ReadSide, CountReads, ReadResponse, RReady
<1>4. \/ (~arvalid \/ axi_arready) /\ reads' < 1 /\ arvalid' = TRUE
      \/ arvalid' = (arvalid /\ ~axi_arready) /\ araddr' = araddr
  BY Zenon DEF ReadSide, BeginRead, ContinueRead
<1>5. CASE arvalid /\ axi_arready
  <2>1. more = 1 /\ less = 0 /\ reads = 0
    BY <1>1, <1>5, 0 # 1
  <2>2. reads' = 1 /\ ~(reads' < 1)
    BY <1>3, <2>1
  <2>3. axi_rvalid' = TRUE
    BY <1>1, <1>3, <1>5, <2>1, 0 # 1, Zenon
  <2>4. arvalid' = FALSE /\ axi_arready' = FALSE
    BY <1>2, <1>4, <1>5, <2>2, Zenon DEF ReadSide
  <2> QED
    BY <2>2, <2>3, <2>4, Zenon DEF ReadBus
<1>6. CASE arvalid /\ ~axi_arready
  <2>1. more = 0 /\ less = 0 /\ reads = 0
    BY <1>1, <1>6, 0 # 1
  <2>2. reads' = 0 /\ reads' # 1
    BY <1>3, <2>1
  <2>3. axi_rvalid' = FALSE
    BY <1>1, <1>3, <1>6, <2>1, 0 # 1, Zenon
  <2>4. arvalid' = TRUE /\ araddr' = araddr
    BY <1>4, <1>6, Zenon DEF ReadSide
  <2>5. axi_arready' = TRUE /\ axi_araddr' = araddr
    BY <1>2, <1>6, Zenon
  <2> QED
    BY <2>2, <2>3, <2>4, <2>5, Zenon DEF ReadBus
<1>7. CASE ~arvalid
  <2>1. axi_arready' = FALSE /\ arvalid' \in BOOLEAN
    BY <1>2, <1>4, <1>7, Zenon DEF ReadSide
  <2>2. more = 0
    BY <1>7
  <2>3. CASE axi_rvalid /\ ~rready
    <3>1. less = 0 /\ reads = 1
      BY <1>1, <2>3
    <3>2. reads' = 1 /\ ~(reads' < 1)
      BY <1>3, <2>2, <3>1
    <3>3. axi_rvalid' = TRUE
      BY <1>1, <1>3, <1>7, <2>3, Zenon
    <3>4. arvalid' = FALSE
      BY <1>4, <1>7, <3>2, Zenon DEF ReadSide
    <3> QED
      BY <2>1, <3>2, <3>3, <3>4, Zenon DEF ReadBus
  <2>4. CASE ~axi_rvalid \/ rready
    <3>1. reads = less
      BY <1>1, <2>4
    <3>2. reads' = 0 /\ reads' # 1
      BY <1>3, <2>2, <3>1
    <3>3. axi_rvalid' = FALSE
      BY <1>1, <1>3, <1>7, <2>4, Zenon
    <3> QED
      BY <2>1, <3>2, <3>3, Zenon DEF ReadBus
  <2> QED
    BY <1>1, <1>3, <2>3, <2>4, Zenon
<1> QED
  BY <1>1, <1>5, <1>6, <1>7, Zenon
=============================================================================
