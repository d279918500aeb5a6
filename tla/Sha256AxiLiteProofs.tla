------------------------- MODULE Sha256AxiLiteProofs -------------------------
(***************************************************************************)
(* The AXI4-Lite wrapper, for every block length, number of rounds and     *)
(* message: a driver that waits for the interrupt or for a poll loses no   *)
(* word and reads the hash of what it has written.  The master keeps one   *)
(* read outstanding, as a processor that reads a device register does.     *)
(***************************************************************************)
EXTENDS Sha256AxiLite, AxiLiteProofs

(* A data word is on the bus and not yet with the core. *)
Pending == wphase = "addr" /\ wr.addr = "DATA"

(* Words that may still come before the driver has to wait. *)
Owed == credit + (IF Pending THEN 1 ELSE 0)

(* The core has been reset, and the driver has not seen the response. *)
Discarded == wphase = "resp" /\ IsReset(wr)

Registers ==
  /\ slv_reg0 \in Control
  /\ slv_reg0.reset => Discarded
  /\ wr.word \in Nat /\ wr.ctrl \in Control
  /\ credit \in 0..LoadWords /\ next \in Nat /\ fresh \in BOOLEAN

(* The driver's credit is the room the core has for the block. *)
Account ==
  /\ Discarded => core = CoreReset
  /\ ~Discarded /\ Owed > 0 => ~Full(core) /\ Len(core.chunk) + Owed = LoadWords
  /\ ~Discarded /\ Owed = 0 => Full(core) \/ core.state = "IDLE"
  /\ core.irq_finish => Owed = 0

(* The busy bit is a cycle late and may be overwritten, but not seen while *)
(* it is wrong by a read that started after the last write.                *)
Polled ==
  /\ wphase = "idle" /\ credit = 0 /\ ~slv_reg0.busy => core.state = "IDLE"
  /\ fresh => wphase = "idle" /\ araddr = "CTRL" /\ credit \in {0, LoadWords}
  /\ fresh /\ axi_rvalid /\ ~axi_rdata.busy => core.state = "IDLE"

LiteInv ==
  /\ WriteBus /\ ReadBus /\ CoreInv(core) /\ NoWordLost
  /\ Registers /\ Account /\ Polled

-----------------------------------------------------------------------------
LEMMA LiteInit == ASSUME Init PROVE LiteInv
<1>1. SlaveInit /\ MasterInit /\ core = CoreReset
  BY DEF Init
<1>2. WriteBus /\ ReadBus
  BY <1>1, BusInit
<1>3. CoreInv(core) /\ NoWordLost
  BY <1>1, CoreResetInv DEF NoWordLost, Init
<1>4. Registers
  <2>1. credit \in 0..LoadWords /\ next \in Nat /\ wr.word \in Nat
    BY FsmAssumption DEF Init, MasterInit
  <2>2. slv_reg0 = ControlReset /\ wr.ctrl = ControlReset /\ fresh = FALSE
    BY DEF Init, SlaveInit, MasterInit
  <2>3. ControlReset \in Control /\ ~ControlReset.reset
    BY DEF Control, ControlReset
  <2> QED
    BY <2>1, <2>2, <2>3 DEF Registers
<1>5. wphase = "idle" /\ ~Pending /\ ~Discarded /\ credit = LoadWords
  BY DEF Init, MasterInit, Pending, Discarded
<1>6. Owed = LoadWords
  BY <1>5, FsmAssumption DEF Owed
<1>7. Account
  BY <1>1, <1>5, <1>6, FsmAssumption DEF Account, CoreReset, Full
<1>8. Polled
  BY <1>1, <1>5, FsmAssumption DEF Polled, Init, CoreReset
<1> QED
  BY <1>2, <1>3, <1>4, <1>7, <1>8 DEF LiteInv

(* What a clock edge does with the write on the bus. *)
LEMMA Edge ==
  ASSUME LiteInv, NEW bready \in BReady, NEW rready \in RReady,
         Tick(bready, rready)
  PROVE  /\ slv_reg_wren <=> wphase = "addr" /\ axi_awready
         /\ dat_vaild_i <=> slv_reg_wren /\ wr.addr = "DATA"
         /\ slv_reg0'.reset <=> slv_reg_wren /\ IsReset(wr)
         /\ slv_reg0' \in Control
         /\ ~slv_reg_wren => slv_reg0'.busy = Full(core)
         /\ dat_vaild_i \in BOOLEAN
<1>1. WriteBus /\ slv_reg0 \in Control /\ wr.ctrl \in Control
      /\ (slv_reg0.reset => wphase = "resp")
  BY DEF LiteInv, Registers, Discarded
<1>2. slv_reg_wren <=> wphase = "addr" /\ axi_awready
  BY <1>1 DEF WriteBus, slv_reg_wren
<1>3. dat_vaild_i <=> slv_reg_wren /\ wr.addr = "DATA"
  BY <1>1, <1>2 DEF WriteBus, dat_vaild_i
<1>4. dat_vaild_i \in BOOLEAN
  BY <1>1 DEF WriteBus, dat_vaild_i, slv_reg_wren
<1>5. hash_busy_o = Full(core) /\ hash_busy_o \in BOOLEAN
  <2>1. hash_busy_o <=> Full(core)
    BY <1>4, BusyMeansFull DEF LiteInv, hash_busy_o
  <2>2. hash_busy_o \in BOOLEAN /\ Full(core) \in BOOLEAN
    BY DEF hash_busy_o, CoreBusy, Busy, Full
  <2> QED
    BY <2>1, <2>2
<1>6. slv_reg0' = IF slv_reg_wren /\ axi_awaddr = "CTRL" THEN ControlWrite
                  ELSE slv_reg0_nxt(hash_busy_o)
  BY DEF Tick, SlaveStep, ControlRegister
<1>7. CASE slv_reg_wren /\ axi_awaddr = "CTRL"
  <2>1. wr.addr = "CTRL" /\ slv_reg0.reset = FALSE
    BY <1>1, <1>2, <1>7 DEF WriteBus, Control
  <2>2. slv_reg0' = ControlWrite /\ ControlWrite \in Control
    BY <1>1, <1>6, <1>7 DEF ControlWrite, Control
  <2>3. slv_reg0'.reset <=> IsReset(wr)
    BY <2>1, <2>2 DEF ControlWrite, IsReset
  <2> QED
    BY <1>2, <1>3, <1>4, <1>7, <2>2, <2>3
<1>8. CASE ~(slv_reg_wren /\ axi_awaddr = "CTRL")
  <2>1. slv_reg0' = slv_reg0_nxt(hash_busy_o)
    BY <1>6, <1>8
  <2>2. slv_reg0' \in Control /\ ~slv_reg0'.reset /\ slv_reg0'.busy = Full(core)
    BY <2>1, <1>1, <1>5 DEF slv_reg0_nxt, Control
  <2>3. slv_reg_wren => wr.addr # "CTRL"
    BY <1>1, <1>2, <1>8 DEF WriteBus
  <2> QED
    BY <1>2, <1>3, <1>4, <2>2, <2>3 DEF IsReset
<1> QED
  BY <1>7, <1>8

(* The edges at which the core is held in reset. *)
LEMMA ResetEdge ==
  ASSUME LiteInv, NEW bready \in BReady, NEW rready \in RReady,
         Tick(bready, rready), slv_reg0.reset \/ slv_reg0'.reset
  PROVE  core' = CoreReset /\ sent' = << >> /\ CoreInv(core)' /\ NoWordLost'
  BY CoreResetInv DEF Tick, CoreEdge, NoWordLost

LEMMA WorkEdge ==
  ASSUME LiteInv, NEW bready \in BReady, NEW rready \in RReady,
         Tick(bready, rready), ~(slv_reg0.reset \/ slv_reg0'.reset)
  PROVE  /\ core' = CoreStep(core, dat_vaild_i, wr.word)
         /\ sent' = IF dat_vaild_i THEN Append(sent, wr.word) ELSE sent
  BY DEF Tick, CoreEdge

(* The write alternatives of a clock edge. *)
LEMMA WriteAlternatives ==
  ASSUME NEW bready, NEW rready, Tick(bready, rready)
  PROVE  \/ /\ credit > 0 /\ BeginWrite(DataWrite)
            /\ credit' = credit - 1 /\ next' = next + 1 /\ fresh' = FALSE
         \/ /\ \E w \in ControlWrites : BeginWrite(w)
            /\ Credit(bready, rready) /\ fresh' = FALSE
         \/ NoWrite /\ Credit(bready, rready)
         \/ OfferWrite /\ Credit(bready, rready)
         \/ WriteHandshake /\ Credit(bready, rready)
         \/ AwaitResponse(bready) /\ Credit(bready, rready)
  BY DEF Tick, StartWrite, NoNewWrite, ContinueWrite

(* Types of what the driver and the bus hold after an edge. *)
LEMMA RegistersStep ==
  ASSUME LiteInv, NEW bready \in BReady, NEW rready \in RReady,
         Tick(bready, rready)
  PROVE  Registers'
<1>1. Registers /\ WriteBus
  BY DEF LiteInv
<1>2. slv_reg0' \in Control
  BY Edge
<1>3. ControlReset \in Control
  BY DEF ControlReset, Control
<1>4. wr'.word \in Nat /\ wr'.ctrl \in Control
  <2>1. CASE UNCHANGED wr
    BY <2>1, <1>1 DEF Registers
  <2>2. CASE wr' = DataWrite
    BY <2>2, <1>1, <1>3 DEF Registers, DataWrite, Write
  <2>3. CASE wr' \in ControlWrites
    BY <2>3, <1>3 DEF ControlWrites, Write
  <2> QED
    BY <2>1, <2>2, <2>3, WriteAlternatives DEF BeginWrite, NoWrite, OfferWrite,
      WriteHandshake, AwaitResponse
<1>5. credit' \in 0..LoadWords /\ next' \in Nat
  <2>1. CASE Credit(bready, rready)
    BY <2>1, <1>1, FsmAssumption DEF Credit, Registers
  <2>2. CASE credit > 0 /\ credit' = credit - 1 /\ next' = next + 1
    BY <2>2, <1>1, FsmAssumption DEF Registers
  <2> QED
    BY <2>1, <2>2, WriteAlternatives
<1>6. fresh' \in BOOLEAN
  BY <1>1 DEF Tick, StartWrite, StartRead, NoNewRead, Registers
<1>7. slv_reg0'.reset => Discarded'
  <2>1. SUFFICES ASSUME slv_reg0'.reset PROVE Discarded'
    OBVIOUS
  <2>2. slv_reg_wren /\ IsReset(wr) /\ wphase = "addr"
    BY <2>1, Edge
  <2>3. WriteHandshake
    BY <2>2, WriteAlternatives DEF BeginWrite, NoWrite, OfferWrite, AwaitResponse
  <2>4. wphase' = "resp" /\ wr' = wr
    BY <2>3 DEF WriteHandshake
  <2> QED
    BY <2>2, <2>4 DEF Discarded, IsReset
<1> QED
  BY <1>2, <1>4, <1>5, <1>6, <1>7 DEF Registers

(* When the driver gets new credit the core is idle and expects no word.   *)
LEMMA CreditWhenIdle ==
  ASSUME LiteInv, NEW rready, credit = 0,
         irq_hash_finish \/ PollSaysIdle(rready)
  PROVE  ~Pending /\ core.state = "IDLE" /\ Owed = 0
<1>1. credit \in 0..LoadWords
  BY DEF LiteInv, Registers
<1>2. CASE irq_hash_finish
  <2>1. core.irq_finish /\ core.state = "IDLE"
    BY <1>2 DEF irq_hash_finish, LiteInv, CoreInv
  <2>2. Owed = 0
    BY <2>1 DEF LiteInv, Account
  <2> QED
    BY <2>1, <2>2 DEF Owed
<1>3. CASE PollSaysIdle(rready)
  <2>1. wphase = "idle" /\ core.state = "IDLE"
    BY <1>3 DEF PollSaysIdle, LiteInv, Polled
  <2> QED
    BY <2>1 DEF Pending, Owed
<1> QED
  BY <1>2, <1>3

(* How the words owed change at an edge. *)
LEMMA OwedStep ==
  ASSUME LiteInv, NEW bready \in BReady, NEW rready \in RReady,
         Tick(bready, rready), ~Discarded
  PROVE  \/ ~dat_vaild_i /\ Owed' = Owed
         \/ ~dat_vaild_i /\ Owed = 0 /\ core.state = "IDLE" /\ Owed' = LoadWords
         \/ dat_vaild_i /\ Owed > 0 /\ Owed' = Owed - 1
<1>1. credit \in 0..LoadWords /\ LoadWords \in Nat \ {0} /\ WriteBus
  BY FsmAssumption DEF LiteInv, Registers
<1>2. dat_vaild_i => Pending
  BY Edge DEF Pending
<1>3. ASSUME Credit(bready, rready)
      PROVE  \/ credit' = credit
             \/ ~Pending /\ core.state = "IDLE" /\ credit = 0 /\ credit' = LoadWords
  <2>1. ~(axi_bvalid /\ bready /\ IsReset(wr))
    BY <1>1 DEF WriteBus, Discarded
  <2> QED
    BY <1>3, <2>1, CreditWhenIdle DEF Credit
<1>4. CASE credit > 0 /\ BeginWrite(DataWrite) /\ credit' = credit - 1
  <2>1. ~Pending /\ Pending'
    BY <1>4 DEF BeginWrite, Pending, DataWrite, Write
  <2>2. Owed = credit /\ Owed' = credit - 1 + 1
    BY <1>1, <1>4, <2>1 DEF Owed
  <2> QED
    BY <1>1, <1>2, <2>1, <2>2
<1>5. CASE WriteHandshake /\ Pending /\ Credit(bready, rready)
  <2>1. dat_vaild_i /\ ~Pending' /\ credit' = credit
    BY <1>5, <1>3, Edge DEF WriteHandshake, Pending
  <2> QED
    BY <1>1, <1>5, <2>1 DEF Owed
<1>6. CASE Pending' = Pending /\ Credit(bready, rready) /\ ~dat_vaild_i
  BY <1>1, <1>3, <1>6 DEF Owed
<1>7. CASE (\E w \in ControlWrites : BeginWrite(w)) /\ Credit(bready, rready)
  <2>1. ~Pending /\ ~Pending'
    BY <1>7 DEF BeginWrite, Pending, ControlWrites, Write
  <2> QED
    BY <1>2, <1>6, <1>7, <2>1 DEF Pending
<1>8. CASE NoWrite \/ AwaitResponse(bready)
  <2>1. ~Pending /\ ~Pending'
    BY <1>8 DEF NoWrite, AwaitResponse, Pending
  <2>2. Credit(bready, rready)
    BY <1>8, WriteAlternatives DEF NoWrite, AwaitResponse, BeginWrite
  <2> QED
    BY <1>2, <1>6, <2>1, <2>2 DEF Pending
<1>9. CASE OfferWrite /\ Credit(bready, rready)
  <2>1. ~dat_vaild_i /\ UNCHANGED <<wphase, wr>>
    BY <1>9, Edge DEF OfferWrite
  <2> QED
    BY <1>6, <1>9, <2>1 DEF Pending
<1>10. CASE WriteHandshake /\ ~Pending /\ Credit(bready, rready)
  <2>1. ~dat_vaild_i /\ ~Pending'
    BY <1>10, <1>2 DEF WriteHandshake, Pending
  <2> QED
    BY <1>6, <1>10, <2>1 DEF Pending
<1> QED
  BY <1>4, <1>5, <1>7, <1>8, <1>9, <1>10, WriteAlternatives

(* A word is presented only to a core that takes it. *)
LEMMA CoreAndWords ==
  ASSUME LiteInv, NEW bready \in BReady, NEW rready \in RReady,
         Tick(bready, rready)
  PROVE  CoreInv(core)' /\ NoWordLost'
<1>1. CASE slv_reg0.reset \/ slv_reg0'.reset
  BY <1>1, ResetEdge
<1>2. CASE ~(slv_reg0.reset \/ slv_reg0'.reset)
  <2>1. /\ core' = CoreStep(core, dat_vaild_i, wr.word)
        /\ sent' = IF dat_vaild_i THEN Append(sent, wr.word) ELSE sent
    BY <1>2, WorkEdge
  <2>2. dat_vaild_i \in BOOLEAN /\ wr.word \in Nat /\ CoreInv(core)
    BY Edge DEF LiteInv, Registers
  <2>3. dat_vaild_i => ~Full(core)
    <3>1. SUFFICES ASSUME dat_vaild_i PROVE ~Full(core)
      OBVIOUS
    <3>2. Pending /\ ~Discarded
      BY <3>1, Edge DEF Pending, Discarded
    <3>3. Owed > 0
      BY <3>2 DEF Owed, LiteInv, Registers
    <3> QED
      BY <3>2, <3>3 DEF LiteInv, Account
  <2> QED
    BY <2>1, <2>2, <2>3, CoreStepInv DEF LiteInv, NoWordLost
<1> QED
  BY <1>1, <1>2

LEMMA AccountStep ==
  ASSUME LiteInv, NEW bready \in BReady, NEW rready \in RReady,
         Tick(bready, rready)
  PROVE  Account'
<1>1. /\ dat_vaild_i \in BOOLEAN /\ wr.word \in Nat /\ CoreInv(core)
      /\ LoadWords \in Nat \ {0} /\ credit \in 0..LoadWords
      /\ credit' \in 0..LoadWords /\ CoreInv(core')
  BY Edge, RegistersStep, CoreAndWords, FsmAssumption DEF LiteInv, Registers
<1>2. Owed \in Nat /\ Owed' \in Nat
  <2>1. credit \in Nat /\ credit' \in Nat
    BY <1>1
  <2>2. Owed = credit + 1 \/ Owed = credit + 0
    BY Zenon DEF Owed
  <2>3. Owed' = credit' + 1 \/ Owed' = credit' + 0
    BY Zenon DEF Owed
  <2> QED
    BY <2>1, <2>2, <2>3
<1>3. CASE Discarded
  <2>1. core = CoreReset /\ ~dat_vaild_i
    BY <1>3, Edge DEF LiteInv, Account, Discarded
  <2>2. core' = CoreReset
    <3>1. CASE slv_reg0.reset \/ slv_reg0'.reset
      BY <3>1, ResetEdge
    <3>2. CASE ~(slv_reg0.reset \/ slv_reg0'.reset)
      <4>1. core' = CoreStep(CoreReset, FALSE, wr.word)
        BY <1>1, <2>1, <3>2, WorkEdge
      <4> QED
        BY <4>1 DEF CoreStep, CoreReset, StateNext, CounterNext
    <3> QED
      BY <3>1, <3>2
  <2>3. AwaitResponse(bready) /\ Credit(bready, rready)
    BY <1>3, WriteAlternatives DEF Discarded, BeginWrite, NoWrite, OfferWrite,
      WriteHandshake
  <2>4. ~Discarded' => axi_bvalid /\ bready
    BY <1>3, <2>3 DEF AwaitResponse, Discarded, IsReset
  <2>5. ~Discarded' => credit' = LoadWords /\ wphase' = "idle"
    BY <1>3, <2>3, <2>4 DEF Credit, AwaitResponse, Discarded
  <2>6. ~Discarded' => Owed' = LoadWords
    <3>1. wphase' = "idle" => ~Pending'
      BY DEF Pending
    <3> QED
      BY <1>1, <2>5, <3>1 DEF Owed
  <2>7. ~Full(core') /\ Len(core'.chunk) = 0 /\ ~core'.irq_finish
    BY <2>2 DEF CoreReset, Full
  <2> QED
    BY <1>1, <2>2, <2>6, <2>7 DEF Account
<1>4. CASE ~Discarded /\ Discarded'
  <2>1. wphase = "addr" /\ slv_reg_wren /\ IsReset(wr)
    BY <1>4, WriteAlternatives DEF Discarded, BeginWrite, NoWrite, OfferWrite,
      WriteHandshake, AwaitResponse, IsReset
  <2>2. core' = CoreReset
    BY <2>1, Edge, ResetEdge
  <2> QED
    BY <1>4, <2>2 DEF Account, CoreReset
<1>5. CASE ~Discarded /\ ~Discarded'
  <2>1. ~(slv_reg0.reset \/ slv_reg0'.reset)
    BY <1>5, RegistersStep DEF LiteInv, Registers
  <2>2. core' = CoreStep(core, dat_vaild_i, wr.word)
    BY <2>1, WorkEdge
  <2>3. /\ ~Full(core) /\ dat_vaild_i => /\ core'.state = "LOAD"
                                     /\ Len(core'.chunk) = Len(core.chunk) + 1
        /\ ~Full(core) /\ ~dat_vaild_i => /\ core'.state = core.state
                                         /\ core'.chunk = core.chunk
        /\ Full(core) => Full(core') \/ core'.state = "IDLE"
        /\ core'.irq_finish = (core.state = "FINISH")
    BY <1>1, <2>2, CoreStepSize
  <2>4. /\ Owed > 0 => ~Full(core) /\ Len(core.chunk) + Owed = LoadWords
        /\ Owed = 0 => Full(core) \/ core.state = "IDLE"
    BY <1>5 DEF LiteInv, Account
  <2>5. core.state = "IDLE" => Len(core.chunk) = 0 /\ ~Full(core)
    BY <1>1 DEF CoreInv, Full
  <2>6. /\ core.chunk \in Seq(Nat) /\ Len(core.chunk) \in Nat
        /\ core'.chunk \in Seq(Nat) /\ Len(core'.chunk) \in Nat
    BY <1>1 DEF CoreInv
  <2>7. core'.state \in {"IDLE", "LOAD"} /\ Len(core'.chunk) < LoadWords
          => ~Full(core')
    BY <1>1, <2>6 DEF CoreInv, Full
  <2>8. core'.state = "LOAD" /\ Len(core'.chunk) = LoadWords => Full(core')
    BY <1>1 DEF CoreInv, Full
  <2>9. ~Full(core) => core.state \in {"IDLE", "LOAD"}
    BY <1>1 DEF CoreInv, FsmStates, Full
  <2>10. CASE ~dat_vaild_i /\ Owed' = Owed
    <3>1. CASE Owed > 0
      <4>1. ~Full(core) /\ core'.state = core.state /\ core'.chunk = core.chunk
        BY <2>3, <2>4, <2>10, <3>1
      <4>2. Len(core'.chunk) + Owed' = LoadWords
        BY <2>4, <2>10, <3>1, <4>1
      <4>3. ~Full(core')
        BY <1>1, <1>2, <2>6, <2>7, <2>9, <2>10, <3>1, <4>1, <4>2
      <4>4. ~core'.irq_finish
        BY <2>3, <4>1 DEF Full
      <4> QED
        BY <1>2, <1>5, <2>10, <3>1, <4>2, <4>3, <4>4 DEF Account
    <3>2. CASE Owed = 0
      <4>1. Full(core') \/ core'.state = "IDLE"
        BY <2>3, <2>4, <2>5, <2>10, <3>2
      <4> QED
        BY <1>2, <1>5, <2>10, <3>2, <4>1 DEF Account
    <3> QED
      BY <1>2, <3>1, <3>2
  <2>11. CASE /\ ~dat_vaild_i /\ Owed = 0
              /\ core.state = "IDLE" /\ Owed' = LoadWords
    <3>1. core'.state = "IDLE" /\ Len(core'.chunk) = 0 /\ ~core'.irq_finish
      BY <2>3, <2>5, <2>11
    <3>2. ~Full(core')
      BY <3>1 DEF Full
    <3> QED
      BY <1>1, <1>5, <2>11, <3>1, <3>2 DEF Account
  <2>12. CASE dat_vaild_i /\ Owed > 0 /\ Owed' = Owed - 1
    <3>1. /\ ~Full(core) /\ core'.state = "LOAD"
          /\ Len(core'.chunk) = Len(core.chunk) + 1
      BY <2>3, <2>4, <2>12
    <3>2. Len(core'.chunk) + Owed' = LoadWords
      BY <1>2, <2>4, <2>6, <2>12, <3>1
    <3>3. Owed' > 0 => ~Full(core')
      BY <1>1, <1>2, <2>6, <2>7, <3>1, <3>2
    <3>4. Owed' = 0 => Full(core')
      BY <1>1, <2>6, <2>8, <3>1, <3>2
    <3>5. ~core'.irq_finish
      BY <2>3, <3>1 DEF Full
    <3> QED
      BY <1>5, <3>2, <3>3, <3>4, <3>5 DEF Account
  <2> QED
    BY <1>5, <2>10, <2>11, <2>12, OwedStep
<1> QED
  BY <1>3, <1>4, <1>5

LEMMA PolledStep ==
  ASSUME LiteInv, NEW bready \in BReady, NEW rready \in RReady,
         Tick(bready, rready), ReadBus', MaxReads = 1
  PROVE  Polled'
<1>1. /\ Polled /\ Registers /\ CoreInv(core) /\ LoadWords \in Nat \ {0}
      /\ credit \in 0..LoadWords /\ wr.word \in Nat /\ fresh \in BOOLEAN
      /\ dat_vaild_i \in BOOLEAN
  BY Edge, FsmAssumption DEF LiteInv, Registers
(* Nothing enters an idle core while the write channel is idle or waiting. *)
<1>2. ASSUME wphase # "addr", core.state = "IDLE" PROVE core'.state = "IDLE"
  <2>1. CASE slv_reg0.reset \/ slv_reg0'.reset
    BY <2>1, ResetEdge DEF CoreReset
  <2>2. CASE ~(slv_reg0.reset \/ slv_reg0'.reset)
    <3>1. core' = CoreStep(core, dat_vaild_i, wr.word) /\ ~dat_vaild_i
      BY <1>2, <2>2, WorkEdge, Edge
    <3> QED
      BY <1>1, <1>2, <3>1, CoreStepSize DEF Full
  <2> QED
    BY <2>1, <2>2
<1>3. ASSUME wphase' = "idle", credit' = 0, ~slv_reg0'.busy
      PROVE  core'.state = "IDLE"
  <2>1. NoWrite \/ AwaitResponse(bready)
    BY <1>3, WriteAlternatives DEF BeginWrite, OfferWrite, WriteHandshake
  <2>2. /\ wphase # "addr" /\ ~Pending /\ ~Pending'
        /\ Credit(bready, rready)
    BY <2>1, WriteAlternatives DEF NoWrite, AwaitResponse, BeginWrite, Pending
  <2>3. ~Full(core)
    <3>1. slv_reg0'.busy = Full(core)
      BY <2>2, Edge
    <3> QED
      BY <1>3, <3>1
  <2>4. ~Discarded
    <3>1. SUFFICES ASSUME Discarded PROVE FALSE
      OBVIOUS
    <3>2. axi_bvalid /\ bready /\ IsReset(wr)
      BY <1>3, <2>1, <3>1 DEF Discarded, NoWrite, AwaitResponse
    <3> QED
      BY <1>1, <1>3, <2>2, <3>2 DEF Credit
  <2>5. Owed' = 0
    BY <1>3, <2>2 DEF Owed
  <2>6. ~dat_vaild_i
    BY <2>2, Edge
  <2>7. Owed = 0 \/ core.state = "IDLE"
    BY <1>1, <2>4, <2>5, <2>6, OwedStep
  <2>8. core.state = "IDLE"
    BY <2>3, <2>4, <2>7 DEF LiteInv, Account
  <2> QED
    BY <1>2, <2>2, <2>8
<1>4. CASE StartWrite(bready, rready)
  <2>1. fresh' = FALSE
    BY <1>4 DEF StartWrite
  <2> QED
    BY <1>3, <2>1 DEF Polled
<1>5. ASSUME NoNewWrite(bready, rready), wphase = "idle", credit \in {0, LoadWords}
      PROVE  wphase' = "idle" /\ credit' \in {0, LoadWords}
  <2>1. NoWrite /\ Credit(bready, rready)
    BY <1>5 DEF NoNewWrite, ContinueWrite, NoWrite, OfferWrite, WriteHandshake,
      AwaitResponse
  <2> QED
    BY <1>5, <2>1 DEF NoWrite, Credit
<1>6. CASE NoNewWrite(bready, rready) /\ StartRead
  <2>1. PICK a \in {"CTRL", "HASH"} :
          /\ BeginRead(a)
          /\ fresh' = (a = "CTRL" /\ credit = 0 /\ wphase = "idle")
    BY <1>6 DEF StartRead
  <2>2. fresh' => wphase' = "idle" /\ araddr' = "CTRL" /\ credit' \in {0, LoadWords}
    BY <1>5, <1>6, <2>1 DEF BeginRead
  <2>3. ~axi_rvalid'
    <3>1. reads' < 1 /\ (axi_rvalid' <=> reads' = 1)
      BY <2>1 DEF BeginRead, ReadBus
    <3>2. reads' # 1
      BY <3>1
    <3> QED
      BY <3>1, <3>2
  <2> QED
    BY <1>3, <2>2, <2>3 DEF Polled
<1>7. CASE NoNewWrite(bready, rready) /\ NoNewRead(rready)
  <2>1. fresh' => fresh
    BY <1>7 DEF NoNewRead
  <2>2. fresh => wphase = "idle" /\ araddr = "CTRL" /\ credit \in {0, LoadWords}
    BY <1>1 DEF Polled
  <2>3. fresh' => wphase' = "idle" /\ araddr' = "CTRL" /\ credit' \in {0, LoadWords}
    BY <1>5, <1>7, <2>1, <2>2 DEF NoNewRead, ContinueRead
  <2>4. ASSUME fresh', axi_rvalid', ~axi_rdata'.busy PROVE core'.state = "IDLE"
    <3>1. fresh /\ wphase = "idle" /\ credit \in {0, LoadWords} /\ araddr = "CTRL"
      BY <2>1, <2>2, <2>4
    <3>2. CASE slv_reg_rden
      <4>1. axi_rdata' = slv_reg0
        BY <3>1, <3>2 DEF Tick, SlaveStep, ReadData, reg_data_out, slv_reg_rden,
          LiteInv, ReadBus
      <4>2. CASE credit = 0
        BY <1>1, <1>2, <2>4, <3>1, <4>1, <4>2 DEF Polled
      <4>3. CASE credit = LoadWords
        <5>1. ~Pending /\ ~Discarded
          BY <3>1 DEF Pending, Discarded
        <5>2. Owed = LoadWords
          BY <1>1, <4>3, <5>1 DEF Owed
        <5>3. ~Full(core) /\ Len(core.chunk) + LoadWords = LoadWords
          BY <1>1, <5>1, <5>2 DEF LiteInv, Account
        <5>4. core.state = "IDLE"
          BY <1>1, <5>3 DEF CoreInv, Full, FsmStates
        <5> QED
          BY <1>2, <3>1, <5>4
      <4> QED
        BY <3>1, <4>2, <4>3
    <3>3. CASE ~slv_reg_rden
      <4>1. axi_rdata' = axi_rdata /\ axi_rvalid
        BY <2>4, <3>3 DEF Tick, SlaveStep, ReadData, ReadResponse, slv_reg_rden
      <4> QED
        BY <1>1, <1>2, <2>4, <3>1, <4>1 DEF Polled
    <3> QED
      BY <3>2, <3>3
  <2> QED
    BY <1>3, <2>3, <2>4 DEF Polled
<1> QED
  BY <1>4, <1>6, <1>7 DEF Tick

LEMMA LiteStep ==
  ASSUME MaxReads = 1, LiteInv, [Next]_vars PROVE LiteInv'
<1>1. CASE Next
  <2>1. PICK bready \in BReady, rready \in RReady : Tick(bready, rready)
    BY <1>1 DEF Next
  <2>2. WriteSide(bready)
    BY <2>1 DEF Tick, SlaveStep, WriteSide, StartWrite, NoNewWrite
  <2>3. ReadSide(rready)
    BY <2>1 DEF Tick, SlaveStep, ReadSide, StartRead, NoNewRead
  <2>4. WriteBus' /\ ReadBus'
    BY <2>2, <2>3, WriteBusStep, ReadBusStep DEF LiteInv
  <2>5. CoreInv(core)' /\ NoWordLost' /\ Registers' /\ Account'
    BY <2>1, CoreAndWords, RegistersStep, AccountStep
  <2>6. Polled'
    BY <2>1, <2>4, PolledStep
  <2> QED
    BY <2>4, <2>5, <2>6 DEF LiteInv
<1>2. CASE UNCHANGED vars
  <2> USE <1>2 DEF vars, writeVars, readVars, busVars, masterVars, driverVars
  <2>1. UNCHANGED WriteBus /\ UNCHANGED ReadBus
    BY DEF WriteBus, ReadBus
  <2>2. CoreInv(core)' = CoreInv(core) /\ UNCHANGED NoWordLost
    BY DEF CoreInv, NoWordLost, Taken
  <2>3. UNCHANGED <<Pending, Discarded, Full(core)>>
    BY DEF Pending, Discarded, IsReset, Full
  <2>4. UNCHANGED Owed
    BY <2>3 DEF Owed
  <2>5. UNCHANGED Registers /\ UNCHANGED Account /\ UNCHANGED Polled
    BY <2>3, <2>4 DEF Registers, Account, Polled
  <2> QED
    BY <2>1, <2>2, <2>5 DEF LiteInv
<1> QED
  BY <1>1, <1>2

-----------------------------------------------------------------------------
(* The core takes every word the slave has accepted, once and in order.    *)
THEOREM LiteLosesNoWord ==
  ASSUME MaxReads = 1 PROVE Spec => []NoWordLost
<1>1. LiteInv => NoWordLost
  BY DEF LiteInv
<1> QED
  BY <1>1, LiteInit, LiteStep, PTL DEF Spec

(* Once the driver knows that the core is idle the hash registers hold the *)
(* hash of every word accepted.                                            *)
THEOREM HashReadyWhenIdle ==
  ASSUME MaxReads = 1 PROVE Spec => []HashReady
<1>1. LiteInv => HashReady
  <2>1. SUFFICES ASSUME LiteInv, credit = LoadWords, wphase = "idle"
                 PROVE  core.H8 = sent
    BY DEF HashReady
  <2>2. ~Pending /\ ~Discarded /\ LoadWords \in Nat \ {0} /\ CoreInv(core)
    BY <2>1, FsmAssumption DEF Pending, Discarded, LiteInv
  <2>3. Owed = LoadWords
    BY <2>1, <2>2 DEF Owed
  <2>4. ~Full(core) /\ Len(core.chunk) + LoadWords = LoadWords
    BY <2>1, <2>2, <2>3 DEF LiteInv, Account
  <2>5. core.chunk = << >>
    BY <2>2, <2>4 DEF CoreInv, Full, FsmStates
  <2> QED
    BY <2>1, <2>2, <2>5, ConcatEmptyNat DEF LiteInv, NoWordLost, Taken, CoreInv
<1> QED
  BY <1>1, LiteInit, LiteStep, PTL DEF Spec

(* BVALID and RVALID are up exactly while a response is owed.              *)
THEOREM LiteResponsesMatch ==
  ASSUME MaxReads = 1 PROVE Spec => []ResponsesMatch
<1>1. LiteInv => ResponsesMatch
  <2>1. SUFFICES ASSUME LiteInv PROVE ResponsesMatch
    OBVIOUS
  <2>2. axi_bvalid <=> wphase = "resp"
    BY <2>1 DEF LiteInv, WriteBus
  <2>3. reads \in {0, 1} /\ (axi_rvalid <=> reads = 1)
    BY <2>1 DEF LiteInv, ReadBus
  <2>4. reads > 0 <=> reads = 1
    BY <2>3
  <2> QED
    BY <2>2, <2>3, <2>4 DEF ResponsesMatch
<1> QED
  BY <1>1, LiteInit, LiteStep, PTL DEF Spec
=============================================================================
