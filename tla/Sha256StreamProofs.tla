------------------------- MODULE Sha256StreamProofs --------------------------
(***************************************************************************)
(* The stream wrapper, for every block length, number of rounds and        *)
(* message: it loses, repeats and reorders no word, and a poll made after  *)
(* the message can be believed.                                            *)
(***************************************************************************)
EXTENDS Sha256Stream, AxiLiteProofs

(* NoWordLost is inductive once the registers it reads agree.              *)
StreamInv ==
  /\ CoreInv(core)
  /\ tvalid \in BOOLEAN
  /\ tdata \in Nat
  /\ NoWordLost

(* The control register, and the reset bit that is up for one cycle.       *)
StatusInv ==
  /\ slv_reg0 \in Control /\ wr.ctrl \in Control
  /\ slv_reg0.reset => wphase = "resp"

(* The poll under way was issued after the message, and the message is not *)
(* restarted meanwhile; when the slave samples the busy bit for it, the    *)
(* bit shows a core that has got every word.                               *)
PollInv ==
  /\ fresh \in BOOLEAN
  /\ fresh => /\ wphase = "idle" /\ araddr = "CTRL"
              /\ ~tvalid /\ tdata > MaxWords
              /\ axi_arready /\ ~slv_reg0.busy => ~Full(core)
              /\ axi_rvalid /\ ~axi_rdata.busy => ~Full(core)

PollingInv == StreamInv /\ WriteBus /\ ReadBus /\ StatusInv /\ PollInv

-----------------------------------------------------------------------------
(* The two sides of a handshake agree: TREADY is high exactly when the     *)
(* core would take the word.                                               *)
LEMMA ReadyMeansTaken ==
  ASSUME CoreInv(core), tvalid \in BOOLEAN
  PROVE  tready <=> ~Full(core)
  BY BusyMeansFull DEF tready, hash_busy_o

LEMMA StreamInit == ASSUME Init PROVE StreamInv
<1>1. core = CoreReset /\ tvalid = FALSE /\ tdata = 1 /\ sent = << >>
  BY DEF Init
<1> QED
  BY <1>1, CoreResetInv DEF StreamInv, NoWordLost

LEMMA SourceTyped ==
  ASSUME StreamInv, Source
  PROVE  tvalid' \in BOOLEAN /\ tdata' \in Nat
  BY DEF StreamInv, Source

LEMMA StreamTick ==
  ASSUME StreamInv, NEW bready, NEW rready, Tick(bready, rready)
  PROVE  StreamInv'
<1>1. tvalid' \in BOOLEAN /\ tdata' \in Nat
  BY SourceTyped DEF Tick
<1>2. CASE slv_reg0.reset \/ slv_reg0'.reset
  <2>1. core' = CoreReset /\ sent' = << >>
    BY <1>2 DEF Tick, CoreEdge
  <2> QED
    BY <1>1, <2>1, CoreResetInv DEF StreamInv, NoWordLost
<1>3. CASE ~(slv_reg0.reset \/ slv_reg0'.reset)
  <2>1. /\ core' = CoreStep(core, tvalid, tdata)
        /\ sent' = IF tvalid /\ tready THEN Append(sent, tdata) ELSE sent
    BY <1>3 DEF Tick, CoreEdge
  <2>2. CoreInv(core) /\ tvalid \in BOOLEAN /\ tdata \in Nat /\ Taken(core) = sent
    BY DEF StreamInv, NoWordLost
  <2>3. CoreInv(core')
    BY <2>1, <2>2, CoreStepInv
  <2>4. Taken(core') = sent'
    BY <2>1, <2>2, CoreStepInv, ReadyMeansTaken
  <2> QED
    BY <1>1, <2>3, <2>4 DEF StreamInv, NoWordLost
<1> QED
  BY <1>2, <1>3

LEMMA StreamNext == ASSUME StreamInv, [Next]_vars PROVE StreamInv'
<1>1. CASE Next
  BY <1>1, StreamTick DEF Next
<1>2. CASE UNCHANGED vars
  <2>1. UNCHANGED <<core, tvalid, tdata, sent>>
    BY <1>2 DEF vars, streamVars
  <2> QED
    BY <2>1 DEF StreamInv, CoreInv, NoWordLost, Taken
<1> QED
  BY <1>1, <1>2

(* Every word handshaken on the stream is taken by the core exactly once   *)
(* and in order, and nothing else is.                                      *)
THEOREM StreamLosesNoWord == Spec => []NoWordLost
<1>1. StreamInv => NoWordLost
  BY DEF StreamInv
<1> QED
  BY <1>1, StreamInit, StreamNext, PTL DEF Spec

-----------------------------------------------------------------------------
(* Polling.                                                                *)

LEMMA PollingInit == ASSUME Init PROVE PollingInv
<1>1. WriteBus /\ ReadBus /\ StreamInv
  BY BusInit, StreamInit DEF Init
<1>2. /\ slv_reg0 = ControlReset /\ wr.ctrl = ControlReset /\ fresh = FALSE
  BY DEF Init, SlaveInit, MasterInit
<1>3. ControlReset \in Control /\ ~ControlReset.reset
  BY DEF Control, ControlReset
<1>4. StatusInv /\ PollInv
  BY <1>2, <1>3 DEF StatusInv, PollInv
<1> QED
  BY <1>1, <1>4 DEF PollingInv

(* The slave's control register at an edge. *)
LEMMA StatusEdge ==
  ASSUME PollingInv, NEW bready, NEW rready, Tick(bready, rready)
  PROVE  /\ slv_reg_wren => WriteHandshake
         /\ slv_reg0' \in Control
         /\ ~slv_reg_wren => slv_reg0'.busy = Full(core) /\ ~slv_reg0'.reset
<1>1. WriteBus /\ slv_reg0 \in Control /\ wr.ctrl \in Control
  BY DEF PollingInv, StatusInv
<1>2. slv_reg_wren => wphase = "addr"
  BY <1>1 DEF WriteBus, slv_reg_wren
<1>3. slv_reg_wren => WriteHandshake
  BY <1>2 DEF Tick, Requests, BeginWrite, ContinueWrite, NoWrite, OfferWrite,
    WriteHandshake, AwaitResponse
<1>4. hash_busy_o = Full(core) /\ hash_busy_o \in BOOLEAN
  <2>1. hash_busy_o <=> Full(core)
    BY BusyMeansFull DEF PollingInv, StreamInv, hash_busy_o
  <2>2. hash_busy_o \in BOOLEAN /\ Full(core) \in BOOLEAN
    BY DEF hash_busy_o, CoreBusy, Busy, Full
  <2> QED
    BY <2>1, <2>2
<1>5. slv_reg0' = IF slv_reg_wren /\ axi_awaddr = "CTRL" THEN ControlWrite
                  ELSE slv_reg0_nxt(hash_busy_o)
  BY DEF Tick, StatusWrites, ControlRegister
<1>6. ControlWrite \in Control
  BY <1>1 DEF ControlWrite, Control
<1>7. /\ slv_reg0_nxt(hash_busy_o) \in Control
      /\ slv_reg0_nxt(hash_busy_o).busy = Full(core)
      /\ ~slv_reg0_nxt(hash_busy_o).reset
  BY <1>1, <1>4 DEF slv_reg0_nxt, Control
<1> QED
  BY <1>3, <1>5, <1>6, <1>7

LEMMA StatusStep ==
  ASSUME PollingInv, NEW bready, NEW rready, Tick(bready, rready)
  PROVE  StatusInv'
<1>1. slv_reg0'.reset => wphase' = "resp"
  BY StatusEdge DEF WriteHandshake
<1>2. wr'.ctrl \in Control
  <2>1. CASE wr' \in Resets
    <3>1. wr'.ctrl = [reset |-> TRUE, irq_en |-> FALSE, busy |-> FALSE]
      BY <2>1 DEF Resets
    <3> QED
      BY <3>1 DEF Control
  <2>2. CASE UNCHANGED wr
    BY <2>2 DEF PollingInv, StatusInv
  <2> QED
    BY <2>1, <2>2 DEF Tick, Requests, BeginWrite, ContinueWrite, NoWrite,
      OfferWrite, WriteHandshake, AwaitResponse
<1> QED
  BY <1>1, <1>2, StatusEdge DEF StatusInv

(* While the write channel is idle and no word is on the stream, a core    *)
(* that is not full stays so, and the message is not restarted.            *)
LEMMA QuietEdge ==
  ASSUME PollingInv, NEW bready, NEW rready, Tick(bready, rready),
         wphase = "idle", ~tvalid, tdata > MaxWords
  PROVE  /\ ~tvalid' /\ tdata' > MaxWords
         /\ slv_reg0'.busy = Full(core)
         /\ ~Full(core) => ~Full(core')
<1>1. ~slv_reg_wren /\ ~slv_reg0.reset
  BY StatusEdge DEF WriteHandshake, PollingInv, StatusInv
<1>2. ~slv_reg0'.reset /\ slv_reg0'.busy = Full(core)
  BY <1>1, StatusEdge
<1>3. tdata \in Nat /\ tvalid \in BOOLEAN /\ CoreInv(core) /\ MaxWords \in Nat
  BY StreamAssumption DEF PollingInv, StreamInv
<1>4. tdata' = tdata
  BY <1>2, <1>3 DEF Tick, Source, Restart
<1>5. ~tvalid'
  BY <1>3, <1>4 DEF Tick, Source
<1>6. core' = CoreStep(core, tvalid, tdata)
  BY <1>1, <1>2 DEF Tick, CoreEdge
<1>7. ~Full(core) => core'.state = core.state /\ core'.counter = core.counter
  BY <1>3, <1>6, CoreStepInv
<1> QED
  BY <1>2, <1>4, <1>5, <1>7 DEF Full

LEMMA PollStep ==
  ASSUME MaxReads = 1, PollingInv, NEW bready, NEW rready \in RReady,
         Tick(bready, rready), ReadBus'
  PROVE  PollInv'
<1>1. CASE fresh' = FALSE
  BY <1>1 DEF PollInv
<1>2. ASSUME ContinueWrite(bready), wphase = "idle" PROVE wphase' = "idle"
  BY <1>2 DEF ContinueWrite, NoWrite, OfferWrite, WriteHandshake, AwaitResponse
<1>3. ASSUME NEW a \in {"CTRL", "HASH"}, BeginRead(a), ContinueWrite(bready),
             fresh' = (a = "CTRL" /\ wphase = "idle" /\ MessageSent)
      PROVE  PollInv'
  <2>1. reads' < 1 /\ araddr' = a /\ (~arvalid \/ axi_arready)
    BY <1>3 DEF BeginRead
  <2>2. reads' # 1
    BY <2>1
  <2>3. ~axi_rvalid' /\ ~axi_arready'
    BY <2>1, <2>2 DEF ReadBus, Tick, StatusReads, ReadAddress
  <2>4. fresh' => wphase' = "idle" /\ araddr' = "CTRL" /\ ~tvalid'
                  /\ tdata' > MaxWords
    BY <1>2, <1>3, <2>1 DEF MessageSent
  <2>5. fresh' \in BOOLEAN
    BY <1>3
  <2> QED
    BY <2>3, <2>4, <2>5 DEF PollInv
<1>4. ASSUME ContinueWrite(bready), ContinueRead, fresh, fresh' = TRUE
      PROVE  PollInv'
  <2>1. /\ wphase = "idle" /\ araddr = "CTRL" /\ ~tvalid /\ tdata > MaxWords
        /\ axi_arready /\ ~slv_reg0.busy => ~Full(core)
        /\ axi_rvalid /\ ~axi_rdata.busy => ~Full(core)
    BY <1>4 DEF PollingInv, PollInv
  <2>2. /\ ~tvalid' /\ tdata' > MaxWords
        /\ slv_reg0'.busy = Full(core)
        /\ ~Full(core) => ~Full(core')
    BY <2>1, QuietEdge
  <2>3. wphase' = "idle" /\ araddr' = "CTRL"
    BY <1>2, <1>4, <2>1 DEF ContinueRead
  <2>4. ~slv_reg0'.busy => ~Full(core')
    BY <2>2
  <2>5. axi_rvalid' /\ ~axi_rdata'.busy => ~Full(core')
    <3>1. CASE slv_reg_rden
      <4>1. axi_rdata' = slv_reg0 /\ axi_arready
        BY <2>1, <3>1 DEF Tick, StatusReads, ReadData, reg_data_out,
          slv_reg_rden, PollingInv, ReadBus
      <4> QED
        BY <2>1, <2>2, <4>1
    <3>2. CASE ~slv_reg_rden
      <4>1. axi_rdata' = axi_rdata /\ (axi_rvalid' => axi_rvalid)
        BY <3>2 DEF Tick, StatusReads, ReadData, ReadResponse, slv_reg_rden
      <4> QED
        BY <2>1, <2>2, <4>1
    <3> QED
      BY <3>1, <3>2
  <2> QED
    BY <1>4, <2>2, <2>3, <2>4, <2>5 DEF PollInv
<1>5. fresh \in BOOLEAN
  BY DEF PollingInv, PollInv
<1> QED
  BY <1>1, <1>3, <1>4, <1>5 DEF Tick, Requests

LEMMA PollingStep ==
  ASSUME MaxReads = 1, PollingInv, [Next]_vars PROVE PollingInv'
<1>1. StreamInv'
  BY StreamNext DEF PollingInv
<1>2. CASE Next
  <2>1. PICK bready \in BReady, rready \in RReady : Tick(bready, rready)
    BY <1>2 DEF Next
  <2>2. WriteSide(bready)
    BY <2>1 DEF Tick, StatusWrites, WriteSide, Requests
  <2>3. ReadSide(rready)
    BY <2>1 DEF Tick, StatusReads, ReadSide, Requests
  <2>4. WriteBus' /\ ReadBus'
    BY <2>2, <2>3, WriteBusStep, ReadBusStep DEF PollingInv
  <2>5. StatusInv' /\ PollInv'
    BY <2>1, <2>4, StatusStep, PollStep
  <2> QED
    BY <1>1, <2>4, <2>5 DEF PollingInv
<1>3. CASE UNCHANGED vars
  <2> USE <1>3 DEF vars, writeVars, readVars, busVars, masterVars, streamVars
  <2>1. UNCHANGED WriteBus /\ UNCHANGED ReadBus
    BY DEF WriteBus, ReadBus
  <2>2. UNCHANGED StatusInv /\ UNCHANGED PollInv
    BY DEF StatusInv, PollInv, Full
  <2> QED
    BY <1>1, <2>1, <2>2 DEF PollingInv
<1> QED
  BY <1>2, <1>3

(* A poll made after the last handshake and answered "not busy" can be     *)
(* believed: the digest covers the whole message.                          *)
THEOREM StreamPollIsFinal ==
  ASSUME MaxReads = 1 PROVE Spec => []PollIsFinal
<1>1. PollingInv => PollIsFinal
  <2>1. SUFFICES ASSUME PollingInv, axi_rvalid, fresh, ~axi_rdata.busy,
                        Len(sent) % LoadWords = 0
                 PROVE  core.H8 = sent
    BY DEF PollIsFinal
  <2>2. CoreInv(core) /\ core.H8 \o core.chunk = sent /\ ~Full(core)
    BY <2>1 DEF PollingInv, StreamInv, PollInv, NoWordLost, Taken
  <2>3. /\ core.H8 \in Seq(Nat) /\ core.chunk \in Seq(Nat)
        /\ Len(core.H8) % LoadWords = 0
    BY <2>2 DEF CoreInv
  <2>4. /\ Len(core.H8) \in Nat /\ Len(core.chunk) \in Nat
        /\ LoadWords \in Nat \ {0}
    BY <2>3, FsmAssumption
  <2>5. Len(sent) = Len(core.H8) + Len(core.chunk)
    BY <2>2, <2>3, ConcatLen
  <2>6. Len(core.chunk) < LoadWords
    BY <2>2, <2>4 DEF CoreInv, Full, FsmStates
  <2>7. Len(core.chunk) = 0
    BY <2>1, <2>3, <2>5, <2>6, <2>4, NoMultipleBetween
  <2>8. core.chunk = << >>
    BY <2>3, <2>7, EmptySeq
  <2> QED
    BY <2>2, <2>3, <2>8, ConcatEmptyNat
<1> QED
  BY <1>1, PollingInit, PollingStep, PTL DEF Spec
=============================================================================
