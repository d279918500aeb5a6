---------------------------- MODULE Sha256AxiFull ----------------------------
(***************************************************************************)
(* sha256_full_v1_0: the core behind an AXI4 slave that takes bursts, with *)
(* the bus master in front of it.  The master needs no flow control of its *)
(* own to write a message: a data beat that finds the core busy is held    *)
(* back by WREADY, in the middle of a burst as well.                       *)
(*                                                                         *)
(* The master behaves as AXI4 allows: it offers the address and the data   *)
(* of a burst in any order, keeps what it has offered until the handshake, *)
(* drives WLAST with the last beat only, and has up to MaxWrites writes    *)
(* and MaxReads reads outstanding.                                         *)
(***************************************************************************)
EXTENDS AxiFullSlave

CONSTANTS
  MaxWrites,   \* writes the master keeps outstanding
  MaxReads,    \* reads the master keeps outstanding
  MaxWords     \* bound: words written between two soft resets

ASSUME FullAssumption ==
  /\ MaxWrites \in Nat \ {0} /\ MaxReads \in Nat \ {0}
  /\ MaxWords \in Nat
  /\ LoadWords > 1

VARIABLES
  core,              \* the sha256 instance
  awvalid, aws,      \* S_AXI_AWVALID; bursts whose address is not accepted
  wvalid, ws,        \* S_AXI_WVALID; bursts whose data is not complete
  wbeat,             \* beat of the first of ws that is due
  resps,             \* bursts complete and not yet answered
  arvalid, arreq,    \* S_AXI_ARVALID, the read on the bus
  rq, rbeat,         \* reads accepted and not complete, beat of the first
  sent,              \* words the master has written since the last reset
  fresh,             \* the read under way began after the last write
  announced          \* the end of the work so far has been announced

masterVars == <<awvalid, aws, wvalid, ws, wbeat, resps, arvalid, arreq, rq, rbeat>>
vars == <<slaveVars, core, masterVars, sent, fresh, announced>>

-----------------------------------------------------------------------------
(* The bursts of the master: a control write that enables the interrupt, a *)
(* soft reset as the bench writes it (32'h03), a control write without     *)
(* strobes, and data to the data region: more than a block to one address  *)
(* (as in the bench; here the last beat is the one that has to wait), what *)
(* completes the second block, and a block across the region.              *)

Burst(addr, burst, len, ctrl, strb) ==
  [addr |-> addr, burst |-> burst, len |-> len, ctrl |-> ctrl, strb |-> strb]

ControlBursts ==
  {Burst(0, "INCR", 0, [reset |-> r, irq_en |-> TRUE, busy |-> FALSE], {0, 1}) :
     r \in BOOLEAN}
  \cup {Burst(0, "FIXED", 1, ControlReset, {})}

DataBursts ==
  {Burst(LoadWords, "FIXED", LoadWords, ControlReset, {0, 1}),
   Burst(LoadWords, "INCR", LoadWords - 2, ControlReset, {0, 1}),
   Burst(LoadWords + LoadWords \div 2, "WRAP", LoadWords - 1, ControlReset, {0, 1})}

Read(addr, burst, len) == [addr |-> addr, burst |-> burst, len |-> len]

(* Polls of the control register, once and twice, and the digest, from its *)
(* first word and from its middle.                                         *)
ReadBursts ==
  {Read(0, "INCR", 0),
   Read(0, "FIXED", 1),
   Read(LoadWords \div 2, "INCR", LoadWords \div 2 - 1),
   Read(LoadWords \div 2 + LoadWords \div 4, "WRAP", LoadWords \div 2 - 1)}

(* The address AXI4 gives beat i of a burst: the reference for NextAddr. *)
BeatAddr(b, i) ==
  CASE b.burst = "FIXED" -> b.addr
    [] b.burst = "INCR" -> (b.addr + i) % AddrWords
    [] b.burst = "WRAP" ->
         LET n == b.len + 1
         IN  (n * (b.addr \div n)) + ((b.addr + i) % n)

-----------------------------------------------------------------------------
(* The core depends on dat_vaild_i only in IDLE, where it is not busy. *)
hash_busy_o == CoreBusy(core, FALSE)

(* The S_AXI inputs of this cycle. *)
Inputs(bready, rready) ==
  [awvalid |-> awvalid,
   aw      |-> IF aws = << >> THEN Burst(0, "FIXED", 0, ControlReset, {})
               ELSE Head(aws),
   wvalid  |-> wvalid,
   wlast   |-> wvalid /\ wbeat = Head(ws).len,
   ctrl    |-> IF ws = << >> THEN ControlReset ELSE Head(ws).ctrl,
   strb    |-> IF ws = << >> THEN {} ELSE Head(ws).strb,
   bready  |-> bready,
   arvalid |-> arvalid, ar |-> arreq, rready |-> rready]

(* S_AXI_WDATA of a data beat: the words of the message are numbered. *)
wdata == sent + 1

dat_vaild_i == S_AXI_WREADY(hash_busy_o) /\ wvalid /\ Region(aw.addr) = "DATA"

(* Mutant of irq_hash_finish: taken from the state before FINISH. *)
irq_hash_finishEarly ==
  slv_reg0.irq_en /\ core.state = "PROC" /\ core.counter = Rounds

irq_hash_finish == slv_reg0.irq_en /\ core.irq_finish

(* rst_n follows slv_reg0 at once: the core is reset by the edge that sets *)
(* the bit and still held in reset by the next one.                        *)
CoreEdge ==
  core' = IF slv_reg0.reset \/ slv_reg0'.reset THEN CoreReset
          ELSE CoreStep(core, dat_vaild_i, wdata)

-----------------------------------------------------------------------------
(* The master.                                                             *)

Init ==
  /\ SlaveInit
  /\ core = CoreReset
  /\ awvalid = FALSE /\ aws = << >>
  /\ wvalid = FALSE /\ ws = << >> /\ wbeat = 0 /\ resps = 0
  /\ arvalid = FALSE /\ arreq = Read(0, "INCR", 0)
  /\ rq = << >> /\ rbeat = 0
  /\ sent = 0 /\ fresh = FALSE /\ announced = FALSE

BReady == IF axi_bvalid THEN BOOLEAN ELSE {FALSE}
RReady == IF axi_rvalid THEN BOOLEAN ELSE {FALSE}

(* The bursts that the master may start in this cycle. *)
NewWrites ==
  IF Len(ws) + resps = MaxWrites THEN {}
  ELSE {b \in ControlBursts \cup DataBursts :
          Region(b.addr) = "DATA" => ws = << >> /\ sent + b.len < MaxWords}

aw_handshake == awvalid /\ axi_awready
w_handshake == wvalid /\ S_AXI_WREADY(hash_busy_o)
w_done == w_handshake /\ wbeat = Head(ws).len
ar_handshake == arvalid /\ axi_arready
r_handshake(rready) == axi_rvalid /\ rready
r_done(rready) == r_handshake(rready) /\ rbeat = Head(rq).len

(* The two write channels, with the bursts of new started. *)
WriteChannels(new) ==
  /\ aws' = (IF aw_handshake THEN Tail(aws) ELSE aws) \o new
  /\ awvalid' \in {v \in BOOLEAN : /\ v => aws' # << >>
                                   /\ awvalid /\ ~aw_handshake => v}
  /\ ws' = (IF w_done THEN Tail(ws) ELSE ws) \o new
  /\ wvalid' \in {v \in BOOLEAN : /\ v => ws' # << >>
                                  /\ wvalid /\ ~w_handshake => v}
  /\ wbeat' = IF w_done THEN 0 ELSE IF w_handshake THEN wbeat + 1 ELSE wbeat

ResponseChannel(bready) ==
  resps' = resps + (IF w_done THEN 1 ELSE 0)
                 - (IF axi_bvalid /\ bready THEN 1 ELSE 0)

(* The words the master means for the core, by the addresses of AXI4. *)
Account ==
  LET region == Region(BeatAddr(Head(ws), wbeat))
  IN  sent' = IF ~w_handshake THEN sent
              ELSE IF region = "DATA" THEN sent + 1
              ELSE IF region = "CTRL" /\ ControlWrite(Inputs(FALSE, FALSE)).reset
              THEN 0
              ELSE sent

ReadChannels(rready) ==
  /\ rq' = LET q == IF r_done(rready) THEN Tail(rq) ELSE rq
           IN  IF ar_handshake THEN Append(q, arreq) ELSE q
  /\ rbeat' = IF r_done(rready) THEN 0
              ELSE IF r_handshake(rready) THEN rbeat + 1 ELSE rbeat

BeginRead(req) ==
  /\ ~arvalid \/ ar_handshake
  /\ Len(rq') < MaxReads
  /\ arvalid' = TRUE /\ arreq' = req

NoNewRead == arvalid' = (arvalid /\ ~ar_handshake) /\ UNCHANGED arreq

(* The last beat of a poll begun after the last write shows an idle core. *)
PollSaysIdle(rready) ==
  r_done(rready) /\ fresh /\ ~reg_data_out.ctrl.busy

Announce(rready) ==
  announced' = \/ announced
               \/ irq_hash_finish /\ ws = << >>
               \/ PollSaysIdle(rready)

(* One clock edge.  The master starts at most one request per cycle. *)
StartWrite(rready) ==
  /\ \E b \in NewWrites : WriteChannels(<<b>>)
  /\ NoNewRead
  /\ fresh' = FALSE /\ announced' = FALSE

StartRead(rready) ==
  /\ WriteChannels(<< >>)
  /\ \E req \in ReadBursts :
       /\ BeginRead(req)
       /\ fresh' = (Region(req.addr) = "CTRL" /\ ws = << >> /\ resps = 0)
  /\ Announce(rready)

StartNothing(rready) ==
  /\ WriteChannels(<< >>)
  /\ NoNewRead
  /\ fresh' = (fresh /\ ~r_done(rready))
  /\ Announce(rready)

Tick(bready, rready) ==
  /\ SlaveStep(Inputs(bready, rready), hash_busy_o, core.H8)
  /\ CoreEdge
  /\ Account
  /\ ResponseChannel(bready)
  /\ ReadChannels(rready)
  /\ StartWrite(rready) \/ StartRead(rready) \/ StartNothing(rready)

Next == \E bready \in BReady, rready \in RReady : Tick(bready, rready)

(* The clock runs; the master offers the address and the data of a burst   *)
(* it has started, and takes the responses.                                *)
Fairness ==
  /\ WF_vars(Next)
  /\ WF_vars(axi_bvalid /\ \E rready \in RReady : Tick(TRUE, rready))
  /\ WF_vars(axi_rvalid /\ \E bready \in BReady : Tick(bready, TRUE))
  /\ WF_vars(aws # << >> /\ ~awvalid /\ Next /\ awvalid')
  /\ WF_vars(ws # << >> /\ ~wvalid /\ Next /\ wvalid')

Spec == Init /\ [][Next]_vars /\ Fairness

-----------------------------------------------------------------------------
Message(n) == [i \in 1..n |-> i]

Blocks(n) == LoadWords * (n \div LoadWords)

TypeOK ==
  /\ \A b \in {axi_awready, axi_awv_awr_flag, axi_wready, axi_bvalid,
               axi_arready, axi_arv_arr_flag, axi_rlast, axi_rvalid,
               awvalid, wvalid, arvalid, fresh, announced} : b \in BOOLEAN
  /\ slv_reg0 \in Control
  /\ \A b \in {aw, ar} : b.addr \in 0..(AddrWords - 1) /\ b.cntr \in 0..(b.len + 1)
  /\ core.state \in FsmStates /\ core.counter \in 0..(Rounds + 1)
  /\ Len(ws) + resps \in 0..MaxWrites /\ Len(rq) \in 0..MaxReads
  /\ sent \in 0..MaxWords

(* Back-pressure alone is enough: however bursts fall on block boundaries, *)
(* the core takes every word written to the data region once and in order, *)
(* also when the beat it has to wait for is the last one, where axi_wready *)
(* toggles.                                                                *)
NoWordLost == Taken(core) = Message(sent)

(* The address registers hold the address AXI4 gives the beat that is due. *)
BurstAddresses ==
  /\ axi_wready => aw.addr = BeatAddr(Head(ws), wbeat)
  /\ axi_rvalid => ar.addr = BeatAddr(Head(rq), rbeat)

(* A read burst has the beats it asked for: RVALID only for a read that    *)
(* was accepted, RLAST with its last beat and no other.                    *)
ReadBeats ==
  axi_rvalid => rq # << >> /\ (axi_rlast <=> rbeat = Head(rq).len)

(* Once the interrupt or a poll has announced the end of what was written, *)
(* and until the next write, the digest is that of every whole block, and  *)
(* a read of it already waiting on the bus shows no older one.             *)
AnnouncedIsFinal ==
  announced =>
    /\ core.H8 = Message(Blocks(sent))
    /\ axi_rvalid /\ Region(ar.addr) = "HASH" =>
         reg_data_out.H8 = Message(Blocks(sent))

(* BVALID is up exactly while a completed burst waits for its response. *)
ResponseMatchesBurst == axi_bvalid <=> resps > 0

(* Every write burst is completed and answered, however long its beats     *)
(* have to wait for the core; a read is accepted however many writes are   *)
(* made in the meantime, and every beat of it is delivered.  []<>~P is     *)
(* P ~> ~P, and a read on offer stays there until its handshake.           *)
RequestsAnswered ==
  /\ []<>(resps + Len(ws) = 0)
  /\ []<>(arvalid => ar_handshake)
  /\ []<>(rq = << >>)
=============================================================================
