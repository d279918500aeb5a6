---------------------------- MODULE Sha256AxiLite ----------------------------
(***************************************************************************)
(* sha256_axi_v1_0: the core behind an AXI4-Lite slave.  A write to the    *)
(* data region is a word for the core, whether the core is busy or not;    *)
(* the driver (the test bench's initial block stands for it) loads a block *)
(* and then waits for the interrupt or polls the busy bit.                 *)
(***************************************************************************)
EXTENDS AxiLiteMaster

CONSTANT MaxWords    \* bound: words the driver writes between two soft resets

ASSUME LiteAssumption == MaxWords \in Nat

VARIABLES
  core,      \* the sha256 instance
  credit,    \* words the driver may write before it has to wait
  next,      \* number of the next word of the message
  fresh,     \* the read under way is a poll issued after the last write
  sent       \* words accepted by the slave since the last reset, in order

driverVars == <<credit, next, fresh, sent>>
vars == <<writeVars, readVars, slv_reg0, busVars, masterVars, core, driverVars>>

dat_vaild_i == slv_reg_wren /\ axi_awaddr = "DATA"

hash_busy_o == CoreBusy(core, dat_vaild_i)

irq_hash_finish == slv_reg0.irq_en /\ core.irq_finish

(* sha256_rst_n follows slv_reg0 at once: the core is reset by the edge    *)
(* that sets the bit and still held in reset by the next one.              *)
CoreEdge ==
  core' = IF slv_reg0.reset \/ slv_reg0'.reset THEN CoreReset
          ELSE CoreStep(core, dat_vaild_i, wr.word)

Init ==
  /\ SlaveInit
  /\ MasterInit
  /\ core = CoreReset
  /\ credit = LoadWords /\ next = 1 /\ fresh = FALSE /\ sent = << >>

-----------------------------------------------------------------------------
(* The driver.                                                             *)

Write(addr, word, ctrl, strb) ==
  [addr |-> addr, word |-> word, ctrl |-> ctrl, strb |-> strb]

DataWrite == Write("DATA", next, ControlReset, {0, 1})

(* Enable or disable the interrupt, reset as the benches do (32'b11), and  *)
(* a write to word 0 with no byte strobed.                                 *)
ControlWrites ==
  {Write("CTRL", 0, c, {0, 1}) :
     c \in {k \in Control : ~k.busy /\ (k.reset => k.irq_en)}}
  \cup {Write("CTRL", 0, ControlReset, {})}

IsReset(w) == w.addr = "CTRL" /\ 0 \in w.strb /\ w.ctrl.reset

PollSaysIdle(rready) ==
  axi_rvalid /\ rready /\ fresh /\ ~axi_rdata.busy

(* A new block may be loaded once the interrupt or a poll has announced    *)
(* the end of the last one, or the core has been reset.                    *)
Credit(bready, rready) ==
  IF axi_bvalid /\ bready /\ IsReset(wr)
  THEN credit' = LoadWords /\ next' = 1
  ELSE /\ credit' = IF credit = 0 /\ (irq_hash_finish \/ PollSaysIdle(rready))
                    THEN LoadWords ELSE credit
       /\ UNCHANGED next

StartWrite(bready, rready) ==
  \/ /\ credit > 0 /\ next <= MaxWords
     /\ BeginWrite(DataWrite)
     /\ credit' = credit - 1
     /\ next' = next + 1
     /\ fresh' = FALSE
  \/ /\ \E w \in ControlWrites : BeginWrite(w)
     /\ Credit(bready, rready)
     /\ fresh' = FALSE

NoNewWrite(bready, rready) ==
  /\ ContinueWrite(bready)
  /\ Credit(bready, rready)

StartRead ==
  \E a \in {"CTRL", "HASH"} :
    /\ BeginRead(a)
    /\ fresh' = (a = "CTRL" /\ credit = 0 /\ wphase = "idle")

NoNewRead(rready) ==
  /\ ContinueRead
  /\ fresh' = (fresh /\ ~(axi_rvalid /\ rready))

(* One clock edge.  The driver starts at most one request per cycle. *)
Tick(bready, rready) ==
  /\ SlaveStep(bready, rready, hash_busy_o, core.H8)
  /\ CoreEdge
  /\ CountReads(rready)
  /\ sent' = IF slv_reg0.reset \/ slv_reg0'.reset THEN << >>
             ELSE IF dat_vaild_i THEN Append(sent, wr.word)
             ELSE sent
  /\ \/ StartWrite(bready, rready) /\ ContinueRead
     \/ NoNewWrite(bready, rready) /\ StartRead
     \/ NoNewWrite(bready, rready) /\ NoNewRead(rready)

Next == \E bready \in BReady, rready \in RReady : Tick(bready, rready)

(* The clock runs; the master eventually takes a response and completes    *)
(* the offer of a write it has started.                                    *)
Fairness ==
  /\ WF_vars(Next)
  /\ WF_vars(axi_bvalid /\ \E rready \in RReady : Tick(TRUE, rready))
  /\ WF_vars(axi_rvalid /\ \E bready \in BReady : Tick(bready, TRUE))
  /\ WF_vars(wphase = "addr" /\ Next /\ awvalid' /\ wvalid')

Spec == Init /\ [][Next]_vars /\ Fairness

-----------------------------------------------------------------------------
TypeOK ==
  /\ \A b \in {axi_awready, axi_wready, aw_en, axi_bvalid, axi_arready,
               axi_rvalid, awvalid, wvalid, arvalid, fresh} : b \in BOOLEAN
  /\ slv_reg0 \in Control
  /\ core.state \in FsmStates /\ core.counter \in 0..(Rounds + 1)
  /\ credit \in 0..LoadWords /\ next \in 1..(MaxWords + 1)
  /\ wphase \in {"idle", "addr", "resp"} /\ reads \in 0..MaxReads

(* With a driver that waits for the interrupt, or for a poll made after    *)
(* the last write, the core takes every word the slave has accepted, once  *)
(* and in order: the busy bit, which is a cycle late and which a control   *)
(* write overwrites for a cycle, is never believed too early.              *)
NoWordLost == Taken(core) = sent

(* The digest the driver reads: once it knows that the core is idle, and   *)
(* until it starts another block, the hash registers hold the hash of      *)
(* every word accepted.                                                    *)
HashReady ==
  credit = LoadWords /\ wphase = "idle" => core.H8 = sent

(* Every block that has been loaded completely is hashed, unless the core  *)
(* is reset first.                                                         *)
BlocksHashed ==
  \A n \in 1..MaxWords :
    Len(sent) = n /\ n % LoadWords = 0 ~> Len(core.H8) >= n \/ sent = << >>
=============================================================================
