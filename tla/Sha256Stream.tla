---------------------------- MODULE Sha256Stream -----------------------------
(***************************************************************************)
(* sha256_stream_v1_0: the core behind an AXI4-Stream sink, with the       *)
(* register slave for control, status and digest beside it.  TREADY is the *)
(* inverse of hash_busy_o, but data_vaild is TVALID itself: a word that    *)
(* waits for TREADY is presented to the busy core in every cycle.          *)
(***************************************************************************)
EXTENDS AxiLiteMaster

CONSTANT MaxWords    \* bound: length of the message the stream carries

ASSUME StreamAssumption == MaxWords \in Nat

VARIABLES
  core,              \* the sha256 instance
  tvalid, tdata,     \* S_AXIS_TVALID, S_AXIS_TDATA
  fresh,             \* the read under way is a poll made after the message
  sent               \* words handshaken since the last reset, in order

streamVars == <<core, tvalid, tdata, fresh, sent>>
vars == <<writeVars, readVars, slv_reg0, busVars, masterVars, streamVars>>

hash_busy_o == CoreBusy(core, tvalid)

(* Mutant of tready: the registered busy bit, a cycle late. *)
treadyLate == ~slv_reg0.busy

tready == ~hash_busy_o

(* sha256_rst_n, low from the edge that sets the soft reset bit up to and  *)
(* including the edge that clears it.                                      *)
CoreEdge ==
  core' = IF slv_reg0.reset \/ slv_reg0'.reset THEN CoreReset
          ELSE CoreStep(core, tvalid, tdata)

(* The register slave: the control register takes sha256_reg_status_nxt.   *)
StatusWrites(bready) ==
  /\ WriteAddress(bready)
  /\ WriteData
  /\ WriteResponse(bready)
  /\ ControlRegister(hash_busy_o)

StatusReads(rready) ==
  /\ ReadAddress
  /\ ReadResponse(rready)
  /\ ReadData(core.H8)

Init ==
  /\ SlaveInit
  /\ MasterInit
  /\ core = CoreReset
  /\ tvalid = FALSE /\ tdata = 1
  /\ fresh = FALSE /\ sent = << >>

-----------------------------------------------------------------------------
(* The stream source: word tdata of the message is offered when the source *)
(* has it, and kept until TREADY.  A soft reset restarts the message, but  *)
(* a word that is already on the stream cannot be taken back.              *)
Restart == ~slv_reg0.reset /\ slv_reg0'.reset

Source ==
  LET taken == tvalid /\ tready
      last  == IF taken THEN tdata ELSE tdata - 1
  IN  IF tvalid /\ ~tready
      THEN UNCHANGED <<tvalid, tdata>>
      ELSE /\ tdata' = IF Restart THEN 1 ELSE last + 1
           /\ tvalid' \in {b \in BOOLEAN : b => tdata' <= MaxWords}

MessageSent == tdata' > MaxWords /\ ~tvalid'

Resets ==
  {[addr |-> "CTRL", word |-> 0, strb |-> {0, 1},
    ctrl |-> [reset |-> TRUE, irq_en |-> FALSE, busy |-> FALSE]]}

Requests(bready, rready) ==
  \/ /\ \E w \in Resets : BeginWrite(w)
     /\ ContinueRead
     /\ fresh' = FALSE
  \/ /\ ContinueWrite(bready)
     /\ \E a \in {"CTRL", "HASH"} :
          /\ BeginRead(a)
          /\ fresh' = (a = "CTRL" /\ wphase = "idle" /\ MessageSent)
  \/ /\ ContinueWrite(bready)
     /\ ContinueRead
     /\ fresh' = (fresh /\ ~(axi_rvalid /\ rready))

(* One edge of the clock that both interfaces share. *)
Tick(bready, rready) ==
  /\ StatusWrites(bready)
  /\ StatusReads(rready)
  /\ CoreEdge
  /\ Source
  /\ CountReads(rready)
  /\ Requests(bready, rready)
  /\ sent' = IF slv_reg0.reset \/ slv_reg0'.reset THEN << >>
             ELSE IF tvalid /\ tready THEN Append(sent, tdata)
             ELSE sent

Next == \E bready \in BReady, rready \in RReady : Tick(bready, rready)

(* The clock runs. *)
Spec == Init /\ [][Next]_vars /\ WF_vars(Next)

-----------------------------------------------------------------------------
TypeOK ==
  /\ \A b \in {axi_awready, axi_wready, aw_en, axi_bvalid, axi_arready,
               axi_rvalid, awvalid, wvalid, arvalid, tvalid, fresh} :
       b \in BOOLEAN
  /\ slv_reg0 \in Control
  /\ core.state \in FsmStates /\ core.counter \in 0..(Rounds + 1)
  /\ tdata \in 1..(MaxWords + 1)
  /\ wphase \in {"idle", "addr", "resp"} /\ reads \in 0..MaxReads

(* The core takes exactly the words that were handshaken on the stream     *)
(* since the last reset, once each and in order, although a waiting word   *)
(* is presented to it all the time it is busy.                             *)
NoWordLost == Taken(core) = sent

(* A poll issued no earlier than the cycle after the last handshake, and   *)
(* answered "not busy", can be believed, although the busy bit is a cycle  *)
(* late: the digest covers the whole message.                              *)
PollIsFinal ==
  axi_rvalid /\ fresh /\ ~axi_rdata.busy /\ Len(sent) % LoadWords = 0 =>
    core.H8 = sent

(* A word offered on the stream is taken in the end: the core never stays  *)
(* busy, and no word wedges it.                                            *)
WordsAccepted ==
  \A n \in 1..MaxWords : tvalid /\ tdata = n ~> tdata # n \/ ~tvalid
=============================================================================
