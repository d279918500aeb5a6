---------------------------- MODULE AxiLiteSlave -----------------------------
(***************************************************************************)
(* The AXI4-Lite register slave of sha256_axi_v1_0_S00_AXI.v, which        *)
(* sha256_stream_v1_0_S00_AXI.v repeats, and the signals of the bus master *)
(* that drives it.  One variable per slave register; each action is the    *)
(* part of a clock edge that belongs to one always block or channel.       *)
(* S_AXI_ARESETN is low only before Init.                                  *)
(*                                                                         *)
(* Addresses are abstracted to the regions the decoders distinguish:       *)
(* "CTRL" (word 0), "HASH" (words 8 to 15), "DATA" (words 16 to 31, in the *)
(* AXI4-Lite variant only) and "OTHER".                                    *)
(***************************************************************************)
EXTENDS Sha256Block

VARIABLES
  axi_awready, axi_wready, aw_en, axi_awaddr, axi_bvalid,
  axi_arready, axi_araddr, axi_rvalid, axi_rdata,
  slv_reg0,
  awvalid, wvalid,   \* S_AXI_AWVALID, S_AXI_WVALID
  wr,                \* the write on the bus: address, data, strobes
  arvalid, araddr    \* S_AXI_ARVALID, S_AXI_ARADDR

writeVars == <<axi_awready, axi_wready, aw_en, axi_awaddr, axi_bvalid>>
readVars == <<axi_arready, axi_araddr, axi_rvalid, axi_rdata>>
busVars == <<awvalid, wvalid, wr, arvalid, araddr>>

(* The bits of slv_reg0 that mean something: bits 0, 1 and 8. *)
Control == [reset : BOOLEAN, irq_en : BOOLEAN, busy : BOOLEAN]

ControlReset == [reset |-> FALSE, irq_en |-> FALSE, busy |-> FALSE]

SlaveInit ==
  /\ axi_awready = FALSE /\ axi_wready = FALSE /\ aw_en = TRUE
  /\ axi_awaddr = "CTRL" /\ axi_bvalid = FALSE
  /\ axi_arready = FALSE /\ axi_araddr = "CTRL" /\ axi_rvalid = FALSE
  /\ axi_rdata = ControlReset
  /\ slv_reg0 = ControlReset

(* The write address and data are accepted together, and no write is       *)
(* accepted before the response to the one before has been taken.          *)
accept_write == ~axi_awready /\ awvalid /\ wvalid /\ aw_en

slv_reg_wren == axi_wready /\ wvalid /\ axi_awready /\ awvalid

WriteAddress(bready) ==
  /\ axi_awready' = accept_write
  /\ aw_en' = IF accept_write THEN FALSE
              ELSE IF bready /\ axi_bvalid THEN TRUE
              ELSE aw_en
  /\ axi_awaddr' = IF accept_write THEN wr.addr ELSE axi_awaddr

WriteData == axi_wready' = (~axi_wready /\ wvalid /\ awvalid /\ aw_en)

(* Mutant of WriteResponse: the response is out before the write is done. *)
WriteResponseEarly(bready) ==
  axi_bvalid' = IF accept_write /\ ~axi_bvalid THEN TRUE
                ELSE IF bready /\ axi_bvalid THEN FALSE
                ELSE axi_bvalid

WriteResponse(bready) ==
  axi_bvalid' = IF slv_reg_wren /\ ~axi_bvalid THEN TRUE
                ELSE IF bready /\ axi_bvalid THEN FALSE
                ELSE axi_bvalid

(* Mutant of slv_reg0_nxt: the busy bit is not connected. *)
slv_reg0_nxtIdle(busy) ==
  [reset |-> FALSE, irq_en |-> slv_reg0.irq_en, busy |-> slv_reg0.busy]

(* slv_reg0_nxt: the reset bit clears itself, the busy bit follows the     *)
(* core one cycle late.                                                    *)
slv_reg0_nxt(busy) ==
  [reset |-> FALSE, irq_en |-> slv_reg0.irq_en, busy |-> busy]

(* Bytes that are strobed are written, the others keep their value.        *)
ControlWrite ==
  [reset  |-> IF 0 \in wr.strb THEN wr.ctrl.reset ELSE slv_reg0.reset,
   irq_en |-> IF 0 \in wr.strb THEN wr.ctrl.irq_en ELSE slv_reg0.irq_en,
   busy   |-> IF 1 \in wr.strb THEN wr.ctrl.busy ELSE slv_reg0.busy]

ControlRegister(busy) ==
  slv_reg0' = IF slv_reg_wren /\ axi_awaddr = "CTRL"
              THEN ControlWrite
              ELSE slv_reg0_nxt(busy)

ReadAddress ==
  /\ axi_arready' = (~axi_arready /\ arvalid)
  /\ axi_araddr' = IF ~axi_arready /\ arvalid THEN araddr ELSE axi_araddr

ReadResponse(rready) ==
  axi_rvalid' = IF axi_arready /\ arvalid /\ ~axi_rvalid THEN TRUE
                ELSE IF axi_rvalid /\ rready THEN FALSE
                ELSE axi_rvalid

slv_reg_rden == axi_arready /\ arvalid /\ ~axi_rvalid

reg_data_out(H8) ==
  CASE axi_araddr = "CTRL" -> slv_reg0
    [] axi_araddr = "HASH" -> H8
    [] OTHER -> << >>

ReadData(H8) ==
  axi_rdata' = IF slv_reg_rden THEN reg_data_out(H8) ELSE axi_rdata

(* One clock edge of the slave, with the inputs it has in this cycle.      *)
SlaveStep(bready, rready, busy, H8) ==
  /\ WriteAddress(bready)
  /\ WriteData
  /\ WriteResponse(bready)
  /\ ControlRegister(busy)
  /\ ReadAddress
  /\ ReadResponse(rready)
  /\ ReadData(H8)
=============================================================================
