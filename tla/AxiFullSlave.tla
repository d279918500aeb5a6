---------------------------- MODULE AxiFullSlave -----------------------------
(***************************************************************************)
(* The AXI4 burst slave of sha256_full_v1_0_S00_AXI.v.  One action per     *)
(* always block, all taken at the same clock edge; the argument m of each  *)
(* holds the S_AXI inputs of the cycle that the edge ends.  S_AXI_ARESETN  *)
(* is low only before Init.                                                *)
(*                                                                         *)
(* Addresses are word addresses.  The decoders split the 64 words of the   *)
(* slave into regions that scale with the block length, so that the short  *)
(* blocks of a small instance fill their data region as the 16 words of    *)
(* the hardware do.  Reserved burst types and addresses that are not a     *)
(* multiple of four are left out: no AXI4 master may issue the former, and *)
(* the decoders drop the low bits of the latter.                           *)
(***************************************************************************)
EXTENDS Sha256Block

VARIABLES
  axi_awready, axi_awv_awr_flag,
  aw,                  \* axi_awaddr, axi_awburst, axi_awlen, axi_awlen_cntr
  axi_wready, axi_bvalid,
  axi_arready, axi_arv_arr_flag,
  ar,                  \* axi_araddr, axi_arburst, axi_arlen, axi_arlen_cntr
  axi_rlast, axi_rvalid, reg_data_out,
  slv_reg0

slaveVars == <<axi_awready, axi_awv_awr_flag, aw, axi_wready, axi_bvalid,
               axi_arready, axi_arv_arr_flag, ar, axi_rlast, axi_rvalid,
               reg_data_out, slv_reg0>>

AddrWords == 4 * LoadWords

(* The bits of slv_reg0 that mean something: bits 0, 1 and 8. *)
Control == [reset : BOOLEAN, irq_en : BOOLEAN, busy : BOOLEAN]

ControlReset == [reset |-> FALSE, irq_en |-> FALSE, busy |-> FALSE]

(* 6'h00, 6'h08 to 6'h0f, and dat_addr_vaild (6'h10 to 6'h1f). *)
Region(a) ==
  CASE a = 0 -> "CTRL"
    [] a \in (LoadWords \div 2)..(LoadWords - 1) /\ a # 0 -> "HASH"
    [] a \in LoadWords..(2 * LoadWords - 1) -> "DATA"
    [] OTHER -> "OTHER"

-----------------------------------------------------------------------------
(* The address generator, written out twice in the source.                 *)

Latch(req) ==
  [addr |-> req.addr, burst |-> req.burst, len |-> req.len, cntr |-> 0]

(* Mutant of wrap_en: the boundary is missed by one word. *)
wrap_enLate(b) == b.addr % (b.len + 1) = 0

(* The mask test of aw_wrap_en and ar_wrap_en, for the lengths an AXI4     *)
(* wrapping burst may have (len + 1 a power of two).                       *)
wrap_en(b) == b.addr % (b.len + 1) = b.len

NextAddr(b) ==
  CASE b.burst = "FIXED" -> b.addr
    [] b.burst = "WRAP" /\ wrap_en(b) -> b.addr - b.len
    [] OTHER -> (b.addr + 1) % AddrWords

(* The beat counters have eight bits. *)
Advance(b) == [b EXCEPT !.addr = NextAddr(b), !.cntr = (@ + 1) % 256]

-----------------------------------------------------------------------------
(* The write channels.                                                     *)

(* Mutant of S_AXI_WREADY: data is held back by the registered busy bit. *)
S_AXI_WREADYLate(busy) ==
  axi_wready /\ ~(slv_reg0.busy /\ Region(aw.addr) = "DATA")

(* S_AXI_WREADY: block_data_input holds a data beat back while the core is *)
(* busy.                                                                   *)
S_AXI_WREADY(busy) == axi_wready /\ ~(busy /\ Region(aw.addr) = "DATA")

reg_write_en(m, busy) == S_AXI_WREADY(busy) /\ m.wvalid

(* A write is accepted when no burst is under way in either direction. *)
accept_write(m) ==
  ~axi_awready /\ m.awvalid /\ ~axi_awv_awr_flag /\ ~axi_arv_arr_flag

WriteAddress(m, busy) ==
  LET last == m.wlast /\ S_AXI_WREADY(busy)
  IN  /\ axi_awready' = IF accept_write(m) THEN TRUE
                        ELSE last /\ axi_awready
      /\ axi_awv_awr_flag' =
           (accept_write(m) \/ (axi_awv_awr_flag /\ ~last))
      /\ aw' = IF ~axi_awready /\ m.awvalid /\ ~axi_awv_awr_flag
               THEN Latch(m.aw)
               ELSE IF aw.cntr <= aw.len /\ reg_write_en(m, busy)
               THEN Advance(aw)
               ELSE aw

(* axi_wready falls with a last beat even when the beat is held back; it   *)
(* rises again in the next cycle because the burst is still open.          *)
WriteData(m) ==
  axi_wready' = IF ~axi_wready /\ m.wvalid /\ axi_awv_awr_flag THEN TRUE
                ELSE axi_wready /\ ~m.wlast

(* Mutant of WriteResponse: every beat of a burst is answered. *)
WriteResponsePerBeat(m, busy) ==
  axi_bvalid' =
    IF axi_awv_awr_flag /\ reg_write_en(m, busy) /\ ~axi_bvalid
    THEN TRUE ELSE axi_bvalid /\ ~m.bready

WriteResponse(m, busy) ==
  axi_bvalid' =
    IF axi_awv_awr_flag /\ reg_write_en(m, busy) /\ ~axi_bvalid /\ m.wlast
    THEN TRUE ELSE axi_bvalid /\ ~m.bready

(* Bytes that are strobed are written, the others keep their value. *)
ControlWrite(m) ==
  [reset  |-> IF 0 \in m.strb THEN m.ctrl.reset ELSE slv_reg0.reset,
   irq_en |-> IF 0 \in m.strb THEN m.ctrl.irq_en ELSE slv_reg0.irq_en,
   busy   |-> IF 1 \in m.strb THEN m.ctrl.busy ELSE slv_reg0.busy]

slv_reg0_nxt(busy) ==
  [reset |-> FALSE, irq_en |-> slv_reg0.irq_en, busy |-> busy]

ControlRegister(m, busy) ==
  slv_reg0' = IF reg_write_en(m, busy) /\ Region(aw.addr) = "CTRL"
              THEN ControlWrite(m)
              ELSE slv_reg0_nxt(busy)

-----------------------------------------------------------------------------
(* The read channels.                                                      *)

accept_read(m) ==
  ~axi_arready /\ m.arvalid /\ ~axi_awv_awr_flag /\ ~axi_arv_arr_flag

(* Mutant of ReadAddress: ARREADY is not lowered again. *)
ReadAddressSticky(m) ==
  LET done == axi_rvalid /\ m.rready /\ ar.cntr = ar.len
  IN  /\ axi_arready' = (accept_read(m) \/ axi_arready)
      /\ axi_arv_arr_flag' = (accept_read(m) \/ (axi_arv_arr_flag /\ ~done))

ReadAddress(m) ==
  LET done == axi_rvalid /\ m.rready /\ ar.cntr = ar.len
  IN  /\ axi_arready' = IF accept_read(m) THEN TRUE ELSE done /\ axi_arready
      /\ axi_arv_arr_flag' = (accept_read(m) \/ (axi_arv_arr_flag /\ ~done))

(* Mutant of ReadBeat: RLAST is raised for the beat after the last one. *)
ReadBeatLong(m) ==
  IF ~axi_arready /\ m.arvalid /\ ~axi_arv_arr_flag
  THEN ar' = Latch(m.ar) /\ axi_rlast' = FALSE
  ELSE IF ar.cntr <= ar.len /\ axi_rvalid /\ m.rready
  THEN ar' = Advance(ar) /\ axi_rlast' = FALSE
  ELSE /\ axi_rlast' = IF ar.cntr > ar.len /\ ~axi_rlast /\ axi_arv_arr_flag
                       THEN TRUE
                       ELSE axi_rlast /\ ~m.rready
       /\ UNCHANGED ar

ReadBeat(m) ==
  IF ~axi_arready /\ m.arvalid /\ ~axi_arv_arr_flag
  THEN ar' = Latch(m.ar) /\ axi_rlast' = FALSE
  ELSE IF ar.cntr <= ar.len /\ axi_rvalid /\ m.rready
  THEN ar' = Advance(ar) /\ axi_rlast' = FALSE
  ELSE /\ axi_rlast' = IF ar.cntr = ar.len /\ ~axi_rlast /\ axi_arv_arr_flag
                       THEN TRUE
                       ELSE axi_rlast /\ ~m.rready
       /\ UNCHANGED ar

ReadResponse(m) ==
  axi_rvalid' = IF axi_arv_arr_flag /\ ~axi_rvalid THEN TRUE
                ELSE axi_rvalid /\ ~m.rready

(* What a read returns: the control bits or the hash, zero elsewhere. *)
Word(ctrl, H8) == [ctrl |-> ctrl, H8 |-> H8]

(* The register behind RDATA is loaded in every cycle of a read burst, so  *)
(* RDATA follows the registers while RVALID waits for RREADY.              *)
ReadData(H8) ==
  reg_data_out' = IF ~axi_arv_arr_flag THEN reg_data_out
                  ELSE CASE Region(ar.addr) = "CTRL" -> Word(slv_reg0, << >>)
                         [] Region(ar.addr) = "HASH" -> Word(ControlReset, H8)
                         [] OTHER -> Word(ControlReset, << >>)

-----------------------------------------------------------------------------
SlaveInit ==
  LET none == [addr |-> 0, burst |-> "FIXED", len |-> 0, cntr |-> 0]
  IN  /\ axi_awready = FALSE /\ axi_awv_awr_flag = FALSE /\ aw = none
      /\ axi_wready = FALSE /\ axi_bvalid = FALSE
      /\ axi_arready = FALSE /\ axi_arv_arr_flag = FALSE /\ ar = none
      /\ axi_rlast = FALSE /\ axi_rvalid = FALSE
      /\ reg_data_out = Word(ControlReset, << >>)
      /\ slv_reg0 = ControlReset

SlaveStep(m, busy, H8) ==
  /\ WriteAddress(m, busy)
  /\ WriteData(m)
  /\ WriteResponse(m, busy)
  /\ ControlRegister(m, busy)
  /\ ReadAddress(m)
  /\ ReadBeat(m)
  /\ ReadResponse(m)
  /\ ReadData(H8)
=============================================================================
