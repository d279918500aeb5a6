---------------------------- MODULE AxiLiteMaster ----------------------------
(***************************************************************************)
(* The bus master in front of AxiLiteSlave, as the AXI4-Lite protocol lets *)
(* it behave: it raises AWVALID and WVALID in any order, keeps what it has *)
(* raised until the handshake, has one write under way, and up to MaxReads *)
(* reads.  It is the environment of the design, not part of it.            *)
(***************************************************************************)
EXTENDS AxiLiteSlave

CONSTANT MaxReads    \* reads the master keeps outstanding

ASSUME MaxReadsAssumption == MaxReads \in Nat \ {0}

VARIABLES
  wphase,    \* "idle", "addr" (address and data offered), "resp"
  reads      \* reads accepted by the slave and not yet answered

masterVars == <<wphase, reads>>

MasterInit ==
  /\ awvalid = FALSE /\ wvalid = FALSE
  /\ wr = [addr |-> "OTHER", word |-> 0, ctrl |-> ControlReset, strb |-> {}]
  /\ arvalid = FALSE /\ araddr = "OTHER"
  /\ wphase = "idle" /\ reads = 0

(* The ready inputs matter to the slave only while it has a response out.  *)
BReady == IF axi_bvalid THEN BOOLEAN ELSE {FALSE}
RReady == IF axi_rvalid THEN BOOLEAN ELSE {FALSE}

BeginWrite(w) ==
  /\ wphase = "idle"
  /\ wphase' = "addr"
  /\ wr' = w
  /\ awvalid' \in BOOLEAN
  /\ wvalid' \in BOOLEAN

NoWrite == wphase = "idle" /\ UNCHANGED <<wphase, wr, awvalid, wvalid>>

OfferWrite ==
  /\ wphase = "addr" /\ ~slv_reg_wren
  /\ awvalid' \in {b \in BOOLEAN : awvalid => b}
  /\ wvalid' \in {b \in BOOLEAN : wvalid => b}
  /\ UNCHANGED <<wphase, wr>>

WriteHandshake ==
  /\ wphase = "addr" /\ slv_reg_wren
  /\ wphase' = "resp"
  /\ awvalid' = FALSE /\ wvalid' = FALSE
  /\ UNCHANGED wr

AwaitResponse(bready) ==
  /\ wphase = "resp"
  /\ wphase' = IF axi_bvalid /\ bready THEN "idle" ELSE "resp"
  /\ UNCHANGED <<wr, awvalid, wvalid>>

(* Every alternative of the write side but the start of a new write. *)
ContinueWrite(bready) ==
  NoWrite \/ OfferWrite \/ WriteHandshake \/ AwaitResponse(bready)

CountReads(rready) ==
  reads' = reads + (IF arvalid /\ axi_arready THEN 1 ELSE 0)
                 - (IF axi_rvalid /\ rready THEN 1 ELSE 0)

BeginRead(addr) ==
  /\ ~arvalid \/ axi_arready
  /\ reads' < MaxReads
  /\ arvalid' = TRUE /\ araddr' = addr

ContinueRead ==
  /\ arvalid' = (arvalid /\ ~axi_arready)
  /\ UNCHANGED araddr

-----------------------------------------------------------------------------
(* BVALID and RVALID are up exactly while the slave owes the master the    *)
(* response to a write or a read it has accepted: no response is lost, and *)
(* none is made up.                                                        *)
ResponsesMatch ==
  /\ axi_bvalid <=> wphase = "resp"
  /\ axi_rvalid <=> reads > 0
=============================================================================
