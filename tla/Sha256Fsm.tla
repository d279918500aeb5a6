------------------------------ MODULE Sha256Fsm ------------------------------
(***************************************************************************)
(* The combinational control signals of sha256.v: next state, counter,     *)
(* pipeline enable and busy flag, as functions of the two registers that   *)
(* hold the control state and of the input dat_vaild_i.  The data path     *)
(* (Sha256Core) and the bus wrappers share these definitions.              *)
(*                                                                         *)
(* The block length and the number of rounds are parameters so that the    *)
(* wrappers can be checked with short blocks; the hardware has 16 and 64.  *)
(***************************************************************************)
EXTENDS Integers

CONSTANTS
  LoadWords,   \* words loaded from the bus per block (8'h10 in sha256.v)
  Rounds       \* compression rounds per block (8'h40 in sha256.v)

(* The counter register has 8 bits and may run one past Rounds. *)
ASSUME FsmAssumption ==
  /\ LoadWords \in Nat \ {0}
  /\ Rounds \in Nat
  /\ LoadWords < Rounds
  /\ Rounds < 255

FsmStates == {"IDLE", "LOAD", "PROC", "FINISH"}

(* state_next, with rst_n high. *)
StateNext(st, cnt, vld) ==
  CASE st = "IDLE"   -> IF vld THEN "LOAD" ELSE "IDLE"
    [] st = "LOAD"   -> IF cnt = LoadWords THEN "PROC" ELSE "LOAD"
    [] st = "PROC"   -> IF cnt = Rounds THEN "FINISH" ELSE "PROC"
    [] st = "FINISH" -> "IDLE"

(* pipeline_start, which is also w_out_vaild: a word enters the schedule. *)
PipelineStart(st, cnt, vld) == vld \/ StateNext(st, cnt, vld) = "PROC"

(* Mutant of CounterNext: the counter is not cleared between blocks. *)
CounterNextKept(st, cnt, vld) ==
  IF PipelineStart(st, cnt, vld) THEN (cnt + 1) % 256 ELSE cnt

(* Mutant of CounterNext: only words from the bus are counted. *)
CounterNextBusOnly(st, cnt, vld) ==
  IF StateNext(st, cnt, vld) = "IDLE" THEN 0
  ELSE IF vld THEN (cnt + 1) % 256
  ELSE cnt

(* counter_nxt, eight bits wide. *)
CounterNext(st, cnt, vld) ==
  IF StateNext(st, cnt, vld) = "IDLE" THEN 0
  ELSE IF PipelineStart(st, cnt, vld) THEN (cnt + 1) % 256
  ELSE cnt

(* hash_busy_o.  It rises in the very cycle in which the last loaded word  *)
(* has made the counter reach LoadWords, one cycle before state is PROC.   *)
Busy(st, cnt, vld) ==
  StateNext(st, cnt, vld) = "PROC" \/ st \in {"PROC", "FINISH"}
=============================================================================
