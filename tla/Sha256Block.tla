----------------------------- MODULE Sha256Block -----------------------------
(***************************************************************************)
(* The core as its bus wrappers see it: the control registers of sha256.v  *)
(* kept exactly, the data path reduced to which words it has taken.  That  *)
(* the data path turns those words into their hash is what Sha256Core and  *)
(* its proofs establish, so here a hash value IS the sequence of words     *)
(* hashed so far.                                                          *)
(***************************************************************************)
EXTENDS Sha256Fsm, Sequences

(* The registers after rst_n has been low. *)
CoreReset ==
  [state |-> "IDLE", counter |-> 0, irq_finish |-> FALSE,
   chunk |-> << >>,      \* words of the block being loaded or processed
   H8 |-> << >>]         \* words hashed since the reset

CoreBusy(c, vld) == Busy(c.state, c.counter, vld)

(* Mutant of CoreStep: the word that arrives in IDLE is not kept. *)
CoreStepDropsFirst(c, vld, dat) ==
  LET st == StateNext(c.state, c.counter, vld)
  IN  [state      |-> st,
       counter    |-> CounterNext(c.state, c.counter, vld),
       irq_finish |-> c.state = "FINISH",
       chunk      |-> IF st = "FINISH" THEN << >>
                      ELSE IF vld /\ c.state = "LOAD" /\ st = "LOAD"
                      THEN Append(c.chunk, dat)
                      ELSE c.chunk,
       H8         |-> IF st = "FINISH" THEN c.H8 \o c.chunk ELSE c.H8]

(* Mutant of CoreStep: a word that waits on the bus stalls the rounds. *)
CoreStepStalled(c, vld, dat) ==
  LET st == IF vld /\ c.state = "PROC" THEN "PROC"
            ELSE StateNext(c.state, c.counter, vld)
  IN  [state      |-> st,
       counter    |-> IF vld /\ c.state = "PROC" THEN c.counter
                      ELSE CounterNext(c.state, c.counter, vld),
       irq_finish |-> c.state = "FINISH",
       chunk      |-> IF st = "FINISH" THEN << >>
                      ELSE IF vld /\ st = "LOAD" THEN Append(c.chunk, dat)
                      ELSE c.chunk,
       H8         |-> IF st = "FINISH" THEN c.H8 \o c.chunk ELSE c.H8]

(* A clock edge with rst_n high. *)
CoreStep(c, vld, dat) ==
  LET st == StateNext(c.state, c.counter, vld)
  IN  [state      |-> st,
       counter    |-> CounterNext(c.state, c.counter, vld),
       irq_finish |-> c.state = "FINISH",
       chunk      |-> IF st = "FINISH" THEN << >>
                      ELSE IF vld /\ st = "LOAD" THEN Append(c.chunk, dat)
                      ELSE c.chunk,
       H8         |-> IF st = "FINISH" THEN c.H8 \o c.chunk ELSE c.H8]

(* Every word the core has taken since its reset, in order. *)
Taken(c) == c.H8 \o c.chunk
=============================================================================
