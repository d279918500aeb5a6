----------------------------- MODULE Sha256Core ------------------------------
(***************************************************************************)
(* The SHA-256 core: sha256.v with its three submodules, one variable per  *)
(* register and one action per clock edge.  dat_vaild_i and dat_lsb_i are  *)
(* inputs of the edge; nothing in the core keeps them low while it is      *)
(* busy, so here they are arbitrary in every cycle.                        *)
(***************************************************************************)
EXTENDS Sha256Words

VARIABLES
  state,       \* FSM state (2 bits)
  counter,     \* 8-bit word/round counter
  irq_finish,  \* registered "state == FINISH"
  W,           \* 16-word message schedule shift register
  s0, s1,      \* registered sigma0/sigma1 of the next schedule word
  stage,       \* three partial sums of the round under way
  abcdefgh,    \* working variables
  H8           \* hash value

vars == <<state, counter, irq_finish, W, s0, s1, stage, abcdefgh, H8>>

INSTANCE Sha256Fsm WITH LoadWords <- 16, Rounds <- 64

-----------------------------------------------------------------------------
(* sha256_chunk_process: the message schedule.                             *)

w_new == Add(Add(W[0], s0), Add(W[9], s1))

(* Mutant of w_in: dat_vaild_i selects the bus word even while the core    *)
(* extends the schedule.                                                   *)
w_inBusFirst(vld, dat) == IF vld THEN Swap(dat) ELSE w_new

(* w_out: the schedule word that enters in this cycle. *)
w_in(vld, dat) ==
  IF StateNext(state, counter, vld) = "PROC" THEN w_new ELSE Swap(dat)

(* Mutant of ScheduleStep: the sigmas are registered from the taps of the  *)
(* standard's formula instead of one word ahead of them.                   *)
ScheduleStepTaps(vld, dat) ==
  IF PipelineStart(state, counter, vld)
  THEN /\ s0' = sigma0(W[1])
       /\ s1' = sigma1(W[14])
       /\ W' = [i \in 0..15 |-> IF i = 15 THEN w_in(vld, dat) ELSE W[i + 1]]
  ELSE UNCHANGED <<s0, s1, W>>

ScheduleStep(vld, dat) ==
  IF PipelineStart(state, counter, vld)
  THEN /\ s0' = sigma0(W[2])
       /\ s1' = sigma1(W[15])
       /\ W' = [i \in 0..15 |-> IF i = 15 THEN w_in(vld, dat) ELSE W[i + 1]]
  ELSE UNCHANGED <<s0, s1, W>>

-----------------------------------------------------------------------------
(* sha256_k and sha256_chunk_compress: the rounds.                         *)

k_out == K[counter % 64]

compress_start == state \in {"LOAD", "PROC"}

tmp2 == Add(stage[1], stage[2])

compress == Add(stage[0], tmp2)

abcdefgh_next ==
  IF compress_start
  THEN [i \in 0..7 |-> CASE i = 0 -> compress
                         [] i = 4 -> Add(abcdefgh[3], tmp2)
                         [] OTHER -> abcdefgh[i - 1]]
  ELSE H8

CompressStep(vld, dat) ==
  LET v == abcdefgh_next IN
  IF PipelineStart(state, counter, vld)
  THEN /\ stage' = [j \in 0..2 |->
            CASE j = 0 -> Add(Sigma0(v[0]), Maj(v[0], v[1], v[2]))
              [] j = 1 -> Add(Sigma1(v[4]), Ch(v[4], v[5], v[6]))
              [] j = 2 -> Add(Add(w_in(vld, dat), k_out), v[7])]
       /\ abcdefgh' = v
  ELSE UNCHANGED <<stage, abcdefgh>>

UpdateHash(vld) ==
  H8' = IF StateNext(state, counter, vld) = "FINISH"
        THEN [i \in 0..7 |-> Add(H8[i], abcdefgh_next[i])]
        ELSE H8

-----------------------------------------------------------------------------
(* The values every register takes when rst_n falls. *)
Init ==
  /\ state = "IDLE"
  /\ counter = 0
  /\ irq_finish = FALSE
  /\ W = [i \in 0..15 |-> Zero]
  /\ s0 = Zero
  /\ s1 = Zero
  /\ stage = [j \in 0..2 |-> Zero]
  /\ abcdefgh = [i \in 0..7 |-> Zero]
  /\ H8 = IV

(* Mutant of Clock: a word waiting on the bus swallows the interrupt. *)
ClockIrqSwallowed(vld, dat) ==
  /\ state' = StateNext(state, counter, vld)
  /\ counter' = CounterNext(state, counter, vld)
  /\ irq_finish' = (state = "FINISH" /\ ~vld)
  /\ ScheduleStep(vld, dat)
  /\ CompressStep(vld, dat)
  /\ UpdateHash(vld)

(* A positive clock edge with rst_n high. *)
Clock(vld, dat) ==
  /\ state' = StateNext(state, counter, vld)
  /\ counter' = CounterNext(state, counter, vld)
  /\ irq_finish' = (state = "FINISH")
  /\ ScheduleStep(vld, dat)
  /\ CompressStep(vld, dat)
  /\ UpdateHash(vld)

(* The falling edge of rst_n: every register is reset asynchronously. *)
Reset ==
  /\ state' = "IDLE"
  /\ counter' = 0
  /\ irq_finish' = FALSE
  /\ W' = [i \in 0..15 |-> Zero]
  /\ s0' = Zero
  /\ s1' = Zero
  /\ stage' = [j \in 0..2 |-> Zero]
  /\ abcdefgh' = [i \in 0..7 |-> Zero]
  /\ H8' = IV

Next ==
  \/ \E vld \in BOOLEAN, dat \in Inputs : Clock(vld, dat)
  \/ Reset

Spec == Init /\ [][Next]_vars

(* hash0..hash7, as the wrappers read them. *)
hash == [i \in 0..7 |-> Swap(H8[i])]

-----------------------------------------------------------------------------
(* Every register holds a value of its width. *)
TypeOK ==
  /\ state \in FsmStates
  /\ counter \in 0..255
  /\ irq_finish \in BOOLEAN
  /\ W \in [0..15 -> Word]
  /\ s0 \in Word
  /\ s1 \in Word
  /\ stage \in [0..2 -> Word]
  /\ abcdefgh \in [0..7 -> Word]
  /\ H8 \in [0..7 -> Word]

(* The counter and the FSM stay in step, whatever the bus presents while   *)
(* the core is busy: the LOAD test "== 8'h10" and the PROC test "== 8'h40" *)
(* are equalities, so a counter that skipped past either would wedge the   *)
(* core.  A word offered in the last PROC cycle takes the counter to 65,   *)
(* from which only FINISH (which ignores it) may be left.                  *)
CounterInStep ==
  /\ state = "IDLE"   => counter = 0
  /\ state = "LOAD"   => counter \in 1..16
  /\ state = "PROC"   => counter \in 17..64
  /\ state = "FINISH" => counter \in 64..65

(* The sigma registers run one cycle ahead of the window: once a word has  *)
(* been shifted in they hold the sigmas of W[1] and W[14], the two taps    *)
(* w_new needs in the next cycle, however long the bus stalls in between.  *)
SigmasAhead == counter > 0 => s0 = sigma0(W[1]) /\ s1 = sigma1(W[14])

-----------------------------------------------------------------------------
(* The working variables of the standard's algorithm are abcdefgh_next,    *)
(* its round number is the counter while a block is under way, and of the  *)
(* shift register only the words of this block are part of its window.     *)
round == IF compress_start THEN counter ELSE 0

window == [i \in 0..15 |-> IF i >= 16 - round THEN W[i] ELSE None]

Std == INSTANCE Sha256Standard
         WITH H <- H8, v <- abcdefgh_next, t <- round, win <- window

(* The core implements the algorithm of the standard: each clock edge is   *)
(* one of its steps or changes nothing that is visible in it.              *)
ImplementsStandard == Std!Spec
=============================================================================
