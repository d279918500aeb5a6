-------------------------- MODULE Sha256CoreProofs ---------------------------
(***************************************************************************)
(* The core is correct for every word algebra: its registers keep their    *)
(* types, control and data path stay in step, and it implements the        *)
(* algorithm of the standard.                                              *)
(***************************************************************************)
EXTENDS Sha256Core, TLAPS

AddCommutative == \A x, y \in Word : Add(x, y) = Add(y, x)

AddAssociative == \A x, y, z \in Word : Add(Add(x, y), z) = Add(x, Add(y, z))

(* Closure of the operators, and the two laws of modular addition on which *)
(* the core's regrouping of the round's sums relies.                       *)
WordLaws ==
  /\ Inputs \subseteq Word
  /\ Zero \in Word
  /\ \A x, y \in Word : Add(x, y) \in Word
  /\ \A x \in Word : /\ sigma0(x) \in Word
                     /\ sigma1(x) \in Word
                     /\ Sigma0(x) \in Word
                     /\ Sigma1(x) \in Word
                     /\ Swap(x) \in Word
  /\ \A x, y, z \in Word : Ch(x, y, z) \in Word /\ Maj(x, y, z) \in Word
  /\ K \in [0..63 -> Word]
  /\ IV \in [0..7 -> Word]
  /\ AddCommutative
  /\ AddAssociative

-----------------------------------------------------------------------------
(* A cycle in which no word enters the pipeline while a block is under way *)
(* is a pause of the bus in LOAD.                                          *)
LEMMA FsmStep ==
  ASSUME state \in FsmStates, counter \in 0..255, CounterInStep,
         NEW vld \in BOOLEAN
  PROVE  LET st  == StateNext(state, counter, vld)
             cnt == CounterNext(state, counter, vld)
         IN  /\ st \in FsmStates
             /\ cnt \in 0..255
             /\ st = "IDLE"   => cnt = 0
             /\ st = "LOAD"   => cnt \in 1..16
             /\ st = "PROC"   => cnt \in 17..64
             /\ st = "FINISH" => cnt \in 64..65
             /\ cnt > 0 /\ ~PipelineStart(state, counter, vld) => counter > 0
<1> USE DEF CounterInStep, StateNext, CounterNext, PipelineStart, FsmStates
<1>1. CASE state = "IDLE"
  BY <1>1
<1>2. CASE state = "LOAD"
  BY <1>2
<1>3. CASE state = "PROC"
  BY <1>3
<1>4. CASE state = "FINISH"
  BY <1>4
<1> QED
  BY <1>1, <1>2, <1>3, <1>4

(* The sums of a round are words. *)
LEMMA SumTyped ==
  ASSUME WordLaws, NEW x \in Word, NEW y \in Word, NEW z \in Word
  PROVE  /\ Add(Sigma0(x), Maj(x, y, z)) \in Word
         /\ Add(Sigma1(x), Ch(x, y, z)) \in Word
<1>1. /\ Sigma0(x) \in Word /\ Maj(x, y, z) \in Word
      /\ Sigma1(x) \in Word /\ Ch(x, y, z) \in Word
  BY DEF WordLaws
<1> QED
  BY <1>1 DEF WordLaws

(* The ROM address is the counter truncated to six bits. *)
LEMMA ConstantWord ==
  ASSUME WordLaws, counter \in 0..255
  PROVE  k_out \in Word
<1>1. counter % 64 \in 0..63
  OBVIOUS
<1>2. K \in [0..63 -> Word]
  BY DEF WordLaws
<1> QED
  BY <1>1, <1>2 DEF k_out

(* The working variables are words whether or not a block is under way.    *)
LEMMA NextWords ==
  ASSUME WordLaws, TypeOK
  PROVE  abcdefgh_next \in [0..7 -> Word]
<1>1. tmp2 \in Word /\ compress \in Word
  <2>1. stage[0] \in Word /\ stage[1] \in Word /\ stage[2] \in Word
    BY DEF TypeOK
  <2>2. tmp2 \in Word
    BY <2>1 DEF WordLaws, tmp2
  <2> QED
    BY <2>1, <2>2 DEF WordLaws, compress
<1>2. Add(abcdefgh[3], tmp2) \in Word
  BY <1>1 DEF WordLaws, TypeOK
<1>3. \A i \in 0..7 \ {0, 4} : abcdefgh[i - 1] \in Word
  BY DEF TypeOK
<1> QED
  BY <1>1, <1>2, <1>3 DEF abcdefgh_next, TypeOK

(* So is the word that enters the schedule. *)
LEMMA EnteringWord ==
  ASSUME WordLaws, TypeOK, NEW vld \in BOOLEAN, NEW dat \in Inputs
  PROVE  w_in(vld, dat) \in Word
<1>1. w_new \in Word
  <2>1. W[0] \in Word /\ W[9] \in Word /\ s0 \in Word /\ s1 \in Word
    BY DEF TypeOK
  <2>2. Add(W[0], s0) \in Word /\ Add(W[9], s1) \in Word
    BY <2>1 DEF WordLaws
  <2> QED
    BY <2>2 DEF WordLaws, w_new
<1>2. Swap(dat) \in Word
  BY DEF WordLaws
<1> QED
  BY <1>1, <1>2 DEF w_in

-----------------------------------------------------------------------------
Inv == TypeOK /\ CounterInStep /\ SigmasAhead

LEMMA InvInit == ASSUME WordLaws, Init PROVE Inv
<1>1. Zero \in Word /\ IV \in [0..7 -> Word]
  BY DEF WordLaws
<1>2. irq_finish \in BOOLEAN
  BY DEF Init
<1>3. CounterInStep /\ SigmasAhead
  BY DEF Init, CounterInStep, SigmasAhead
<1> QED
  BY <1>1, <1>2, <1>3 DEF Init, Inv, TypeOK, FsmStates

LEMMA InvClock ==
  ASSUME WordLaws, Inv, NEW vld \in BOOLEAN, NEW dat \in Inputs,
         Clock(vld, dat)
  PROVE  Inv'
<1> USE DEF Inv
<1>1. /\ state' \in FsmStates
      /\ counter' \in 0..255
      /\ CounterInStep'
      /\ counter' > 0 /\ ~PipelineStart(state, counter, vld) => counter > 0
  <2>1. state \in FsmStates /\ counter \in 0..255 /\ CounterInStep
    BY DEF TypeOK
  <2>2. /\ state' = StateNext(state, counter, vld)
        /\ counter' = CounterNext(state, counter, vld)
    BY DEF Clock
  <2> QED
    BY <2>1, <2>2, FsmStep DEF CounterInStep, FsmStates
<1>2. irq_finish' \in BOOLEAN
  BY DEF Clock
<1>3. /\ W' \in [0..15 -> Word] /\ s0' \in Word /\ s1' \in Word
      /\ SigmasAhead'
  <2>1. CASE PipelineStart(state, counter, vld)
    <3>1. /\ s0' = sigma0(W[2])
          /\ s1' = sigma1(W[15])
          /\ W' = [i \in 0..15 |-> IF i = 15 THEN w_in(vld, dat) ELSE W[i + 1]]
      BY <2>1 DEF Clock, ScheduleStep
    <3>2. W' \in [0..15 -> Word]
      BY <3>1, EnteringWord DEF TypeOK
    <3>3. s0' \in Word /\ s1' \in Word
      BY <3>1 DEF TypeOK, WordLaws
    <3>4. W'[1] = W[2] /\ W'[14] = W[15]
      BY <3>1
    <3> QED
      BY <3>1, <3>2, <3>3, <3>4 DEF SigmasAhead
  <2>2. CASE ~PipelineStart(state, counter, vld)
    BY <2>2, <1>1 DEF Clock, ScheduleStep, SigmasAhead, TypeOK
  <2> QED
    BY <2>1, <2>2
<1>4. stage' \in [0..2 -> Word] /\ abcdefgh' \in [0..7 -> Word]
  <2> DEFINE v == abcdefgh_next
  <2>1. \A i \in 0..7 : v[i] \in Word
    BY NextWords
  <2> HIDE DEF v
  <2>2. CASE PipelineStart(state, counter, vld)
    <3>1. Add(Sigma0(v[0]), Maj(v[0], v[1], v[2])) \in Word
      BY <2>1, SumTyped
    <3>2. Add(Sigma1(v[4]), Ch(v[4], v[5], v[6])) \in Word
      BY <2>1, SumTyped
    <3>3. k_out \in Word
      BY ConstantWord DEF TypeOK
    <3>4. Add(Add(w_in(vld, dat), k_out), v[7]) \in Word
      <4>1. Add(w_in(vld, dat), k_out) \in Word
        BY <3>3, EnteringWord DEF WordLaws
      <4>2. v[7] \in Word
        BY <2>1
      <4> QED
        BY <4>1, <4>2 DEF WordLaws
    <3> QED
      BY NextWords, <2>2, <3>1, <3>2, <3>4 DEF Clock, CompressStep, v
  <2>3. CASE ~PipelineStart(state, counter, vld)
    BY <2>3 DEF Clock, CompressStep, TypeOK
  <2> QED
    BY <2>2, <2>3
<1>5. H8' \in [0..7 -> Word]
  <2>1. abcdefgh_next \in [0..7 -> Word]
    BY NextWords
  <2>2. \A i \in 0..7 : Add(H8[i], abcdefgh_next[i]) \in Word
    BY <2>1 DEF WordLaws, TypeOK
  <2> QED
    BY <2>2 DEF Clock, UpdateHash, TypeOK
<1> QED
  BY <1>1, <1>2, <1>3, <1>4, <1>5 DEF TypeOK

LEMMA InvReset == ASSUME WordLaws, Reset PROVE Inv'
<1>1. Zero \in Word /\ IV \in [0..7 -> Word]
  BY DEF WordLaws
<1>2. irq_finish' \in BOOLEAN
  BY DEF Reset
<1>3. CounterInStep' /\ SigmasAhead'
  BY DEF Reset, CounterInStep, SigmasAhead
<1> QED
  BY <1>1, <1>2, <1>3 DEF Reset, Inv, TypeOK, FsmStates

LEMMA InvNext == ASSUME WordLaws, Inv, [Next]_vars PROVE Inv'
<1>1. CASE Next
  BY <1>1, InvClock, InvReset DEF Next
<1>2. CASE UNCHANGED vars
  BY <1>2 DEF vars, Inv, TypeOK, CounterInStep, SigmasAhead
<1> QED
  BY <1>1, <1>2

LEMMA Invariance == ASSUME WordLaws PROVE Spec => []Inv
  BY InvInit, InvNext, PTL DEF Spec

(* Every register of the core holds a value of its width in every cycle.   *)
THEOREM TypeCorrect == ASSUME WordLaws PROVE Spec => []TypeOK
<1>1. Inv => TypeOK
  BY DEF Inv
<1> QED
  BY <1>1, Invariance, PTL

(* The equality tests of the FSM never miss the counter, whatever the bus  *)
(* presents while the core is busy.                                        *)
THEOREM ControlInStep == ASSUME WordLaws PROVE Spec => []CounterInStep
<1>1. Inv => CounterInStep
  BY DEF Inv
<1> QED
  BY <1>1, Invariance, PTL

(* The registered sigmas are those of the taps the next schedule word      *)
(* needs, however the bus pauses.                                          *)
THEOREM SigmasInStep == ASSUME WordLaws PROVE Spec => []SigmasAhead
<1>1. Inv => SigmasAhead
  BY DEF Inv
<1> QED
  BY <1>1, Invariance, PTL

-----------------------------------------------------------------------------
LEMMA AddClosed ==
  ASSUME WordLaws, NEW x \in Word, NEW y \in Word PROVE Add(x, y) \in Word
  BY DEF WordLaws

LEMMA AddCommutes ==
  ASSUME WordLaws, NEW x \in Word, NEW y \in Word PROVE Add(x, y) = Add(y, x)
<1>1. AddCommutative
  BY DEF WordLaws
<1> QED
  BY <1>1 DEF AddCommutative

LEMMA AddAssociates ==
  ASSUME WordLaws, NEW x \in Word, NEW y \in Word, NEW z \in Word
  PROVE  Add(Add(x, y), z) = Add(x, Add(y, z))
<1>1. AddAssociative
  BY DEF WordLaws
<1> QED
  BY <1>1 DEF AddAssociative

(* The core sums a round in another order than the standard does. *)
LEMMA SumOfRound ==
  ASSUME WordLaws, NEW h \in Word, NEW s \in Word, NEW c \in Word,
         NEW k \in Word, NEW w \in Word
  PROVE  Add(Add(s, c), Add(Add(w, k), h)) = Add(Add(Add(Add(h, s), c), k), w)
<1> DEFINE sc == Add(s, c)
           wk == Add(w, k)
<1>1. sc \in Word /\ wk \in Word
  BY AddClosed
<1>2. Add(Add(h, s), c) = Add(h, sc)
  BY AddAssociates
<1>3. wk = Add(k, w)
  BY AddCommutes
<1> HIDE DEF sc, wk
<1>4. Add(h, sc) \in Word
  BY <1>1, AddClosed
<1>5. Add(sc, Add(wk, h)) = Add(sc, Add(h, wk))
  BY <1>1, AddCommutes
<1>6. Add(sc, Add(h, wk)) = Add(Add(sc, h), wk)
  BY <1>1, AddAssociates
<1>7. Add(sc, h) = Add(h, sc)
  BY <1>1, AddCommutes
<1>8. Add(Add(h, sc), Add(k, w)) = Add(Add(Add(h, sc), k), w)
  BY <1>4, AddAssociates
<1> QED
  BY <1>2, <1>3, <1>5, <1>6, <1>7, <1>8 DEF sc, wk

(* The same for a word of the schedule. *)
LEMMA SumOfSchedule ==
  ASSUME WordLaws, NEW a \in Word, NEW b \in Word, NEW c \in Word,
         NEW d \in Word
  PROVE  Add(Add(a, b), Add(c, d)) = Add(Add(Add(d, c), b), a)
<1> DEFINE dc == Add(d, c)
<1>1. dc \in Word /\ Add(a, b) \in Word
  BY AddClosed
<1>2. Add(c, d) = dc /\ Add(a, b) = Add(b, a)
  BY AddCommutes
<1> HIDE DEF dc
<1>3. Add(Add(a, b), dc) = Add(dc, Add(a, b))
  BY <1>1, AddCommutes
<1>4. Add(dc, Add(b, a)) = Add(Add(dc, b), a)
  BY <1>1, AddAssociates
<1> QED
  BY <1>2, <1>3, <1>4 DEF dc

LEMMA RefInit == ASSUME Init PROVE Std!StdInit
  BY DEF Init, Std!StdInit, Std!EmptyWindow, abcdefgh_next, compress_start,
         round, window

(* A word that enters the pipeline while a block is under way, or that     *)
(* starts one, is consumed by a round of the standard.                     *)
LEMMA RefConsume ==
  ASSUME WordLaws, Inv, NEW vld \in BOOLEAN, NEW dat \in Inputs,
         Clock(vld, dat), PipelineStart(state, counter, vld),
         round = counter, counter < 64, counter' = counter + 1,
         state' \in {"LOAD", "PROC"}
  PROVE  Std!Consume(w_in(vld, dat))
<1> DEFINE v == abcdefgh_next
           w == w_in(vld, dat)
           T1 == Add(Add(Add(Add(v[7], Sigma1(v[4])), Ch(v[4], v[5], v[6])),
                         K[counter]), w)
           T2 == Add(Sigma0(v[0]), Maj(v[0], v[1], v[2]))
<1>1. TypeOK /\ counter \in 0..63
  BY DEF Inv, TypeOK
<1>2. v \in [0..7 -> Word] /\ w \in Word /\ k_out \in Word
  BY <1>1, NextWords, EnteringWord, ConstantWord DEF TypeOK
<1>3. k_out = K[counter]
  BY <1>1 DEF k_out
<1>4. /\ stage'[0] = T2
      /\ stage'[1] = Add(Sigma1(v[4]), Ch(v[4], v[5], v[6]))
      /\ stage'[2] = Add(Add(w, k_out), v[7])
      /\ abcdefgh' = v
  BY DEF Clock, CompressStep
<1>5. tmp2' = T1
  <2>1. /\ v[7] \in Word
        /\ Sigma1(v[4]) \in Word
        /\ Ch(v[4], v[5], v[6]) \in Word
    <3>1. v[4] \in Word /\ v[5] \in Word /\ v[6] \in Word /\ v[7] \in Word
      BY <1>2
    <3> QED
      BY <3>1 DEF WordLaws
  <2>2. tmp2' = Add(Add(Sigma1(v[4]), Ch(v[4], v[5], v[6])),
                    Add(Add(w, k_out), v[7]))
    BY <1>4 DEF tmp2
  <2>3. K[counter] \in Word
    BY <1>2, <1>3
  <2> HIDE DEF v, w
  <2>4. Add(Add(Sigma1(v[4]), Ch(v[4], v[5], v[6])),
            Add(Add(w, K[counter]), v[7])) = T1
    <3> DEFINE h == v[7]
               s == Sigma1(v[4])
               c == Ch(v[4], v[5], v[6])
               k == K[counter]
    <3>1. h \in Word /\ s \in Word /\ c \in Word /\ k \in Word /\ w \in Word
      BY <2>1, <2>3, <1>2
    <3> HIDE DEF h, s, c, k
    <3>2. Add(Add(s, c), Add(Add(w, k), h)) = Add(Add(Add(Add(h, s), c), k), w)
      BY <3>1, SumOfRound
    <3> QED
      BY <3>2 DEF h, s, c, k
  <2> QED
    BY <2>2, <2>4, <1>3
<1>6. compress' = Add(T1, T2)
  <2>1. compress' = Add(T2, T1)
    BY <1>4, <1>5 DEF compress
  <2>2. T2 \in Word
    BY <1>2, SumTyped
  <2>3. T1 \in Word
    <3>1. stage' \in [0..2 -> Word]
      BY InvClock DEF Inv, TypeOK
    <3>2. stage'[1] \in Word /\ stage'[2] \in Word
      BY <3>1
    <3> QED
      BY <1>5, <3>2, AddClosed DEF tmp2
  <2> QED
    BY <2>1, <2>2, <2>3, AddCommutes
<1>7. v' = Std!Round(w)
  <2>1. v' = [i \in 0..7 |-> CASE i = 0 -> compress'
                               [] i = 4 -> Add(abcdefgh'[3], tmp2')
                               [] OTHER -> abcdefgh'[i - 1]]
    BY DEF abcdefgh_next, compress_start
  <2>2. Std!Round(w) = [i \in 0..7 |-> CASE i = 0 -> Add(T1, T2)
                                         [] i = 4 -> Add(v[3], T1)
                                         [] OTHER -> v[i - 1]]
    BY DEF Std!Round
  <2> QED
    BY <2>1, <2>2, <1>4, <1>5, <1>6
<1>8. window' = [i \in 0..15 |-> IF i = 15 THEN w ELSE window[i + 1]]
  <2>1. W' = [i \in 0..15 |-> IF i = 15 THEN w ELSE W[i + 1]]
    BY DEF Clock, ScheduleStep
  <2>2. round' = counter + 1
    BY DEF round, compress_start
  <2> QED
    BY <2>1, <2>2, <1>1 DEF window
<1>9. round' = round + 1
  BY DEF round, compress_start
<1>10. H8' = H8
  BY DEF Clock, UpdateHash
<1> QED
  BY <1>7, <1>8, <1>9, <1>10 DEF Std!Consume

LEMMA RefClock ==
  ASSUME WordLaws, Inv, NEW vld \in BOOLEAN, NEW dat \in Inputs,
         Clock(vld, dat)
  PROVE  [Std!StdNext]_Std!stdVars
<1> USE DEF Inv
<1>1. /\ state' = StateNext(state, counter, vld)
      /\ counter' = CounterNext(state, counter, vld)
      /\ state \in FsmStates
      /\ counter \in 0..255
      /\ CounterInStep
  BY DEF Clock, TypeOK
<1>2. CASE vld /\ (state = "IDLE" \/ (state = "LOAD" /\ counter < 16))
  <2>1. /\ PipelineStart(state, counter, vld)
        /\ round = counter /\ counter < 16
        /\ counter' = counter + 1
        /\ state' \in {"LOAD", "PROC"}
        /\ StateNext(state, counter, vld) # "PROC"
    BY <1>1, <1>2 DEF CounterInStep, StateNext, CounterNext, PipelineStart,
                      round, compress_start
  <2>2. w_in(vld, dat) = Swap(dat)
    BY <2>1 DEF w_in
  <2>3. Std!Consume(w_in(vld, dat))
    BY <2>1, <1>1, RefConsume
  <2> QED
    BY <2>1, <2>2, <2>3 DEF Std!StdNext, Std!Absorb
<1>3. CASE \/ state = "LOAD" /\ counter = 16
           \/ state = "PROC" /\ counter < 64
  <2>1. /\ PipelineStart(state, counter, vld)
        /\ round = counter /\ counter \in 16..63
        /\ counter' = counter + 1
        /\ state' \in {"LOAD", "PROC"}
        /\ StateNext(state, counter, vld) = "PROC"
    BY <1>1, <1>3 DEF CounterInStep, StateNext, CounterNext, PipelineStart,
                      round, compress_start
  <2>2. Std!Consume(w_in(vld, dat))
    BY <2>1, <1>1, RefConsume
  <2>3. w_in(vld, dat)
          = Add(Add(Add(sigma1(window[14]), window[9]), sigma0(window[1])),
                window[0])
    <3>1. \A i \in 0..15 : window[i] = W[i]
      BY <2>1 DEF window
    <3>2. s0 = sigma0(W[1]) /\ s1 = sigma1(W[14])
      BY <2>1 DEF SigmasAhead
    <3>3. W[0] \in Word /\ W[9] \in Word /\ s0 \in Word /\ s1 \in Word
      BY DEF TypeOK
    <3>4. w_in(vld, dat) = Add(Add(Add(s1, W[9]), s0), W[0])
      BY <3>3, <2>1, SumOfSchedule DEF w_in, w_new
    <3> QED
      BY <3>1, <3>2, <3>4
  <2> QED
    BY <2>1, <2>2, <2>3 DEF Std!StdNext, Std!Expand
<1>4. CASE state = "PROC" /\ counter = 64
  <2>1. state' = "FINISH" /\ StateNext(state, counter, vld) = "FINISH"
    BY <1>1, <1>4 DEF StateNext
  <2>2. H8' = [i \in 0..7 |-> Add(H8[i], abcdefgh_next[i])]
    BY <2>1 DEF Clock, UpdateHash
  <2>3. round = 64 /\ round' = 0 /\ abcdefgh_next' = H8'
    BY <2>1, <1>4 DEF round, abcdefgh_next, compress_start
  <2>4. window' = Std!EmptyWindow
    BY <2>3 DEF window, Std!EmptyWindow
  <2> QED
    BY <2>2, <2>3, <2>4 DEF Std!StdNext, Std!Finish
<1>5. CASE ~vld /\ state = "LOAD" /\ counter < 16
  <2>1. ~PipelineStart(state, counter, vld) /\ state' = state /\ counter' = counter
        /\ StateNext(state, counter, vld) # "FINISH"
    BY <1>1, <1>5 DEF StateNext, PipelineStart, CounterNext
  <2>2. UNCHANGED <<s0, s1, W, stage, abcdefgh, H8>>
    BY <2>1 DEF Clock, ScheduleStep, CompressStep, UpdateHash
  <2> QED
    BY <2>1, <2>2 DEF Std!stdVars, abcdefgh_next, compress_start, compress,
                      tmp2, round, window
<1>6. CASE (~vld /\ state = "IDLE") \/ state = "FINISH"
  <2>1. state' = "IDLE" /\ StateNext(state, counter, vld) # "FINISH"
    BY <1>1, <1>6 DEF StateNext
  <2>2. H8' = H8
    BY <2>1 DEF Clock, UpdateHash
  <2>3. round = 0 /\ round' = 0
    BY <2>1, <1>6 DEF round, compress_start
  <2>4. abcdefgh_next = H8 /\ abcdefgh_next' = H8'
    BY <2>1, <1>6 DEF abcdefgh_next, compress_start
  <2>5. window = Std!EmptyWindow /\ window' = Std!EmptyWindow
    BY <2>3 DEF window, Std!EmptyWindow
  <2> QED
    BY <2>2, <2>3, <2>4, <2>5 DEF Std!stdVars
<1> QED
  BY <1>1, <1>2, <1>3, <1>4, <1>5, <1>6 DEF FsmStates, CounterInStep

LEMMA RefReset == ASSUME Reset PROVE Std!Restart
  BY DEF Reset, Std!Restart, Std!EmptyWindow, abcdefgh_next, compress_start,
         round, window

LEMMA RefNext ==
  ASSUME WordLaws, Inv, [Next]_vars
  PROVE  [Std!StdNext]_Std!stdVars
<1>1. ASSUME NEW vld \in BOOLEAN, NEW dat \in Inputs, Clock(vld, dat)
      PROVE  [Std!StdNext]_Std!stdVars
  BY <1>1, RefClock
<1>2. CASE Reset
  BY <1>2, RefReset DEF Std!StdNext
<1>3. CASE UNCHANGED vars
  BY <1>3 DEF vars, Std!stdVars, abcdefgh_next, compress_start, compress,
              tmp2, round, window
<1> QED
  BY <1>1, <1>2, <1>3 DEF Next

(* The pipelined core, with words presented to it in any cycle, computes   *)
(* what the standard's algorithm computes on the words it took.            *)
THEOREM CoreImplementsStandard ==
  ASSUME WordLaws PROVE Spec => ImplementsStandard
  BY RefInit, RefNext, Invariance, PTL DEF Spec, ImplementsStandard, Std!Spec
=============================================================================
