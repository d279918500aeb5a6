----------------------------- MODULE ZynqProofs ------------------------------
(***************************************************************************)
(* The Zynq driver, for every length of block, message and buffer and any  *)
(* number of writes and probes: transfers run undisturbed, what write      *)
(* reports is in the core, what read copies is its digest, and what probe  *)
(* acquired is there while it is used.  Users who open the node before     *)
(* probe is through, or unbind a device that is open, are excluded.        *)
(***************************************************************************)
EXTENDS ZynqProbe, SequenceTheorems, TLAPS

Words(n) == [i \in 1..n |-> i]

(* The writer is between the start of a transfer and the end of its wait. *)
InTransfer == pc \in {"w_flag", "w_wait", "w_sleep"}

Quiet == dma = << >> /\ pushed = 0 /\ ~irq /\ cb = "none"

Types ==
  /\ copied \in 0..MsgWords
  /\ dma \in Seq(Nat) /\ pushed \in Nat
  /\ f_pos \in Nat /\ copies \in Seq([half : Int, of : Seq(Nat)])
  /\ acked \in Seq(Nat)
  /\ core \in [block : Seq(Nat), hash : Seq(Nat), busy : BOOLEAN]
  /\ irq \in BOOLEAN /\ busy \in BOOLEAN

(* One transfer at a time, of what is in the buffer; the writer goes on    *)
(* only after the callback has cleared busy, and then all is quiet.        *)
OneTransfer ==
  /\ ~InTransfer \/ (pc # "w_flag" /\ ~busy) => Quiet
  /\ pc = "w_issue" \/ InTransfer =>
       copied < MsgWords /\ tx_buf = [i \in 1..should_copy |-> copied + i]
  /\ dma # << >> =>
       dma = <<should_copy>> /\ pushed <= should_copy /\ ~irq /\ cb = "none"
  /\ dma = << >> => pushed = 0
  /\ cb # "none" => ~irq

(* Words of the write under way that have reached the core. *)
Progress ==
  IF pc \in {"w_copy", "w_issue", "w_err"} THEN copied
  ELSE IF InTransfer
  THEN copied + (IF dma = << >> THEN should_copy ELSE pushed)
  ELSE 0

InCore ==
  pc # "closed" /\ 0 \notin Range(acked) =>
    core.hash \o core.block = acked \o Words(Progress)

WholeBlocks ==
  /\ Len(core.hash) % LoadWords = 0
  /\ Len(core.block) <= LoadWords
  /\ core.busy <=> Len(core.block) = LoadWords

(* What has been copied out still is what the hash registers hold. *)
FromHash ==
  /\ pc \in {"r_wait", "r_sleep"} => copies = << >>
  /\ pc = "r_copy" =>
       /\ ~core.busy
       /\ \A i \in DOMAIN copies :
            copies[i] = [half |-> (f_pos % Digest) + i - 1, of |-> core.hash]
  /\ pc = "open" /\ ret = "digest" =>
       /\ ~core.busy
       /\ \A i \in DOMAIN copies :
            copies[i] = [half |-> f_pos - Len(copies) + i - 1, of |-> core.hash]

(* Nothing is claimed once a signal has cut a transfer off its write. *)
DriverInv ==
  cut \/ (Types /\ OneTransfer /\ InCore /\ WholeBlocks /\ FromHash)

-----------------------------------------------------------------------------
(* Arithmetic and sequences.                                               *)

LEMMA MultipleMod ==
  ASSUME NEW n \in Nat \ {0}, NEW q \in Nat PROVE (n * q) % n = 0
  BY Z3

LEMMA NextMultiple ==
  ASSUME NEW a \in Nat, NEW n \in Nat \ {0}, a % n = 0 PROVE (a + n) % n = 0
<1>1. PICK q \in Nat : a = n * q
  BY Z3
<1>2. a + n = n * (q + 1) /\ q + 1 \in Nat
  BY <1>1, Z3
<1> QED
  BY <1>2, MultipleMod

LEMMA NoMultipleBetween ==
  ASSUME NEW a \in Nat, NEW b \in Nat, NEW n \in Nat \ {0},
         a % n = 0, (a + b) % n = 0, b < n
  PROVE  b = 0
<1>1. PICK q \in Nat : a = n * q
  BY Z3
<1>2. PICK r \in Nat : a + b = n * r
  BY Z3
<1>3. b = n * (r - q)
  BY <1>1, <1>2, Z3
<1>4. r - q < 1
  BY <1>3, Z3
<1>5. r - q > -1
  BY <1>3, Z3
<1> QED
  BY <1>3, <1>4, <1>5

LEMMA WordsTyped == ASSUME NEW n \in Nat PROVE Words(n) \in Seq(Nat)
  BY DEF Words

LEMMA NextWord ==
  ASSUME NEW n \in Nat PROVE Words(n + 1) = Append(Words(n), n + 1)
  BY DEF Words

LEMMA NoWords == Words(0) = << >>
  BY DEF Words

LEMMA MessagePart ==
  ASSUME NEW n \in 0..MsgWords, NEW m \in Nat, n + m <= MsgWords
  PROVE  SubSeq(Message, n + 1, n + m) = [i \in 1..m |-> n + i]
  BY DriverAssumption DEF Message

LEMMA MessagePrefix ==
  ASSUME NEW n \in 0..MsgWords PROVE SubSeq(Message, 1, n) = Words(n)
  BY DriverAssumption DEF Message, Words

LEMMA AppendConcat ==
  ASSUME NEW s \in Seq(Nat), NEW t \in Seq(Nat), NEW e \in Nat
  PROVE  s \o Append(t, e) = Append(s \o t, e)
  OBVIOUS

LEMMA ConcatNone == ASSUME NEW s \in Seq(Nat) PROVE s \o << >> = s
  OBVIOUS

LEMMA RangeConcat ==
  ASSUME NEW s \in Seq(Nat), NEW t \in Seq(Nat), 0 \notin Range(s \o t)
  PROVE  0 \notin Range(s)
<1>1. ASSUME NEW i \in DOMAIN s PROVE s[i] # 0
  <2>1. i \in DOMAIN (s \o t) /\ (s \o t)[i] = s[i]
    OBVIOUS
  <2> QED
    BY <2>1 DEF Range
<1> QED
  BY <1>1 DEF Range

LEMMA ZeroAppended ==
  ASSUME NEW s \in Seq(Nat), NEW t \in Seq(Nat)
  PROVE  0 \in Range(s \o Append(t, 0))
<1> DEFINE u == s \o Append(t, 0)
<1>1. u[Len(u)] = 0 /\ Len(u) \in DOMAIN u
  OBVIOUS
<1> QED
  BY <1>1 DEF Range

-----------------------------------------------------------------------------
(* The steps of the driver.                                                *)

(* Steps that leave buffer, transfer and core alone. *)
Reading ==
  \/ OpenBusy \/ Llseek \/ Read \/ ReadAgain \/ ReadFails
  \/ WaitRead \/ CopyToUser \/ ReadReturns \/ Interrupt

(* The variables keep their types. *)
LEMMA TypesStep ==
  ASSUME Types, OneTransfer, Running, ~cut' PROVE Types'
<1> USE DriverAssumption DEF Types, Digest,
        procVars, drvVars, hwVars
<1>1. CASE Reading
  <2>1. CASE OpenBusy
    BY <2>1 DEF OpenBusy
  <2>2. CASE Llseek
    BY <2>2 DEF Llseek
  <2>3. CASE Read
    BY <2>3 DEF Read
  <2>4. CASE ReadAgain
    BY <2>4 DEF ReadAgain
  <2>5. CASE ReadFails
    BY <2>5 DEF ReadFails
  <2>6. CASE WaitRead
    BY <2>6 DEF WaitRead
  <2>7. CASE CopyToUser
    BY <2>7 DEF CopyToUser
  <2>8. CASE ReadReturns
    BY <2>8 DEF ReadReturns
  <2>9. CASE Interrupt
    BY <2>9 DEF Interrupt
  <2> QED
    BY <1>1, <2>1, <2>2, <2>3, <2>4, <2>5, <2>6, <2>7, <2>8, <2>9 DEF Reading
<1>2. CASE Release
  BY <1>2 DEF Release
<1>3. CASE Write
  BY <1>3 DEF Write
<1>4. CASE WriteFails
  BY <1>4 DEF WriteFails
<1>5. CASE CopyFromUser
  BY <1>5 DEF CopyFromUser
<1>6. CASE IssuePending
  BY <1>6 DEF IssuePending, should_copy, Least, OneTransfer
<1>7. CASE SetBusy
  BY <1>7 DEF SetBusy
<1>8. CASE WaitWrite
  BY <1>8 DEF WaitWrite, should_copy, Least, OneTransfer, InTransfer
<1>9. CASE WriteReturns
  BY <1>9 DEF WriteReturns, Message
<1>10. CASE Callback
  <2>1. CASE CallbackStart
    BY <2>1 DEF CallbackStart
  <2>2. CASE CallbackWakeReader
    BY <2>2 DEF CallbackWakeReader, Wake
  <2>3. CASE CallbackWakeWriter
    BY <2>3 DEF CallbackWakeWriter, Wake
  <2>4. CASE CallbackTerminate
    <3>1. << >> \in Seq(Nat)
      OBVIOUS
    <3> QED
      BY <2>4, <3>1 DEF CallbackTerminate
  <2>5. CASE CallbackClearBusy
    BY <2>5 DEF CallbackClearBusy
  <2> QED
    BY <1>10, <2>1, <2>2, <2>3, <2>4, <2>5 DEF Callback
<1>11. CASE DmaPush
  <2>1. InTransfer
    BY <1>11 DEF DmaPush, OneTransfer, Quiet
  <2>2. tx_buf = [i \in 1..should_copy |-> copied + i]
    BY <2>1 DEF OneTransfer
  <2>3. BufferWord(pushed + 1) \in Nat
    BY <2>2 DEF BufferWord
  <2>4. core' = [core EXCEPT
          !.block = Append(core.block, BufferWord(pushed + 1)),
          !.busy = (Len(Append(core.block, BufferWord(pushed + 1))) = LoadWords)]
    BY <1>11 DEF DmaPush, CoreTakes
  <2>5. Append(core.block, BufferWord(pushed + 1)) \in Seq(Nat)
    BY <2>3
  <2>6. core' \in [block : Seq(Nat), hash : Seq(Nat), busy : BOOLEAN]
    BY <2>4, <2>5
  <2> QED
    BY <1>11, <2>6 DEF DmaPush
<1>12. CASE DmaDone
  BY <1>12 DEF DmaDone
<1>13. CASE CoreFinishes
  BY <1>13 DEF CoreFinishes
<1> QED
  BY <1>1, <1>2, <1>3, <1>4, <1>5, <1>6, <1>7, <1>8, <1>9, <1>10,
     <1>11, <1>12, <1>13
     DEF Running, InOperation, Hardware, Reading

(* The order of busy, wake-up and device_terminate_all keeps transfers apart. *)
LEMMA OneTransferStep ==
  ASSUME Types, OneTransfer, Running, ~cut' PROVE OneTransfer'
<1> USE DriverAssumption DEF Types, OneTransfer, Quiet, InTransfer,
  should_copy, Least,
        procVars, drvVars, hwVars
<1>1. CASE Reading
  <2>1. CASE OpenBusy
    BY <2>1 DEF OpenBusy
  <2>2. CASE Llseek
    BY <2>2 DEF Llseek
  <2>3. CASE Read
    BY <2>3 DEF Read
  <2>4. CASE ReadAgain
    BY <2>4 DEF ReadAgain
  <2>5. CASE ReadFails
    BY <2>5 DEF ReadFails
  <2>6. CASE WaitRead
    BY <2>6 DEF WaitRead
  <2>7. CASE CopyToUser
    BY <2>7 DEF CopyToUser
  <2>8. CASE ReadReturns
    BY <2>8 DEF ReadReturns
  <2>9. CASE Interrupt
    BY <2>9 DEF Interrupt
  <2> QED
    BY <1>1, <2>1, <2>2, <2>3, <2>4, <2>5, <2>6, <2>7, <2>8, <2>9 DEF Reading
<1>2. CASE Release
  BY <1>2 DEF Release
<1>3. CASE Write
  BY <1>3 DEF Write
<1>4. CASE WriteFails
  BY <1>4 DEF WriteFails
<1>5. CASE CopyFromUser
  <2>1. /\ copied \in 0..MsgWords /\ should_copy \in Nat
        /\ copied + should_copy <= MsgWords
    BY DEF Types
  <2>2. tx_buf' = SubSeq(Message, copied + 1, copied + should_copy)
    BY <1>5 DEF CopyFromUser
  <2>3. tx_buf' = [i \in 1..should_copy |-> copied + i]
    BY <2>1, <2>2, MessagePart
  <2> QED
    BY <1>5, <2>3 DEF CopyFromUser
<1>6. CASE IssuePending
  BY <1>6 DEF IssuePending
<1>7. CASE SetBusy
  BY <1>7 DEF SetBusy
<1>8. CASE WaitWrite
  BY <1>8 DEF WaitWrite
<1>9. CASE WriteReturns
  BY <1>9 DEF WriteReturns
<1>10. CASE Callback
  <2>1. CASE CallbackStart
    BY <2>1 DEF CallbackStart
  <2>2. CASE CallbackWakeReader
    BY <2>2 DEF CallbackWakeReader, Wake
  <2>3. CASE CallbackWakeWriter
    BY <2>3 DEF CallbackWakeWriter, Wake
  <2>4. CASE CallbackTerminate
    BY <2>4 DEF CallbackTerminate
  <2>5. CASE CallbackClearBusy
    BY <2>5 DEF CallbackClearBusy
  <2> QED
    BY <1>10, <2>1, <2>2, <2>3, <2>4, <2>5 DEF Callback
<1>11. CASE DmaPush
  BY <1>11 DEF DmaPush
<1>12. CASE DmaDone
  <2>1. dma = <<should_copy>>
    BY <1>12 DEF DmaDone
  <2>2. dma' = << >>
    BY <1>12, <2>1 DEF DmaDone
  <2> QED
    BY <1>12, <2>2 DEF DmaDone
<1>13. CASE CoreFinishes
  BY <1>13 DEF CoreFinishes
<1> QED
  BY <1>1, <1>2, <1>3, <1>4, <1>5, <1>6, <1>7, <1>8, <1>9, <1>10,
     <1>11, <1>12, <1>13
     DEF Running, InOperation, Hardware, Reading

(* Every word of the message enters the core, in its place. *)
LEMMA InCoreStep ==
  ASSUME Types, OneTransfer, InCore, Running, ~cut' PROVE InCore'
<1> USE DriverAssumption DEF Types, OneTransfer, Quiet, InTransfer,
  should_copy, Least, InCore, Progress,
        procVars, drvVars, hwVars
<1>1. CASE Reading
  BY <1>1 DEF Reading, OpenBusy, Llseek, Read, ReadAgain, ReadFails, WaitRead,
    CopyToUser, ReadReturns, Interrupt
<1>2. CASE Release
  BY <1>2 DEF Release
<1>3. CASE Write
  BY <1>3 DEF Write
<1>4. CASE WriteFails
  BY <1>4 DEF WriteFails
<1>5. CASE CopyFromUser
  BY <1>5 DEF CopyFromUser
<1>6. CASE IssuePending
  <2>1. dma = << >> /\ pushed = 0
    BY <1>6 DEF IssuePending
  <2>2. dma' = <<should_copy>> /\ pushed' = 0
    BY <1>6, <2>1 DEF IssuePending
  <2>3. dma' # << >>
    BY <2>2
  <2>4. Progress = copied /\ Progress' = copied /\ copied \in Nat
    BY <1>6, <2>2, <2>3 DEF IssuePending
  <2>5. UNCHANGED <<core, acked>> /\ pc # "closed" /\ pc' # "closed"
    BY <1>6 DEF IssuePending
  <2> HIDE DEF Progress, Types, OneTransfer
  <2> QED
    BY <2>4, <2>5
<1>7. CASE SetBusy
  BY <1>7 DEF SetBusy
<1>8. CASE WaitWrite
  BY <1>8 DEF WaitWrite
<1>9. CASE WriteReturns
  <2>1. core' = core /\ Progress = copied /\ Progress' = 0 /\ pc # "closed"
    BY <1>9 DEF WriteReturns
  <2>2. CASE copied = MsgWords
    <3>1. acked' = acked \o Message /\ Message = Words(copied)
      BY <1>9, <2>2 DEF WriteReturns, Message, Words
    <3> HIDE DEF Progress, OneTransfer
    <3>2. acked' \in Seq(Nat)
      BY <3>1, WordsTyped
    <3>4. acked' \o Words(0) = acked'
      BY <3>2, NoWords, ConcatNone
    <3>3. 0 \notin Range(acked') => 0 \notin Range(acked)
      BY <3>1, WordsTyped, RangeConcat
    <3> QED
      BY <2>1, <3>1, <3>3, <3>4
  <2>3. CASE copied # MsgWords
    <3>1. acked' = acked \o Append(Words(copied), 0)
      BY <1>9, <2>3, MessagePrefix DEF WriteReturns
    <3>2. 0 \in Range(acked')
      BY <3>1, WordsTyped, ZeroAppended
    <3> QED
      BY <3>2
  <2> QED
    BY <2>2, <2>3
<1>10. CASE Callback
  BY <1>10 DEF Callback, CallbackStart, CallbackWakeReader,
    CallbackWakeWriter, CallbackTerminate, CallbackClearBusy, Wake
<1>11. CASE DmaPush
  <2>1. InTransfer /\ dma # << >> /\ pushed < should_copy /\ dma' = dma
    BY <1>11 DEF DmaPush
  <2>2. BufferWord(pushed + 1) = copied + pushed + 1
    <3>1. tx_buf = [i \in 1..should_copy |-> copied + i]
      BY <2>1
    <3>2. pushed + 1 \in 1..should_copy
      BY <2>1
    <3> HIDE DEF should_copy, OneTransfer
    <3> QED
      BY <3>1, <3>2 DEF BufferWord
  <2>3. /\ core'.hash = core.hash
        /\ core'.block = Append(core.block, copied + pushed + 1)
    BY <1>11, <2>2 DEF DmaPush, CoreTakes
  <2>4. /\ Progress = copied + pushed /\ Progress' = Progress + 1
        /\ Progress \in Nat
    BY <1>11, <2>1 DEF DmaPush
  <2> HIDE DEF Progress, OneTransfer
  <2>8. core.hash \in Seq(Nat) /\ core.block \in Seq(Nat) /\ acked \in Seq(Nat)
    OBVIOUS
  <2> HIDE DEF Types, InCore
  <2>5. core'.hash \o core'.block = Append(core.hash \o core.block, Progress + 1)
    <3>1. core'.block = Append(core.block, Progress + 1) /\ Progress + 1 \in Nat
      BY <2>3, <2>4
    <3>2. core'.hash = core.hash
      BY <2>3
    <3>3. core.hash \o Append(core.block, Progress + 1)
            = Append(core.hash \o core.block, Progress + 1)
      BY <2>8, <3>1, AppendConcat
    <3> QED
      BY <3>1, <3>2, <3>3
  <2>6. acked \o Words(Progress') = Append(acked \o Words(Progress), Progress + 1)
    <3>1. Words(Progress) \in Seq(Nat) /\ Progress + 1 \in Nat
      BY <2>4, WordsTyped
    <3>2. Words(Progress') = Append(Words(Progress), Progress + 1)
      BY <2>4, NextWord
    <3> QED
      BY <3>1, <3>2, <2>8, AppendConcat
  <2>7. acked' = acked /\ pc' = pc
    BY <1>11 DEF DmaPush
  <2> QED
    BY <2>5, <2>6, <2>7 DEF InCore
<1>12. CASE DmaDone
  <2>1. dma = <<should_copy>> /\ InTransfer
    BY <1>12 DEF DmaDone
  <2>2. dma' = << >> /\ pushed = should_copy
    BY <1>12, <2>1 DEF DmaDone
  <2> QED
    BY <1>12, <2>1, <2>2 DEF DmaDone
<1>13. CASE CoreFinishes
  <2>1. core'.hash = core.hash \o core.block /\ core'.block = << >>
    BY <1>13 DEF CoreFinishes
  <2>4. core.hash \o core.block \in Seq(Nat)
    OBVIOUS
  <2>2. core'.hash \o core'.block = core.hash \o core.block
    BY <2>1, <2>4, ConcatNone
  <2>3. Progress' = Progress /\ acked' = acked /\ pc' = pc
    BY <1>13 DEF CoreFinishes
  <2> HIDE DEF Progress
  <2> QED
    BY <2>2, <2>3
<1> QED
  BY <1>1, <1>2, <1>3, <1>4, <1>5, <1>6, <1>7, <1>8, <1>9, <1>10,
     <1>11, <1>12, <1>13
     DEF Running, InOperation, Hardware, Reading

(* The hash registers hold whole blocks. *)
LEMMA WholeBlocksStep ==
  ASSUME Types, OneTransfer, WholeBlocks, Running, ~cut' PROVE WholeBlocks'
<1> USE DriverAssumption DEF WholeBlocks, Types,
        procVars, drvVars, hwVars
<1>1. CASE Reading
  BY <1>1 DEF Reading, OpenBusy, Llseek, Read, ReadAgain, ReadFails, WaitRead,
    CopyToUser, ReadReturns, Interrupt
<1>2. CASE Release
  BY <1>2 DEF Release
<1>3. CASE Write
  BY <1>3 DEF Write
<1>4. CASE WriteFails
  BY <1>4 DEF WriteFails
<1>5. CASE CopyFromUser
  BY <1>5 DEF CopyFromUser
<1>6. CASE IssuePending
  BY <1>6 DEF IssuePending
<1>7. CASE SetBusy
  BY <1>7 DEF SetBusy
<1>8. CASE WaitWrite
  BY <1>8 DEF WaitWrite
<1>9. CASE WriteReturns
  BY <1>9 DEF WriteReturns
<1>10. CASE Callback
  BY <1>10 DEF Callback, CallbackStart, CallbackWakeReader,
    CallbackWakeWriter, CallbackTerminate, CallbackClearBusy, Wake
<1>11. CASE DmaPush
  <2>1. /\ core'.hash = core.hash
        /\ core'.block = Append(core.block, BufferWord(pushed + 1))
        /\ core'.busy = (Len(Append(core.block, BufferWord(pushed + 1))) = LoadWords)
    BY <1>11 DEF DmaPush, CoreTakes
  <2>2. Len(core'.block) = Len(core.block) + 1 /\ Len(core.block) \in Nat
    BY <2>1
  <2>3. Len(core.block) < LoadWords
    BY <1>11, <2>2 DEF DmaPush
  <2>4. core'.busy <=> Len(core'.block) = LoadWords
    BY <2>1
  <2> QED
    BY <2>1, <2>2, <2>3, <2>4
<1>12. CASE DmaDone
  BY <1>12 DEF DmaDone
<1>13. CASE CoreFinishes
  <2>1. /\ core'.hash = core.hash \o core.block
        /\ core'.block = << >> /\ core'.busy = FALSE
        /\ Len(core.block) = LoadWords
    BY <1>13 DEF CoreFinishes
  <2>2. /\ Len(core.hash) \in Nat
        /\ Len(core.hash \o core.block) = Len(core.hash) + Len(core.block)
    OBVIOUS
  <2>3. Len(core'.hash) % LoadWords = 0
    BY <2>1, <2>2, NextMultiple
  <2>4. Len(core'.block) = 0
    BY <2>1
  <2> QED
    BY <2>1, <2>3, <2>4
<1> QED
  BY <1>1, <1>2, <1>3, <1>4, <1>5, <1>6, <1>7, <1>8, <1>9, <1>10,
     <1>11, <1>12, <1>13
     DEF Running, InOperation, Hardware, Reading

(* While a read copies, the core stands still. *)
LEMMA FromHashStep ==
  ASSUME Types, OneTransfer, FromHash, Running, ~cut' PROVE FromHash'
<1> USE DriverAssumption DEF Types, OneTransfer, Quiet, InTransfer, FromHash,
  Digest,
        procVars, drvVars, hwVars
<1>1. CASE Reading
  <2>1. CASE OpenBusy
    BY <2>1 DEF OpenBusy
  <2>2. CASE Llseek
    BY <2>2 DEF Llseek
  <2>3. CASE Read
    BY <2>3 DEF Read
  <2>4. CASE ReadAgain
    BY <2>4 DEF ReadAgain
  <2>5. CASE ReadFails
    BY <2>5 DEF ReadFails
  <2>6. CASE WaitRead
    <3>1. core' = core /\ copies' = copies /\ f_pos' = f_pos
      BY <2>6 DEF WaitRead
    <3> QED
      BY <2>6, <3>1 DEF WaitRead
  <2>7. CASE CopyToUser
    <3>1. /\ pc = "r_copy" /\ pc' = "r_copy" /\ core' = core /\ f_pos' = f_pos
          /\ copies' = Append(copies, [half |-> (f_pos % Digest) + Len(copies),
                                       of |-> core.hash])
      BY <2>7 DEF CopyToUser
    <3>2. /\ Len(copies) \in Nat /\ DOMAIN copies = 1..Len(copies)
          /\ DOMAIN copies' = 1..(Len(copies) + 1)
          /\ \A i \in 1..Len(copies) : copies'[i] = copies[i]
          /\ copies'[Len(copies) + 1] =
               [half |-> (f_pos % Digest) + Len(copies), of |-> core.hash]
      BY <3>1
    <3>3. ASSUME NEW i \in DOMAIN copies'
          PROVE  copies'[i] = [half |-> (f_pos % Digest) + i - 1, of |-> core.hash]
      <4>1. CASE i \in 1..Len(copies)
        BY <4>1, <3>1, <3>2
      <4>2. CASE i = Len(copies) + 1
        <5>1. (f_pos % Digest) + Len(copies) = (f_pos % Digest) + i - 1
          BY <4>2, <3>2
        <5> QED
          BY <4>2, <5>1, <3>2
      <4> QED
        BY <4>1, <4>2, <3>2
    <3> QED
      BY <3>1, <3>3
  <2>8. CASE ReadReturns
    <3>1. /\ pc = "r_copy" /\ pc' = "open" /\ core' = core /\ copies' = copies
          /\ f_pos' = (f_pos % Digest) + Len(copies)
      BY <2>8 DEF ReadReturns
    <3>2. f_pos' - Len(copies') = f_pos % Digest
      BY <3>1
    <3>3. \A i \in DOMAIN copies :
            copies[i] = [half |-> (f_pos % Digest) + i - 1, of |-> core.hash]
      BY <3>1
    <3>4. \A i \in DOMAIN copies' :
            copies'[i] = [half |-> f_pos' - Len(copies') + i - 1, of |-> core'.hash]
      BY <3>1, <3>2, <3>3
    <3>5. ~core'.busy
      BY <3>1
    <3> HIDE DEF FromHash
    <3> QED
      BY <3>1, <3>4, <3>5 DEF FromHash
  <2>9. CASE Interrupt
    BY <2>9 DEF Interrupt
  <2> QED
    BY <1>1, <2>1, <2>2, <2>3, <2>4, <2>5, <2>6, <2>7, <2>8, <2>9 DEF Reading
<1>2. CASE Release
  BY <1>2 DEF Release
<1>3. CASE Write
  BY <1>3 DEF Write
<1>4. CASE WriteFails
  BY <1>4 DEF WriteFails
<1>5. CASE CopyFromUser
  BY <1>5 DEF CopyFromUser
<1>6. CASE IssuePending
  BY <1>6 DEF IssuePending
<1>7. CASE SetBusy
  BY <1>7 DEF SetBusy
<1>8. CASE WaitWrite
  BY <1>8 DEF WaitWrite
<1>9. CASE WriteReturns
  BY <1>9 DEF WriteReturns
<1>10. CASE Callback
  BY <1>10 DEF Callback, CallbackStart, CallbackWakeReader,
    CallbackWakeWriter, CallbackTerminate, CallbackClearBusy, Wake
<1>11. CASE DmaPush
  BY <1>11 DEF DmaPush
<1>12. CASE DmaDone
  BY <1>12 DEF DmaDone
<1>13. CASE CoreFinishes
  BY <1>13 DEF CoreFinishes
<1> QED
  BY <1>1, <1>2, <1>3, <1>4, <1>5, <1>6, <1>7, <1>8, <1>9, <1>10,
     <1>11, <1>12, <1>13
     DEF Running, InOperation, Hardware, Reading


LEMMA OpenStep == ASSUME DriverInv, Open, ~cut' PROVE DriverInv'
<1>1. ~cut /\ Types /\ OneTransfer
  BY DEF Open, DriverInv
<1>2. core' = CoreAfterReset /\ acked' = << >> /\ copies' = << >> /\ pc' = "open"
  BY DEF Open
<1>3. Types' /\ OneTransfer'
  BY <1>1 DEF Open, CoreAfterReset, Types, OneTransfer, Quiet, InTransfer
<1>4. InCore'
  <2>1. Progress' = 0 /\ << >> \in Seq(Nat)
    BY <1>2 DEF Progress, InTransfer
  <2>2. << >> \o Words(0) = << >> /\ << >> \o << >> = << >>
    BY <2>1, NoWords, ConcatNone
  <2> QED
    BY <1>2, <2>1, <2>2 DEF InCore, CoreAfterReset
<1>5. WholeBlocks'
  BY <1>2, DriverAssumption DEF WholeBlocks, CoreAfterReset
<1>6. FromHash'
  BY <1>2 DEF Open, FromHash, CoreAfterReset
<1> QED
  BY <1>3, <1>4, <1>5, <1>6 DEF DriverInv

LEMMA CutStays == ASSUME Open \/ Running, cut, cut \in BOOLEAN PROVE cut'
  BY DEF Open, Running, InOperation, Callback, Hardware, OpenBusy, Release,
    Write, WriteFails, Llseek, Read, ReadAgain, ReadFails, CopyFromUser,
    IssuePending, SetBusy, WaitWrite, WriteReturns, WaitRead, CopyToUser,
    ReadReturns, Interrupt, CallbackStart, CallbackWakeReader,
    CallbackWakeWriter, CallbackTerminate, CallbackClearBusy, DmaPush, DmaDone,
    CoreFinishes, procVars

LEMMA DriverStep ==
  ASSUME DriverInv, Open \/ Running, cut \in BOOLEAN PROVE DriverInv'
<1>1. CASE cut'
  BY <1>1 DEF DriverInv
<1>2. CASE ~cut' /\ Open
  BY <1>2, OpenStep
<1>3. CASE ~cut' /\ Running
  <2>1. Types /\ OneTransfer /\ InCore /\ WholeBlocks /\ FromHash
    BY <1>3, CutStays DEF DriverInv
  <2> QED
    BY <1>3, <2>1, TypesStep, OneTransferStep, InCoreStep, WholeBlocksStep,
       FromHashStep DEF DriverInv
<1> QED
  BY <1>1, <1>2, <1>3

-----------------------------------------------------------------------------
(* The ladder of probe and remove.                                         *)

(* Nobody opens the node before probe has returned, or unbinds the device  *)
(* while it is open.                                                       *)
UsersWait == Faults \cap {"early", "unbind"} = {}

(* Rung j has been passed on the way up, and not on the way down. *)
Climbed(j) ==
  \/ going = "bound"
  \/ going \in {"up", "oops"} /\ j < rung
  \/ going = "down" /\ j <= rung

(* Each resource is held once or not at all, by the place on the ladder;   *)
(* only a class that was refused may be missing, and then the node is too. *)
LadderInv ==
  /\ rung \in 0..9 /\ (going \in {"up", "oops"} => rung # 0)
  /\ going = "down" => rung # 9
  /\ going \in {"up", "down", "bound", "unbound", "oops"}
  /\ held \in [Range(Ladder) -> Int]
  /\ pc # "closed" => going = "bound"
  /\ \A j \in 1..8 :
       \/ held[Ladder[j]] = IF Climbed(j) THEN 1 ELSE 0
       \/ j = 5 /\ held[Ladder[j]] = 0 /\ ~Climbed(6)

LEMMA LadderRungs ==
  /\ DOMAIN Ladder = 1..8 /\ Len(Ladder) = 8
  /\ Ladder[5] = "class"
  /\ \A j \in 1..8 : Ladder[j] = "class" => j = 5
  /\ \A j \in 1..8 : Ladder[j] = "node" <=> j = 6
  BY DEF Ladder

LEMMA LadderInRange == \A j \in 1..8 : Ladder[j] \in Range(Ladder)
  BY DEF Ladder, Range

LEMMA LadderInjective == \A j, k \in 1..8 : Ladder[j] = Ladder[k] => j = k
  BY DEF Ladder

LEMMA LadderCovers == \A r \in Range(Ladder) : \E j \in 1..8 : r = Ladder[j]
  BY DEF Ladder, Range

LEMMA LadderInit == ASSUME InitProbe PROVE LadderInv
<1>1. /\ pc = "closed" /\ going = "unbound" /\ rung = 1
      /\ held = [r \in Range(Ladder) |-> 0]
  BY DEF InitProbe, Init
<1>2. \A j \in 1..8 : held[Ladder[j]] = 0 /\ ~Climbed(j)
  BY <1>1, LadderInRange DEF Climbed
<1> QED
  BY <1>1, <1>2 DEF LadderInv

LEMMA ClosedStays ==
  ASSUME Running, pc = "closed" PROVE pc' = "closed"
  BY DEF Running, InOperation, Callback, Hardware, OpenBusy, Release,
    Write, WriteFails, Llseek, Read, ReadAgain, ReadFails, CopyFromUser,
    IssuePending, SetBusy, WaitWrite, WriteReturns, WaitRead, CopyToUser,
    ReadReturns, Interrupt, CallbackStart, CallbackWakeReader,
    CallbackWakeWriter, CallbackTerminate, CallbackClearBusy, DmaPush, DmaDone,
    CoreFinishes, procVars, Wake

LEMMA LadderStep ==
  ASSUME UsersWait, LadderInv, NextProbe PROVE LadderInv'
<1> USE DEF LadderInv, Climbed, vars, procVars
<1>1. CASE Probe \/ NoResource
  BY <1>1 DEF Probe, NoResource
<1>2. CASE Acquire
  <2>1. /\ going = "up" /\ going' = "up" /\ rung \in 1..8 /\ rung' = rung + 1
        /\ rung = 6 => held[Ladder[5]] = 1
        /\ held' = [held EXCEPT ![Ladder[rung]] = @ + 1]
        /\ pc' = pc
    BY <1>2, LadderRungs DEF Acquire, Count
  <2>2. held'[Ladder[rung]] = 1 /\ held' \in [Range(Ladder) -> Int]
    <3>1. held[Ladder[rung]] = 0 /\ Ladder[rung] \in DOMAIN held
      BY <2>1, LadderInRange
    <3> QED
      BY <2>1, <3>1
  <2>3. \A j \in 1..8 : j # rung => held'[Ladder[j]] = held[Ladder[j]]
    BY <2>1, LadderInRange, LadderInjective
  <2>4. ASSUME NEW j \in 1..8
        PROVE  \/ held'[Ladder[j]] = IF Climbed(j)' THEN 1 ELSE 0
               \/ j = 5 /\ held'[Ladder[j]] = 0 /\ ~Climbed(6)'
    BY <2>1, <2>2, <2>3
  <2> QED
    BY <2>1, <2>2, <2>4
<1>3. CASE AcquireFails
  BY <1>3, LadderRungs DEF AcquireFails, ErrLabel
<1>4. CASE ChanFails
  BY <1>4, LadderRungs DEF ChanFails
<1>5. CASE ClassFails
  BY <1>5, LadderRungs DEF ClassFails
<1>6. CASE ProbeDone
  BY <1>6, LadderRungs DEF ProbeDone
<1>7. CASE ReleaseRung
  <2>1. /\ going = "down" /\ going' = "down" /\ rung \in 1..8 /\ rung' = rung - 1
        /\ IF rung = 5 /\ held[Ladder[5]] = 0 THEN held' = held
           ELSE held' = [held EXCEPT ![Ladder[rung]] = @ - 1]
        /\ pc' = pc
    BY <1>7, LadderRungs DEF ReleaseRung, Count
  <2>2. held'[Ladder[rung]] = 0 /\ held' \in [Range(Ladder) -> Int]
    <3>1. /\ held[Ladder[rung]] = 1 \/ (rung = 5 /\ held[Ladder[rung]] = 0)
          /\ Ladder[rung] \in DOMAIN held
      BY <2>1, LadderInRange
    <3> QED
      BY <2>1, <3>1
  <2>3. \A j \in 1..8 : j # rung => held'[Ladder[j]] = held[Ladder[j]]
    BY <2>1, LadderInRange, LadderInjective
  <2>4. ASSUME NEW j \in 1..8
        PROVE  \/ held'[Ladder[j]] = IF Climbed(j)' THEN 1 ELSE 0
               \/ j = 5 /\ held'[Ladder[j]] = 0 /\ ~Climbed(6)'
    BY <2>1, <2>2, <2>3
  <2> QED
    BY <2>1, <2>2, <2>4
<1>8. CASE Unbound
  BY <1>8 DEF Unbound
<1>9. CASE RemoveDevice
  BY <1>9, LadderRungs DEF RemoveDevice, UsersWait
<1>10. CASE OpenNode
  BY <1>10 DEF OpenNode, UsersWait, probeVars
<1>11. CASE FileOperation
  BY <1>11, ClosedStays DEF FileOperation, probeVars
<1> QED
  BY <1>1, <1>2, <1>3, <1>4, <1>5, <1>6, <1>7, <1>8, <1>9, <1>10, <1>11
     DEF NextProbe

(* The device's life leaves the driver alone: channels are released only   *)
(* when nothing is under way.                                              *)
LEMMA ProbeLeavesDriver ==
  ASSUME LadderInv, DriverInv, NextProbe, ~OpenNode, ~FileOperation
  PROVE  DriverInv' /\ cut' = cut
<1>1. /\ UNCHANGED <<pc, copied, ret, f_pos, copies, writes, acked, cut, busy,
                     tx_buf, cb, core>>
      /\ \/ UNCHANGED <<dma, pushed, irq>>
         \/ pc = "closed" /\ dma' = << >> /\ pushed' = 0 /\ irq' = FALSE
  BY DEF NextProbe, Probe, NoResource, Acquire, AcquireFails, ChanFails,
    ClassFails, ProbeDone, ReleaseRung, Unbound, RemoveDevice, LadderInv,
    vars, procVars, drvVars, hwVars
<1>2. CASE cut
  BY <1>1, <1>2 DEF DriverInv
<1>3. CASE ~cut
  <2>1. Types /\ OneTransfer /\ InCore /\ WholeBlocks /\ FromHash
    BY <1>3 DEF DriverInv
  <2>2. UNCHANGED <<dma, pushed, irq>>
    BY <1>1, <2>1 DEF OneTransfer, InTransfer, Quiet, Types
  <2> QED
    BY <1>1, <2>1, <2>2 DEF DriverInv, Types, OneTransfer, InCore, WholeBlocks,
       FromHash, Quiet, InTransfer, Progress, should_copy
<1> QED
  BY <1>2, <1>3

ProbeInv == cut \in BOOLEAN /\ DriverInv /\ LadderInv

LEMMA ProbeInvInit == ASSUME InitProbe PROVE ProbeInv
<1>1. LadderInv
  BY LadderInit
<1>2. OneTransfer
  BY DEF InitProbe, Init, OneTransfer, Quiet, InTransfer
<1>6. Types
  <2>1. << >> \in Seq(Nat) /\ << >> \in Seq([half : Int, of : Seq(Nat)])
    OBVIOUS
  <2>2. core \in [block : Seq(Nat), hash : Seq(Nat), busy : BOOLEAN]
    BY <2>1 DEF InitProbe, Init, CoreAfterReset
  <2>3. copied \in 0..MsgWords /\ pushed \in Nat /\ f_pos \in Nat
    BY DriverAssumption DEF InitProbe, Init
  <2>4. dma \in Seq(Nat) /\ acked \in Seq(Nat)
    BY <2>1 DEF InitProbe, Init
  <2>5. copies \in Seq([half : Int, of : Seq(Nat)])
    BY <2>1 DEF InitProbe, Init
  <2>6. irq \in BOOLEAN /\ busy \in BOOLEAN
    BY DEF InitProbe, Init
  <2> QED
    BY <2>2, <2>3, <2>4, <2>5, <2>6 DEF Types
<1>3. InCore
  BY DEF InitProbe, Init, InCore
<1>4. WholeBlocks
  BY DriverAssumption DEF InitProbe, Init, CoreAfterReset, WholeBlocks
<1>5. FromHash
  BY DEF InitProbe, Init, FromHash
<1> QED
  BY <1>1, <1>2, <1>3, <1>4, <1>5, <1>6 DEF ProbeInv, DriverInv, InitProbe,
    Init

LEMMA ProbeInvStep ==
  ASSUME UsersWait, ProbeInv, [NextProbe]_allVars PROVE ProbeInv'
<1>1. CASE OpenNode \/ FileOperation
  <2>1. Open \/ Running
    BY <1>1 DEF OpenNode, FileOperation
  <2>2. DriverInv'
    BY <2>1, DriverStep DEF ProbeInv
  <2>3. LadderInv'
    BY <1>1, LadderStep DEF ProbeInv, NextProbe
  <2>4. cut' \in BOOLEAN
    BY <2>1 DEF ProbeInv, Open, Running, InOperation, Callback, Hardware,
      OpenBusy, Release, Write, WriteFails, Llseek, Read, ReadAgain, ReadFails,
      CopyFromUser, IssuePending, SetBusy, WaitWrite, WriteReturns, WaitRead,
      CopyToUser, ReadReturns, Interrupt, CallbackStart, CallbackWakeReader,
      CallbackWakeWriter, CallbackTerminate, CallbackClearBusy, DmaPush,
      DmaDone, CoreFinishes, procVars
  <2> QED
    BY <2>2, <2>3, <2>4 DEF ProbeInv
<1>2. CASE NextProbe /\ ~(OpenNode \/ FileOperation)
  BY <1>2, ProbeLeavesDriver, LadderStep DEF ProbeInv
<1>3. CASE UNCHANGED allVars
  <2>1. UNCHANGED <<pc, copied, ret, f_pos, copies, acked, cut, busy, tx_buf,
                    dma, pushed, irq, cb, core>>
    BY <1>3 DEF allVars, vars, procVars, drvVars, hwVars
  <2>2. UNCHANGED <<Types, OneTransfer, InCore, WholeBlocks, FromHash>>
    BY <2>1 DEF Types, OneTransfer, InCore, WholeBlocks, FromHash, Quiet,
       InTransfer, Progress, should_copy
  <2>3. LadderInv'
    BY <1>3 DEF ProbeInv, LadderInv, Climbed, allVars, vars, procVars,
      probeVars
  <2> QED
    BY <2>1, <2>2, <2>3 DEF ProbeInv, DriverInv
<1> QED
  BY <1>1, <1>2, <1>3

-----------------------------------------------------------------------------
(* No transfer of the DMA sees its buffer change or go, and                *)
(* device_terminate_all stops none, as long as no signal cuts one off.     *)
THEOREM TransfersUndisturbed ==
  ASSUME UsersWait PROVE SpecProbe => []TransferUndisturbed
<1>1. ProbeInv => TransferUndisturbed
  <2>1. ASSUME ~cut, Types, OneTransfer PROVE TransferUndisturbed
    <3>1. ASSUME dma # << >> PROVE tx_buf # NoBuf /\ InTransfer
      <4>1. InTransfer /\ tx_buf = [i \in 1..should_copy |-> copied + i]
        BY <2>1, <3>1 DEF OneTransfer, Quiet
      <4>2. copied \in Nat
        BY <2>1 DEF Types
      <4>3. tx_buf # <<0>>
        BY <4>1, <4>2
      <4> QED
        BY <4>1, <4>3 DEF NoBuf
    <3> QED
      BY <2>1, <3>1 DEF TransferUndisturbed, InTransfer, OneTransfer
  <2> QED
    BY <2>1 DEF ProbeInv, DriverInv, TransferUndisturbed
<1> QED
  BY <1>1, ProbeInvInit, ProbeInvStep, PTL DEF SpecProbe

(* What write calls have reported as written has entered the core, in      *)
(* order and from the first word on.                                       *)
THEOREM ReportedWordsReachedCore ==
  ASSUME UsersWait PROVE SpecProbe => []ReportedReachedCore
<1>1. ProbeInv => ReportedReachedCore
  <2>1. ASSUME Types, InCore, OneTransfer, pc # "closed", 0 \notin Range(acked)
        PROVE  IsPrefix(acked, core.hash \o core.block)
    <3>1. Progress \in Nat
      BY <2>1, DriverAssumption DEF Progress, Types, OneTransfer, InTransfer,
        should_copy, Least
    <3>2. core.hash \o core.block = acked \o Words(Progress)
      BY <2>1 DEF InCore
    <3>3. acked \in Seq(Nat) /\ Words(Progress) \in Seq(Nat)
      BY <2>1, <3>1, WordsTyped DEF Types
    <3>4. IsPrefix(acked, acked \o Words(Progress))
      BY <3>3 DEF IsPrefix
    <3> QED
      BY <3>2, <3>4
  <2> QED
    BY <2>1 DEF ProbeInv, DriverInv, ReportedReachedCore
<1> QED
  BY <1>1, ProbeInvInit, ProbeInvStep, PTL DEF SpecProbe

(* What a read copies after complete writes of whole blocks is the digest  *)
(* of the words written, each half in its place.                           *)
THEOREM ReadsAreDigests ==
  ASSUME UsersWait PROVE SpecProbe => []ReadIsDigest
<1>1. ProbeInv => ReadIsDigest
  <2>1. ASSUME Types, InCore, WholeBlocks, FromHash, pc = "open", ret = "digest",
               Len(acked) % LoadWords = 0, 0 \notin Range(acked)
        PROVE  \A i \in DOMAIN copies :
                 copies[i] = [half |-> f_pos - Len(copies) + i - 1, of |-> acked]
    <3>1. core.hash \in Seq(Nat) /\ core.block \in Seq(Nat) /\ acked \in Seq(Nat)
      BY <2>1 DEF Types
    <3>2. core.hash \o core.block = acked
      BY <2>1, <3>1, NoWords, ConcatNone DEF InCore, Progress, InTransfer
    <3>3. Len(acked) = Len(core.hash) + Len(core.block)
      BY <3>1, <3>2, ConcatProperties
    <3>4. Len(core.block) < LoadWords /\ Len(core.block) \in Nat /\ Len(core.hash) \in Nat
      BY <2>1, <3>1, DriverAssumption DEF WholeBlocks, FromHash
    <3>5. Len(core.block) = 0
      BY <2>1, <3>3, <3>4, NoMultipleBetween, DriverAssumption DEF WholeBlocks
    <3>6. core.hash = acked
      BY <3>1, <3>2, <3>5, EmptySeq, ConcatNone
    <3> QED
      BY <2>1, <3>6 DEF FromHash
  <2> QED
    BY <2>1 DEF ProbeInv, DriverInv, ReadIsDigest
<1> QED
  BY <1>1, ProbeInvInit, ProbeInvStep, PTL DEF SpecProbe

(* A failed probe and a remove give back exactly what was had; while the   *)
(* device is open or its callback runs, all of it is there.                *)
THEOREM ResourcesHeldWhileUsed ==
  ASSUME UsersWait PROVE SpecProbe => []HeldWhileUsed
<1>1. ProbeInv => HeldWhileUsed
  <2> SUFFICES ASSUME ProbeInv PROVE HeldWhileUsed
    OBVIOUS
  <2>1. LadderInv /\ DOMAIN held = Range(Ladder)
    BY DEF ProbeInv, LadderInv
  <2>2. \A r \in DOMAIN held :
          /\ held[r] \in {0, 1}
          /\ going = "unbound" => held[r] = 0
          /\ going = "bound" => held[r] = 1
    BY <2>1, LadderCovers DEF LadderInv, Climbed
  <2>3. ~cut /\ (pc # "closed" \/ cb # "none") => going = "bound"
    BY DEF ProbeInv, DriverInv, OneTransfer, Quiet, InTransfer, LadderInv
  <2> QED
    BY <2>2, <2>3 DEF HeldWhileUsed
<1> QED
  BY <1>1, ProbeInvInit, ProbeInvStep, PTL DEF SpecProbe
=============================================================================
