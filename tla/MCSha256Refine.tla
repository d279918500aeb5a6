--------------------------- MODULE MCSha256Refine ----------------------------
(***************************************************************************)
(* The core over a toy word algebra, the integers modulo a small prime     *)
(* with mixing functions that tell their arguments and taps apart.  The    *)
(* driver hashes an endless message, one of several, and presents any word *)
(* with dat_vaild_i high or low while the core is busy.                    *)
(***************************************************************************)
EXTENDS Sha256Core

CONSTANTS
  Modulus,   \* a small prime
  Seeds,     \* each seed stands for one message
  Blocks     \* bound: blocks hashed before the driver resets the core

VARIABLES
  seed,      \* the message being hashed
  fed        \* words of it the core has taken

mcVars == <<vars, seed, fed>>

ToyWord == 0..(Modulus - 1)
ToyAdd(x, y) == (x + y) % Modulus
ToySigma(a, b, x) == (a * x * x + b * x) % Modulus
Toysigma0(x) == ToySigma(1, 2, x)
Toysigma1(x) == ToySigma(2, 3, x)
ToySigma0(x) == ToySigma(3, 1, x)
ToySigma1(x) == ToySigma(4, 2, x)
ToyCh(x, y, z) == (x * y + (1 - x) * z) % Modulus
ToyMaj(x, y, z) == (x * y + x * z + y * z) % Modulus
ToySwap(x) == (3 * x + 1) % Modulus
ToyK == [i \in 0..63 |-> (i * i + 5 * i + 3) % Modulus]
ToyIV == [i \in 0..7 |-> (2 * i + 1) % Modulus]

(* The toy algebra satisfies WordLaws of Sha256CoreProofs. *)
ASSUME ToyLaws ==
  /\ \A x, y, z \in ToyWord :
       /\ ToyAdd(x, y) \in ToyWord
       /\ ToyAdd(x, y) = ToyAdd(y, x)
       /\ ToyAdd(ToyAdd(x, y), z) = ToyAdd(x, ToyAdd(y, z))
       /\ {ToyCh(x, y, z), ToyMaj(x, y, z)} \subseteq ToyWord
       /\ {Toysigma0(x), Toysigma1(x), ToySigma0(x), ToySigma1(x), ToySwap(x)}
            \subseteq ToyWord
  /\ ToyK \in [0..63 -> ToyWord]
  /\ ToyIV \in [0..7 -> ToyWord]

MessageWord(s, n) == (s * n * n + n) % Modulus

MCInit == Init /\ seed \in Seeds /\ fed = 0

(* The bus offers the next word of the message, or nothing. *)
Feed(vld) ==
  /\ ~Busy(state, counter, vld)
  /\ vld => fed < 16 * Blocks
  /\ Clock(vld, MessageWord(seed, fed))
  /\ fed' = IF vld THEN fed + 1 ELSE fed
  /\ UNCHANGED seed

(* The core is busy; what is on the bus must not matter. *)
Work(vld, dat) ==
  /\ Busy(state, counter, vld)
  /\ Clock(vld, dat)
  /\ UNCHANGED <<seed, fed>>

MCReset == Reset /\ fed' = 0 /\ UNCHANGED seed

MCNext ==
  \/ \E vld \in BOOLEAN : Feed(vld)
  \/ \E vld \in BOOLEAN, dat \in Inputs : Work(vld, dat)
  \/ MCReset

(* The clock runs, and the driver does not pause for ever before a word.   *)
MCSpec ==
  /\ MCInit
  /\ [][MCNext]_mcVars
  /\ WF_mcVars(\E vld \in BOOLEAN, dat \in Inputs : Work(vld, dat))
  /\ WF_mcVars(Feed(TRUE))

(* A block that has been started is hashed to the end and announced by     *)
(* irq_finish, unless the core is reset: no input the bus presents while   *)
(* the core is busy can wedge the FSM or swallow the interrupt.            *)
EveryBlockFinishes ==
  \A b \in 1..Blocks :
    fed = 16 * b - 1 ~> (fed = 16 * b /\ irq_finish) \/ fed = 0
=============================================================================
