---------------------------- MODULE MCSha256Core -----------------------------
(***************************************************************************)
(* The core with 32-bit words, driven by files as the test program pads    *)
(* them: the vector of the three test benches and two of the standard's    *)
(* examples.  The driver may pause before every word, presents noise with  *)
(* dat_vaild_i high or low while the core is busy, and may reset at any    *)
(* time.                                                                   *)
(***************************************************************************)
EXTENDS Sha256Core, Word32, Padding, Functions

VARIABLES
  msg,    \* which message is being hashed
  fed     \* words of it the core has taken

mcVars == <<vars, msg, fed>>

(* The files: the vector of the benches, "abc", and the 56 bytes of the     *)
(* standard's second example, after which the length does not fit.         *)
Files == <<
 <<
  98, 57, 52, 100, 50, 55, 98, 57, 57, 51, 52, 100, 51, 101, 48, 56,
  97, 53, 50, 101, 53, 50, 100, 55, 100, 97, 55, 100, 97, 98, 102, 97,
  99, 52, 56, 52, 101, 102, 101, 51, 55, 97, 53, 51, 56, 48, 101, 101,
  57, 48, 56, 56, 102, 55, 97, 99, 101, 50, 101, 102, 99, 100, 101, 57 >>,
 <<97, 98, 99>>,
 <<
  97, 98, 99, 100, 98, 99, 100, 101, 99, 100, 101, 102, 100, 101, 102, 103,
  101, 102, 103, 104, 102, 103, 104, 105, 103, 104, 105, 106, 104, 105, 106, 107,
  105, 106, 107, 108, 106, 107, 108, 109, 107, 108, 109, 110, 108, 109, 110, 111,
  109, 110, 111, 112, 110, 111, 112, 113 >> >>

(* The words the DMA reads from a buffer on a little-endian machine. *)
WordsOf(bytes) ==
  [i \in 1..(Len(bytes) \div 4) |->
     Hex(bytes[4*i] * 256 + bytes[4*i - 1], bytes[4*i - 2] * 256 + bytes[4*i - 3])]

Messages == [f \in DOMAIN Files |-> WordsOf(MakeChunk(Files[f]))]

(* Digests as hash0..hash7 give them; the first is the one the benches     *)
(* print as "expect".                                                      *)
Digests == <<
 <<
  Hex(\h52a0, \h9d04), Hex(\h56eb, \h4f63), Hex(\hbcc0, \h6ece), Hex(\h2067, \h8c64),
  Hex(\h1cff, \hed11), Hex(\h31b5, \h72b2), Hex(\h0ac9, \hbb13), Hex(\h9c24, \h008f) >>,
 <<
  Hex(\hbf16, \h78ba), Hex(\heacf, \h018f), Hex(\hde40, \h4141), Hex(\h2322, \hae5d),
  Hex(\ha361, \h03b0), Hex(\h9c7a, \h1796), Hex(\h61ff, \h10b4), Hex(\had15, \h00f2) >>,
 <<
  Hex(\h616a, \h8d24), Hex(\hb838, \h06d2), Hex(\h9326, \hc0e5), Hex(\h3960, \h3e0c),
  Hex(\h59e4, \h3ca3), Hex(\h6721, \hff64), Hex(\hd4ed, \hecf6), Hex(\hc106, \hdb19) >> >>

Noise == Hex(\hdead, \hbeef)

MCInputs == UNION {Range(Messages[m]) : m \in DOMAIN Messages} \cup {Noise}

(* The laws the proofs ask of a word algebra (WordLaws of Sha256CoreProofs) *)
(* hold of 32-bit addition, here for words that carry in every way.        *)
Sample == {Zero32, Bit, Noise, {31}, Bit \ {0}, IV32[0], rom_k[63]}

ASSUME SampleLaws ==
  \A x, y, z \in Sample :
    /\ Add32(x, y) = Add32(y, x)
    /\ Add32(Add32(x, y), z) = Add32(x, Add32(y, z))

Length == Len(Messages[msg])

MCInit == Init /\ msg \in DOMAIN Messages /\ fed = 0

(* The bus offers the next word of the message, or nothing. *)
Feed(vld) ==
  /\ ~Busy(state, counter, vld)
  /\ vld => fed < Length
  /\ Clock(vld, IF vld THEN Messages[msg][fed + 1] ELSE Noise)
  /\ fed' = IF vld THEN fed + 1 ELSE fed
  /\ UNCHANGED msg

(* The core is busy; what is on the bus must not matter. *)
Work(vld) ==
  /\ Busy(state, counter, vld)
  /\ Clock(vld, Noise)
  /\ UNCHANGED <<msg, fed>>

MCReset == Reset /\ fed' = 0 /\ UNCHANGED msg

MCNext == \E vld \in BOOLEAN : Feed(vld) \/ Work(vld) \/ MCReset

MCSpec == MCInit /\ [][MCNext]_mcVars

(* When the last word of a message has been taken and the core is no       *)
(* longer busy, hash0..hash7 are the digest of the message.                *)
DigestCorrect ==
  fed = Length /\ state \in {"FINISH", "IDLE"} =>
    \A i \in 0..7 : hash[i] = Digests[msg][i + 1]

=============================================================================
