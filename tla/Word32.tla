------------------------------- MODULE Word32 --------------------------------
(***************************************************************************)
(* The 32-bit words of the Verilog sources, for model checking.  A word is *)
(* the set of the positions of its 1 bits, which makes the bitwise         *)
(* operators the set operators and keeps clear of TLC's signed integers.   *)
(***************************************************************************)
EXTENDS Integers, Sequences

Bit == 0..31

Word32 == SUBSET Bit

Zero32 == {}

(* The word with the given hex digits, from its 16-bit halves. *)
Hex(hi, lo) ==
  {i \in Bit : (IF i < 16 THEN lo \div 2^i ELSE hi \div 2^(i - 16)) % 2 = 1}

Xor32(x, y) == (x \ y) \cup (y \ x)

(* Mutant of Add32: the carry out of bit 31 is kept. *)
Add32Wide(x, y) ==
  LET carry == {i \in 0..32 : \E j \in x \cap y :
                   j < i /\ \A k \in (j + 1)..(i - 1) : k \in x \cup y}
  IN  Xor32(Xor32(x, y), carry)

(* A carry reaches bit i from a lower bit that generates it through bits   *)
(* that all propagate it; the carry out of bit 31 is lost.                 *)
Add32(x, y) ==
  LET carry == {i \in Bit : \E j \in x \cap y :
                   j < i /\ \A k \in (j + 1)..(i - 1) : k \in x \cup y}
  IN  Xor32(Xor32(x, y), carry)

Shr32(x, n) == {i - n : i \in x \ 0..(n - 1)}

(* {x[n-1:0], x[31:n]} *)
Rotr32(x, n) == {(i + 32 - n) % 32 : i \in x}

SmallSigma0(x) == Xor32(Xor32(Rotr32(x, 7), Rotr32(x, 18)), Shr32(x, 3))

SmallSigma1(x) == Xor32(Xor32(Rotr32(x, 17), Rotr32(x, 19)), Shr32(x, 10))

(* Mutant of BigSigma0: a rotation by 12 instead of 13. *)
BigSigma0Rot12(a) == Xor32(Xor32(Rotr32(a, 2), Rotr32(a, 12)), Rotr32(a, 22))

BigSigma0(a) == Xor32(Xor32(Rotr32(a, 2), Rotr32(a, 13)), Rotr32(a, 22))

BigSigma1(e) == Xor32(Xor32(Rotr32(e, 6), Rotr32(e, 11)), Rotr32(e, 25))

Ch32(e, f, g) == Xor32(e \cap f, g \ e)

Maj32(a, b, c) == Xor32(Xor32(a \cap b, a \cap c), b \cap c)

(* dat_msb_i and lsb_to_msb: bit i of byte b moves to byte 3 - b. *)
Swap32(x) == {(3 - i \div 8) * 8 + (i % 8) : i \in x}

(* The reset values of H8. *)
IV32 == LET iv == <<
  Hex(\h6a09, \he667), Hex(\hbb67, \hae85), Hex(\h3c6e, \hf372), Hex(\ha54f, \hf53a),
  Hex(\h510e, \h527f), Hex(\h9b05, \h688c), Hex(\h1f83, \hd9ab), Hex(\h5be0, \hcd19) >>
        IN  [i \in 0..7 |-> iv[i + 1]]

(* The contents of the ROM. *)
rom_k == LET k == <<
  Hex(\h428a, \h2f98), Hex(\h7137, \h4491), Hex(\hb5c0, \hfbcf), Hex(\he9b5, \hdba5),
  Hex(\h3956, \hc25b), Hex(\h59f1, \h11f1), Hex(\h923f, \h82a4), Hex(\hab1c, \h5ed5),
  Hex(\hd807, \haa98), Hex(\h1283, \h5b01), Hex(\h2431, \h85be), Hex(\h550c, \h7dc3),
  Hex(\h72be, \h5d74), Hex(\h80de, \hb1fe), Hex(\h9bdc, \h06a7), Hex(\hc19b, \hf174),
  Hex(\he49b, \h69c1), Hex(\hefbe, \h4786), Hex(\h0fc1, \h9dc6), Hex(\h240c, \ha1cc),
  Hex(\h2de9, \h2c6f), Hex(\h4a74, \h84aa), Hex(\h5cb0, \ha9dc), Hex(\h76f9, \h88da),
  Hex(\h983e, \h5152), Hex(\ha831, \hc66d), Hex(\hb003, \h27c8), Hex(\hbf59, \h7fc7),
  Hex(\hc6e0, \h0bf3), Hex(\hd5a7, \h9147), Hex(\h06ca, \h6351), Hex(\h1429, \h2967),
  Hex(\h27b7, \h0a85), Hex(\h2e1b, \h2138), Hex(\h4d2c, \h6dfc), Hex(\h5338, \h0d13),
  Hex(\h650a, \h7354), Hex(\h766a, \h0abb), Hex(\h81c2, \hc92e), Hex(\h9272, \h2c85),
  Hex(\ha2bf, \he8a1), Hex(\ha81a, \h664b), Hex(\hc24b, \h8b70), Hex(\hc76c, \h51a3),
  Hex(\hd192, \he819), Hex(\hd699, \h0624), Hex(\hf40e, \h3585), Hex(\h106a, \ha070),
  Hex(\h19a4, \hc116), Hex(\h1e37, \h6c08), Hex(\h2748, \h774c), Hex(\h34b0, \hbcb5),
  Hex(\h391c, \h0cb3), Hex(\h4ed8, \haa4a), Hex(\h5b9c, \hca4f), Hex(\h682e, \h6ff3),
  Hex(\h748f, \h82ee), Hex(\h78a5, \h636f), Hex(\h84c8, \h7814), Hex(\h8cc7, \h0208),
  Hex(\h90be, \hfffa), Hex(\ha450, \h6ceb), Hex(\hbef9, \ha3f7), Hex(\hc671, \h78f2) >>
         IN  [i \in 0..63 |-> k[i + 1]]
=============================================================================
