------------------------------- MODULE Padding --------------------------------
(***************************************************************************)
(* make_chunk of the test program (main.rs): the padding of a message that *)
(* the core expects its words to have already.  A buffer is a sequence of  *)
(* bytes.                                                                  *)
(***************************************************************************)
EXTENDS Integers, Sequences

Zeros(n) == [i \in 1..n |-> 0]

(* A 64-bit length, most significant byte first; below 2^31, so that the   *)
(* upper half is zero.                                                     *)
BigEndian64(n) == Zeros(4) \o [i \in 1..4 |-> (n \div 256^(4 - i)) % 256]

MakeChunk(buffer) ==
  LET chunk_used_space == (Len(buffer) + 1) % 64
      room == IF chunk_used_space < 56 THEN 56 ELSE 64 + 56
  IN  buffer \o <<128>> \o Zeros(room - chunk_used_space)
             \o BigEndian64(Len(buffer) * 8)
=============================================================================
