----------------------------- MODULE TestProgram -----------------------------
(***************************************************************************)
(* The test program's way with a file (main of main.rs): it is read, its   *)
(* digest computed in software, and padded for the device, which is given  *)
(* the padded buffer to hash.                                              *)
(***************************************************************************)
EXTENDS Padding

CONSTANT MaxBytes      \* bound: length of a file

VARIABLES
  pc,         \* where the program is
  file,       \* the file's bytes
  buffer      \* what is in memory

vars == <<pc, file, buffer>>

(* Bytes that differ from those of the padding. *)
Files == {[i \in 1..n |-> (i % 100) + 1] : n \in 0..MaxBytes}

Init == pc = "open" /\ file \in Files /\ buffer = << >>

ReadToEnd ==
  /\ pc = "open"
  /\ pc' = "read" /\ buffer' = file
  /\ UNCHANGED file

Pad ==
  /\ pc = "read"
  /\ pc' = "write" /\ buffer' = MakeChunk(buffer)
  /\ UNCHANGED file

Next == ReadToEnd \/ Pad

Spec == Init /\ [][Next]_vars

-----------------------------------------------------------------------------
(* FIPS 180-4, 5.1.1: a 1 bit, the least number k of 0 bits that leaves 64 *)
(* bits of the last block, and the length in these.                        *)
StandardPadding(message) ==
  LET l == 8 * Len(message)
      k == CHOOSE n \in 0..511 :
             /\ (l + 1 + n) % 512 = 448
             /\ \A m \in 0..(n - 1) : (l + 1 + m) % 512 # 448
  IN  message \o <<128>> \o Zeros((k - 7) \div 8) \o BigEndian64(l)

(* What the program writes to the device is the file as the standard pads  *)
(* it, so that the device's digest is the one computed in software.        *)
PaddingIsStandard == pc = "write" => buffer = StandardPadding(file)
=============================================================================
