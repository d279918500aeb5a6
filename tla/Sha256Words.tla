----------------------------- MODULE Sha256Words -----------------------------
(***************************************************************************)
(* The algebra of machine words the core and the standard's algorithm are  *)
(* written in.  Sha256CoreProofs states the few laws (WordLaws) under      *)
(* which the core is proved to compute what the standard says: the result  *)
(* does not depend on what the mixing functions are, only on how the core  *)
(* connects them.                                                          *)
(* Word32 gives the operators their 32-bit meaning for model checking.     *)
(***************************************************************************)
EXTENDS Integers

CONSTANTS
  Word,               \* the set of words
  Inputs,             \* the words (bus byte order) a bus may present
  Zero,               \* the reset value of a data register
  None,               \* a place of the schedule window without a word
  Add(_, _),          \* addition modulo 2^32
  sigma0(_),          \* message schedule functions
  sigma1(_),
  Sigma0(_),          \* round functions
  Sigma1(_),
  Ch(_, _, _),
  Maj(_, _, _),
  Swap(_),            \* reversal of the four bytes of a word
  K,                  \* the 64 round constants
  IV                  \* the initial hash value
=============================================================================
