--------------------------- MODULE Sha256Standard ----------------------------
(***************************************************************************)
(* What the core promises: the SHA-256 computation of FIPS 180-4, section  *)
(* 6.2.2, one round per step, with the message schedule kept in a window   *)
(* of sixteen words and the sums associated as the standard writes them.   *)
(***************************************************************************)
EXTENDS Sha256Words

VARIABLES
  H,     \* the intermediate hash value
  v,     \* the working variables a..h
  t,     \* rounds of the current block done
  win    \* the last sixteen words of the schedule of the current block

stdVars == <<H, v, t, win>>

EmptyWindow == [i \in 0..15 |-> None]

(* One iteration of step 3 of the standard with schedule word w. *)
Round(w) ==
  LET T1 == Add(Add(Add(Add(v[7], Sigma1(v[4])), Ch(v[4], v[5], v[6])), K[t]), w)
      T2 == Add(Sigma0(v[0]), Maj(v[0], v[1], v[2]))
  IN  [i \in 0..7 |-> CASE i = 0 -> Add(T1, T2)
                        [] i = 4 -> Add(v[3], T1)
                        [] OTHER -> v[i - 1]]

Consume(w) ==
  /\ v' = Round(w)
  /\ win' = [i \in 0..15 |-> IF i = 15 THEN w ELSE win[i + 1]]
  /\ t' = t + 1
  /\ UNCHANGED H

(* Rounds 0 to 15 take the words of the message block, big endian. *)
Absorb(dat) == t < 16 /\ Consume(Swap(dat))

(* Rounds 16 to 63 extend the schedule. *)
Expand ==
  /\ t \in 16..63
  /\ Consume(Add(Add(Add(sigma1(win[14]), win[9]), sigma0(win[1])), win[0]))

StdInit == H = IV /\ v = IV /\ t = 0 /\ win = EmptyWindow

(* Step 4: the block is added to the hash value. *)
Finish ==
  /\ t = 64
  /\ H' = [i \in 0..7 |-> Add(H[i], v[i])]
  /\ v' = H'
  /\ t' = 0
  /\ win' = EmptyWindow

Restart == H' = IV /\ v' = IV /\ t' = 0 /\ win' = EmptyWindow

StdNext ==
  \/ \E dat \in Inputs : Absorb(dat)
  \/ Expand
  \/ Finish
  \/ Restart

Spec == StdInit /\ [][StdNext]_stdVars
=============================================================================
