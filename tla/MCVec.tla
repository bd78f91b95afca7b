------------------------------- MODULE MCVec -------------------------------
(* A small vector for TLC: size_t of six bits, elements of four bytes and      *)
(* memory for seven of them, so that rounding and doubling come close to the   *)
(* wrap and the system refuses memory.                                         *)
EXTENDS Vec, Bitwise

MCPow == [k \in 0..Width |-> 2 ^ k]

\* The loop of VUT_VEC_RESERVE (vec.h:46-47), for a size_t of Width bits
Smear(n) ==
  LET or(m, i) == m | shiftR(m, i)
  IN  or(or(or(n, 1), 2), 4)

(* Whatever the vector holds and however much more is asked for, what RESERVE  *)
(* rounds the request to with its shifts (vec.h:44-48) is the least power of   *)
(* two not below it, and 0 where the decrement or the increment wraps.         *)
RoundsUp ==
  \A n \in 0..(Word - 1) :
    LET needed == (len + n) % Word
    IN  RoundUp(needed) = (Smear((needed + Word - 1) % Word) + 1) % Word
=============================================================================
