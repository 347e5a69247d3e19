------------------------------- MODULE Words -------------------------------
(***************************************************************************)
(* 32-bit words as the sets of the bits that are 1.  C's | and & are union *)
(* and intersection, a mask of consecutive ones is an interval, and the    *)
(* shifts move the members.  TLC's integers are too small for such words,  *)
(* and statements about sets of bits can be proved bit by bit.             *)
(***************************************************************************)
EXTENDS Integers, FiniteSetsExt

BitPositions == 0 .. 31

Words == SUBSET BitPositions

(* w << n and, for an unsigned w, w >> n. *)
Shl(w, n) == {i \in BitPositions : i - n \in w}

Shr(w, n) == {i \in BitPositions : i + n \in w}

(* (int32_t)w >> n: copies of the sign bit come in from the left. *)
Sar(w, n) == {i \in BitPositions : IF i + n > 31 THEN 31 \in w ELSE i + n \in w}

(* The number that the bits lo .. hi of w hold. *)
Field(w, lo, hi) == MapThenSumSet(LAMBDA i : 2 ^ (i - lo), w \cap (lo .. hi))

(* The word of an int; TLC's integers allow for 31 bits. *)
Bits(n) == {i \in BitPositions : IF i > 29 THEN n < 0 ELSE (n \div 2 ^ i) % 2 = 1}
=============================================================================
