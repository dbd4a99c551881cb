----------------------------- MODULE Xorshift32 -----------------------------
(***************************************************************************)
(* The random number generator of the memory tests, uliXorshift32          *)
(* (ddr3.c:937).  A 32-bit word is the set of the positions of its ones.   *)
(* A bit that is shifted in from outside the word is zero.                 *)
(***************************************************************************)
EXTENDS Integers

Bit  == 0..31
Word == SUBSET Bit
Zero == {}

\* Bit b of the word after each of the three statements, from word x.
Shifted13(x, b) == (b \in x) # (b - 13 \in x)
Shifted17(x, b) == Shifted13(x, b) # (b + 17 \in Bit /\ Shifted13(x, b + 17))
Shifted5(x, b)  == Shifted17(x, b) # (b - 5 \in Bit /\ Shifted17(x, b - 5))

\* The generator's next state, which is also the number it returns.
Xorshift(x) == {b \in Bit : Shifted5(x, b)}
=============================================================================
