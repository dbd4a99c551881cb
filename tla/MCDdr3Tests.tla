---------------------------- MODULE MCDdr3Tests ----------------------------
(***************************************************************************)
(* Ddr3Tests with the defects TLC tries: none, two addresses of a half in  *)
(* one cell, both halves in the same cells, a word that reads zero, a bit  *)
(* stuck at one, and an upper half that is not there.                      *)
(***************************************************************************)
EXTENDS Ddr3Tests

Clear == [c \in Cell |-> Zero]

Good == [cell |-> [c \in Cell |-> c], ones |-> Clear, zeros |-> Clear]

AddressLine == [Good EXCEPT !.cell[<<"lower", 2>>] = <<"lower", 0>>]
OneHalf == [Good EXCEPT !.cell = [c \in Cell |-> <<"lower", c[2]>>]]
DeadWord == [Good EXCEPT !.zeros[<<"upper", 1>>] = Bit]
StuckBit == [Good EXCEPT !.ones[<<"lower", 1>>] = {7}]
NoUpper == [Good EXCEPT !.zeros = [c \in Cell |-> IF c[1] = "upper" THEN Bit
                                                  ELSE Zero]]

SomeDefects == {Good, AddressLine, OneHalf, DeadWord, StuckBit, NoUpper}
=============================================================================
