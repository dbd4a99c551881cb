----------------------------- MODULE Ddr3Tests -----------------------------
(***************************************************************************)
(* The program TR4_DDR3_MemTest (main.c) and the tests of ddr3.c it runs:  *)
(* each half of the memory is selected in the address span extender,       *)
(* written with the numbers of a generator seeded with the clock, and read *)
(* back by starting the generator again from the seed kept in a global.    *)
(* The memory may have a defect, and the board may be reset at any time.   *)
(***************************************************************************)
EXTENDS Xorshift32, FiniteSets

CONSTANTS
  Words,     \* words in a half
  Ticks,     \* values of the millisecond clock, alt_nticks()
  Defects,   \* what may be wrong with the memory
  MaxResets  \* bound: resets of the board

Halves == {"lower", "upper"}
Addr == 0..(Words - 1)
Cell == Halves \X Addr

\* A defect: the cell an access reaches, and the bits stuck in each cell.
Defect == [cell : [Cell -> Cell], ones : [Cell -> Word], zeros : [Cell -> Word]]

ASSUME ConstantsAssumption ==
  /\ Words \in Nat \ {0} /\ Ticks \subseteq Word
  /\ Defects \subseteq Defect /\ MaxResets \in Nat

VARIABLES
  defect, mem,  \* the DDR3 memory: its defect and its cells
  window,       \* the register of the address span extender
  seed,         \* uliInitialState
  test,         \* what the program is doing: see Tests
  half,         \* ucMemoryId of the test in progress
  pointer,      \* its puliDestination or puliSource
  state,        \* its uliCurrentState
  success,      \* its bSuccess
  loop,         \* main's bLoop
  written,      \* history: the numbers the last write test generated
  resets        \* history: resets of the board

memory == <<defect, mem>>
locals == <<half, pointer, state, success>>
vars == <<memory, window, seed, test, locals, loop, written, resets>>

\* "button": main waits for one; "spd": it reads the EEPROM; "writing" and
\* "reading": a test; "wrote" and "read": the test has returned.
Tests == {"button", "spd", "writing", "wrote", "reading", "read"}

\* What the bus delivers for an address of the window.
Delivered(h, a) ==
  LET cell == defect.cell[<<h, a>>]
  IN  (mem[cell] \cup defect.ones[cell]) \ defect.zeros[cell]

Returned == test \in {"wrote", "read"}
-----------------------------------------------------------------------------
Init ==
  /\ defect \in Defects /\ mem = [c \in Cell |-> Zero]
  /\ window = "lower" /\ seed = Zero /\ test = "button" /\ half = "lower"
  /\ pointer = 0 /\ state = Zero /\ success = FALSE /\ loop = FALSE
  /\ written = [a \in Addr |-> Zero] /\ resets = 0

\* BUTTON0 asks for a continued test.
PressButton ==
  /\ test = "button" /\ test' = "spd" /\ loop' \in BOOLEAN
  /\ UNCHANGED <<memory, window, seed, locals, written, resets>>

\* Mutant: the window is left where it was.
SwitchMemory_Forgotten(h) == UNCHANGED window

\* bDdr3SwitchMemory.
SwitchMemory(h) == window' = h

\* Mutant: the seed is not kept for the read test.
Seed_NotKept(s) == UNCHANGED seed

Seed(s) == seed' = s

\* bDdr3MemoryRandomWriteTest(h)
CallWrite(h) ==
  /\ test' = "writing" /\ SwitchMemory(h) /\ half' = h
  /\ \E s \in Ticks : Seed(s) /\ state' = s
  /\ pointer' = 0 /\ success' = TRUE
  /\ UNCHANGED <<memory, loop, written, resets>>

\* bDdr3MemoryRandomReadTest(h)
CallRead(h) ==
  /\ test' = "reading" /\ SwitchMemory(h) /\ half' = h
  /\ state' = seed /\ pointer' = 0 /\ success' = TRUE
  /\ UNCHANGED <<memory, seed, loop, written, resets>>

\* The body of main's loop, whatever the EEPROM and the tests have returned.
ReadSpd == test = "spd" /\ CallWrite("lower")
ReadBack == test = "wrote" /\ CallRead(half)
OtherHalf == test = "read" /\ half = "lower" /\ CallWrite("upper")

\* Mutant: the loop is left after one round.
Again_Once ==
  /\ test = "read" /\ half = "upper" /\ test' = "button"
  /\ UNCHANGED <<memory, window, seed, locals, loop, written, resets>>

\* while (bLoop && bPass): nothing has changed bPass.
Again ==
  /\ test = "read" /\ half = "upper"
  /\ test' = IF loop THEN "spd" ELSE "button"
  /\ UNCHANGED <<memory, window, seed, locals, loop, written, resets>>

\* Mutant: every word gets the same number.
Generate_Stuck == UNCHANGED state

Generate == state' = Xorshift(state)

WriteWord ==
  /\ test = "writing" /\ pointer < Words
  /\ Generate
  /\ mem' = [mem EXCEPT ![defect.cell[<<window, pointer>>]] = state']
  /\ written' = [written EXCEPT ![pointer] = state']
  /\ pointer' = pointer + 1
  /\ UNCHANGED <<defect, window, seed, test, half, success, loop, resets>>

Compare(value) == success' = (success /\ value = state')

ReadWord ==
  /\ test = "reading" /\ pointer < Words
  /\ Generate /\ Compare(Delivered(window, pointer))
  /\ pointer' = pointer + 1
  /\ UNCHANGED <<memory, window, seed, test, half, loop, written, resets>>

Return ==
  /\ test \in {"writing", "reading"} /\ pointer = Words
  /\ test' = IF test = "writing" THEN "wrote" ELSE "read"
  /\ UNCHANGED <<memory, window, seed, locals, loop, written, resets>>

\* SW(0) is pushed: the program starts again, its global variables and the
\* extender cleared.  The cells keep what they hold, or lose it while the
\* memory is not refreshed.
Reset ==
  /\ resets < MaxResets /\ resets' = resets + 1
  /\ mem' \in {mem, [c \in Cell |-> Zero]}
  /\ window' = "lower" /\ seed' = Zero /\ test' = "button" /\ half' = "lower"
  /\ pointer' = 0 /\ state' = Zero /\ success' = FALSE /\ loop' = FALSE
  /\ UNCHANGED <<defect, written>>

Step ==
  ReadSpd \/ ReadBack \/ OtherHalf \/ Again \/ WriteWord \/ ReadWord \/ Return
Next == PressButton \/ Step \/ Reset

\* The program goes on once a button has been pressed.
Spec == Init /\ [][Next]_vars /\ WF_vars(Step)
-----------------------------------------------------------------------------
(* Properties. *)

TypeOK ==
  /\ defect \in Defects /\ mem \in [Cell -> Word]
  /\ window \in Halves /\ seed \in Word /\ test \in Tests
  /\ half \in Halves /\ pointer \in 0..Words /\ state \in Word
  /\ success \in BOOLEAN /\ loop \in BOOLEAN
  /\ written \in [Addr -> Word] /\ resets \in 0..MaxResets

\* The half keeps what is written to it.
Sound(h) ==
  /\ \A a, b \in Addr : defect.cell[<<h, a>>] = defect.cell[<<h, b>>] => a = b
  /\ \A a \in Addr : LET c == defect.cell[<<h, a>>]
                     IN  defect.ones[c] = Zero /\ defect.zeros[c] = Zero

\* A half that is all right is never reported as faulty, whatever is wrong
\* with the other one, and after a reset in the middle of any test: the read
\* test starts the generator from the seed of the write test it follows
\* (ddr3.c:732, 854) and looks at the same window.
NoFalseAlarm ==
  (test \in {"reading", "read"} /\ Sound(half)) => success

\* The read test returns TRUE exactly if every word of the half it is called
\* for reads as the write test wrote it (ddr3.c:873).
ResultExact ==
  test = "read" =>
    (success = (\A a \in Addr : Delivered(half, a) = written[a]))

\* Unless the clock stood at zero, a half in which two addresses reach the
\* same cell is reported: the numbers of a test are all different.
AliasFound ==
  (/\ test = "read" /\ written[0] # Zero
   /\ \E a, b \in Addr :
        a # b /\ defect.cell[<<half, a>>] = defect.cell[<<half, b>>])
  => ~success

\* ... and so is a half with a word that always reads zero.
DeadFound ==
  (/\ test = "read" /\ written[0] # Zero
   /\ \E a \in Addr : defect.zeros[defect.cell[<<half, a>>]] = Bit)
  => ~success

\* A continued test tests both halves again and again: it is not stopped by
\* a test that fails, only by a reset (main.c:215, 261).
ContinuedTest ==
  <>[]loop => \A h \in Halves : []<>(test = "read" /\ half = h)
=============================================================================
