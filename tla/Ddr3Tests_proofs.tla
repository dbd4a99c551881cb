-------------------------- MODULE Ddr3Tests_proofs --------------------------
(***************************************************************************)
(* Theorems about Ddr3Tests, for every size of the memory, every set of    *)
(* defects and every clock.  The heart of them is that the words of a half *)
(* form a chain, each the generator's successor of the one before, which   *)
(* both tests walk along from the seed.                                    *)
(***************************************************************************)
EXTENDS Ddr3Tests, TLAPS
-----------------------------------------------------------------------------
(* The generator never gets stuck: it maps different words to different    *)
(* words, and only zero to zero.  Each of its three statements can be      *)
(* undone one block of bits after the other, from the bits it leaves       *)
(* alone.                                                                  *)

LEMMA Undo5 ==
  ASSUME NEW x \in Word, NEW y \in Word,
         \A b \in Bit : Shifted5(x, b) = Shifted5(y, b)
  PROVE  \A b \in Bit : Shifted17(x, b) = Shifted17(y, b)
<1>1. \A b \in 0..4 : Shifted17(x, b) = Shifted17(y, b)
  BY DEF Shifted5, Shifted17, Shifted13, Word, Bit
<1>2. \A b \in 5..9 : Shifted17(x, b) = Shifted17(y, b)
  BY <1>1 DEF Shifted5, Shifted17, Shifted13, Word, Bit
<1>3. \A b \in 10..14 : Shifted17(x, b) = Shifted17(y, b)
  BY <1>2 DEF Shifted5, Shifted17, Shifted13, Word, Bit
<1>4. \A b \in 15..19 : Shifted17(x, b) = Shifted17(y, b)
  BY <1>3 DEF Shifted5, Shifted17, Shifted13, Word, Bit
<1>5. \A b \in 20..24 : Shifted17(x, b) = Shifted17(y, b)
  BY <1>4 DEF Shifted5, Shifted17, Shifted13, Word, Bit
<1>6. \A b \in 25..29 : Shifted17(x, b) = Shifted17(y, b)
  BY <1>5 DEF Shifted5, Shifted17, Shifted13, Word, Bit
<1>7. \A b \in 30..31 : Shifted17(x, b) = Shifted17(y, b)
  BY <1>6 DEF Shifted5, Shifted17, Shifted13, Word, Bit
<1> QED
  BY <1>1, <1>2, <1>3, <1>4, <1>5, <1>6, <1>7 DEF Bit

LEMMA Undo17 ==
  ASSUME NEW x \in Word, NEW y \in Word,
         \A b \in Bit : Shifted17(x, b) = Shifted17(y, b)
  PROVE  \A b \in Bit : Shifted13(x, b) = Shifted13(y, b)
<1>1. \A b \in 15..31 : Shifted13(x, b) = Shifted13(y, b)
  BY DEF Shifted17, Shifted13, Word, Bit
<1>2. \A b \in 0..14 : Shifted13(x, b) = Shifted13(y, b)
  BY <1>1 DEF Shifted17, Shifted13, Word, Bit
<1> QED
  BY <1>1, <1>2 DEF Bit

LEMMA Undo13 ==
  ASSUME NEW x \in Word, NEW y \in Word,
         \A b \in Bit : Shifted13(x, b) = Shifted13(y, b)
  PROVE  \A b \in Bit : (b \in x) = (b \in y)
<1>1. \A b \in 0..12 : (b \in x) = (b \in y)
  BY DEF Shifted13, Word, Bit
<1>2. \A b \in 13..25 : (b \in x) = (b \in y)
  BY <1>1 DEF Shifted13, Word, Bit
<1>3. \A b \in 26..31 : (b \in x) = (b \in y)
  BY <1>2 DEF Shifted13, Word, Bit
<1> QED
  BY <1>1, <1>2, <1>3 DEF Bit

\* uliXorshift32 maps words to words (ddr3.c:937-946).
THEOREM XorshiftIsWord ==
  ASSUME NEW x \in Word
  PROVE  Xorshift(x) \in Word
BY DEF Xorshift, Word

\* Different states have different successors, so the sequence from any seed
\* is a cycle that comes back to the seed.
THEOREM XorshiftInjective ==
  ASSUME NEW x \in Word, NEW y \in Word, Xorshift(x) = Xorshift(y)
  PROVE  x = y
<1>1. \A b \in Bit : Shifted5(x, b) = Shifted5(y, b)
  <2> SUFFICES ASSUME NEW b \in Bit
               PROVE  Shifted5(x, b) = Shifted5(y, b)
    OBVIOUS
  <2>1. (b \in Xorshift(x)) = Shifted5(x, b) /\ (b \in Xorshift(y)) = Shifted5(y, b)
    BY DEF Xorshift, Shifted5
  <2> QED
    BY <2>1
<1>2. \A b \in Bit : Shifted17(x, b) = Shifted17(y, b)
  BY <1>1, Undo5, Zenon
<1>3. \A b \in Bit : Shifted13(x, b) = Shifted13(y, b)
  BY <1>2, Undo17, Zenon
<1>4. \A b \in Bit : (b \in x) = (b \in y)
  BY <1>3, Undo13, Zenon
<1> QED
  BY <1>4 DEF Word

\* Zero is mapped to itself, and nothing else is mapped to it: a test whose
\* seed is zero writes zeros only, and no other test ever writes a zero.
THEOREM XorshiftZero ==
  ASSUME NEW x \in Word
  PROVE  Xorshift(x) = Zero <=> x = Zero
<1>1. Zero \in Word
  BY DEF Zero, Word
<1>2. Xorshift(Zero) = Zero
  BY DEF Xorshift, Shifted5, Shifted17, Shifted13, Zero
<1> QED
  BY <1>1, <1>2, XorshiftInjective
-----------------------------------------------------------------------------
(* The tests.                                                              *)

\* The first n words were generated from the seed.
Chain(n) ==
  /\ n > 0 => written[0] = Xorshift(seed)
  /\ \A a \in Addr : a > 0 /\ a < n => written[a] = Xorshift(written[a - 1])

\* The generator stands where it has produced the first n words.
Generated(n) == state = IF n = 0 THEN seed ELSE written[n - 1]

WriteInv ==
  test = "writing" => Chain(pointer) /\ Generated(pointer)

ReadInv ==
  /\ test \in {"wrote", "reading", "read"} => Chain(Words)
  /\ test = "reading" => Generated(pointer)

\* The half of the test is in the window, and sound cells hold what was
\* written to them.
KeptInv ==
  /\ test \in {"writing", "wrote", "reading", "read"} => window = half
  /\ (test = "writing" /\ Sound(half)) =>
       \A a \in Addr : a < pointer => mem[defect.cell[<<half, a>>]] = written[a]
  /\ (test \in {"wrote", "reading", "read"} /\ Sound(half)) =>
       \A a \in Addr : mem[defect.cell[<<half, a>>]] = written[a]

\* What has been compared so far.
ResultInv ==
  /\ test = "reading" =>
       (success = (\A a \in Addr : a < pointer => Delivered(half, a) = written[a]))
  /\ test = "read" => 
       (success = (\A a \in Addr : Delivered(half, a) = written[a]))

\* A chain that does not start with zero never comes to zero.
NonzeroInv ==
  /\ (test \in {"writing"} /\ pointer > 0 /\ written[0] # Zero) =>
       \A a \in Addr : a < pointer => written[a] # Zero
  /\ (test \in {"wrote", "reading", "read"} /\ written[0] # Zero) =>
       \A a \in Addr : written[a] # Zero

TestInv == TypeOK /\ WriteInv /\ ReadInv /\ KeptInv /\ ResultInv /\ NonzeroInv
-----------------------------------------------------------------------------
LEMMA InitInv == Init => TestInv
<1> SUFFICES ASSUME Init PROVE TestInv
  OBVIOUS
<1> USE DEF Init, Zero
<1>1. TypeOK
  <2>1. Zero \in Word /\ 0 \in 0..Words /\ 0 \in 0..MaxResets
    BY ConstantsAssumption DEF Word
  <2>2. mem \in [Cell -> Word] /\ written \in [Addr -> Word]
    BY <2>1
  <2> QED
    BY <2>1, <2>2 DEF TypeOK, Halves, Tests
<1>2. WriteInv /\ ReadInv /\ KeptInv /\ ResultInv /\ NonzeroInv
  BY DEF WriteInv, ReadInv, KeptInv, ResultInv, NonzeroInv
<1> QED
  BY <1>1, <1>2 DEF TestInv

\* What the generator makes of a word is a word, and its cells are cells.
LEMMA Typed ==
  ASSUME TypeOK
  PROVE  /\ Xorshift(state) \in Word
         /\ \A h \in Halves, a \in Addr :
              /\ <<h, a>> \in Cell /\ defect.cell[<<h, a>>] \in Cell
              /\ mem[defect.cell[<<h, a>>]] \in Word
         /\ Words \in Nat \ {0}
<1>1. Xorshift(state) \in Word
  BY XorshiftIsWord DEF TypeOK
<1>2. defect \in Defect
  BY ConstantsAssumption DEF TypeOK
<1>3. \A h \in Halves, a \in Addr : <<h, a>> \in Cell
  BY DEF Cell
<1>4. defect.cell \in [Cell -> Cell] /\ mem \in [Cell -> Word]
  BY <1>2 DEF Defect, TypeOK
<1> QED
  BY <1>1, <1>3, <1>4, ConstantsAssumption

LEMMA PressButtonInv == TestInv /\ PressButton => TestInv'
<1> SUFFICES ASSUME TestInv, PressButton PROVE TestInv'
  OBVIOUS
<1> USE DEF TestInv, PressButton, memory, locals
<1>1. TypeOK'
  BY DEF TypeOK, Tests
<1>2. (WriteInv /\ ReadInv /\ KeptInv /\ ResultInv /\ NonzeroInv)'
  BY DEF WriteInv, ReadInv, KeptInv, ResultInv, NonzeroInv
<1> QED
  BY <1>1, <1>2

LEMMA CallWriteInv ==
  ASSUME TestInv, NEW h \in Halves, CallWrite(h)
  PROVE  TestInv'
<1> USE DEF TestInv, CallWrite, SwitchMemory, Seed, memory, locals
<1> PICK s \in Ticks : seed' = s /\ state' = s
  OBVIOUS
<1>1. TypeOK'
  BY ConstantsAssumption DEF TypeOK, Tests
<1>2. WriteInv'
  BY ConstantsAssumption DEF WriteInv, Chain, Generated, Addr
<1>3. (ReadInv /\ ResultInv)'
  BY DEF ReadInv, ResultInv
<1>4. (KeptInv /\ NonzeroInv)'
  BY DEF KeptInv, NonzeroInv, Addr
<1> QED
  BY <1>1, <1>2, <1>3, <1>4

LEMMA ReadBackInv == TestInv /\ ReadBack => TestInv'
<1> SUFFICES ASSUME TestInv, ReadBack PROVE TestInv'
  OBVIOUS
<1> USE DEF TestInv, ReadBack, CallRead, SwitchMemory, memory, locals
<1>1. TypeOK'
  BY ConstantsAssumption DEF TypeOK, Tests
<1>2. (WriteInv /\ ReadInv)'
  BY DEF WriteInv, ReadInv, Chain, Generated
<1>3. KeptInv'
  BY DEF KeptInv, Sound
<1>4. ResultInv'
  BY DEF ResultInv, Addr
<1>5. NonzeroInv'
  BY DEF NonzeroInv
<1> QED
  BY <1>1, <1>2, <1>3, <1>4, <1>5

LEMMA AgainInv == TestInv /\ Again => TestInv'
<1> SUFFICES ASSUME TestInv, Again PROVE TestInv'
  OBVIOUS
<1> USE DEF TestInv, Again, memory, locals
<1>1. TypeOK'
  BY DEF TypeOK, Tests
<1>2. (WriteInv /\ ReadInv /\ KeptInv /\ ResultInv /\ NonzeroInv)'
  BY DEF WriteInv, ReadInv, KeptInv, ResultInv, NonzeroInv
<1> QED
  BY <1>1, <1>2

LEMMA WriteWordInv == TestInv /\ WriteWord => TestInv'
<1> SUFFICES ASSUME TestInv, WriteWord PROVE TestInv'
  OBVIOUS
<1> USE DEF TestInv, WriteWord, Generate
<1>1. /\ pointer \in Addr /\ pointer \in Nat /\ state' = Xorshift(state)
      /\ state' \in Word /\ window = half /\ pointer' = pointer + 1
      /\ written \in [Addr -> Word] /\ half \in Halves
  BY Typed DEF TypeOK, KeptInv, Addr
<1>2. TypeOK'
  <2>1. mem' \in [Cell -> Word]
    BY <1>1, Typed DEF TypeOK
  <2>2. pointer' \in 0..Words
    BY <1>1, ConstantsAssumption DEF Addr
  <2> QED
    BY <1>1, <2>1, <2>2 DEF TypeOK
<1>3. written'[pointer] = state' /\ \A a \in Addr : a # pointer => written'[a] = written[a]
  BY <1>1
<1>4. WriteInv'
  <2>1. Generated(pointer)'
    BY <1>1, <1>3 DEF Generated
  <2>2. Chain(pointer) /\ Generated(pointer)
    BY DEF WriteInv
  <2>3. written'[0] = Xorshift(seed)
    BY <1>1, <1>3, <2>2 DEF Chain, Generated, Addr
  <2>4. ASSUME NEW a \in Addr, a > 0, a < pointer'
        PROVE  written'[a] = Xorshift(written'[a - 1])
    <3>1. a - 1 \in Addr /\ a - 1 # pointer
      BY <1>1, <2>4, ConstantsAssumption DEF Addr
    <3>2. CASE a = pointer
      BY <1>1, <1>3, <2>2, <2>4, <3>1, <3>2 DEF Generated
    <3>3. CASE a # pointer
      BY <1>1, <1>3, <2>2, <2>4, <3>1, <3>3 DEF Chain, Addr
    <3> QED
      BY <3>2, <3>3
  <2> QED
    BY <2>1, <2>3, <2>4 DEF WriteInv, Chain
<1>5. (ReadInv /\ ResultInv)'
  BY DEF ReadInv, ResultInv
<1>6. KeptInv'
  <2>1. ASSUME Sound(half), NEW a \in Addr, a < pointer'
        PROVE  mem'[defect.cell[<<half, a>>]] = written'[a]
    <3>1. CASE a = pointer
      BY <1>1, <1>3, <3>1, Typed DEF TypeOK
    <3>2. CASE a # pointer
      <4>1. defect.cell[<<half, a>>] # defect.cell[<<half, pointer>>]
        BY <1>1, <2>1, <3>2 DEF Sound
      <4>2. mem[defect.cell[<<half, a>>]] = written[a]
        BY <1>1, <2>1, <3>2 DEF KeptInv, Addr
      <4> QED
        BY <1>1, <1>3, <3>2, <4>1, <4>2, Typed DEF TypeOK
    <3> QED
      BY <3>1, <3>2
  <2> QED
    BY <1>1, <2>1 DEF KeptInv, Sound
<1>7. NonzeroInv'
  <2>1. ASSUME written'[0] # Zero, NEW a \in Addr, a < pointer'
        PROVE  written'[a] # Zero
    <3>1. CASE a # pointer
      BY <1>1, <1>3, <2>1, <3>1 DEF NonzeroInv, Addr
    <3>2. CASE a = pointer /\ pointer = 0
      BY <2>1, <3>2
    <3>3. CASE a = pointer /\ pointer # 0
      <4>1. pointer - 1 \in Addr /\ 0 \in Addr /\ 0 # pointer
        BY <1>1, <3>3, ConstantsAssumption DEF Addr
      <4>2. state # Zero /\ state \in Word
        BY <1>1, <1>3, <2>1, <3>3, <4>1
        DEF NonzeroInv, WriteInv, Generated, TypeOK, Addr
      <4> QED
        BY <1>1, <1>3, <3>3, <4>2, XorshiftZero
    <3> QED
      BY <3>1, <3>2, <3>3
  <2> QED
    BY <2>1 DEF NonzeroInv
<1> QED
  BY <1>2, <1>4, <1>5, <1>6, <1>7

LEMMA ReadWordInv == TestInv /\ ReadWord => TestInv'
<1> SUFFICES ASSUME TestInv, ReadWord PROVE TestInv'
  OBVIOUS
<1> USE DEF TestInv, ReadWord, Generate, Compare, memory
<1>1. /\ pointer \in Addr /\ pointer \in Nat /\ state' = Xorshift(state)
      /\ state' \in Word /\ window = half /\ pointer' = pointer + 1
      /\ success \in BOOLEAN
  BY Typed DEF TypeOK, KeptInv, Addr
<1>2. TypeOK'
  <2>1. pointer' \in 0..Words
    BY <1>1, ConstantsAssumption DEF Addr
  <2>2. success' \in BOOLEAN
    OBVIOUS
  <2> QED
    BY <1>1, <2>1, <2>2 DEF TypeOK
<1>3. state' = written[pointer]
  BY <1>1 DEF ReadInv, Chain, Generated, Addr
<1>4. (WriteInv /\ ReadInv)'
  BY <1>1, <1>3 DEF WriteInv, ReadInv, Chain, Generated
<1>5. (KeptInv /\ NonzeroInv)'
  BY DEF KeptInv, NonzeroInv, Sound
<1>6. ResultInv'
  <2> DEFINE Match(a) == Delivered(half, a) = written[a]
  <2>1. success = (\A a \in Addr : a < pointer => Match(a))
    BY DEF ResultInv
  <2>2. success' = (success /\ Match(pointer))
    BY <1>1, <1>3
  <2>3. (\A a \in Addr : a < pointer' => Match(a))
        <=> ((\A a \in Addr : a < pointer => Match(a)) /\ Match(pointer))
    <3>1. \A a \in Addr : a < pointer' <=> a < pointer \/ a = pointer
      BY <1>1, ConstantsAssumption DEF Addr
    <3> HIDE DEF Match
    <3> QED
      BY <1>1, <3>1, Zenon
  <2>4. success' = (\A a \in Addr : a < pointer' => Match(a))
    BY <2>1, <2>2, <2>3
  <2> QED
    BY <2>4 DEF ResultInv, Delivered
<1> QED
  BY <1>2, <1>4, <1>5, <1>6

LEMMA ReturnInv == TestInv /\ Return => TestInv'
<1> SUFFICES ASSUME TestInv, Return PROVE TestInv'
  OBVIOUS
<1> USE DEF TestInv, Return, memory, locals
<1>1. TypeOK'
  BY DEF TypeOK, Tests
<1>2. (WriteInv /\ ReadInv)'
  BY DEF WriteInv, ReadInv, Chain
<1>3. pointer = Words /\ \A a \in Addr : a < pointer
  BY ConstantsAssumption DEF Addr
<1>4. KeptInv'
  BY <1>3 DEF KeptInv, Sound
<1>5. ResultInv'
  BY <1>3 DEF ResultInv, Delivered
<1>6. NonzeroInv'
  BY <1>3, ConstantsAssumption DEF NonzeroInv
<1> QED
  BY <1>1, <1>2, <1>4, <1>5, <1>6

LEMMA ResetInv == TestInv /\ Reset => TestInv'
<1> SUFFICES ASSUME TestInv, Reset PROVE TestInv'
  OBVIOUS
<1> USE DEF TestInv, Reset
<1>1. TypeOK'
  <2>1. Zero \in Word /\ 0 \in 0..Words /\ resets' \in 0..MaxResets
    BY ConstantsAssumption DEF TypeOK, Word, Zero
  <2>2. mem' \in [Cell -> Word]
    BY <2>1 DEF TypeOK
  <2> QED
    BY <2>1, <2>2 DEF TypeOK, Halves, Tests
<1>2. (WriteInv /\ ReadInv /\ KeptInv /\ ResultInv /\ NonzeroInv)'
  BY DEF WriteInv, ReadInv, KeptInv, ResultInv, NonzeroInv
<1> QED
  BY <1>1, <1>2

LEMMA StutterInv == TestInv /\ UNCHANGED vars => TestInv'
<1> SUFFICES ASSUME TestInv, UNCHANGED vars PROVE TestInv'
  OBVIOUS
<1> USE DEF TestInv, vars, memory, locals
<1>1. TypeOK'
  BY DEF TypeOK
<1>2. (WriteInv /\ ReadInv)'
  BY DEF WriteInv, ReadInv, Chain, Generated
<1>3. (KeptInv /\ NonzeroInv)'
  BY DEF KeptInv, NonzeroInv, Sound
<1>4. ResultInv'
  BY DEF ResultInv, Delivered
<1> QED
  BY <1>1, <1>2, <1>3, <1>4

LEMMA NextInv == TestInv /\ [Next]_vars => TestInv'
<1> SUFFICES ASSUME TestInv, [Next]_vars PROVE TestInv'
  OBVIOUS
<1>1. CASE PressButton
  BY <1>1, PressButtonInv
<1>2. CASE ReadSpd
  BY <1>2, CallWriteInv DEF ReadSpd, Halves
<1>3. CASE ReadBack
  BY <1>3, ReadBackInv
<1>4. CASE OtherHalf
  BY <1>4, CallWriteInv DEF OtherHalf, Halves
<1>5. CASE Again
  BY <1>5, AgainInv
<1>6. CASE WriteWord
  BY <1>6, WriteWordInv
<1>7. CASE ReadWord
  BY <1>7, ReadWordInv
<1>8. CASE Return
  BY <1>8, ReturnInv
<1>9. CASE Reset
  BY <1>9, ResetInv
<1>10. CASE UNCHANGED vars
  BY <1>10, StutterInv
<1> QED
  BY <1>1, <1>2, <1>3, <1>4, <1>5, <1>6, <1>7, <1>8, <1>9, <1>10
  DEF Next, Step

LEMMA TestInvHolds == Spec => []TestInv
BY InitInv, NextInv, PTL DEF Spec
-----------------------------------------------------------------------------
\* Pointers stay in the window and numbers in their 32 bits.
THEOREM TestsTypeCorrect == Spec => []TypeOK
<1>1. TestInv => TypeOK
  BY DEF TestInv
<1> QED
  BY <1>1, TestInvHolds, PTL

\* The read test's result is exact (ddr3.c:872-890), for a memory of any size
\* and with any defect.
THEOREM ResultIsExact == Spec => []ResultExact
<1>1. TestInv => ResultExact
  BY DEF TestInv, ResultInv, ResultExact
<1> QED
  BY <1>1, TestInvHolds, PTL

\* A sound half never fails the test.
THEOREM NoFalseAlarms == Spec => []NoFalseAlarm
<1>1. TestInv => NoFalseAlarm
  <2> SUFFICES ASSUME TestInv, test \in {"reading", "read"}, Sound(half)
               PROVE  success
    BY DEF NoFalseAlarm
  <2>1. \A a \in Addr : Delivered(half, a) = written[a]
    BY DEF TestInv, KeptInv, Sound, Delivered, Zero
  <2> QED
    BY <2>1 DEF TestInv, ResultInv
<1> QED
  BY <1>1, TestInvHolds, PTL

\* A word that reads zero is found whatever the seed is, zero excepted.
THEOREM DeadWordsFound == Spec => []DeadFound
<1>1. TestInv => DeadFound
  <2> SUFFICES ASSUME TestInv, test = "read", written[0] # Zero,
                      NEW a \in Addr, defect.zeros[defect.cell[<<half, a>>]] = Bit
               PROVE  ~success
    BY DEF DeadFound
  <2>1. half \in Halves /\ mem[defect.cell[<<half, a>>]] \in SUBSET Bit
    BY Typed DEF TestInv, TypeOK, Word
  <2>2. defect.ones[defect.cell[<<half, a>>]] \in SUBSET Bit
    <3>1. defect \in Defect
      BY ConstantsAssumption DEF TestInv, TypeOK
    <3>2. defect.ones \in [Cell -> Word]
      BY <3>1 DEF Defect
    <3>3. defect.cell[<<half, a>>] \in Cell
      BY <2>1, Typed DEF TestInv
    <3> QED
      BY <3>2, <3>3 DEF Word
  <2>3. Delivered(half, a) = Zero
    BY <2>1, <2>2 DEF Delivered, Zero
  <2>4. written[a] # Zero
    BY DEF TestInv, NonzeroInv
  <2> QED
    BY <2>3, <2>4 DEF TestInv, ResultInv
<1> QED
  BY <1>1, TestInvHolds, PTL

\* The generator's period is not shorter than a half: no word but zero comes
\* back to itself within one test.
LongPeriod ==
  \A n \in 1..(Words - 1) : \A f \in [0..n -> Word] :
    (f[0] # Zero /\ \A i \in 1..n : f[i] = Xorshift(f[i - 1])) => f[n] # f[0]

\* The numbers of a test are all different: two that were equal would be a
\* period too short.
LEMMA AllDifferent ==
  ASSUME LongPeriod, TypeOK, Chain(Words), \A a \in Addr : written[a] # Zero,
         NEW a \in Addr, NEW b \in Addr, a < b
  PROVE  written[a] # written[b]
<1> USE ConstantsAssumption DEF Addr
<1>1. PICK n \in 1..(Words - 1) : n = b - a
  OBVIOUS
<1> DEFINE f == [i \in 0..n |-> written[a + i]]
<1>2. ASSUME NEW i \in 0..n PROVE a + i \in Addr
  BY <1>1
<1>3. f \in [0..n -> Word]
  BY <1>2 DEF TypeOK
<1>4. f[0] = written[a] /\ f[n] = written[b]
  BY <1>1
<1>5. ASSUME NEW i \in 1..n PROVE f[i] = Xorshift(f[i - 1])
  <2>1. /\ i \in 0..n /\ i - 1 \in 0..n /\ a + i > 0 /\ a + i < Words
        /\ a + (i - 1) = (a + i) - 1
    BY <1>1
  <2>2. a + i \in Addr
    BY <1>2, <2>1
  <2>3. written[a + i] = Xorshift(written[(a + i) - 1])
    BY <2>1, <2>2 DEF Chain
  <2> QED
    BY <2>1, <2>3
<1> HIDE DEF f
<1>6. f[0] # Zero
  BY <1>4
<1> QED
  BY <1>3, <1>4, <1>5, <1>6 DEF LongPeriod

\* Two addresses of a half that reach the same cell are found whatever the
\* seed is, zero excepted, as long as the generator does not repeat itself
\* within a half.
THEOREM AliasesFound == ASSUME LongPeriod PROVE Spec => []AliasFound
<1>1. TestInv => AliasFound
  <2> SUFFICES ASSUME TestInv, test = "read", written[0] # Zero,
                      NEW a \in Addr, NEW b \in Addr, a # b,
                      defect.cell[<<half, a>>] = defect.cell[<<half, b>>], success
               PROVE  FALSE
    BY DEF AliasFound
  <2>1. Delivered(half, a) = Delivered(half, b)
    BY DEF Delivered
  <2>2. Delivered(half, a) = written[a] /\ Delivered(half, b) = written[b]
    BY DEF TestInv, ResultInv
  <2>3. /\ TypeOK /\ Chain(Words) /\ \A c \in Addr : written[c] # Zero
    BY DEF TestInv, ReadInv, NonzeroInv
  <2>4. a < b \/ b < a
    BY ConstantsAssumption DEF Addr
  <2> QED
    BY <2>1, <2>2, <2>3, <2>4, AllDifferent
<1> QED
  BY <1>1, TestInvHolds, PTL
=============================================================================
