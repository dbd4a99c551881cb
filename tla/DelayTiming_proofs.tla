------------------------- MODULE DelayTiming_proofs -------------------------
(***************************************************************************)
(* The length of a delay, for every divider and every set of delays: the   *)
(* elapsed time is the ticks the timer has counted off, each of ClkDiv + 1 *)
(* clocks, and the position of the divider in the tick in progress.        *)
(***************************************************************************)
EXTENDS DelayTiming, Integers, TLAPS

\* The clocks of n ticks.
Clocks(n) == n * (ClkDiv + 1)

LEMMA OneTick ==
  ASSUME ConstantsOK, NEW n \in Nat
  PROVE  Clocks(n) \in Nat /\ Clocks(n + 1) = Clocks(n) + ClkDiv + 1
BY DEF ConstantsOK, Clocks

\* Where the divider is in its tick.  Its event is taken one clock late.
Position == IF divevt THEN ClkDiv ELSE divcnt - 1

Progress ==
  ~idle => /\ timer < asked
           /\ divevt = (divcnt = 0)
           /\ elapsed = Clocks(asked - 1 - timer) + Position

DelayInv == /\ TypeOK
            /\ Progress
            /\ finished => idle /\ elapsed = Clocks(asked)

LEMMA DelayInit == ASSUME ConstantsOK PROVE DriverInit => DelayInv
<1> SUFFICES ASSUME DriverInit PROVE DelayInv
  OBVIOUS
<1>1. TypeOK
  <2>1. 0 \in 0..ClkDiv
    BY DEF ConstantsOK
  <2>2. QED
    BY <2>1 DEF DriverInit, Init, TypeOK
<1>2. QED
  BY <1>1 DEF DriverInit, Init, DelayInv, Progress

\* A trigger starts the count at the first clock of the first tick.
LEMMA TriggerStep ==
  ASSUME ConstantsOK, DelayInv, NEW clr \in BOOLEAN, NEW trigger \in BOOLEAN,
         NEW delay \in Delays, Trigger(trigger, delay),
         asked' = IF idle /\ trigger THEN delay ELSE asked, elapsed' = 0
  PROVE  DelayInv'
<1>1. delay \in Nat
  BY DEF ConstantsOK
<1>2. TypeOK'
  <2>1. /\ 0 \in 0..ClkDiv /\ 1 \in 0..ClkDiv /\ 0 \in Nat
        /\ delay # 0 => delay - 1 \in Nat
    BY <1>1 DEF ConstantsOK
  <2>2. finished' \in BOOLEAN
    BY DEF Trigger
  <2>3. /\ idle' \in BOOLEAN /\ divcnt' \in 0..ClkDiv
        /\ divevt' \in BOOLEAN /\ timer' \in Nat
    BY <2>1 DEF Trigger, Stopped
  <2>4. asked' \in Nat
    BY <1>1 DEF DelayInv, TypeOK
  <2>5. QED
    BY <2>1, <2>2, <2>3, <2>4 DEF TypeOK
<1>3. Clocks(0) = 0
  BY DEF ConstantsOK, Clocks
<1>4. CASE trigger /\ delay # 0
  <2>1. /\ idle' = FALSE /\ divcnt' = 1 /\ divevt' = FALSE
        /\ timer' = delay - 1 /\ asked' = delay /\ finished' = FALSE
    BY <1>4 DEF Trigger
  <2>2. asked' - 1 - timer' = 0
    BY <1>1, <2>1
  <2>3. Clocks(asked' - 1 - timer') = 0
    BY <1>3, <2>2
  <2>4. Position' = 0
    BY <2>1 DEF Position
  <2>5. timer' < asked' /\ (divevt' = (divcnt' = 0))
    <3>1. delay - 1 < delay
      BY <1>1
    <3>2. divcnt' # 0
      BY <2>1
    <3>3. QED
      BY <2>1, <3>1, <3>2
  <2>6. elapsed' = Clocks(asked' - 1 - timer') + Position'
    BY <2>3, <2>4
  <2>7. Progress'
    BY <2>5, <2>6 DEF Progress, Clocks
  <2>8. QED
    BY <1>2, <2>1, <2>7 DEF DelayInv
<1>5. CASE ~(trigger /\ delay # 0)
  <2>1. idle' = TRUE /\ finished' = (trigger /\ delay = 0)
    BY <1>5 DEF Trigger, Stopped
  <2>2. finished' => elapsed' = Clocks(asked')
    BY <1>3, <2>1 DEF Trigger, Clocks
  <2>3. QED
    BY <1>2, <2>1, <2>2 DEF DelayInv, Progress, Clocks
<1>6. QED
  BY <1>4, <1>5

\* Within a tick the divider counts the clocks; its event ends a tick.
LEMMA RunStep ==
  ASSUME ConstantsOK, DelayInv, Run, asked' = asked, elapsed' = elapsed + 1
  PROVE  DelayInv'
<1> DEFINE done == asked - 1 - timer
<1>1. /\ ~idle /\ timer \in Nat /\ asked \in Nat /\ elapsed \in Nat
      /\ divcnt \in 0..ClkDiv /\ divevt \in BOOLEAN /\ timer < asked
      /\ ClkDiv \in Nat \ {0}
  BY DEF ConstantsOK, DelayInv, TypeOK, Progress, Run
<1>2. done \in Nat
  BY <1>1
<1>3. /\ divevt = (divcnt = 0)
      /\ elapsed = Clocks(done) + Position
  BY <1>1 DEF DelayInv, Progress
<1>4. Clocks(done) \in Nat /\ Clocks(done + 1) = Clocks(done) + ClkDiv + 1
  BY <1>2, OneTick
<1>5. /\ divcnt' \in 0..ClkDiv /\ divevt' \in BOOLEAN
      /\ divevt' = (divcnt' = 0)
  <2>1. divevt' = (divcnt = ClkDiv)
    BY DEF Run
  <2>2. divcnt' = IF divcnt = ClkDiv THEN 0 ELSE divcnt + 1
    BY DEF Run
  <2>3. QED
    BY <1>1, <2>1, <2>2
<1>6. finished' \in BOOLEAN /\ idle' = finished' /\ finished' = (divevt /\ timer = 0)
  BY DEF Run
<1>7. timer' = IF divevt /\ timer # 0 THEN timer - 1 ELSE timer
  BY DEF Run
<1>8. TypeOK'
  <2>1. timer' \in Nat /\ elapsed' \in Nat /\ asked' \in Nat
    BY <1>1, <1>7
  <2>2. QED
    BY <1>5, <1>6, <2>1 DEF TypeOK
<1>9. CASE ~divevt
  <2>1. finished' = FALSE /\ idle' = FALSE /\ timer' = timer
    BY <1>6, <1>7, <1>9
  <2>2. Position' = Position + 1
    <3>1. Position = divcnt - 1
      BY <1>9 DEF Position
    <3>2. CASE divcnt = ClkDiv
      <4>1. divevt' = TRUE
        BY <3>2 DEF Run
      <4>2. Position' = ClkDiv
        BY <4>1 DEF Position
      <4>3. QED
        BY <1>1, <3>1, <3>2, <4>2
    <3>3. CASE divcnt # ClkDiv
      <4>1. divevt' = FALSE /\ divcnt' = divcnt + 1
        BY <3>3 DEF Run
      <4>2. Position' = divcnt' - 1
        BY <4>1 DEF Position
      <4>3. QED
        BY <1>1, <3>1, <4>1, <4>2
    <3>4. QED
      BY <3>2, <3>3
  <2>3. Position \in Int
    BY <1>1 DEF Position
  <2>4. elapsed' = Clocks(done) + Position'
    BY <1>3, <1>4, <2>2, <2>3
  <2>5. Progress'
    BY <1>1, <1>5, <2>1, <2>4 DEF Progress, Clocks
  <2>6. QED
    BY <1>8, <2>1, <2>5 DEF DelayInv
<1>10. CASE divevt /\ timer # 0
  <2>1. finished' = FALSE /\ idle' = FALSE /\ timer' = timer - 1
    BY <1>6, <1>7, <1>10
  <2>2. Position' = 0 /\ Position = ClkDiv
    <3>1. Position = ClkDiv /\ divcnt = 0
      BY <1>3, <1>10 DEF Position
    <3>2. divcnt # ClkDiv
      BY <1>1, <3>1
    <3>3. divevt' = FALSE /\ divcnt' = divcnt + 1
      BY <3>2 DEF Run
    <3>4. Position' = divcnt' - 1
      BY <3>3 DEF Position
    <3>5. QED
      BY <3>1, <3>3, <3>4
  <2>3. asked' - 1 - timer' = done + 1
    BY <1>1, <2>1
  <2>4. elapsed' = Clocks(done + 1) + Position'
    BY <1>1, <1>3, <1>4, <2>2
  <2>5. elapsed' = Clocks(asked' - 1 - timer') + Position'
    BY <2>3, <2>4
  <2>6. timer' < asked'
    BY <1>1, <2>1
  <2>7. Progress'
    BY <1>5, <2>5, <2>6 DEF Progress, Clocks
  <2>8. QED
    BY <1>8, <2>1, <2>7 DEF DelayInv
<1>11. CASE divevt /\ timer = 0
  <2>1. finished' = TRUE /\ idle' = TRUE
    BY <1>6, <1>11
  <2>2. Position = ClkDiv
    BY <1>11 DEF Position
  <2>3. done + 1 = asked
    BY <1>1, <1>11
  <2>4. elapsed' = Clocks(done + 1)
    BY <1>1, <1>3, <1>4, <2>2
  <2>5. elapsed' = Clocks(asked')
    BY <2>3, <2>4
  <2>6. QED
    BY <1>8, <2>1, <2>5 DEF DelayInv, Progress, Clocks
<1>12. QED
  BY <1>9, <1>10, <1>11

LEMMA DelayStep ==
  ASSUME ConstantsOK PROVE DelayInv /\ [Next]_vars => DelayInv'
<1> SUFFICES ASSUME DelayInv, [Next]_vars PROVE DelayInv'
  OBVIOUS
<1>1. CASE Next
  <2>1. PICK clr \in BOOLEAN, trigger \in BOOLEAN, delay \in Delays :
             Drive(clr, trigger, delay)
    BY <1>1 DEF Next
  <2>2. CASE Trigger(trigger, delay)
    <3>1. idle
      BY <2>2 DEF Trigger
    <3>2. QED
      BY <2>1, <2>2, <3>1, TriggerStep DEF Drive
  <2>3. CASE clr /\ Clear
    <3>1. /\ idle' = TRUE /\ divcnt' = 0 /\ divevt' = FALSE /\ timer' = 0
          /\ finished' = FALSE
      BY <2>3 DEF Clear, Stopped
    <3>2. asked' = asked /\ elapsed' = elapsed + 1
      BY <2>1, <2>3 DEF Drive, Clear
    <3>3. TypeOK'
      <4>1. 0 \in 0..ClkDiv
        BY DEF ConstantsOK
      <4>2. elapsed' \in Nat /\ asked' \in Nat
        BY <3>2 DEF DelayInv, TypeOK
      <4>3. QED
        BY <3>1, <4>1, <4>2 DEF TypeOK
    <3>4. QED
      BY <3>1, <3>3 DEF DelayInv, Progress
  <2>4. CASE ~clr /\ Run
    <3>1. asked' = asked /\ elapsed' = elapsed + 1
      BY <2>1, <2>4 DEF Drive, Run
    <3>2. QED
      BY <2>4, <3>1, RunStep
  <2>5. QED
    BY <2>1, <2>2, <2>3, <2>4 DEF Drive, Clock
<1>2. CASE UNCHANGED vars
  BY <1>2 DEF vars, delayVars, DelayInv, TypeOK, Progress, Position, Clocks
<1>3. QED
  BY <1>1, <1>2

LEMMA DelayInvariant == ASSUME ConstantsOK PROVE Spec => []DelayInv
<1>1. DriverInit => DelayInv
  BY DelayInit
<1>2. DelayInv /\ [Next]_vars => DelayInv'
  BY DelayStep
<1>3. QED
  BY <1>1, <1>2, PTL DEF Spec

LEMMA BelowTheEnd ==
  ASSUME ConstantsOK, NEW d \in Nat, NEW n \in Nat, d + 1 <= n,
         NEW p \in Int, p < ClkDiv + 1
  PROVE  Clocks(d) + p < Clocks(n)
<1>1. Clocks(d) \in Nat /\ Clocks(d + 1) = Clocks(d) + ClkDiv + 1
  BY OneTick
<1>2. Clocks(d + 1) <= Clocks(n)
  <2>1. \A a, b \in Nat : a <= b => a * (ClkDiv + 1) <= b * (ClkDiv + 1)
    BY DEF ConstantsOK
  <2>2. d + 1 \in Nat
    OBVIOUS
  <2>3. QED
    BY <2>1, <2>2 DEF Clocks
<1>3. Clocks(n) \in Nat
  BY OneTick
<1>4. Clocks(d) + p < Clocks(d) + ClkDiv + 1
  BY <1>1 DEF ConstantsOK
<1>5. QED
  BY <1>1, <1>2, <1>3, <1>4 DEF ConstantsOK

\* A delay that is running has clocks left.
LEMMA NeverLate == ASSUME ConstantsOK PROVE DelayInv => DelayExact
<1> SUFFICES ASSUME DelayInv PROVE DelayExact
  OBVIOUS
<1>1. finished => elapsed = asked * (ClkDiv + 1)
  BY DEF DelayInv, Clocks
<1>2. ASSUME ~idle PROVE elapsed < asked * (ClkDiv + 1)
  <2> DEFINE done == asked - 1 - timer
  <2>1. /\ timer \in Nat /\ asked \in Nat /\ timer < asked
        /\ divcnt \in 0..ClkDiv /\ divevt \in BOOLEAN /\ ClkDiv \in Nat
    BY <1>2 DEF ConstantsOK, DelayInv, TypeOK, Progress
  <2>2. done \in Nat /\ done + 1 <= asked
    BY <2>1
  <2>4. Position \in Int /\ Position < ClkDiv + 1
    BY <2>1 DEF Position
  <2>5. elapsed = Clocks(done) + Position
    BY <1>2 DEF DelayInv, Progress
  <2>6. elapsed < Clocks(asked)
    BY <2>1, <2>2, <2>4, <2>5, BelowTheEnd
  <2>7. QED
    BY <2>6 DEF Clocks
<1>3. QED
  BY <1>1, <1>2 DEF DelayExact

\* Types, for every divider.
THEOREM DelayTypeCorrect == ASSUME ConstantsOK PROVE Spec => []TypeOK
<1>1. DelayInv => TypeOK
  BY DEF DelayInv
<1>2. QED
  BY <1>1, DelayInvariant, PTL

\* A delay of n ticks ends after exactly n * (ClkDiv + 1) clocks.
THEOREM DelayCorrect == ASSUME ConstantsOK PROVE Spec => []DelayExact
<1>1. DelayInv => DelayExact
  BY NeverLate
<1>2. QED
  BY <1>1, DelayInvariant, PTL
=============================================================================
