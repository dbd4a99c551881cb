------------------------ MODULE SystemClock_proofs ------------------------
(***************************************************************************)
(* Proofs about the system clock: whatever the width of the counter and    *)
(* however often it wraps, a callback is called in the tick it was asked   *)
(* for.                                                                    *)
(***************************************************************************)
EXTENDS SystemClock, TLAPS

\* The flag as the walk will find it.
Flag(a) == IF a \in todo THEN StillRollover(a) ELSE rollover[a]

\* What time and flag say together: the ticks that are left.
Due(a) == time[a] = nticks + left[a] - (IF Flag(a) THEN Width ELSE 0)

\* An alarm the walk has not come to may be due, another one is not.
Ahead(a) ==
  IF a \in todo THEN left[a] \in 0..(Width - 2) ELSE left[a] \in 1..(Width - 1)

Inv == TypeOK /\ \A a \in list : Due(a) /\ Ahead(a)
-----------------------------------------------------------------------------
(* The arithmetic of the counter. *)

LEMMA Mod ==
  ASSUME NEW m \in Nat \ {0}, NEW t \in Nat, NEW k \in Nat, t < m, k < m
  PROVE  (t + k) % m = IF t + k < m THEN t + k ELSE t + k - m
BY Z3

LEMMA Wrap ==
  ASSUME NEW t \in 0..(Width - 1), NEW k \in 0..(Width - 1)
  PROVE  /\ Plus(t, k) = IF t + k < Width THEN t + k ELSE t + k - Width
         /\ Plus(t, k) \in 0..(Width - 1)
<1>1. Width \in Nat \ {0} /\ t \in Nat /\ k \in Nat /\ t < Width /\ k < Width
  BY ConstantsAssumption
<1>2. (t + k) % Width = IF t + k < Width THEN t + k ELSE t + k - Width
  BY <1>1, Mod
<1>3. QED
  BY <1>1, <1>2 DEF Plus

\* An alarm set k ticks ahead of the counter, k short of a whole turn.
LEMMA Set ==
  ASSUME NEW t \in 0..(Width - 1), NEW k \in 1..(Width - 1)
  PROVE  /\ Plus(t, k) \in 0..(Width - 1)
         /\ (Plus(t, k) < t) \in BOOLEAN
         /\ Plus(t, k) = t + k - (IF Plus(t, k) < t THEN Width ELSE 0)
<1>1. k \in 0..(Width - 1) /\ t \in Nat /\ k \in Nat /\ k > 0 /\ k < Width
      /\ t < Width /\ Width \in Nat
  BY ConstantsAssumption
<1>2. /\ Plus(t, k) = IF t + k < Width THEN t + k ELSE t + k - Width
      /\ Plus(t, k) \in 0..(Width - 1)
  BY <1>1, Wrap
<1>3. QED
  BY <1>1, <1>2
-----------------------------------------------------------------------------
(* The invariant. *)

LEMMA InitInv == Init => Inv
<1> SUFFICES ASSUME Init PROVE Inv
  OBVIOUS
<1>1. 0 \in 0..(Width - 1)
  BY ConstantsAssumption
<1>2. TypeOK
  BY <1>1 DEF Init, TypeOK
<1>3. QED
  BY <1>2 DEF Init, Inv

\* Starting an alarm, by the program or in a callback.
LEMMA StartInv ==
  ASSUME Inv, NEW a \in Alarms, NEW n \in Intervals, Start(a, n)
  PROVE  Inv'
<1>1. /\ n + 1 \in 1..(Width - 1) /\ nticks \in 0..(Width - 1) /\ Width \in Nat
      /\ TypeOK
  BY ConstantsAssumption DEF Inv, TypeOK
<1>2. /\ StartTime(n) \in 0..(Width - 1)
      /\ (StartTime(n) < nticks) \in BOOLEAN
      /\ StartTime(n) = nticks + (n + 1) - (IF StartTime(n) < nticks THEN Width ELSE 0)
  BY <1>1, Set DEF StartTime
<1>3. TypeOK'
  BY <1>1, <1>2 DEF Start, TypeOK
<1>4. ASSUME NEW b \in list' PROVE (Due(b) /\ Ahead(b))'
  <2>1. CASE b = a
    <3>1. a \notin todo' /\ time'[a] = StartTime(n) /\ left'[a] = n + 1
          /\ rollover'[a] = (StartTime(n) < nticks) /\ nticks' = nticks
      BY <1>1 DEF Start, TypeOK
    <3>2. QED
      BY <1>1, <1>2, <2>1, <3>1 DEF Due, Flag, Ahead
  <2>2. CASE b # a
    <3>1. b \in list /\ b \in Alarms /\ todo' = todo /\ time'[b] = time[b]
          /\ left'[b] = left[b] /\ rollover'[b] = rollover[b] /\ nticks' = nticks
      BY <1>1, <2>2 DEF Start, TypeOK
    <3>2. Due(b) /\ Ahead(b)
      BY <3>1 DEF Inv
    <3>3. QED
      BY <3>1, <3>2 DEF Due, Flag, StillRollover, Ahead
  <2>3. QED
    BY <2>1, <2>2
<1>5. QED
  BY <1>3, <1>4 DEF Inv

LEMMA StopInv ==
  ASSUME Inv, NEW a \in list, Stop(a)
  PROVE  Inv'
<1>1. TypeOK'
  BY DEF Inv, TypeOK, Stop
<1>2. ASSUME NEW b \in list' PROVE (Due(b) /\ Ahead(b))'
  <2>1. b \in list /\ (b \in todo' <=> b \in todo)
    BY DEF Stop
  <2>2. Due(b) /\ Ahead(b)
    BY <2>1 DEF Inv
  <2>3. QED
    BY <2>1, <2>2 DEF Stop, Due, Flag, StillRollover, Ahead
<1>3. QED
  BY <1>1, <1>2 DEF Inv

\* The counter wraps, or not; what is registered comes one tick nearer.
LEMMA TickInv ==
  ASSUME Inv, Tick
  PROVE  Inv'
<1>1. Width \in Nat /\ Width >= 2 /\ 1 \in 0..(Width - 1) /\ TypeOK
      /\ nticks \in 0..(Width - 1) /\ todo = {} /\ list \subseteq Alarms
  BY ConstantsAssumption DEF Inv, TypeOK, Tick
<1>2. nticks' = IF nticks + 1 < Width THEN nticks + 1 ELSE 0
  <2>1. Plus(nticks, 1) = IF nticks + 1 < Width THEN nticks + 1 ELSE nticks + 1 - Width
    BY <1>1, Wrap
  <2>2. nticks \in Nat /\ nticks < Width
    BY <1>1
  <2>3. QED
    BY <1>1, <2>1, <2>2 DEF Tick
<1>3. left' \in [Alarms -> Nat]
  BY <1>1 DEF TypeOK, Tick
<1>4. TypeOK'
  BY <1>1, <1>2, <1>3 DEF TypeOK, Tick
<1>5. ASSUME NEW b \in list' PROVE (Due(b) /\ Ahead(b))'
  <2>1. b \in list /\ b \in Alarms /\ b \in todo' /\ b \notin todo
    BY <1>1, <1>5 DEF Tick
  <2>2. left[b] \in 1..(Width - 1) /\ time[b] \in 0..(Width - 1)
        /\ time[b] = nticks + left[b] - (IF rollover[b] THEN Width ELSE 0)
    BY <1>1, <2>1 DEF Inv, TypeOK, Due, Flag, Ahead
  <2>3. left'[b] = left[b] - 1 /\ time' = time /\ rollover' = rollover
    BY <1>1, <2>1, <2>2 DEF Tick
  <2>4. Ahead(b)'
    BY <1>1, <2>1, <2>2, <2>3 DEF Ahead
  <2>5. time'[b] = nticks' + left'[b]
                   - (IF rollover'[b] /\ nticks' # 0 THEN Width ELSE 0)
    BY <1>1, <1>2, <2>2, <2>3
  <2>6. Due(b)'
    BY <2>1, <2>5 DEF Due, Flag, StillRollover
  <2>7. QED
    BY <2>4, <2>6
<1>6. QED
  BY <1>4, <1>5 DEF Inv

\* The walk comes to an alarm: it is due exactly if no ticks are left.
LEMMA DueNow ==
  ASSUME Inv, NEW a \in todo
  PROVE  /\ Expired(a) => left[a] = 0 /\ time[a] = nticks
         /\ ~Expired(a) => left[a] > 0
<1>1. a \in list /\ a \in Alarms /\ Width \in Nat
  BY ConstantsAssumption DEF Inv, TypeOK
<1>2. time[a] \in 0..(Width - 1) /\ nticks \in 0..(Width - 1)
  BY <1>1 DEF Inv, TypeOK
<1>3. left[a] \in 0..(Width - 2)
      /\ time[a] = nticks + left[a] - (IF StillRollover(a) THEN Width ELSE 0)
  BY <1>1 DEF Inv, Due, Flag, Ahead
<1>4. QED
  BY <1>1, <1>2, <1>3 DEF Expired

LEMMA PassInv ==
  ASSUME Inv, NEW a \in Alarms, Pass(a)
  PROVE  Inv'
<1>1. TypeOK /\ a \in todo /\ a \in list /\ Width \in Nat
      /\ StillRollover(a) \in BOOLEAN
  BY ConstantsAssumption DEF Inv, TypeOK, Pass, StillRollover
<1>2. TypeOK'
  BY <1>1 DEF TypeOK, Pass
<1>3. ASSUME NEW b \in list' PROVE (Due(b) /\ Ahead(b))'
  <2>1. b \in list /\ b \in Alarms /\ Due(b) /\ Ahead(b)
        /\ nticks' = nticks /\ time' = time /\ left' = left
    BY <1>1 DEF Inv, TypeOK, Pass
  <2>2. CASE b = a
    <3>1. left[a] > 0 /\ a \notin todo' /\ rollover'[a] = StillRollover(a)
      BY <1>1, DueNow DEF Pass, TypeOK
    <3>2. left[a] \in 1..(Width - 1)
      BY <1>1, <2>1, <2>2, <3>1 DEF Ahead
    <3>3. QED
      BY <1>1, <2>1, <2>2, <3>1, <3>2 DEF Due, Flag, Ahead
  <2>3. CASE b # a
    <3>1. rollover'[b] = rollover[b] /\ (b \in todo' <=> b \in todo)
      BY <1>1, <2>1, <2>3 DEF Pass, TypeOK
    <3>2. QED
      BY <2>1, <3>1 DEF Due, Flag, StillRollover, Ahead
  <2>4. QED
    BY <2>2, <2>3
<1>4. QED
  BY <1>2, <1>3 DEF Inv

LEMMA AgainInv ==
  ASSUME Inv, NEW a \in Alarms, NEW n \in Intervals \ {0}, Again(a, n)
  PROVE  Inv'
<1>1. TypeOK /\ a \in todo /\ a \in list /\ Width \in Nat
      /\ n \in 1..(Width - 1) /\ nticks \in 0..(Width - 1)
  BY ConstantsAssumption DEF Inv, TypeOK, Again
<1>2. time[a] = nticks
  BY <1>1, DueNow DEF Again
<1>3. /\ Plus(nticks, n) \in 0..(Width - 1)
      /\ (Plus(nticks, n) < nticks) \in BOOLEAN
      /\ Plus(nticks, n) = nticks + n - (IF Plus(nticks, n) < nticks THEN Width ELSE 0)
  BY <1>1, Set
<1>4. /\ time' = [time EXCEPT ![a] = Plus(nticks, n)]
      /\ rollover' = [rollover EXCEPT ![a] = Plus(nticks, n) < nticks]
  BY <1>1, <1>2 DEF Again, TypeOK
<1>5. TypeOK'
  BY <1>1, <1>3, <1>4 DEF TypeOK, Again
<1>6. ASSUME NEW b \in list' PROVE (Due(b) /\ Ahead(b))'
  <2>1. b \in list /\ b \in Alarms /\ Due(b) /\ Ahead(b) /\ nticks' = nticks
    BY <1>1 DEF Inv, TypeOK, Again
  <2>2. CASE b = a
    <3>1. a \notin todo' /\ time'[a] = Plus(nticks, n) /\ left'[a] = n
          /\ rollover'[a] = (Plus(nticks, n) < nticks)
      BY <1>1, <1>4 DEF Again, TypeOK
    <3>2. QED
      BY <1>1, <1>3, <2>1, <2>2, <3>1 DEF Due, Flag, Ahead
  <2>3. CASE b # a
    <3>1. rollover'[b] = rollover[b] /\ time'[b] = time[b] /\ left'[b] = left[b]
          /\ (b \in todo' <=> b \in todo)
      BY <1>1, <1>4, <2>1, <2>3 DEF Again, TypeOK
    <3>2. QED
      BY <2>1, <3>1 DEF Due, Flag, StillRollover, Ahead
  <2>4. QED
    BY <2>2, <2>3
<1>7. QED
  BY <1>5, <1>6 DEF Inv

LEMMA LastInv ==
  ASSUME Inv, NEW a \in Alarms, Last(a)
  PROVE  Inv'
<1>1. TypeOK /\ a \in todo /\ StillRollover(a) \in BOOLEAN
  BY DEF Inv, TypeOK, Last, StillRollover
<1>2. TypeOK'
  BY <1>1 DEF TypeOK, Last
<1>3. ASSUME NEW b \in list' PROVE (Due(b) /\ Ahead(b))'
  <2>1. b \in list /\ b \in Alarms /\ b # a /\ Due(b) /\ Ahead(b)
    BY <1>1 DEF Inv, TypeOK, Last
  <2>2. rollover'[b] = rollover[b] /\ time' = time /\ left' = left
        /\ nticks' = nticks /\ (b \in todo' <=> b \in todo)
    BY <1>1, <2>1 DEF Last, TypeOK
  <2>3. QED
    BY <2>1, <2>2 DEF Due, Flag, StillRollover, Ahead
<1>4. QED
  BY <1>2, <1>3 DEF Inv

LEMMA NextInv == Inv /\ [Next]_vars => Inv'
<1> SUFFICES ASSUME Inv, [Next]_vars PROVE Inv'
  OBVIOUS
<1>1. CASE Program
  BY <1>1, StartInv, StopInv DEF Program, Stop
<1>2. CASE Tick
  BY <1>2, TickInv
<1>3. CASE Walk
  BY <1>3, PassInv, AgainInv, LastInv DEF Walk, Visit, Callback
<1>4. CASE StartInWalk
  BY <1>4, StartInv DEF StartInWalk
<1>5. CASE StopInWalk
  BY <1>5, StopInv DEF StopInWalk
<1>6. CASE UNCHANGED vars
  BY <1>6 DEF vars, Inv, TypeOK, Due, Flag, StillRollover, Ahead
<1>7. QED
  BY <1>1, <1>2, <1>3, <1>4, <1>5, <1>6 DEF Next
-----------------------------------------------------------------------------
(* The results. *)

\* For every width of the counter and every set of alarms, time and flag tell
\* how many ticks are left (alt_tick.c:109-137, alt_alarm_start.c:82-96).
THEOREM TimesAreKept == Spec => []Inv
<1>1. QED
  BY InitInv, NextInv, PTL DEF Spec

LEMMA OnTimeStep ==
  Inv => \A a \in Alarms : (Callback(a) => left[a] = 0) /\ (Pass(a) => left[a] > 0)
BY DueNow DEF Callback, Again, Last, Pass

\* A callback is called in the tick it was asked for, however often the
\* counter wraps before (alt_tick.c:104-137, alt_alarm_start.c:82-96).
THEOREM CallbacksOnTime == Spec => OnTime
<1>1. QED
  BY TimesAreKept, OnTimeStep, PTL DEF OnTime
=============================================================================
