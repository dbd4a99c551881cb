------------------------ MODULE MemoryFiller_proofs ------------------------
(***************************************************************************)
(* Proofs about the memory filler, for every word size, address space,     *)
(* register contents, tick length, and for polite and rude software.       *)
(*                                                                         *)
(*   FillerTypeCorrect   the type invariant                                *)
(*   FillIsCovered       a fill without error has covered its range        *)
(*   AddressesInOrder    its words go to consecutive addresses             *)
(*   HandshakeCorrect    the controller never waits for nothing            *)
(*                                                                         *)
(* and for polite software                                                 *)
(*                                                                         *)
(*   DataStays           its words carry the data it was started with      *)
(*   FillsStartFresh     it starts with the bus free                       *)
(*   IdleIsKept          only a start ends the idle state                  *)
(*   TimeoutsOnTime      a timeout strikes at its deadline                 *)
(*   FillerImplementsJob the filler implements FillJob                     *)
(***************************************************************************)
EXTENDS MemoryFiller, Integers, TLAPS

\* Expanded once: a clock as its parts.
LEMMA TickParts ==
  ASSUME NEW wait \in BOOLEAN, Tick(wait)
  PROVE  /\ Slave
         /\ Controller
         /\ Delay!Clock(delay.clear, delay.trigger, delay.timer)
         /\ Writer!Clock(cstate = "WRITE_START", cstate = "FINISHED", request, wait)
         /\ History(wait)
BY DEF Tick
-----------------------------------------------------------------------------
(* Arithmetic of words and addresses.                                      *)

LEMMA DivBounds ==
  ASSUME NEW n \in Nat, NEW w \in Nat \ {0}
  PROVE  n \div w \in Nat /\ (n \div w) * w <= n /\ n < (n \div w) * w + w
BY Z3

LEMMA AddrRange ==
  ASSUME NEW n \in Nat, NEW w \in Nat \ {0}, NEW m \in Nat, n <= w * (m + 1) - 1
  PROVE  n \div w \in 0..m
<1>1. n \div w \in Nat /\ (n \div w) * w <= n
  BY DivBounds
<1>2. n < w * (m + 1)
  <2>1. w * (m + 1) \in Nat
    OBVIOUS
  <2>2. QED
    BY <2>1
<1>3. ASSUME NEW q \in Nat, q * w <= n PROVE q <= m
  BY <1>2, <1>3
<1>4. QED
  BY <1>1, <1>3

\* The first word address of a fill.
LEMMA BaseType == ASSUME NEW b \in Bases PROVE b \div WordBytes \in 0..MaxAddr
<1>1. b \in 0..(WordBytes * (MaxAddr + 1) - 1)
  BY ConstantsAssumption
<1>2. b \in Nat /\ b <= WordBytes * (MaxAddr + 1) - 1
  <2>1. WordBytes * (MaxAddr + 1) \in Nat
    BY ConstantsAssumption
  <2>2. QED
    BY <1>1, <2>1
<1>3. QED
  BY <1>2, AddrRange, ConstantsAssumption
-----------------------------------------------------------------------------
(* Types, one lemma per component.                                         *)

SlaveType ==
  /\ polite \in Manners
  /\ regs \in Registers /\ wrStart \in BOOLEAN /\ wrReset \in BOOLEAN
  /\ gap \in 0..2

CtrlType ==
  /\ cstate \in States
  /\ addrCnt \in 0..MaxAddr /\ dataCnt \in Nat
  /\ timeoutError \in BOOLEAN /\ errOut \in BOOLEAN
  /\ request \in Word
  /\ delay \in [clear : BOOLEAN, trigger : BOOLEAN, timer : Timeouts]

DelayType ==
  /\ idle \in BOOLEAN /\ divcnt \in 0..ClkDiv /\ divevt \in BOOLEAN
  /\ timer \in Nat /\ finished \in BOOLEAN

WriterType == wstate \in Writer!WriterStates /\ word \in Word

HistoryType == job \in Registers /\ accepted \in Nat /\ age \in Nat

LEMMA TypeSplit ==
  TypeOK <=> SlaveType /\ CtrlType /\ DelayType /\ WriterType /\ HistoryType
BY DEF TypeOK, SlaveType, CtrlType, DelayType, WriterType, HistoryType

LEMMA ZeroTypes ==
  /\ NoRegisters \in Registers /\ NoWord \in Word
  /\ [clear |-> FALSE, trigger |-> FALSE, timer |-> 0]
       \in [clear : BOOLEAN, trigger : BOOLEAN, timer : Timeouts]
  /\ 0 \in 0..MaxAddr /\ 0 \in 0..ClkDiv /\ 0 \in 0..2
BY ConstantsAssumption DEF NoRegisters, Registers, NoWord, Word

LEMMA SlaveStep == ASSUME SlaveType, Slave PROVE SlaveType'
<1>1. regs' \in Registers
  BY DEF Slave, WriteData, WriteStart, WriteReset, NoWrite, SlaveType, Registers
<1>2. gap' \in 0..2
  BY DEF Slave, WriteData, WriteStart, WriteReset, NoWrite, SlaveType
<1>3. wrStart' \in BOOLEAN /\ wrReset' \in BOOLEAN
  BY DEF Slave, WriteData, WriteStart, WriteReset, NoWrite
<1>4. polite' \in Manners
  BY DEF Slave, SlaveType
<1>5. QED
  BY <1>1, <1>2, <1>3, <1>4 DEF SlaveType

LEMMA EnterType ==
  ASSUME NEW s \in States, Enter(s) PROVE cstate' \in States
BY DEF Enter, States

LEMMA NextAddrType ==
  ASSUME NEW a \in 0..MaxAddr PROVE NextAddr(a) \in 0..MaxAddr
BY ConstantsAssumption DEF NextAddr

LEMMA StartCountType ==
  ASSUME NEW n \in Nat, dataCnt \in Nat PROVE StartCount(n) \in Nat
<1>1. n \div WordBytes \in Nat
  BY DivBounds, ConstantsAssumption
<1>2. QED
  BY <1>1 DEF StartCount

LEMMA CtrlStep ==
  ASSUME SlaveType, CtrlType, DelayType, Controller PROVE CtrlType'
<1>1. /\ regs.base \in Bases /\ regs.length \in Nat /\ regs.data \in Data
      /\ regs.timeout \in Timeouts
  BY ConstantsAssumption DEF SlaveType, Registers
<1>2. /\ cstate' \in States /\ timeoutError' \in BOOLEAN
      /\ addrCnt' \in 0..MaxAddr /\ dataCnt' \in Nat
      /\ delay' \in [clear : BOOLEAN, trigger : BOOLEAN, timer : Timeouts]
  <2>1. CASE Idle /\ wrStart
    <3>1. cstate' \in States /\ timeoutError' \in BOOLEAN
      <4>1. Enter("BUFFER_WAITING") /\ SetError(FALSE)
        BY <2>1 DEF Idle, StartJob
      <4>2. QED
        BY <4>1, EnterType DEF SetError, States
    <3>2. addrCnt' \in 0..MaxAddr
      BY <1>1, <2>1, BaseType DEF Idle, StartJob
    <3>3. dataCnt' \in Nat
      BY <1>1, <2>1, StartCountType DEF Idle, StartJob, CtrlType
    <3>4. delay' = [clear |-> FALSE, trigger |-> regs.timeout # 0,
                    timer |-> regs.timeout]
      BY <2>1 DEF Idle, StartJob
    <3>5. QED
      BY <1>1, <3>1, <3>2, <3>3, <3>4
  <2>2. CASE Idle /\ ~wrStart
    <3>1. cstate' \in States /\ timeoutError' \in BOOLEAN
      BY <2>2, EnterType DEF Idle, SetError, States
    <3>2. /\ addrCnt' = 0 /\ dataCnt' = 0
          /\ delay' = [clear |-> FALSE, trigger |-> FALSE, timer |-> 0]
      BY <2>2 DEF Idle
    <3>3. dataCnt' \in Nat
      BY <3>2
    <3>4. QED
      BY <3>1, <3>2, <3>3, ZeroTypes
  <2>3. CASE BufferWaiting
    <3>1. cstate' \in States /\ timeoutError' \in BOOLEAN
      BY <2>3, EnterType DEF BufferWaiting, SetError, States
    <3>2. QED
      BY <2>3, <3>1 DEF BufferWaiting, CtrlType
  <2>4. CASE BufferFetch \/ WriteStartState
    <3>1. cstate' \in States /\ timeoutError' \in BOOLEAN
      BY <2>4, EnterType DEF BufferFetch, WriteStartState, SetError, States
    <3>2. QED
      BY <2>4, <3>1 DEF BufferFetch, WriteStartState, CtrlType
  <2>5. CASE WriteWaiting
    <3>1. cstate' \in States /\ timeoutError' \in BOOLEAN
      BY <2>5, EnterType DEF WriteWaiting, WordDone, SetError, States
    <3>2. addrCnt' \in 0..MaxAddr
      BY <2>5, NextAddrType DEF WriteWaiting, WordDone, CtrlType
    <3>3. dataCnt' \in Nat
      BY <2>5 DEF WriteWaiting, WordDone, CtrlType
    <3>4. QED
      BY <2>5, <3>1, <3>2, <3>3 DEF WriteWaiting, CtrlType
  <2>6. CASE Finished
    <3>1. cstate' \in States /\ timeoutError' \in BOOLEAN
      BY <2>6, EnterType DEF Finished, SetError, States
    <3>2. delay' = [clear |-> TRUE, trigger |-> FALSE, timer |-> 0]
      BY <2>6 DEF Finished
    <3>3. delay' \in [clear : BOOLEAN, trigger : BOOLEAN, timer : Timeouts]
      BY <3>2, ConstantsAssumption
    <3>4. QED
      BY <2>6, <3>1, <3>3, ZeroTypes DEF Finished
  <2>7. QED
    BY <2>1, <2>2, <2>3, <2>4, <2>5, <2>6 DEF Controller
<1>3. errOut' \in BOOLEAN
  BY DEF Controller, Outputs
<1>4. request' \in Word
  <2>1. [addr |-> addrCnt, data |-> regs.data] \in Word
    BY <1>1 DEF CtrlType, Word
  <2>2. QED
    BY <2>1, ZeroTypes DEF Controller, Outputs
<1>5. QED
  BY <1>2, <1>3, <1>4 DEF CtrlType

LEMMA DelayStep ==
  ASSUME DelayType, CtrlType, Delay!Clock(delay.clear, delay.trigger, delay.timer)
  PROVE  DelayType'
<1>1. delay.timer \in Nat /\ ClkDiv \in Nat \ {0}
  BY ConstantsAssumption DEF CtrlType
<1>2. CASE Delay!Trigger(delay.trigger, delay.timer)
  <2>1. divcnt' \in 0..ClkDiv /\ timer' \in Nat
    BY <1>1, <1>2 DEF Delay!Trigger, Delay!Stopped
  <2>2. idle' \in BOOLEAN /\ divevt' \in BOOLEAN /\ finished' \in BOOLEAN
    BY <1>2 DEF Delay!Trigger, Delay!Stopped
  <2>3. QED
    BY <2>1, <2>2 DEF DelayType
<1>3. CASE Delay!Clear
  <2>1. divcnt' \in 0..ClkDiv /\ timer' \in Nat
    BY <1>1, <1>3 DEF Delay!Clear, Delay!Stopped
  <2>2. idle' \in BOOLEAN /\ divevt' \in BOOLEAN /\ finished' \in BOOLEAN
    BY <1>3 DEF Delay!Clear, Delay!Stopped
  <2>3. QED
    BY <2>1, <2>2 DEF DelayType
<1>4. CASE Delay!Run
  <2>1. divcnt' \in 0..ClkDiv
    BY <1>1, <1>4 DEF Delay!Run, DelayType
  <2>2. timer' \in Nat
    BY <1>4 DEF Delay!Run, DelayType
  <2>3. idle' \in BOOLEAN /\ divevt' \in BOOLEAN /\ finished' \in BOOLEAN
    BY <1>4 DEF Delay!Run
  <2>4. QED
    BY <2>1, <2>2, <2>3 DEF DelayType
<1>5. QED
  BY <1>2, <1>3, <1>4 DEF Delay!Clock

LEMMA WriterStep ==
  ASSUME WriterType, CtrlType, NEW wait \in BOOLEAN,
         Writer!Clock(cstate = "WRITE_START", cstate = "FINISHED", request, wait)
  PROVE  WriterType'
<1>1. wstate' \in Writer!WriterStates
  BY DEF Writer!Clock, Writer!TakeRequest, Writer!FirstCycle, Writer!Wait,
         Writer!WriterStates
<1>2. word' \in Word
  BY ZeroTypes DEF Writer!Clock, Writer!TakeRequest, Writer!FirstCycle,
                   Writer!Wait, WriterType, CtrlType
<1>3. QED
  BY <1>1, <1>2 DEF WriterType

LEMMA DeadlineType == ASSUME HistoryType PROVE Deadline \in Nat
<1>1. job.timeout \in Nat
  BY ConstantsAssumption DEF HistoryType, Registers
<1>2. \A t \in Nat : t * (ClkDiv + 1) \in Nat
  BY ConstantsAssumption
<1>3. QED
  BY <1>1, <1>2 DEF Deadline, TimeoutClocks

LEMMA HistoryStep ==
  ASSUME HistoryType, SlaveType, NEW wait \in BOOLEAN, History(wait)
  PROVE  HistoryType'
<1>1. job' \in Registers
  BY DEF History, HistoryType, SlaveType
<1>2. accepted' \in Nat
  BY DEF History, HistoryType
<1>3. age' \in Nat
  BY DeadlineType DEF History, HistoryType, Min2
<1>4. QED
  BY <1>1, <1>2, <1>3 DEF HistoryType

LEMMA InitType == Init => TypeOK
<1> SUFFICES ASSUME Init PROVE TypeOK
  OBVIOUS
<1>1. SlaveType
  BY ZeroTypes DEF Init, SlaveType
<1>2. CtrlType
  BY ZeroTypes DEF Init, CtrlType, States
<1>3. DelayType
  BY ZeroTypes DEF Init, DelayType, Delay!Init
<1>4. WriterType
  BY ZeroTypes DEF Init, WriterType, Writer!Init, Writer!WriterStates
<1>5. HistoryType
  BY ZeroTypes DEF Init, HistoryType
<1>6. QED
  BY <1>1, <1>2, <1>3, <1>4, <1>5, TypeSplit

LEMMA ResetType == TypeOK /\ SystemReset => TypeOK'
<1> SUFFICES ASSUME TypeOK, SystemReset PROVE TypeOK'
  OBVIOUS
<1>1. SlaveType'
  BY ZeroTypes DEF TypeOK, SystemReset, SlaveType
<1>2. CtrlType'
  BY ZeroTypes DEF SystemReset, CtrlType, States
<1>3. DelayType'
  BY ZeroTypes DEF SystemReset, DelayType
<1>4. WriterType'
  BY ZeroTypes DEF SystemReset, WriterType, Writer!WriterStates
<1>5. HistoryType'
  BY ZeroTypes DEF SystemReset, HistoryType
<1>6. QED
  BY <1>1, <1>2, <1>3, <1>4, <1>5
  DEF TypeOK, SlaveType, CtrlType, DelayType, WriterType, HistoryType

LEMMA TickType ==
  ASSUME TypeOK, NEW wait \in BOOLEAN, Tick(wait) PROVE TypeOK'
<1>1. SlaveType /\ CtrlType /\ DelayType /\ WriterType /\ HistoryType
  BY TypeSplit
<1>2. SlaveType' /\ CtrlType' /\ DelayType' /\ WriterType' /\ HistoryType'
  BY <1>1, TickParts, SlaveStep, CtrlStep, DelayStep, WriterStep, HistoryStep
<1>3. QED
  BY <1>2 DEF TypeOK, SlaveType, CtrlType, DelayType, WriterType, HistoryType

LEMMA TypeStep == TypeOK /\ [Next]_vars => TypeOK'
<1> SUFFICES ASSUME TypeOK, [Next]_vars PROVE TypeOK'
  OBVIOUS
<1>1. CASE Clock
  BY <1>1, TickType DEF Clock
<1>2. CASE SystemReset
  BY <1>2, ResetType
<1>3. CASE UNCHANGED vars
  BY <1>3 DEF vars, slaveVars, ctrlVars, delayVars, writerVars, histVars, TypeOK
<1>4. QED
  BY <1>1, <1>2, <1>3 DEF Next

\* The filler keeps its types; the address counter never leaves the address
\* space, though fills may run over its end.
THEOREM FillerTypeCorrect == Spec => []TypeOK
BY InitType, TypeStep, PTL DEF Spec
-----------------------------------------------------------------------------
(* What is written, and where.  In every state the words taken and the     *)
(* words left in the counter add up, and the address counter is the        *)
(* address of the next word.                                               *)

\* Words of the fill after the first, and where its n-th word goes.
More == job.length \div WordBytes
At(n) == (job.base \div WordBytes + n) % (MaxAddr + 1)

\* Start and reset are pulses, and too far apart to come in one another's
\* way: a start never finds the counter of a cancelled fill.
Pulses ==
  /\ (wrStart \/ wrReset) => gap = 2
  /\ ~(wrStart /\ wrReset)
  /\ (cstate = "IDLE" /\ dataCnt # 0) => ~wrStart

NextIsDue == accepted + dataCnt = More /\ addrCnt = At(accepted)

Filling ==
  /\ cstate \in {"BUFFER_WAITING", "BUFFER_FETCH", "WRITE_START"} => NextIsDue
  /\ cstate \in {"BUFFER_FETCH", "WRITE_START"} => Writer!Ready
  /\ cstate = "WRITE_START" => request.addr = addrCnt
  /\ cstate = "WRITE_WAITING" =>
       \/ Writer!Presenting /\ NextIsDue /\ word.addr = addrCnt
       \/ /\ Writer!Done
          /\ accepted + dataCnt = More + 1
          /\ NextAddr(addrCnt) = At(accepted)
  /\ (cstate = "FINISHED" /\ ~timeoutError) =>
       Writer!Ready /\ accepted = More + 1

FillInv == TypeOK /\ Pulses /\ Filling

\* Where a state of the controller may lead: where it wants to, or it is
\* overridden by the reset pulse or by the end of the timeout.
LEMMA Entered ==
  ASSUME NEW s, NEW e \in BOOLEAN, Enter(s), SetError(e)
  PROVE  \/ cstate' = "IDLE" /\ (wrReset \/ s = "IDLE")
         \/ cstate' = "FINISHED" /\ timeoutError' = TRUE
         \/ cstate' = s /\ timeoutError' = e
<1>1. CASE wrReset
  BY <1>1 DEF Enter
<1>2. CASE ~wrReset /\ finished
  BY <1>2 DEF Enter, SetError
<1>3. CASE ~wrReset /\ ~finished
  BY <1>3 DEF Enter, SetError
<1>4. QED
  BY <1>1, <1>2, <1>3

\* A step that ends in IDLE, or in FINISHED with an error, owes nothing.
LEMMA NothingDue ==
  ASSUME cstate' = "IDLE" \/ (cstate' = "FINISHED" /\ timeoutError' = TRUE)
  PROVE  Filling'
BY DEF Filling

LEMMA WrapAround ==
  ASSUME NEW n \in Nat, NEW m \in Nat
  PROVE  /\ n % (m + 1) \in 0..m
         /\ n \in 0..m => n % (m + 1) = n
         /\ (n + 1) % (m + 1) = IF n % (m + 1) = m THEN 0 ELSE (n % (m + 1)) + 1
OBVIOUS

LEMMA JobAddress ==
  ASSUME TypeOK, NEW n \in Nat
  PROVE  NextAddr(At(n)) = At(n + 1)
<1>1. job.base \div WordBytes \in Nat
  <2>1. job.base \in Bases
    BY DEF TypeOK, Registers
  <2>2. QED
    BY <2>1, BaseType
<1> DEFINE b == job.base \div WordBytes
<1>2. b + n \in Nat /\ b + (n + 1) = (b + n) + 1 /\ MaxAddr \in Nat
  BY <1>1, ConstantsAssumption
<1>3. (b + (n + 1)) % (MaxAddr + 1)
        = IF (b + n) % (MaxAddr + 1) = MaxAddr THEN 0
          ELSE ((b + n) % (MaxAddr + 1)) + 1
  <2>1. ((b + n) + 1) % (MaxAddr + 1)
          = IF (b + n) % (MaxAddr + 1) = MaxAddr THEN 0
            ELSE ((b + n) % (MaxAddr + 1)) + 1
    <3> HIDE DEF b
    <3>1. b + n \in Nat /\ MaxAddr \in Nat
      BY <1>2
    <3>2. ASSUME NEW k \in Nat
          PROVE  (k + 1) % (MaxAddr + 1) = IF k % (MaxAddr + 1) = MaxAddr THEN 0
                                           ELSE (k % (MaxAddr + 1)) + 1
      BY <3>1, WrapAround
    <3>3. QED
      BY <3>1, <3>2
  <2>2. QED
    BY <1>2, <2>1
<1>4. QED
  BY <1>3 DEF At, NextAddr

LEMMA PulsesStep ==
  ASSUME TypeOK, Pulses, NEW wait \in BOOLEAN, Tick(wait)
  PROVE  Pulses'
<1>1. Slave /\ Controller
  BY TickParts
<1>2. (wrStart' \/ wrReset') => gap' = 2
  BY <1>1 DEF Slave, WriteData, WriteStart, WriteReset, NoWrite
<1>3. ~(wrStart' /\ wrReset')
  BY <1>1 DEF Slave, WriteData, WriteStart, WriteReset, NoWrite
<1>4. ASSUME cstate' = "IDLE", dataCnt' # 0 PROVE ~wrStart'
  <2>1. CASE wrReset
    <3>1. gap = 2
      BY <2>1 DEF Pulses
    <3>2. NoWrite
      BY <1>1, <3>1 DEF Slave, WriteData, WriteStart, WriteReset, MayWrite
    <3>3. QED
      BY <3>2 DEF NoWrite
  <2>2. CASE ~wrReset
    <3>1. CASE Idle
      BY <1>4, <2>2, <3>1 DEF Idle, StartJob, Enter
    <3>2. CASE BufferWaiting \/ BufferFetch \/ WriteStartState
      BY <1>4, <2>2, <3>2 DEF BufferWaiting, BufferFetch, WriteStartState, Enter
    <3>3. CASE WriteWaiting \/ Finished
      BY <1>4, <2>2, <3>3 DEF WriteWaiting, WordDone, Finished, Enter
    <3>4. QED
      BY <1>1, <3>1, <3>2, <3>3 DEF Controller
  <2>3. QED
    BY <2>1, <2>2
<1>5. QED
  BY <1>2, <1>3, <1>4 DEF Pulses

\* Outside WRITE_WAITING and FINISHED no word is counted.
LEMMA NothingTaken ==
  ASSUME NEW wait \in BOOLEAN, Tick(wait), ~Started,
         cstate \notin {"WRITE_WAITING", "FINISHED"} \/ Writer!Ready
  PROVE  job' = job /\ accepted' = accepted
BY DEF Tick, History, Accept, Writer!Presenting, Writer!Ready

LEMMA ReadyStays ==
  ASSUME NEW wait \in BOOLEAN, Tick(wait), Writer!Ready, cstate # "WRITE_START"
  PROVE  Writer!Ready'
BY DEF Tick, Writer!Clock, Writer!TakeRequest, Writer!FirstCycle,
       Writer!Wait, Writer!Ready

LEMMA IdleFills ==
  ASSUME FillInv, NEW wait \in BOOLEAN, Tick(wait), Idle PROVE Filling'
<1>1. CASE ~wrStart
  <2>1. Enter("IDLE") /\ SetError(FALSE)
    BY <1>1 DEF Idle
  <2>2. cstate' = "IDLE" \/ (cstate' = "FINISHED" /\ timeoutError' = TRUE)
    BY <2>1, Entered
  <2>3. QED
    BY <2>2, NothingDue
<1>2. CASE wrStart
  <2>1. Enter("BUFFER_WAITING") /\ SetError(FALSE)
    BY <1>2 DEF Idle, StartJob
  <2>2. dataCnt = 0
    BY <1>2 DEF FillInv, Pulses, Idle
  <2>3. /\ addrCnt' = regs.base \div WordBytes
        /\ dataCnt' = regs.length \div WordBytes
    BY <1>2, <2>2 DEF Idle, StartJob, StartCount
  <2>4. job' = regs /\ accepted' = 0
    BY <1>2 DEF Tick, History, Started, Idle
  <2>5. regs.base \div WordBytes \in 0..MaxAddr /\ regs.length \div WordBytes \in Nat
    <3>1. regs.base \in Bases /\ regs.length \in Nat
      BY ConstantsAssumption DEF FillInv, TypeOK, Registers
    <3>2. QED
      BY <3>1, BaseType, DivBounds, ConstantsAssumption
  <2>6. NextIsDue'
    <3>1. accepted' + dataCnt' = More'
      BY <2>3, <2>4, <2>5 DEF More
    <3>2. addrCnt' = (regs.base \div WordBytes + 0) % (MaxAddr + 1)
      <4>1. \A a \in 0..MaxAddr : a = (a + 0) % (MaxAddr + 1)
        BY WrapAround, ConstantsAssumption
      <4>2. QED
        BY <2>3, <2>5, <4>1
    <3>3. addrCnt' = At(accepted)'
      BY <2>4, <3>2 DEF At
    <3>4. QED
      BY <3>1, <3>3 DEF NextIsDue
  <2>7. CASE cstate' = "BUFFER_WAITING"
    BY <2>6, <2>7 DEF Filling
  <2>8. QED
    BY <2>1, <2>7, Entered, NothingDue
<1>3. QED
  BY <1>1, <1>2

\* Three states only wait for the master to be ready and ask it.
LEMMA AskingFills ==
  ASSUME FillInv, NEW wait \in BOOLEAN, Tick(wait),
         BufferWaiting \/ BufferFetch \/ WriteStartState
  PROVE  Filling'
<1>1. /\ cstate \in {"BUFFER_WAITING", "BUFFER_FETCH", "WRITE_START"}
      /\ addrCnt' = addrCnt /\ dataCnt' = dataCnt
  BY DEF BufferWaiting, BufferFetch, WriteStartState
<1>2. NextIsDue
  BY <1>1 DEF FillInv, Filling
<1>3. job' = job /\ accepted' = accepted
  BY <1>1, NothingTaken DEF Started
<1>4. NextIsDue'
  BY <1>1, <1>2, <1>3 DEF NextIsDue, More, At
<1>5. timeoutError \in BOOLEAN
  BY DEF FillInv, TypeOK
<1>6. Outputs
  BY TickParts DEF Controller
<1>7. CASE BufferWaiting
  <2>1. SetError(timeoutError)
    BY <1>7 DEF BufferWaiting
  <2>2. CASE Writer!Ready
    <3>1. Enter("BUFFER_FETCH")
      BY <1>7, <2>2 DEF BufferWaiting
    <3>2. Writer!Ready'
      BY <1>7, <2>2, ReadyStays DEF BufferWaiting
    <3>3. CASE cstate' = "BUFFER_FETCH"
      BY <1>4, <3>2, <3>3 DEF Filling
    <3>4. QED
      BY <1>5, <2>1, <3>1, <3>3, Entered, NothingDue
  <2>3. CASE ~Writer!Ready
    <3>1. Enter("BUFFER_WAITING")
      BY <1>7, <2>3 DEF BufferWaiting
    <3>2. CASE cstate' = "BUFFER_WAITING"
      BY <1>4, <3>2 DEF Filling
    <3>3. QED
      BY <1>5, <2>1, <3>1, <3>2, Entered, NothingDue
  <2>4. QED
    BY <2>2, <2>3
<1>8. CASE BufferFetch
  <2>1. Enter("WRITE_START") /\ SetError(timeoutError)
    BY <1>8 DEF BufferFetch
  <2>2. Writer!Ready'
    BY <1>8, ReadyStays DEF BufferFetch, FillInv, Filling
  <2>3. CASE cstate' = "WRITE_START"
    <3>1. request'.addr = addrCnt'
      BY <1>1, <1>6, <2>3 DEF Outputs
    <3>2. QED
      BY <1>4, <2>2, <2>3, <3>1 DEF Filling
  <2>4. QED
    BY <1>5, <2>1, <2>3, Entered, NothingDue
<1>9. CASE WriteStartState
  <2>1. Enter("WRITE_WAITING") /\ SetError(timeoutError)
    BY <1>9 DEF WriteStartState
  <2>2. cstate = "WRITE_START" /\ Writer!Ready /\ request.addr = addrCnt
    BY <1>9 DEF WriteStartState, FillInv, Filling
  <2>3. wstate' = "WRITING" /\ word' = request
    BY <2>2 DEF Tick, Writer!Clock, Writer!TakeRequest, Writer!FirstCycle,
                Writer!Wait, Writer!Ready
  <2>4. CASE cstate' = "WRITE_WAITING"
    <3>1. Writer!Presenting' /\ word'.addr = addrCnt'
      BY <1>1, <2>2, <2>3 DEF Writer!Presenting
    <3>2. QED
      BY <1>4, <2>4, <3>1 DEF Filling
  <2>5. QED
    BY <1>5, <2>1, <2>4, Entered, NothingDue
<1>10. QED
  BY <1>7, <1>8, <1>9

LEMMA WaitingFills ==
  ASSUME FillInv, NEW wait \in BOOLEAN, Tick(wait), WriteWaiting
  PROVE  Filling'
<1>1. /\ cstate = "WRITE_WAITING" /\ timeoutError \in BOOLEAN
      /\ accepted \in Nat /\ dataCnt \in Nat /\ ~Started
  BY DEF WriteWaiting, FillInv, TypeOK, Started
<1>2. SetError(timeoutError)
  BY DEF WriteWaiting
<1>3. CASE Writer!Presenting
  <2>1. NextIsDue /\ word.addr = addrCnt
    BY <1>1, <1>3 DEF FillInv, Filling, Writer!Presenting, Writer!Done
  <2>2. Enter("WRITE_WAITING") /\ addrCnt' = addrCnt /\ dataCnt' = dataCnt
    BY <1>3 DEF WriteWaiting, Writer!Presenting, Writer!Done
  <2>3. job' = job
    BY <1>1 DEF Tick, History
  <2>4. CASE wait
    <3>1. wstate' = "WAITING" /\ word' = word
      BY <1>1, <1>3, <2>4 DEF Tick, Writer!Clock, Writer!TakeRequest,
           Writer!FirstCycle, Writer!Wait, Writer!Presenting, Writer!Ready
    <3>2. accepted' = accepted
      BY <1>1, <2>4 DEF Tick, History, Accept
    <3>3. NextIsDue' /\ word'.addr = addrCnt' /\ Writer!Presenting'
      BY <2>1, <2>2, <2>3, <3>1, <3>2 DEF NextIsDue, More, At, Writer!Presenting
    <3>4. CASE cstate' = "WRITE_WAITING"
      BY <3>3, <3>4 DEF Filling
    <3>5. QED
      BY <1>1, <1>2, <2>2, <3>4, Entered, NothingDue
  <2>5. CASE ~wait
    <3>1. wstate' = "DONE"
      BY <1>1, <1>3, <2>5 DEF Tick, Writer!Clock, Writer!TakeRequest,
           Writer!FirstCycle, Writer!Wait, Writer!Presenting, Writer!Ready
    <3>2. accepted' = accepted + 1
      BY <1>1, <1>3, <2>5 DEF Tick, History, Accept
    <3>3. accepted' + dataCnt' = More' + 1
      BY <1>1, <2>1, <2>2, <2>3, <3>2 DEF NextIsDue, More
    <3>4. NextAddr(addrCnt') = At(accepted)'
      <4>1. NextAddr(At(accepted)) = At(accepted + 1)
        BY <1>1, JobAddress DEF FillInv
      <4>2. At(accepted)' = At(accepted + 1)
        BY <2>3, <3>2 DEF At
      <4>3. QED
        BY <2>1, <2>2, <4>1, <4>2 DEF NextIsDue
    <3>5. NextAddr(addrCnt)' = At(accepted)'
      BY <3>4 DEF NextAddr
    <3>6. CASE cstate' = "WRITE_WAITING"
      BY <3>1, <3>3, <3>5, <3>6 DEF Filling, Writer!Done
    <3>7. QED
      BY <1>1, <1>2, <2>2, <3>6, Entered, NothingDue
  <2>6. QED
    BY <2>4, <2>5
<1>4. CASE Writer!Done
  <2>1. accepted + dataCnt = More + 1 /\ NextAddr(addrCnt) = At(accepted)
    BY <1>1, <1>4 DEF FillInv, Filling, Writer!Presenting, Writer!Done
  <2>2. Writer!Ready /\ Writer!Ready'
    BY <1>1, <1>4, ReadyStays DEF Writer!Ready, Writer!Done
  <2>3. job' = job /\ accepted' = accepted
    BY <1>1, <2>2, NothingTaken
  <2>4. CASE dataCnt = 0
    <3>1. Enter("FINISHED")
      BY <1>4, <2>4 DEF WriteWaiting, WordDone
    <3>2. accepted' = More' + 1
      BY <1>1, <2>1, <2>3, <2>4 DEF More
    <3>3. CASE cstate' = "FINISHED"
      BY <2>2, <3>2, <3>3 DEF Filling
    <3>4. QED
      BY <1>1, <1>2, <3>1, <3>3, Entered, NothingDue
  <2>5. CASE dataCnt # 0
    <3>1. /\ Enter("BUFFER_FETCH")
          /\ addrCnt' = NextAddr(addrCnt) /\ dataCnt' = dataCnt - 1
      BY <1>4, <2>2, <2>5 DEF WriteWaiting, WordDone
    <3>2. accepted' + dataCnt' = More'
      <4>1. More \in Nat
        <5>1. job.length \in Nat
          BY ConstantsAssumption DEF FillInv, TypeOK, Registers
        <5>2. QED
          BY <5>1, DivBounds, ConstantsAssumption DEF More
      <4>2. accepted + (dataCnt - 1) = More
        BY <1>1, <2>1, <4>1
      <4>3. QED
        BY <2>3, <3>1, <4>2 DEF More
    <3>3. addrCnt' = At(accepted)'
      BY <2>1, <2>3, <3>1 DEF At
    <3>4. CASE cstate' = "BUFFER_FETCH"
      BY <2>2, <3>2, <3>3, <3>4 DEF Filling, NextIsDue
    <3>5. QED
      BY <1>1, <1>2, <3>1, <3>4, Entered, NothingDue
  <2>6. QED
    BY <2>4, <2>5
<1>5. QED
  BY <1>1, <1>3, <1>4 DEF FillInv, Filling

LEMMA FinishedFills ==
  ASSUME FillInv, NEW wait \in BOOLEAN, Tick(wait), Finished
  PROVE  Filling'
<1>1. /\ cstate = "FINISHED" /\ timeoutError \in BOOLEAN /\ ~Started
      /\ Enter("FINISHED") /\ SetError(timeoutError)
  BY DEF Finished, FillInv, TypeOK, Started
<1>2. CASE cstate' = "FINISHED" /\ timeoutError' = FALSE
  <2>1. timeoutError = FALSE
    BY <1>1, <1>2 DEF SetError
  <2>2. Writer!Ready /\ accepted = More + 1
    BY <1>1, <2>1 DEF FillInv, Filling
  <2>3. job' = job /\ accepted' = accepted
    BY <1>1, <2>2, NothingTaken
  <2>4. Writer!Ready'
    BY <1>1, <2>2, ReadyStays
  <2>5. accepted' = More' + 1
    BY <2>2, <2>3 DEF More
  <2>6. QED
    BY <1>2, <2>4, <2>5 DEF Filling
<1>3. CASE ~(cstate' = "FINISHED" /\ timeoutError' = FALSE)
  <2>1. timeoutError' \in BOOLEAN
    BY <1>1 DEF SetError
  <2>2. cstate' = "IDLE" \/ (cstate' = "FINISHED" /\ timeoutError' = TRUE)
    BY <1>1, <1>3, <2>1, Entered
  <2>3. QED
    BY <2>2, NothingDue
<1>4. QED
  BY <1>2, <1>3

LEMMA FillInit == Init => FillInv
<1>1. Init => Pulses /\ Filling
  BY DEF Init, Pulses, Filling
<1>2. QED
  BY <1>1, InitType DEF FillInv

LEMMA FillStep == FillInv /\ [Next]_vars => FillInv'
<1> SUFFICES ASSUME FillInv, [Next]_vars PROVE FillInv'
  OBVIOUS
<1>1. TypeOK'
  BY TypeStep DEF FillInv
<1>2. CASE Clock
  <2>1. PICK wait \in BOOLEAN : Tick(wait)
    BY <1>2 DEF Clock
  <2>2. Pulses'
    BY <2>1, PulsesStep DEF FillInv
  <2>3. Filling'
    <3>1. \/ Idle \/ BufferWaiting \/ BufferFetch
          \/ WriteStartState \/ WriteWaiting \/ Finished
      BY <2>1, TickParts DEF Controller
    <3>2. QED
      BY <2>1, <3>1, IdleFills, AskingFills, WaitingFills, FinishedFills
  <2>4. QED
    BY <1>1, <2>2, <2>3 DEF FillInv
<1>3. CASE SystemReset
  BY <1>1, <1>3 DEF SystemReset, FillInv, Pulses, Filling
<1>4. CASE UNCHANGED vars
  BY <1>1, <1>4 DEF vars, slaveVars, ctrlVars, delayVars, writerVars, histVars,
       FillInv, Pulses, Filling, NextIsDue, More, At, NextAddr,
       Writer!Ready, Writer!Presenting, Writer!Done
<1>5. QED
  BY <1>2, <1>3, <1>4 DEF Next

LEMMA FillInvariant == Spec => []FillInv
BY FillInit, FillStep, PTL DEF Spec

\* A fill that ends without an error has covered its range, for every length
\* and word size, and has written at most one word more.
THEOREM FillIsCovered == Spec => []FillCovers
<1>1. FillInv => FillCovers
  <2> SUFFICES ASSUME FillInv, cstate = "FINISHED", ~timeoutError
               PROVE  /\ accepted * WordBytes >= job.length
                      /\ accepted * WordBytes <= job.length + WordBytes
    BY DEF FillCovers
  <2>1. accepted = More + 1
    BY DEF FillInv, Filling
  <2>2. job.length \in Nat /\ WordBytes \in Nat \ {0}
    BY ConstantsAssumption DEF FillInv, TypeOK, Registers
  <2>3. /\ More \in Nat
        /\ More * WordBytes <= job.length
        /\ job.length < More * WordBytes + WordBytes
    BY <2>2, DivBounds DEF More
  <2>4. (More + 1) * WordBytes = More * WordBytes + WordBytes
    BY <2>2, <2>3
  <2>5. More * WordBytes \in Nat
    BY <2>2, <2>3
  <2>6. QED
    BY <2>1, <2>2, <2>3, <2>4, <2>5
<1>2. QED
  BY <1>1, FillInvariant, PTL

\* Words go to consecutive addresses, over the end of the address space,
\* whatever is written to the registers during the fill.
THEOREM AddressesInOrder == Spec => []AddressInOrder
<1>1. FillInv => AddressInOrder
  BY DEF FillInv, Filling, NextIsDue, At, AddressInOrder, Writer!Presenting, Writer!Done
<1>2. QED
  BY <1>1, FillInvariant, PTL

\* While the controller waits, the master has its word.
THEOREM HandshakeCorrect == Spec => []NeverWaitsForNothing
<1>1. FillInv => NeverWaitsForNothing
  BY DEF FillInv, Filling, NeverWaitsForNothing, Writer!Presenting, Writer!Done
<1>2. QED
  BY <1>1, FillInvariant, PTL
-----------------------------------------------------------------------------
(* Polite software, that writes nothing to a busy filler.  The registers   *)
(* are then the job's for as long as it lasts, an aborted word has left    *)
(* the bus before the next start, and the age of a job is what the delay   *)
(* block has counted off: these facts are needed at once, since the        *)
(* timeout of one fill must be over before the next fill is started.       *)

\* Starts and resets reach a filler at rest.
Commands == (wrStart \/ wrReset) => ~Busy

\* A busy filler has the registers of the job, and sends its data.
Registered ==
  /\ Busy => regs = job
  /\ cstate = "WRITE_START" => request.data = job.data
  /\ (cstate = "WRITE_WAITING" /\ Writer!Presenting) => word.data = job.data

\* A filler is reset two clocks after it has finished, or later: the first
\* is the master's to see the abort, the second frees the bus.
Freed ==
  /\ cstate = "IDLE" => Writer!Ready
  /\ (cstate = "FINISHED" /\ wrReset) => wstate # "WRITING"
  /\ (cstate = "FINISHED" /\ Writer!Presenting) => accepted <= More

\* Where the divider is in its tick.  Its event is taken one clock late.
Position == IF divevt THEN ClkDiv ELSE divcnt - 1

\* The age of a job is the clocks of the ticks the timer has counted off,
\* the position in the tick in progress, and one clock for the trigger.
Timing ==
  /\ delay.trigger => /\ cstate = "BUFFER_WAITING" /\ idle /\ ~finished
                      /\ delay.timer = job.timeout /\ job.timeout # 0 /\ age = 0
  /\ ~idle => /\ ~finished
              /\ timer < job.timeout
              /\ divevt = (divcnt = 0)
              /\ age = TimeoutClocks(job.timeout - 1 - timer) + Position + 1
  /\ finished => job.timeout # 0 /\ age = Deadline

\* A timeout is watched while the filler is busy, and is over before it is
\* idle.
Watch ==
  /\ cstate = "IDLE" => idle /\ ~finished
  /\ (cstate = "FINISHED" /\ wrReset) => delay.clear
  /\ Busy => ~delay.clear /\ ~timeoutError
  /\ (Busy /\ job.timeout # 0) => delay.trigger \/ ~idle \/ finished

Orderly == Commands /\ Registered /\ Freed /\ Timing /\ Watch

PoliteInv == FillInv /\ (polite => Orderly)

LEMMA PoliteInit == Init => PoliteInv
<1> SUFFICES ASSUME Init PROVE Orderly
  BY FillInit DEF PoliteInv
<1> QED
  BY DEF Init, Delay!Init, Writer!Init, Orderly, Commands, Registered, Freed,
         Timing, Watch, Busy, Writer!Ready

LEMMA PoliteReset == SystemReset => Orderly'
BY DEF SystemReset, Orderly, Commands, Registered, Freed,
       Timing, Watch, Busy, Writer!Ready

LEMMA PoliteStutter == UNCHANGED vars => (Orderly <=> Orderly')
BY DEF vars, slaveVars, ctrlVars, delayVars, writerVars, histVars,
       Orderly, Commands, Registered, Freed, Timing, Watch, Busy, More,
       Position, Deadline, TimeoutClocks, Writer!Ready, Writer!Presenting

\* What polite software may do in a clock.
LEMMA PoliteSlave ==
  ASSUME FillInv, polite, Orderly, NEW wait \in BOOLEAN, Tick(wait)
  PROVE  /\ polite'
         /\ (wrStart' \/ wrReset') => ~Busy /\ ~wrStart
         /\ (Busy \/ wrStart) => regs' = regs
BY DEF Tick, Slave, WriteData, WriteStart, WriteReset, NoWrite, MayWrite

\* Where the controller goes when software is polite.
RestsIdle ==
  /\ cstate = "IDLE" /\ ~wrStart /\ cstate' = "IDLE"
  /\ delay' = [clear |-> FALSE, trigger |-> FALSE, timer |-> 0]

Starts ==
  /\ Started /\ cstate' = "BUFFER_WAITING" /\ timeoutError' = FALSE
  /\ delay' = [clear |-> FALSE, trigger |-> regs.timeout # 0, timer |-> regs.timeout]

Works ==
  /\ Busy /\ ~finished /\ Busy' /\ timeoutError' = FALSE
  /\ delay' = [delay EXCEPT !.trigger = FALSE]

Ends ==
  /\ cstate = "WRITE_WAITING" /\ Writer!Done /\ dataCnt = 0
  /\ ~finished /\ cstate' = "FINISHED" /\ timeoutError' = FALSE
  /\ delay' = [delay EXCEPT !.trigger = FALSE]

TimesOut ==
  /\ Busy /\ finished /\ cstate' = "FINISHED" /\ timeoutError' = TRUE
  /\ delay' = [delay EXCEPT !.trigger = FALSE]

RestsFinished ==
  /\ cstate = "FINISHED"
  /\ cstate' = IF wrReset THEN "IDLE" ELSE "FINISHED"
  /\ timeoutError' = (timeoutError \/ (finished /\ ~wrReset))
  /\ delay' = [clear |-> TRUE, trigger |-> FALSE, timer |-> 0]

LEMMA PoliteMoves ==
  ASSUME FillInv, polite, Orderly, NEW wait \in BOOLEAN, Tick(wait)
  PROVE  RestsIdle \/ Starts \/ Works \/ Ends \/ TimesOut \/ RestsFinished
<1>1. Controller
  BY TickParts
<1>2. Busy => ~wrReset /\ ~timeoutError
  BY DEF Orderly, Commands, Watch
<1>3. delay.trigger => cstate = "BUFFER_WAITING"
  BY DEF Orderly, Timing
<1>4. delay \in [clear : BOOLEAN, trigger : BOOLEAN, timer : Timeouts]
      /\ wrReset \in BOOLEAN /\ wrStart \in BOOLEAN
      /\ timeoutError \in BOOLEAN /\ finished \in BOOLEAN
  BY DEF FillInv, TypeOK
<1>5. ~delay.trigger => delay = [delay EXCEPT !.trigger = FALSE]
  BY <1>4
<1>6. CASE Idle
  <2>1. cstate = "IDLE" /\ ~finished /\ (wrStart => ~wrReset)
    BY <1>6 DEF Idle, Orderly, Watch, FillInv, Pulses
  <2>2. CASE wrStart
    BY <1>6, <2>1, <2>2 DEF Idle, StartJob, Enter, SetError, Starts, Started
  <2>3. CASE ~wrStart
    BY <1>6, <2>1, <2>3 DEF Idle, Enter, RestsIdle
  <2>4. QED
    BY <2>2, <2>3
<1>7. ASSUME NEW s, Enter(s), SetError(timeoutError), Busy,
             s \notin {"IDLE", "FINISHED"},
             delay' = [delay EXCEPT !.trigger = FALSE]
      PROVE  Works \/ TimesOut
  <2>1. ~wrReset /\ timeoutError = FALSE
    BY <1>2, <1>4, <1>7
  <2>2. CASE finished
    BY <1>7, <2>1, <2>2 DEF Enter, SetError, TimesOut
  <2>3. CASE ~finished
    BY <1>7, <2>1, <2>3 DEF Enter, SetError, Works, Busy
  <2>4. QED
    BY <2>2, <2>3
<1>8. CASE BufferWaiting
  BY <1>7, <1>8 DEF BufferWaiting, Busy
<1>9. CASE BufferFetch \/ WriteStartState
  BY <1>3, <1>5, <1>7, <1>9 DEF BufferFetch, WriteStartState, Busy
<1>10. CASE WriteWaiting
  <2>1. /\ cstate = "WRITE_WAITING" /\ Busy /\ SetError(timeoutError)
        /\ delay' = [delay EXCEPT !.trigger = FALSE]
    BY <1>3, <1>5, <1>10 DEF WriteWaiting, Busy
  <2>2. CASE Writer!Done /\ dataCnt = 0
    <3>1. Enter("FINISHED") /\ ~wrReset /\ timeoutError = FALSE
      BY <1>2, <1>4, <1>10, <2>1, <2>2 DEF WriteWaiting, WordDone
    <3>2. CASE finished
      BY <2>1, <3>1, <3>2 DEF Enter, SetError, TimesOut
    <3>3. CASE ~finished
      BY <2>1, <2>2, <3>1, <3>3 DEF Enter, SetError, Ends
    <3>4. QED
      BY <3>2, <3>3
  <2>3. CASE ~(Writer!Done /\ dataCnt = 0)
    <3>1. \/ Enter("WRITE_WAITING") \/ Enter("BUFFER_FETCH")
          \/ Enter("BUFFER_WAITING")
      BY <1>10, <2>3 DEF WriteWaiting, WordDone
    <3>2. QED
      BY <1>7, <2>1, <3>1
  <2>4. QED
    BY <2>2, <2>3
<1>11. CASE Finished
  <2>1. cstate' = IF wrReset THEN "IDLE" ELSE "FINISHED"
    BY <1>11 DEF Finished, Enter
  <2>2. QED
    BY <1>11, <2>1 DEF Finished, SetError, RestsFinished
<1>12. QED
  BY <1>1, <1>6, <1>8, <1>9, <1>10, <1>11 DEF Controller
\* The clocks of n ticks.
LEMMA OneTick ==
  ASSUME NEW n \in Nat
  PROVE  /\ TimeoutClocks(n) \in Nat
         /\ TimeoutClocks(n + 1) = TimeoutClocks(n) + ClkDiv + 1
BY ConstantsAssumption DEF TimeoutClocks

\* A tick in progress is not yet over.
LEMMA BelowTheEnd ==
  ASSUME NEW d \in Nat, NEW n \in Nat, d + 1 <= n, NEW p \in Int, p < ClkDiv + 1
  PROVE  TimeoutClocks(d) + p < TimeoutClocks(n)
<1>1. /\ TimeoutClocks(d) \in Nat /\ TimeoutClocks(n) \in Nat
      /\ TimeoutClocks(d + 1) = TimeoutClocks(d) + ClkDiv + 1
  BY OneTick
<1>2. TimeoutClocks(d + 1) <= TimeoutClocks(n)
  <2>1. \A a, b \in Nat : a <= b => a * (ClkDiv + 1) <= b * (ClkDiv + 1)
    BY ConstantsAssumption
  <2>2. QED
    BY <2>1 DEF TimeoutClocks
<1>3. QED
  BY <1>1, <1>2, ConstantsAssumption

\* A timeout that runs is younger than its deadline.
LEMMA RunningIsYoung ==
  ASSUME FillInv, Timing, ~idle
  PROVE  /\ job.timeout \in Nat /\ job.timeout - 1 - timer \in Nat
         /\ divcnt \in 0..ClkDiv /\ divevt \in BOOLEAN /\ ClkDiv \in Nat \ {0}
         /\ timer \in Nat
         /\ Position \in 0..ClkDiv
         /\ job.timeout # 0
         /\ age \in Nat /\ Deadline \in Nat /\ age < Deadline
<1> DEFINE done == job.timeout - 1 - timer
<1>1. /\ timer \in Nat /\ timer < job.timeout /\ ClkDiv \in Nat \ {0}
      /\ divcnt \in 0..ClkDiv /\ divevt \in BOOLEAN /\ age \in Nat
      /\ divevt = (divcnt = 0)
      /\ age = TimeoutClocks(done) + Position + 1
  BY ConstantsAssumption DEF FillInv, TypeOK, Timing
<1>2. job.timeout \in Nat
  BY ConstantsAssumption DEF FillInv, TypeOK, Registers
<1>3. done \in Nat /\ done + 1 <= job.timeout /\ job.timeout # 0
  BY <1>1, <1>2
<1>4. Position \in 0..ClkDiv
  <2>1. CASE divevt
    BY <1>1, <2>1 DEF Position
  <2>2. CASE ~divevt
    <3>1. Position = divcnt - 1 /\ divcnt # 0
      BY <1>1, <2>2 DEF Position
    <3>2. QED
      BY <1>1, <3>1
  <2>3. QED
    BY <2>1, <2>2
<1> HIDE DEF done
<1>5. Position \in Int /\ Position < ClkDiv + 1
  BY <1>1, <1>4
<1>6. TimeoutClocks(done) + Position < TimeoutClocks(job.timeout)
  BY <1>2, <1>3, <1>5, BelowTheEnd
<1>7. TimeoutClocks(done) \in Nat /\ TimeoutClocks(job.timeout) \in Nat
  BY <1>2, <1>3, OneTick
<1>8. Deadline \in Nat /\ age < Deadline
  BY <1>1, <1>4, <1>6, <1>7 DEF Deadline
<1>9. QED
  BY <1>1, <1>2, <1>3, <1>4, <1>8 DEF done

LEMMA AgeStep ==
  ASSUME FillInv, NEW wait \in BOOLEAN, Tick(wait), ~Started,
         job.timeout # 0, age <= Deadline
  PROVE  age' = age + 1
<1>1. age \in Nat /\ Deadline \in Nat
  BY DeadlineType, TypeSplit DEF FillInv, TypeOK
<1>2. age' = Min2(age + 1, Deadline + 2)
  BY DEF Tick, History
<1>3. QED
  BY <1>1, <1>2 DEF Min2

\* The clocks of a timeout that runs.
LEMMA RunTiming ==
  ASSUME FillInv, Orderly, NEW wait \in BOOLEAN, Tick(wait),
         Delay!Run, job' = job, delay'.trigger = FALSE
  PROVE  Timing'
<1> DEFINE done == job.timeout - 1 - timer
<1>0. ~idle /\ Timing
  BY DEF Delay!Run, Orderly
<1>1. /\ job.timeout \in Nat /\ done \in Nat
      /\ divcnt \in 0..ClkDiv /\ divevt \in BOOLEAN /\ ClkDiv \in Nat \ {0}
      /\ timer \in Nat /\ Position \in 0..ClkDiv /\ job.timeout # 0
      /\ age \in Nat /\ Deadline \in Nat /\ age < Deadline
  BY <1>0, RunningIsYoung
<1>2. /\ timer < job.timeout
      /\ divevt = (divcnt = 0)
      /\ age = TimeoutClocks(done) + Position + 1
  BY <1>0 DEF Timing
<1>3. age' = age + 1
  <2>1. ~Started
    BY <1>0 DEF Orderly, Watch, Started
  <2>2. QED
    BY <1>1, <2>1, AgeStep
<1>4. /\ TimeoutClocks(done) \in Nat
      /\ TimeoutClocks(done + 1) = TimeoutClocks(done) + ClkDiv + 1
  BY <1>1, OneTick
<1>5. divevt' \in BOOLEAN /\ divevt' = (divcnt' = 0)
  <2>1. /\ divevt' = (divcnt = ClkDiv)
        /\ divcnt' = IF divcnt = ClkDiv THEN 0 ELSE divcnt + 1
    BY DEF Delay!Run
  <2>2. QED
    BY <1>1, <2>1
<1>6. finished' \in BOOLEAN /\ idle' = finished' /\ finished' = (divevt /\ timer = 0)
  BY DEF Delay!Run
<1>7. timer' = IF divevt /\ timer # 0 THEN timer - 1 ELSE timer
  BY DEF Delay!Run
<1>8. CASE ~divevt
  <2>1. finished' = FALSE /\ idle' = FALSE /\ timer' = timer
    BY <1>6, <1>7, <1>8
  <2>2. Position' = Position + 1
    <3>1. Position = divcnt - 1
      BY <1>8 DEF Position
    <3>2. CASE divcnt = ClkDiv
      <4>1. divevt' = TRUE
        BY <3>2 DEF Delay!Run
      <4>2. Position' = ClkDiv
        BY <4>1 DEF Position
      <4>3. QED
        BY <1>1, <3>1, <3>2, <4>2
    <3>3. CASE divcnt # ClkDiv
      <4>1. divevt' = FALSE /\ divcnt' = divcnt + 1
        BY <3>3 DEF Delay!Run
      <4>2. Position' = divcnt' - 1
        BY <4>1 DEF Position
      <4>3. QED
        BY <1>1, <3>1, <4>1, <4>2
    <3>4. QED
      BY <3>2, <3>3
  <2>3. age' = TimeoutClocks(done) + Position' + 1
    BY <1>1, <1>2, <1>3, <1>4, <2>2
  <2>4. QED
    BY <1>2, <1>5, <2>1, <2>3 DEF Timing, TimeoutClocks
<1>9. CASE divevt /\ timer # 0
  <2>1. finished' = FALSE /\ idle' = FALSE /\ timer' = timer - 1
    BY <1>6, <1>7, <1>9
  <2>2. Position' = 0 /\ Position = ClkDiv
    <3>1. Position = ClkDiv /\ divcnt = 0
      BY <1>2, <1>9 DEF Position
    <3>2. divcnt # ClkDiv
      BY <1>1, <3>1
    <3>3. divevt' = FALSE /\ divcnt' = divcnt + 1
      BY <3>2 DEF Delay!Run
    <3>4. Position' = divcnt' - 1
      BY <3>3 DEF Position
    <3>5. QED
      BY <3>1, <3>3, <3>4
  <2>3. job.timeout - 1 - timer' = done + 1 /\ timer' < job.timeout
    BY <1>1, <1>2, <2>1
  <2>4. age' = TimeoutClocks(done + 1) + Position' + 1
    BY <1>1, <1>2, <1>3, <1>4, <2>2
  <2>5. age' = TimeoutClocks(job.timeout - 1 - timer') + Position' + 1
    BY <2>3, <2>4
  <2>6. QED
    BY <1>5, <2>1, <2>3, <2>5 DEF Timing, TimeoutClocks
<1>10. CASE divevt /\ timer = 0
  <2>1. finished' = TRUE /\ idle' = TRUE
    BY <1>6, <1>10
  <2>2. Position = ClkDiv
    BY <1>10 DEF Position
  <2>3. done + 1 = job.timeout
    BY <1>1, <1>10
  <2>4. age' = TimeoutClocks(done + 1) + 1
    BY <1>1, <1>2, <1>3, <1>4, <2>2
  <2>5. age' = TimeoutClocks(job.timeout) + 1
    BY <2>3, <2>4
  <2>6. QED
    BY <1>1, <2>1, <2>5 DEF Timing, Deadline, TimeoutClocks
<1>11. QED
  BY <1>8, <1>9, <1>10

LEMMA TimingStep ==
  ASSUME FillInv, polite, Orderly, NEW wait \in BOOLEAN, Tick(wait)
  PROVE  Timing'
<1>1. RestsIdle \/ Starts \/ Works \/ Ends \/ TimesOut \/ RestsFinished
  BY PoliteMoves
<1>2. Delay!Clock(delay.clear, delay.trigger, delay.timer)
  BY TickParts
<1>3. Timing /\ Watch
  BY DEF Orderly
<1>4. delay \in [clear : BOOLEAN, trigger : BOOLEAN, timer : Timeouts]
  BY DEF FillInv, TypeOK
<1>5. ~Starts => delay'.trigger = FALSE
  BY <1>1, <1>4 DEF RestsIdle, Works, Ends, TimesOut, RestsFinished
<1>6. ~Started => job' = job
  BY DEF Tick, History
<1>7. CASE delay.trigger
  <2>1. /\ idle /\ delay.timer = job.timeout /\ job.timeout # 0 /\ age = 0
        /\ ~Started
    BY <1>3, <1>7 DEF Timing, Started
  <2>2. /\ idle' = FALSE /\ divcnt' = 1 /\ divevt' = FALSE
        /\ timer' = job.timeout - 1 /\ finished' = FALSE
    BY <1>2, <1>7, <2>1 DEF Delay!Clock, Delay!Trigger, Delay!Clear, Delay!Run
  <2>3. job.timeout \in Nat
    BY ConstantsAssumption DEF FillInv, TypeOK, Registers
  <2>4. age' = 1
    <3>1. Deadline \in Nat
      BY DeadlineType, TypeSplit DEF FillInv
    <3>2. age' = age + 1
      BY <2>1, <3>1, AgeStep
    <3>3. QED
      BY <2>1, <3>2
  <2>5. job' = job /\ delay'.trigger = FALSE
    BY <1>5, <1>6, <2>1 DEF Starts
  <2>6. job.timeout - 1 - timer' = 0 /\ timer' < job.timeout
    BY <2>2, <2>3
  <2>7. Position' = 0
    BY <2>2 DEF Position
  <2>8. TimeoutClocks(0) = 0
    BY ConstantsAssumption DEF TimeoutClocks
  <2>9. age' = TimeoutClocks(job.timeout - 1 - timer') + Position' + 1
    BY <2>4, <2>6, <2>7, <2>8
  <2>10. divevt' = (divcnt' = 0)
    <3>1. divcnt' # 0
      <4>1. divcnt' = 1
        BY <2>2
      <4>2. QED
        BY <4>1
    <3>2. divevt' = FALSE
      BY <2>2
    <3>3. QED
      BY <3>1, <3>2
  <2>11. /\ ~delay'.trigger /\ ~idle' /\ ~finished' /\ timer' < job'.timeout
         /\ age' = TimeoutClocks(job'.timeout - 1 - timer') + Position' + 1
    BY <2>2, <2>5, <2>6, <2>9
  <2>12. QED
    BY <2>10, <2>11 DEF Timing, TimeoutClocks
<1>8. CASE ~delay.trigger /\ idle
  <2>1. idle' = TRUE /\ finished' = FALSE
    BY <1>2, <1>8 DEF Delay!Clock, Delay!Trigger, Delay!Stopped, Delay!Clear, Delay!Run
  <2>2. CASE Starts
    <3>1. /\ cstate' = "BUFFER_WAITING" /\ job' = regs /\ age' = 0
          /\ delay'.trigger = (regs.timeout # 0) /\ delay'.timer = regs.timeout
      BY <2>2 DEF Starts, Tick, History
    <3>2. QED
      BY <2>1, <3>1 DEF Timing
  <2>3. CASE ~Starts
    BY <1>5, <2>1, <2>3 DEF Timing
  <2>4. QED
    BY <2>2, <2>3
<1>9. CASE ~idle
  <2>1. ~Starts /\ job' = job
    BY <1>3, <1>6, <1>9 DEF Starts, Started, Watch
  <2>2. CASE Delay!Run
    BY <1>5, <2>1, <2>2, RunTiming
  <2>3. CASE Delay!Clear
    <3>1. idle' = TRUE /\ finished' = FALSE
      BY <2>3 DEF Delay!Clear, Delay!Stopped
    <3>2. QED
      BY <1>5, <2>1, <3>1 DEF Timing
  <2>4. QED
    BY <1>2, <1>9, <2>2, <2>3 DEF Delay!Clock, Delay!Trigger
<1>10. QED
  BY <1>7, <1>8, <1>9

\* The delay block at the end of a clock: cleared, left idle, or going on.
LEMMA WatchStep ==
  ASSUME FillInv, polite, Orderly, NEW wait \in BOOLEAN, Tick(wait)
  PROVE  Watch'
<1>1. RestsIdle \/ Starts \/ Works \/ Ends \/ TimesOut \/ RestsFinished
  BY PoliteMoves
<1>2. Delay!Clock(delay.clear, delay.trigger, delay.timer)
  BY TickParts
<1>3. Commands /\ Timing /\ Watch
  BY DEF Orderly
<1>4. delay \in [clear : BOOLEAN, trigger : BOOLEAN, timer : Timeouts]
      /\ idle \in BOOLEAN /\ finished \in BOOLEAN /\ wrReset \in BOOLEAN
  BY DEF FillInv, TypeOK
<1>5. wrReset' => ~Busy /\ ~wrStart
  BY PoliteSlave
<1>6. ~Started => job' = job
  BY DEF Tick, History
<1>7. (idle \/ delay.clear) /\ ~delay.trigger => idle' /\ ~finished'
  BY <1>2 DEF Delay!Clock, Delay!Trigger, Delay!Stopped, Delay!Clear, Delay!Run
<1>8. CASE RestsIdle
  <2>1. ~delay.trigger /\ idle
    BY <1>3, <1>8 DEF RestsIdle, Timing, Watch
  <2>2. QED
    BY <1>7, <1>8, <2>1 DEF RestsIdle, Watch, Busy
<1>9. CASE Starts
  <2>1. job' = regs /\ delay'.clear = FALSE /\ delay'.trigger = (regs.timeout # 0)
    BY <1>9 DEF Starts, Tick, History
  <2>2. QED
    BY <1>9, <2>1 DEF Starts, Watch, Busy
<1>10. CASE Works
  <2>1. /\ Busy /\ ~finished /\ Busy' /\ timeoutError' = FALSE /\ ~delay.clear
        /\ delay'.clear = FALSE /\ job' = job
    BY <1>3, <1>4, <1>6, <1>10 DEF Works, Watch, Busy, Started
  <2>2. ASSUME job.timeout # 0 PROVE ~idle' \/ finished'
    <3>1. delay.trigger \/ ~idle
      BY <1>3, <2>1, <2>2 DEF Watch
    <3>2. CASE delay.trigger
      <4>1. delay.timer # 0 /\ idle
        BY <1>3, <3>2 DEF Timing
      <4>2. QED
        BY <1>2, <3>2, <4>1 DEF Delay!Clock, Delay!Trigger, Delay!Clear, Delay!Run
    <3>3. CASE ~idle
      <4>1. Delay!Run
        BY <1>2, <2>1, <3>3 DEF Delay!Clock, Delay!Trigger
      <4>2. idle' = finished' /\ finished' \in BOOLEAN
        BY <4>1 DEF Delay!Run
      <4>3. QED
        BY <4>2
    <3>4. QED
      BY <3>1, <3>2, <3>3
  <2>3. cstate' \notin {"IDLE", "FINISHED"}
    BY <2>1 DEF Busy
  <2>4. QED
    BY <2>1, <2>2, <2>3 DEF Watch
<1>11. CASE Ends \/ TimesOut
  <2>1. Busy /\ cstate' = "FINISHED"
    BY <1>11 DEF Ends, TimesOut, Busy
  <2>2. QED
    BY <1>5, <2>1 DEF Watch, Busy
<1>12. CASE RestsFinished
  <2>1. /\ cstate = "FINISHED" /\ cstate' = IF wrReset THEN "IDLE" ELSE "FINISHED"
        /\ delay'.clear = TRUE
    BY <1>12 DEF RestsFinished
  <2>2. wrReset => delay.clear /\ ~delay.trigger
    BY <1>3, <2>1 DEF Timing, Watch
  <2>3. QED
    BY <1>7, <2>1, <2>2 DEF Watch, Busy
<1>13. QED
  BY <1>1, <1>8, <1>9, <1>10, <1>11, <1>12

LEMMA CommandsStep ==
  ASSUME FillInv, polite, Orderly, NEW wait \in BOOLEAN, Tick(wait)
  PROVE  Commands'
<1>1. RestsIdle \/ Starts \/ Works \/ Ends \/ TimesOut \/ RestsFinished
  BY PoliteMoves
<1>2. (wrStart' \/ wrReset') => ~Busy /\ ~wrStart
  BY PoliteSlave
<1>3. ~Busy /\ ~wrStart => cstate' \in {"IDLE", "FINISHED"}
  BY <1>1 DEF RestsIdle, Starts, Started, Works, Ends, TimesOut, RestsFinished, Busy
<1>4. QED
  BY <1>2, <1>3 DEF Commands, Busy

LEMMA RegisteredStep ==
  ASSUME FillInv, polite, Orderly, NEW wait \in BOOLEAN, Tick(wait)
  PROVE  Registered'
<1>1. RestsIdle \/ Starts \/ Works \/ Ends \/ TimesOut \/ RestsFinished
  BY PoliteMoves
<1>2. (Busy \/ wrStart) => regs' = regs
  BY PoliteSlave
<1>3. Registered
  BY DEF Orderly
<1>4. Busy' => regs' = job'
  <2>1. CASE Starts
    BY <1>2, <2>1 DEF Starts, Started, Tick, History
  <2>2. CASE Works
    <3>1. job' = job /\ Busy
      BY <2>2 DEF Works, Tick, History, Started, Busy
    <3>2. QED
      BY <1>2, <1>3, <3>1 DEF Registered
  <2>3. CASE ~Starts /\ ~Works
    BY <1>1, <2>3 DEF RestsIdle, Ends, TimesOut, RestsFinished, Busy
  <2>4. QED
    BY <2>1, <2>2, <2>3
<1>5. CASE cstate' = "WRITE_START"
  <2>1. request'.data = regs.data
    BY <1>5 DEF Tick, Controller, Outputs
  <2>2. Works
    BY <1>1, <1>5 DEF RestsIdle, Starts, Ends, TimesOut, RestsFinished
  <2>3. regs' = regs /\ regs' = job'
    BY <1>2, <1>4, <2>2 DEF Works
  <2>4. QED
    BY <1>4, <1>5, <2>1, <2>3 DEF Registered
<1>6. CASE cstate' = "WRITE_WAITING" /\ Writer!Presenting'
  <2>1. WriteStartState \/ WriteWaiting
    <3>1. Works
      BY <1>1, <1>6 DEF RestsIdle, Starts, Ends, TimesOut, RestsFinished
    <3>2. Busy /\ ~wrReset /\ ~finished
      BY <3>1 DEF Works, Orderly, Commands
    <3>3. ~BufferWaiting /\ ~BufferFetch
      BY <1>6, <3>2 DEF BufferWaiting, BufferFetch, Enter
    <3>4. QED
      BY <3>2, <3>3 DEF Tick, Controller, Idle, Finished, Busy
  <2>2. job' = job /\ regs = job
    BY <1>3, <2>1 DEF WriteStartState, WriteWaiting, Tick, History, Started,
                      Registered, Busy
  <2>3. word'.data = job'.data
    <3>1. CASE WriteStartState
      <4>1. Writer!Ready /\ cstate = "WRITE_START" /\ request.data = job.data
        BY <1>3, <3>1 DEF WriteStartState, FillInv, Filling, Registered
      <4>2. word' = request
        BY <4>1 DEF Tick, Writer!Clock, Writer!TakeRequest, Writer!FirstCycle,
                    Writer!Wait, Writer!Ready
      <4>3. QED
        BY <2>2, <4>1, <4>2
    <3>2. CASE WriteWaiting
      <4>1. cstate = "WRITE_WAITING"
        BY <3>2 DEF WriteWaiting
      <4>2. Writer!Presenting
        <5>1. Writer!Ready => Writer!Ready'
          BY <4>1, ReadyStays
        <5>2. ~Writer!Ready
          BY <1>6, <5>1 DEF Writer!Ready, Writer!Presenting
        <5>3. QED
          BY <4>1, <5>2 DEF FillInv, Filling, Writer!Ready, Writer!Done
      <4>3. word' = word
        BY <4>2 DEF Tick, Writer!Clock, Writer!TakeRequest, Writer!FirstCycle,
                    Writer!Wait, Writer!Ready, Writer!Presenting
      <4>4. QED
        BY <1>3, <2>2, <4>1, <4>2, <4>3 DEF Registered
    <3>3. QED
      BY <2>1, <3>1, <3>2
  <2>4. QED
    BY <1>4, <1>6, <2>3 DEF Registered
<1>7. CASE cstate' # "WRITE_START" /\ ~(cstate' = "WRITE_WAITING" /\ Writer!Presenting')
  BY <1>4, <1>7 DEF Registered
<1>8. QED
  BY <1>5, <1>6, <1>7

\* Two clocks of FINISHED end every word.
LEMMA FreedStep ==
  ASSUME FillInv, polite, Orderly, NEW wait \in BOOLEAN, Tick(wait)
  PROVE  Freed'
<1>1. RestsIdle \/ Starts \/ Works \/ Ends \/ TimesOut \/ RestsFinished
  BY PoliteMoves
<1>2. Freed /\ wstate \in {"IDLE", "WRITING", "WAITING", "DONE"} /\ wrReset \in BOOLEAN
  BY DEF Orderly, FillInv, TypeOK, Writer!WriterStates
<1>3. wrReset' => ~Busy /\ ~wrStart
  BY PoliteSlave
<1>4. /\ accepted \in Nat /\ dataCnt \in Nat /\ timeoutError \in BOOLEAN
      /\ More \in Nat
  <2>1. job.length \in Nat
    BY ConstantsAssumption DEF FillInv, TypeOK, Registers
  <2>2. QED
    BY <2>1, DivBounds, ConstantsAssumption DEF FillInv, TypeOK, More
<1>5. Writer!Clock(cstate = "WRITE_START", cstate = "FINISHED", request, wait)
  BY TickParts
<1>6. CASE RestsIdle
  <2>1. Writer!Ready'
    BY <1>2, <1>6, ReadyStays DEF RestsIdle, Freed
  <2>2. QED
    BY <1>6, <2>1 DEF RestsIdle, Freed
<1>7. CASE Starts \/ Works
  BY <1>7 DEF Starts, Works, Busy, Freed
<1>8. CASE Ends \/ TimesOut
  <2>1. cstate' = "FINISHED" /\ Busy
    BY <1>8 DEF Ends, TimesOut, Busy
  <2>2. ASSUME Writer!Presenting' PROVE accepted' <= More'
    <3>1. Writer!Presenting \/ cstate = "WRITE_START"
      <4>1. ASSUME Writer!Ready, cstate # "WRITE_START" PROVE FALSE
        BY <2>2, <4>1, ReadyStays DEF Writer!Ready, Writer!Presenting
      <4>2. QED
        BY <1>2, <4>1 DEF Writer!Ready, Writer!Presenting
    <3>2. NextIsDue
      <4>1. ~Writer!Done \/ cstate = "WRITE_START"
        BY <3>1 DEF Writer!Presenting, Writer!Done
      <4>2. cstate \in {"BUFFER_WAITING", "BUFFER_FETCH", "WRITE_START", "WRITE_WAITING"}
        BY <2>1 DEF Busy, FillInv, TypeOK, States
      <4>3. QED
        BY <4>1, <4>2 DEF FillInv, Filling
    <3>3. job' = job
      BY <2>1 DEF Tick, History, Started, Busy
    <3>4. accepted' = accepted
      <4>1. CASE wait
        BY <2>1, <4>1 DEF Tick, History, Accept, Started, Busy
      <4>2. CASE ~wait
        <5>1. ~Writer!Presenting
          BY <1>5, <2>2, <4>2 DEF Writer!Clock, Writer!TakeRequest,
             Writer!FirstCycle, Writer!Wait, Writer!Presenting, Writer!Ready
        <5>2. QED
          BY <2>1, <5>1 DEF Tick, History, Accept, Started, Busy
      <4>3. QED
        BY <4>1, <4>2
    <3>5. accepted <= More
      BY <1>4, <3>2 DEF NextIsDue
    <3>6. QED
      BY <3>3, <3>4, <3>5 DEF More
  <2>3. QED
    BY <1>3, <2>1, <2>2 DEF Freed
<1>9. CASE RestsFinished
  <2>1. /\ cstate = "FINISHED" /\ ~Started
        /\ cstate' = IF wrReset THEN "IDLE" ELSE "FINISHED"
    BY <1>9 DEF RestsFinished, Started
  <2>2. wstate' # "WRITING" /\ (wstate # "WRITING" => Writer!Ready')
    BY <1>2, <1>5, <2>1 DEF Writer!Clock, Writer!TakeRequest, Writer!FirstCycle,
       Writer!Wait, Writer!Ready
  <2>3. ASSUME Writer!Presenting' PROVE accepted' <= More'
    <3>1. ~Writer!Ready
      <4>1. Writer!Ready => Writer!Ready'
        BY <2>1, ReadyStays
      <4>2. QED
        BY <2>3, <4>1 DEF Writer!Ready, Writer!Presenting
    <3>2. Writer!Presenting
      BY <1>2, <3>1 DEF Writer!Ready, Writer!Presenting
    <3>3. wait
      BY <1>5, <2>3, <3>1 DEF Writer!Clock, Writer!TakeRequest,
         Writer!FirstCycle, Writer!Wait, Writer!Presenting, Writer!Ready
    <3>4. job' = job /\ accepted' = accepted
      BY <2>1, <3>3 DEF Tick, History, Accept
    <3>5. QED
      BY <1>2, <2>1, <3>2, <3>4 DEF Freed, More
  <2>4. cstate' = "IDLE" => Writer!Ready'
    BY <1>2, <2>1, <2>2 DEF Freed
  <2>5. QED
    BY <2>1, <2>2, <2>3, <2>4 DEF Freed
<1>10. QED
  BY <1>1, <1>6, <1>7, <1>8, <1>9

LEMMA PoliteStep == PoliteInv /\ [Next]_vars => PoliteInv'
<1> SUFFICES ASSUME PoliteInv, [Next]_vars PROVE PoliteInv'
  OBVIOUS
<1>1. FillInv'
  BY FillStep DEF PoliteInv
<1>2. polite' = polite
  BY DEF Next, Clock, Tick, Slave, SystemReset, vars, slaveVars
<1>3. ASSUME polite PROVE Orderly'
  <2>1. FillInv /\ Orderly
    BY <1>3 DEF PoliteInv
  <2>2. CASE Clock
    <3>1. PICK wait \in BOOLEAN : Tick(wait)
      BY <2>2 DEF Clock
    <3>2. Commands' /\ Registered' /\ Freed' /\ Timing' /\ Watch'
      BY <1>3, <2>1, <3>1, CommandsStep, RegisteredStep, FreedStep,
         TimingStep, WatchStep
    <3>3. QED
      BY <3>2 DEF Orderly
  <2>3. CASE SystemReset
    BY <2>3, PoliteReset
  <2>4. CASE UNCHANGED vars
    BY <2>1, <2>4, PoliteStutter
  <2>5. QED
    BY <2>2, <2>3, <2>4 DEF Next
<1>4. QED
  BY <1>1, <1>2, <1>3 DEF PoliteInv

LEMMA PoliteInvariant == Spec => []PoliteInv
BY PoliteInit, PoliteStep, PTL DEF Spec
-----------------------------------------------------------------------------
(* What polite software gets.                                              *)

\* A fill writes the value the data register had when it was started in all
\* its words.
THEOREM DataStays == Spec => []DataInOrder
<1>1. PoliteInv => DataInOrder
  BY DEF PoliteInv, Orderly, Registered, DataInOrder
<1>2. QED
  BY <1>1, PoliteInvariant, PTL

\* A fill starts with the bus free: the abort of the last word of the fill
\* before is over.
THEOREM FillsStartFresh == Spec => []StartsFresh
<1>1. PoliteInv => StartsFresh
  BY DEF PoliteInv, Orderly, Freed, StartsFresh, Started, Writer!Ready, Writer!Presenting
<1>2. QED
  BY <1>1, PoliteInvariant, PTL

\* Only a start ends the idle state: no timeout is left over from the fill
\* before.
THEOREM IdleIsKept == Spec => IdleUntilStart
<1>1. PoliteInv /\ [Next]_vars => [polite /\ LeavesIdle => wrStart]_vars
  <2> SUFFICES ASSUME PoliteInv, Next, polite, LeavesIdle PROVE wrStart
    OBVIOUS
  <2>1. FillInv /\ Orderly
    BY DEF PoliteInv
  <2>2. CASE SystemReset
    BY <2>2 DEF SystemReset, LeavesIdle
  <2>3. CASE Clock
    <3>1. PICK wait \in BOOLEAN : Tick(wait)
      BY <2>3 DEF Clock
    <3>2. RestsIdle \/ Starts \/ Works \/ Ends \/ TimesOut \/ RestsFinished
      BY <2>1, <3>1, PoliteMoves
    <3>3. QED
      BY <3>2 DEF LeavesIdle, RestsIdle, Starts, Started, Works, Ends, TimesOut,
                  RestsFinished, Busy
  <2>4. QED
    BY <2>2, <2>3 DEF Next
<1>2. QED
  BY <1>1, PoliteInvariant, PTL DEF Spec, IdleUntilStart

\* A timeout of n ticks strikes n * (ClkDiv + 1) + 1 clocks after the start,
\* for every n and ClkDiv.
THEOREM TimeoutsOnTime == Spec => TimeoutOnTime
<1>1. PoliteInv /\ [Next]_vars =>
        [polite => /\ (~timeoutError /\ timeoutError') => age = Deadline
                   /\ (Busy /\ job.timeout # 0) => age <= Deadline]_vars
  <2> SUFFICES ASSUME PoliteInv, Next, polite
               PROVE  /\ (~timeoutError /\ timeoutError') => age = Deadline
                      /\ (Busy /\ job.timeout # 0) => age <= Deadline
    OBVIOUS
  <2>1. FillInv /\ Orderly /\ Timing /\ Watch
    BY DEF PoliteInv, Orderly
  <2>2. Deadline \in Nat /\ age \in Nat
    BY <2>1, TypeSplit, DeadlineType DEF FillInv, HistoryType
  <2>3. ASSUME ~timeoutError, timeoutError' PROVE finished
    <3>1. ~SystemReset
      BY <2>3 DEF SystemReset
    <3>2. PICK wait \in BOOLEAN : Tick(wait)
      BY <3>1 DEF Next, Clock
    <3>3. \/ Idle \/ BufferWaiting \/ BufferFetch
          \/ WriteStartState \/ WriteWaiting \/ Finished
      BY <3>2, TickParts DEF Controller
    <3>4. SetError(FALSE) \/ SetError(timeoutError)
      BY <3>3 DEF Idle, BufferWaiting, BufferFetch, WriteStartState, WriteWaiting, Finished
    <3>5. QED
      BY <2>3, <3>4 DEF SetError
  <2>4. ASSUME Busy, job.timeout # 0 PROVE age <= Deadline
    <3>1. CASE delay.trigger
      BY <2>1, <2>2, <3>1 DEF Timing
    <3>2. CASE ~idle
      BY <2>1, <2>2, <3>2, RunningIsYoung
    <3>3. CASE finished
      BY <2>1, <2>2, <3>3 DEF Timing
    <3>4. QED
      BY <2>1, <2>4, <3>1, <3>2, <3>3 DEF Watch
  <2>5. QED
    BY <2>1, <2>3, <2>4 DEF Timing
<1>2. QED
  BY <1>1, PoliteInvariant, PTL DEF Spec, TimeoutOnTime
-----------------------------------------------------------------------------
(* The filler implements the abstract fill job.                            *)

LEMMA WordsType ==
  ASSUME FillInv PROVE Words \in Nat \ {0} /\ Words = More + 1 /\ More \in Nat
<1>1. job.length \in Nat
  BY ConstantsAssumption DEF FillInv, TypeOK, Registers
<1>2. job.length \div WordBytes \in Nat
  BY <1>1, DivBounds, ConstantsAssumption
<1>3. QED
  BY <1>2 DEF Words, More

\* A word the memory takes is one of the fill.
LEMMA WordIsOfJob ==
  ASSUME FillInv, Orderly, Writer!Presenting, cstate \in {"WRITE_WAITING", "FINISHED"}
  PROVE  accepted < Words
<1>1. accepted <= More
  <2>1. CASE cstate = "WRITE_WAITING"
    <3>1. accepted + dataCnt = More
      BY <2>1 DEF FillInv, Filling, NextIsDue, Writer!Presenting, Writer!Done
    <3>2. accepted \in Nat /\ dataCnt \in Nat /\ More \in Nat
      BY WordsType DEF FillInv, TypeOK
    <3>3. QED
      BY <3>1, <3>2
  <2>2. CASE cstate = "FINISHED"
    BY <2>2 DEF Orderly, Freed
  <2>3. QED
    BY <2>1, <2>2
<1>2. accepted \in Nat /\ More \in Nat /\ Words = More + 1
  BY WordsType DEF FillInv, TypeOK
<1>3. QED
  BY <1>1, <1>2

JobStutter == Phase' = Phase /\ Words' = Words /\ accepted' = accepted
JobTakes   == accepted < Words /\ accepted' = accepted + 1

\* Within a fill the total is kept, and a word is taken or not.
LEMMA WithinJob ==
  ASSUME FillInv, Orderly, NEW wait \in BOOLEAN, Tick(wait), ~Started
  PROVE  Words' = Words /\ (accepted' = accepted \/ JobTakes)
<1>1. Words' = Words
  BY DEF Tick, History, Words
<1>2. CASE Accept(wait) /\ cstate \in {"WRITE_WAITING", "FINISHED"}
  BY <1>1, <1>2, WordIsOfJob DEF Tick, History, Accept, JobTakes
<1>3. CASE ~(Accept(wait) /\ cstate \in {"WRITE_WAITING", "FINISHED"})
  BY <1>1, <1>3 DEF Tick, History
<1>4. QED
  BY <1>2, <1>3

LEMMA JobStep ==
  ASSUME FillInv, FillInv', polite, Orderly, NEW wait \in BOOLEAN, Tick(wait)
  PROVE  Job!Next \/ UNCHANGED Job!vars
<1>1. polite /\ polite'
  BY PoliteSlave
<1>2. RestsIdle \/ Starts \/ Works \/ Ends \/ TimesOut \/ RestsFinished
  BY PoliteMoves
<1>3. timeoutError \in BOOLEAN /\ timeoutError' \in BOOLEAN /\ cstate \in States
  BY DEF FillInv, TypeOK
<1>4. ASSUME JobStutter PROVE UNCHANGED Job!vars
  BY <1>1, <1>4 DEF JobStutter, Job!vars
<1>5. CASE RestsIdle
  <2>1. Words' = Words /\ accepted' = accepted
    BY <1>5, NothingTaken DEF RestsIdle, Started, Words
  <2>2. Phase' = Phase
    BY <1>5 DEF RestsIdle, Phase
  <2>3. QED
    BY <1>4, <2>1, <2>2 DEF JobStutter
<1>6. CASE Starts
  <2>1. Phase = "idle" /\ Phase' = "filling" /\ accepted' = 0
    BY <1>6 DEF Starts, Started, Phase, Tick, History
  <2>2. Words' \in Nat \ {0}
    <3>1. job'.length \in Nat
      BY ConstantsAssumption DEF FillInv, TypeOK, Registers
    <3>2. job'.length \div WordBytes \in Nat
      BY <3>1, DivBounds, ConstantsAssumption
    <3>3. QED
      BY <3>2 DEF Words
  <2>3. Job!Begin
    BY <1>1, <2>1, <2>2 DEF Job!Begin
  <2>4. QED
    BY <2>3 DEF Job!Next
<1>7. CASE Works
  <2>1. Phase = "filling" /\ Phase' = "filling" /\ ~Started
    BY <1>7 DEF Works, Busy, Phase, Started
  <2>2. Words' = Words /\ (accepted' = accepted \/ JobTakes)
    BY <2>1, WithinJob
  <2>3. CASE JobTakes
    <3>1. Job!WriteWord
      BY <1>1, <2>1, <2>2, <2>3 DEF Job!WriteWord, Job!Take, JobTakes
    <3>2. QED
      BY <3>1 DEF Job!Next
  <2>4. CASE ~JobTakes
    BY <1>4, <2>1, <2>2, <2>4 DEF JobStutter
  <2>5. QED
    BY <2>3, <2>4
<1>8. CASE Ends
  <2>1. Phase = "filling" /\ Phase' = "done" /\ ~Started
    BY <1>8 DEF Ends, Phase, Started
  <2>2. job' = job /\ accepted' = accepted
    BY <1>8, <2>1, NothingTaken DEF Ends, Writer!Ready, Writer!Done
  <2>3. accepted = Words
    <3>1. accepted + dataCnt = More + 1 /\ dataCnt = 0
      BY <1>8 DEF Ends, FillInv, Filling, Writer!Presenting, Writer!Done
    <3>2. accepted \in Nat /\ Words = More + 1
      BY WordsType DEF FillInv, TypeOK
    <3>3. QED
      BY <3>1, <3>2
  <2>4. Words' = Words
    BY <2>2 DEF Words
  <2>5. Job!Complete
    BY <1>1, <2>1, <2>2, <2>3, <2>4 DEF Job!Complete
  <2>6. QED
    BY <2>5 DEF Job!Next
<1>9. CASE TimesOut
  <2>1. Phase = "filling" /\ Phase' = "failed" /\ ~Started
    BY <1>9 DEF TimesOut, Busy, Phase, Started
  <2>2. Words' = Words /\ (accepted' = accepted \/ JobTakes)
    BY <2>1, WithinJob
  <2>3. Job!Fail
    BY <1>1, <2>1, <2>2 DEF Job!Fail, Job!Take, JobTakes
  <2>4. QED
    BY <2>3 DEF Job!Next
<1>10. CASE RestsFinished
  <2>1. cstate = "FINISHED" /\ ~Started
    BY <1>10 DEF RestsFinished, Started
  <2>2. Words' = Words /\ (accepted' = accepted \/ JobTakes)
    BY <2>1, WithinJob
  <2>3. CASE timeoutError
    <3>1. Phase = "failed" /\ timeoutError'
      BY <1>10, <2>1, <2>3 DEF RestsFinished, Phase
    <3>2. CASE wrReset
      <4>1. Phase' = "idle"
        BY <1>10, <3>2 DEF RestsFinished, Phase
      <4>2. Job!Acknowledge
        BY <1>1, <2>2, <3>1, <4>1 DEF Job!Acknowledge, Job!Take, JobTakes
      <4>3. QED
        BY <4>2 DEF Job!Next
    <3>3. CASE ~wrReset
      <4>1. Phase' = "failed"
        BY <1>10, <3>1, <3>3 DEF RestsFinished, Phase
      <4>2. CASE JobTakes
        <5>1. Job!WriteWord
          BY <1>1, <2>2, <3>1, <4>1, <4>2 DEF Job!WriteWord, Job!Take, JobTakes
        <5>2. QED
          BY <5>1 DEF Job!Next
      <4>3. CASE ~JobTakes
        BY <1>4, <2>2, <3>1, <4>1, <4>3 DEF JobStutter
      <4>4. QED
        BY <4>2, <4>3
    <3>4. QED
      BY <3>2, <3>3
  <2>4. CASE ~timeoutError
    <3>1. Phase = "done" /\ Writer!Ready
      BY <2>1, <2>4 DEF Phase, FillInv, Filling
    <3>2. accepted' = accepted
      BY <2>1, <3>1, NothingTaken
    <3>3. CASE wrReset
      <4>1. Phase' = "idle"
        BY <1>10, <3>3 DEF RestsFinished, Phase
      <4>2. Job!Acknowledge
        BY <1>1, <2>2, <3>1, <3>2, <4>1 DEF Job!Acknowledge
      <4>3. QED
        BY <4>2 DEF Job!Next
    <3>4. CASE ~wrReset /\ finished
      <4>1. Phase' = "failed"
        BY <1>10, <3>4 DEF RestsFinished, Phase
      <4>2. Job!Fail
        BY <1>1, <2>2, <3>1, <3>2, <4>1 DEF Job!Fail
      <4>3. QED
        BY <4>2 DEF Job!Next
    <3>5. CASE ~wrReset /\ ~finished
      <4>1. Phase' = "done"
        BY <1>10, <2>4, <3>5 DEF RestsFinished, Phase
      <4>2. QED
        BY <1>4, <2>2, <3>1, <3>2, <4>1 DEF JobStutter
    <3>6. QED
      BY <3>3, <3>4, <3>5
  <2>5. QED
    BY <2>3, <2>4
<1>11. QED
  BY <1>2, <1>5, <1>6, <1>7, <1>8, <1>9, <1>10

\* To polite software the filler is the abstract job: a fill that is reported
\* done has written every word once, and one that failed no word too many.
THEOREM FillerImplementsJob == Spec => Implements
<1>1. Init => Job!Init
  <2> SUFFICES ASSUME Init PROVE Job!Init
    OBVIOUS
  <2>1. Words \in Nat
    BY FillInit, WordsType
  <2>2. Phase = "idle" /\ accepted = 0
    BY DEF Init, Phase
  <2>3. QED
    BY <2>1, <2>2 DEF Job!Init
<1>2. PoliteInv /\ PoliteInv' /\ [Next]_vars => [Job!Next]_(Job!vars)
  <2> SUFFICES ASSUME PoliteInv, PoliteInv', [Next]_vars
               PROVE  Job!Next \/ UNCHANGED Job!vars
    OBVIOUS
  <2>1. polite' = polite
    BY DEF Next, Clock, Tick, Slave, SystemReset, vars, slaveVars
  <2>2. CASE ~polite
    BY <2>1, <2>2 DEF Job!vars
  <2>3. CASE polite /\ Clock
    BY <2>3, JobStep DEF Clock, PoliteInv
  <2>4. CASE polite /\ SystemReset
    <3>1. Phase' = "idle" /\ accepted' = 0
      BY <2>4 DEF SystemReset, Phase
    <3>2. Words' \in Nat
      <4>1. job'.length \in Nat
        BY ConstantsAssumption DEF PoliteInv, FillInv, TypeOK, Registers
      <4>2. job'.length \div WordBytes \in Nat
        BY <4>1, DivBounds, ConstantsAssumption
      <4>3. QED
        BY <4>2 DEF Words
    <3>3. Job!Reset
      BY <2>1, <2>4, <3>1, <3>2 DEF Job!Reset
    <3>4. QED
      BY <3>3 DEF Job!Next
  <2>5. CASE UNCHANGED vars
    BY <2>5 DEF vars, slaveVars, ctrlVars, histVars, Job!vars, Phase, Words
  <2>6. QED
    BY <2>2, <2>3, <2>4, <2>5 DEF Next
<1>3. QED
  BY <1>1, <1>2, PoliteInvariant, PTL DEF Spec, Implements, Job!Spec
=============================================================================
