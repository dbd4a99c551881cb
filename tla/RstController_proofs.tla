----------------------- MODULE RstController_proofs -----------------------
(***************************************************************************)
(* Proofs about the reset controller, for every length of the two phases,  *)
(* every counter width and every number of pushes of the reset switch.     *)
(*                                                                         *)
(*   TypeCorrect          the type invariant                               *)
(*   CountCorrect         a release is counted once                        *)
(*   CommandsNotLost      the watchdog is armed as commanded, timer kept   *)
(*   PhasesLast           the two phases last as long as they should       *)
(*   ReleaseIsSafe        software prompt by 4 clocks is never held again  *)
(*   ImplementsSupervisor safety part of the refinement                    *)
(***************************************************************************)
EXTENDS RstController, TLAPS

\* A bus access belongs to a driver function: Modify is applied to no other.
TypeInv == TypeOK /\ (bus # "idle" => call # "none")

LEMMA ModifyType ==
  ASSUME NEW w \in Word, NEW c \in Calls \cup {"ClearOff"}
  PROVE  Modify(c, w) \in Word
BY DEF Modify, Word, Calls

LEMMA PredType ==
  ASSUME NEW n \in 0..TimerMax PROVE Pred(n) \in 0..TimerMax
BY ConstantsAssumption DEF Pred

LEMMA IncType ==
  ASSUME NEW n \in 0..(CountMod - 1) PROVE Inc(n) \in 0..(CountMod - 1)
BY ConstantsAssumption DEF Inc

LEMMA ZeroType == ZeroWord \in Word
BY ConstantsAssumption DEF ZeroWord, Word

LEMMA InitType == Init => TypeInv
<1> SUFFICES ASSUME Init PROVE TypeInv
  OBVIOUS
<1>1. reg \in [reset : BOOLEAN, clr : BOOLEAN, timer : 0..TimerMax]
  <2>1. Timer \in 0..TimerMax
    BY ConstantsAssumption
  <2>2. QED
    BY <2>1 DEF Init
<1>2. /\ 0 \in 0..TimerMax /\ 0 \in 0..(CountMod - 1) /\ 0 \in 0..MaxPushes
      /\ 0 \in Nat
  BY ConstantsAssumption
<1>3. QED
  BY <1>1, <1>2, ZeroType DEF Init, TypeInv, TypeOK, Calls

LEMMA PushType == TypeInv /\ PushReset => TypeInv'
<1> SUFFICES ASSUME TypeInv, PushReset PROVE TypeInv'
  OBVIOUS
<1>1. reg' \in [reset : BOOLEAN, clr : BOOLEAN, timer : 0..TimerMax]
  <2>1. Timer \in 0..TimerMax
    BY ConstantsAssumption
  <2>2. QED
    BY <2>1 DEF PushReset, TypeInv, TypeOK
<1>2. pushes' \in 0..MaxPushes /\ counter' \in 0..TimerMax /\ since' \in Nat
  BY ConstantsAssumption DEF PushReset, TypeInv, TypeOK
<1>3. QED
  BY <1>1, <1>2, ZeroType DEF PushReset, CpuReset, TypeInv, TypeOK, Calls

LEMMA SystemType ==
  ASSUME TypeInv, System
  PROVE  /\ bus' \in {"idle", "read", "write"}
         /\ call' \in Calls \cup {"none", "ClearOff"}
         /\ data' \in Word
         /\ bus' # "idle" => call' # "none"
<1>1. CASE CpuReset
  BY <1>1, ConstantsAssumption DEF CpuReset, ZeroWord, Word
<1>2. CASE CpuReads
  BY <1>2, ModifyType DEF CpuReads, TypeInv, TypeOK, Calls
<1>3. CASE CpuClears
  BY <1>3, ModifyType DEF CpuClears, TypeInv, TypeOK, Calls
<1>4. CASE CpuWorks \/ CpuCalls \/ CpuWaits \/ CpuWrites \/ CpuReturns
  BY <1>4, <1>1
     DEF CpuWorks, CpuCalls, CpuWaits, CpuWrites, CpuReturns, BusFree,
         cpuVars, TypeInv, TypeOK, Calls
<1>5. QED
  BY <1>1, <1>2, <1>3, <1>4 DEF System, Cpu

LEMMA ClockType == TypeInv /\ Clock => TypeInv'
<1> SUFFICES ASSUME TypeInv, Clock PROVE TypeInv'
  OBVIOUS
<1> USE ConstantsAssumption
<1>1. delayed' \in BOOLEAN /\ start' \in BOOLEAN /\ stop' \in BOOLEAN
      /\ active' \in BOOLEAN
  BY DEF TypeInv, TypeOK, Clock, Commands, RisingEdge, FallingEdge
<1>2. delay' \in BOOLEAN /\ counter' \in 0..TimerMax /\ signal' \in BOOLEAN
  <2>1. CASE Expire
    BY <2>1, PredType DEF Expire, TypeInv, TypeOK
  <2>2. CASE CountDown
    BY <2>2 DEF CountDown, TypeInv, TypeOK
  <2>3. CASE NotCounting
    BY <2>3, PredType DEF NotCounting, TypeInv, TypeOK
  <2>4. QED
    BY <2>1, <2>2, <2>3 DEF Clock, Watchdog
<1>3. cnt' \in 0..(CountMod - 1)
  BY IncType DEF TypeInv, TypeOK, Clock, CountReleases
<1>4. /\ reg' \in [reset : BOOLEAN, clr : BOOLEAN, timer : 0..TimerMax]
      /\ rs232' \in BOOLEAN /\ ack' \in BOOLEAN
  BY DEF TypeInv, TypeOK, Clock, SlaveWrite, Word
<1>5. readdata' \in Word
  <2>1. [ZeroWord EXCEPT !.dev = rs232] \in Word
    BY ZeroType DEF TypeInv, TypeOK, Word
  <2>2. [reset |-> reg.reset, clr |-> reg.clr, timer |-> reg.timer,
         dev |-> FALSE] \in Word
    BY DEF TypeInv, TypeOK, Word
  <2>3. QED
    BY <2>1, <2>2, ZeroType DEF Clock, SlaveRead
<1>6. releases' \in 0..(CountMod - 1) /\ since' \in Nat /\ late' \in BOOLEAN
  BY IncType DEF TypeInv, TypeOK, Clock, History, Min2, SinceMax
<1>7. pushes' \in 0..MaxPushes
  BY DEF TypeInv, TypeOK, Clock
<1>8. System
  BY DEF Clock
<1>9. QED
  BY <1>1, <1>2, <1>3, <1>4, <1>5, <1>6, <1>7, <1>8, SystemType
     DEF TypeInv, TypeOK

LEMMA TypeInvariant == Spec => []TypeInv
<1>1. TypeInv /\ UNCHANGED vars => TypeInv'
  BY DEF TypeInv, TypeOK, vars, regVars, ctrlVars, cpuVars, histVars
<1>2. TypeInv /\ [Next]_vars => TypeInv'
  BY <1>1, PushType, ClockType DEF Next
<1>3. QED
  BY InitType, <1>2, PTL DEF Spec

\* Every variable keeps its type, whatever the phase lengths and the order
\* of driver calls, resets and pushes of the switch; in particular the phase
\* counter stays within its 30 bits and the release counter within 31.
THEOREM TypeCorrect == Spec => []TypeOK
<1>1. TypeInv => TypeOK
  BY DEF TypeInv
<1>2. QED
  BY <1>1, TypeInvariant, PTL
-----------------------------------------------------------------------------
\* The release counter counts every release exactly once, although the slave
\* performs each write twice: the pending edge is the only difference between
\* the counter and the number of releases.
THEOREM CountCorrect == Spec => []CountsReleases
<1>1. Init => CountsReleases
  BY DEF Init, CountsReleases, FallingEdge
<1>2. TypeInv /\ CountsReleases /\ [Next]_vars => CountsReleases'
  <2> SUFFICES ASSUME TypeInv, CountsReleases, [Next]_vars
               PROVE  CountsReleases'
    OBVIOUS
  <2>1. CASE PushReset
    BY <2>1 DEF PushReset, CountsReleases, FallingEdge
  <2>2. CASE Clock
    <3>1. FallingEdge' = ReleaseWritten
      BY <2>2 DEF Clock, Commands, FallingEdge, ReleaseWritten, TypeInv, TypeOK
    <3>2. CASE reg.clr
      BY <2>2, <3>1, <3>2 DEF Clock, CountReleases, History, CountsReleases, Inc
    <3>3. CASE ~reg.clr
      <4>1. cnt' = releases
        BY <2>2, <3>3 DEF Clock, CountReleases, CountsReleases
      <4>2. releases' = IF ReleaseWritten THEN Inc(releases) ELSE releases
        BY <2>2, <3>3 DEF Clock, History
      <4>3. QED
        BY <3>1, <4>1, <4>2 DEF CountsReleases, Inc
    <3>4. QED
      BY <3>2, <3>3
  <2>3. CASE UNCHANGED vars
    BY <2>3 DEF vars, regVars, ctrlVars, histVars, CountsReleases, FallingEdge, Inc
  <2>4. QED
    BY <2>1, <2>2, <2>3 DEF Next
<1>3. QED
  BY <1>1, <1>2, TypeInvariant, PTL DEF Spec
-----------------------------------------------------------------------------
(* Why no command is lost.  An edge of the control bit takes two clocks to *)
(* be obeyed: one to become a pulse, one to be taken.  The bit changes only*)
(* on the first clock of a write, and the second clock of the write and    *)
(* the pause before the next access are just long enough.                  *)

Edge  == reg.reset # delayed
Pulse == start \/ stop

\* What the driver is about to write back, while it holds a register's value.
DataKept ==
  (call \notin DeviceCalls \cup {"none"} /\ bus # "read") =>
    /\ data.timer = Timer
    /\ call = "Release" => ~data.reset
    /\ call = "Hold" => data.reset
    /\ call \in {"Clear", "ClearOff"} => data.reset = reg.reset
    /\ (bus = "write" /\ ack) => data.reset = reg.reset

ReadKept ==
  (bus = "read" /\ ack /\ call \notin DeviceCalls) =>
    readdata.reset = reg.reset /\ readdata.timer = reg.timer

\* A CPU in reset presents nothing.
HeldCpuIdle == signal => bus = "idle" /\ call = "none"

EdgeFresh ==
  Edge => /\ ~Pulse /\ active = delayed
          /\ \/ bus = "write" /\ ack /\ call \in {"Release", "Hold"}
             \/ bus = "idle" /\ call = "none" /\ (ack \/ signal)

PulseTrue ==
  /\ start => reg.reset /\ delayed /\ ~stop /\ ~active
  /\ stop => ~reg.reset /\ ~delayed /\ ~start /\ active
  /\ Pulse => bus = "idle" /\ call = "none"

CommandInv ==
  /\ TypeInv /\ TimerKept /\ DataKept /\ ReadKept /\ HeldCpuIdle
  /\ EdgeFresh /\ PulseTrue /\ ArmedAsCommanded
LEMMA CommandInit == Init => CommandInv
<1> SUFFICES ASSUME Init PROVE CommandInv
  OBVIOUS
<1>1. reg.reset = TRUE /\ reg.timer = Timer
  BY DEF Init
<1>2. QED
  BY <1>1, InitType
     DEF Init, CommandInv, TimerKept, DataKept, ReadKept, HeldCpuIdle,
         EdgeFresh, PulseTrue, Edge, Pulse, ArmedAsCommanded

LEMMA CommandPush == CommandInv /\ PushReset => CommandInv'
<1> SUFFICES ASSUME CommandInv, PushReset PROVE CommandInv'
  OBVIOUS
<1>1. reg'.reset = TRUE /\ reg'.timer = Timer
  BY DEF PushReset
<1>2. TypeInv'
  BY PushType DEF CommandInv
<1>3. QED
  BY <1>1, <1>2
     DEF PushReset, CpuReset, CommandInv, TimerKept, DataKept, ReadKept,
         HeldCpuIdle, EdgeFresh, PulseTrue, Edge, Pulse, ArmedAsCommanded

\* A clock writes the register only if a write is presented.
LEMMA RegisterStep ==
  ASSUME TypeInv, Clock
  PROVE  IF bus = "write" /\ call \notin DeviceCalls
         THEN reg'.reset = data.reset /\ reg'.timer = data.timer
         ELSE reg' = reg
BY DEF Clock, SlaveWrite

LEMMA DataStep == ASSUME CommandInv, Clock PROVE DataKept'
<1> SUFFICES ASSUME call' \notin DeviceCalls \cup {"none"}, bus' # "read"
             PROVE  DataKept'
  BY DEF DataKept
<1> USE DEF CommandInv
<1>1. ack' = (bus # "idle")
  BY DEF Clock, SlaveWrite
<1>2. Cpu
  BY DEF Clock, System, CpuReset
<1>3. CASE CpuReads
  <2>1. bus = "read" /\ ack /\ call' = call /\ bus' = "idle" /\ reg' = reg
    BY <1>3, RegisterStep DEF CpuReads
  <2>2. data' = Modify(call, readdata) /\ readdata \in Word
    BY <1>3 DEF CpuReads, TypeInv, TypeOK
  <2>3. readdata.timer = Timer /\ readdata.reset = reg.reset
    BY <2>1 DEF ReadKept, TimerKept
  <2>4. call \in {"Release", "Hold", "Clear", "ClearOff"}
    BY <2>1 DEF TypeInv, TypeOK, Calls, DeviceCalls
  <2>5. /\ data'.timer = Timer
        /\ call = "Release" => ~data'.reset
        /\ call = "Hold" => data'.reset
        /\ call \in {"Clear", "ClearOff"} => data'.reset = reg.reset
    BY <2>2, <2>3, <2>4 DEF Modify, Word
  <2>6. QED
    BY <2>1, <2>5 DEF DataKept
<1>4. CASE CpuClears
  <2>1. /\ bus = "write" /\ ack /\ call = "Clear" /\ call' = "ClearOff"
        /\ bus' = "idle" /\ data' = [data EXCEPT !.clr = FALSE]
    BY <1>4 DEF CpuClears, Modify
  <2>2. data \in Word /\ data.timer = Timer /\ data.reset = reg.reset
    BY <2>1 DEF DataKept, TypeInv, TypeOK, DeviceCalls
  <2>3. data'.timer = Timer /\ data'.reset = reg.reset
    BY <2>1, <2>2 DEF Word
  <2>4. reg'.reset = reg.reset
    BY <2>1, <2>2, RegisterStep DEF DeviceCalls
  <2>5. QED
    BY <2>1, <2>3, <2>4 DEF DataKept
<1>5. CASE CpuWorks \/ CpuWrites
  <2>1. bus = "idle" /\ call' = call /\ data' = data /\ reg' = reg /\ ~ack'
    BY <1>1, <1>5, RegisterStep DEF CpuWorks, CpuWrites, BusFree, cpuVars
  <2>2. QED
    BY <2>1 DEF DataKept
<1>6. CASE CpuWaits
  <2>1. bus # "idle" /\ call' = call /\ data' = data /\ bus' = bus
    BY <1>6 DEF CpuWaits, cpuVars
  <2>2. bus = "write" /\ call \notin DeviceCalls
    BY <2>1 DEF TypeInv, TypeOK
  <2>3. reg'.reset = data.reset
    BY <2>2, RegisterStep
  <2>4. QED
    BY <2>1, <2>2, <2>3 DEF DataKept
<1>7. CASE CpuCalls \/ CpuReturns
  BY <1>7 DEF CpuCalls, CpuReturns, CpuReset
<1>8. QED
  BY <1>2, <1>3, <1>4, <1>5, <1>6, <1>7 DEF Cpu

LEMMA ReadStep == ASSUME CommandInv, Clock PROVE ReadKept'
<1> SUFFICES ASSUME bus' = "read", ack', call' \notin DeviceCalls
             PROVE  readdata'.reset = reg'.reset /\ readdata'.timer = reg'.timer
  BY DEF ReadKept
<1>1. bus # "idle"
  BY DEF Clock, SlaveWrite
<1>2. bus = "read" /\ call' = call
  BY <1>1 DEF Clock, System, Cpu, CpuReset, CpuWorks, CpuCalls, CpuWaits,
              CpuReads, CpuWrites, CpuReturns, CpuClears, BusFree, cpuVars
<1>3. reg' = reg
  BY <1>2, RegisterStep DEF CommandInv
<1>4. QED
  BY <1>2, <1>3 DEF Clock, SlaveRead

LEMMA CommandClock == CommandInv /\ Clock => CommandInv'
<1> SUFFICES ASSUME CommandInv, Clock PROVE CommandInv'
  OBVIOUS
<1> USE DEF CommandInv
<1>1. TypeInv'
  BY ClockType
<1>2. DataKept' /\ ReadKept'
  BY DataStep, ReadStep
<1>3. HeldCpuIdle'
  BY DEF HeldCpuIdle, Clock, System, CpuReset
<1>4. TimerKept'
  <2>1. CASE bus = "write" /\ call \notin DeviceCalls
    <3>1. call # "none" /\ data.timer = Timer
      BY <2>1 DEF TypeInv, DataKept
    <3>2. QED
      BY <2>1, <3>1, RegisterStep DEF TimerKept
  <2>2. CASE ~(bus = "write" /\ call \notin DeviceCalls)
    BY <2>2, RegisterStep DEF TimerKept
  <2>3. QED
    BY <2>1, <2>2
<1>5. /\ delayed' = reg.reset /\ ack' = (bus # "idle")
      /\ active' = (start \/ (active /\ ~stop))
      /\ start' = (reg.reset /\ ~delayed /\ ~start /\ ~stop)
      /\ stop' = (~reg.reset /\ delayed /\ ~start /\ ~stop)
  BY DEF Clock, Commands, SlaveWrite, RisingEdge, FallingEdge
<1>6. CpuReset \/ Cpu
  BY DEF Clock, System
<1>7. /\ reg.reset \in BOOLEAN /\ reg'.reset \in BOOLEAN
      /\ delayed \in BOOLEAN /\ start \in BOOLEAN /\ stop \in BOOLEAN
      /\ active \in BOOLEAN
  BY <1>1 DEF TypeInv, TypeOK
<1>8. CASE Edge
  <2>1. ~Pulse /\ active = delayed
    BY <1>8 DEF EdgeFresh
  <2>2. reg'.reset = reg.reset
    <3>1. CASE bus = "write" /\ call \notin DeviceCalls
      BY <1>8, <3>1, RegisterStep DEF EdgeFresh, DataKept
    <3>2. CASE ~(bus = "write" /\ call \notin DeviceCalls)
      BY <3>2, RegisterStep
    <3>3. QED
      BY <3>1, <3>2
  <2>3. bus' = "idle" /\ call' = "none"
    BY <1>6, <1>8
       DEF EdgeFresh, System, Clock, Cpu, CpuReset, CpuWorks, CpuCalls,
           CpuWaits, CpuReads, CpuWrites, CpuReturns, CpuClears, BusFree,
           cpuVars
  <2>4. EdgeFresh' /\ PulseTrue' /\ ArmedAsCommanded'
    BY <1>5, <1>7, <1>8, <2>1, <2>2, <2>3
       DEF EdgeFresh, PulseTrue, ArmedAsCommanded, Edge, Pulse
  <2>5. QED
    BY <1>1, <1>2, <1>3, <1>4, <2>4
<1>9. CASE Pulse
  <2>1. bus = "idle"
    BY <1>9 DEF PulseTrue
  <2>2. reg' = reg
    BY <2>1, RegisterStep
  <2>3. EdgeFresh' /\ PulseTrue' /\ ArmedAsCommanded'
    BY <1>5, <1>7, <1>9, <2>2
       DEF EdgeFresh, PulseTrue, ArmedAsCommanded, Edge, Pulse
  <2>4. QED
    BY <1>1, <1>2, <1>3, <1>4, <2>3
<1>10. CASE ~Edge /\ ~Pulse
  <2>1. active' = active /\ active = reg.reset /\ ~start' /\ ~stop'
    BY <1>5, <1>7, <1>10 DEF ArmedAsCommanded, Edge, Pulse
  <2>2. CASE reg'.reset = reg.reset
    BY <1>1, <1>2, <1>3, <1>4, <1>5, <1>7, <2>1, <2>2
       DEF EdgeFresh, PulseTrue, ArmedAsCommanded, Edge, Pulse
  <2>3. CASE reg'.reset # reg.reset
    <3>1. bus = "write" /\ call \notin DeviceCalls /\ data.reset # reg.reset
      BY <2>3, RegisterStep
    <3>2. ~ack /\ call \in {"Release", "Hold"}
      BY <3>1 DEF DataKept, TypeInv, TypeOK, Calls, DeviceCalls
    <3>3. \/ bus' = "write" /\ call' = call
          \/ bus' = "idle" /\ call' = "none"
      BY <1>6, <3>1, <3>2
         DEF Cpu, CpuReset, CpuWorks, CpuCalls, CpuWaits, CpuReads,
             CpuWrites, CpuReturns, CpuClears, BusFree, cpuVars
    <3>4. EdgeFresh' /\ PulseTrue' /\ ArmedAsCommanded'
      BY <1>5, <1>7, <2>1, <2>3, <3>1, <3>2, <3>3
         DEF EdgeFresh, PulseTrue, ArmedAsCommanded, Edge, Pulse
    <3>5. QED
      BY <1>1, <1>2, <1>3, <1>4, <3>4
  <2>4. QED
    BY <2>2, <2>3
<1>11. QED
  BY <1>8, <1>9, <1>10

LEMMA CommandInvariant == Spec => []CommandInv
<1>1. CommandInv /\ UNCHANGED vars => CommandInv'
  BY DEF CommandInv, TypeInv, TypeOK, TimerKept, DataKept, ReadKept,
         HeldCpuIdle, EdgeFresh, PulseTrue, Edge, Pulse, ArmedAsCommanded,
         vars, regVars, ctrlVars, cpuVars, histVars
<1>2. CommandInv /\ [Next]_vars => CommandInv'
  BY <1>1, CommandPush, CommandClock DEF Next
<1>3. QED
  BY CommandInit, <1>2, PTL DEF Spec

\* Whenever the edge detector and its pulses are at rest the watchdog counts
\* exactly if the register asks for it, and the driver never changes the
\* timer: no sequence of driver calls, watchdog resets and switch pushes
\* makes the controller miss a command.
THEOREM CommandsNotLost == Spec => [](ArmedAsCommanded /\ TimerKept)
<1>1. CommandInv => ArmedAsCommanded /\ TimerKept
  BY DEF CommandInv
<1>2. QED
  BY <1>1, CommandInvariant, PTL

\* No read-modify-write of the driver changes the timer of the reset register,
\* wherever a reset cuts it off (reset.c:22-58).
THEOREM TimerIsKept == Spec => []TimerKept
BY CommandsNotLost, PTL
-----------------------------------------------------------------------------
(* How long a phase lasts: the clocks behind it and those left on the      *)
(* counter add up, whatever the software writes meanwhile.                 *)

RunTimes == (active /\ ~delay) => ~signal /\ since + counter >= RunTime

\* A system in reset is on its way to counting (after a power reset), is
\* counting, or has been released too late and stays.
HeldTimes ==
  signal =>
    /\ (reg.reset /\ ~delayed) => since = 0
    /\ start => since = 1
    /\ active => delay /\ since + counter \in Timer..(Timer + 1)

PhaseInv == CommandInv /\ RunTimes /\ HeldTimes

\* The watchdog only changes the output where its counter expires.
LEMMA OnlyExpires ==
  ASSUME Clock, CommandInv, signal' # signal
  PROVE  /\ Expire /\ signal' = ~delay
         /\ since' = 1 /\ ~start /\ ~start'
         /\ active' = ~stop /\ delayed' = reg.reset
<1>1. Expire /\ since' = 1
  BY DEF Clock, Watchdog, CountDown, NotCounting, History
<1>2. active /\ signal' = ~delay
  BY <1>1 DEF Expire
<1>3. ~start
  BY <1>2 DEF CommandInv, PulseTrue
<1>4. active' = ~stop /\ delayed' = reg.reset /\ start' = (RisingEdge /\ ~start /\ ~stop)
  BY <1>2, <1>3 DEF Clock, Commands, CommandInv, TypeInv, TypeOK
<1>5. ~RisingEdge
  BY <1>2 DEF RisingEdge, CommandInv, EdgeFresh, Edge, TypeInv, TypeOK
<1>6. QED
  BY <1>1, <1>2, <1>3, <1>4, <1>5

LEMMA RunTimesStep ==
  ASSUME PhaseInv, Clock
  PROVE  RunTimes'
<1> SUFFICES ASSUME active', ~delay' PROVE ~signal' /\ since' + counter' >= RunTime
  BY DEF RunTimes
<1> USE ConstantsAssumption
<1>1. /\ since \in Nat /\ counter \in 0..TimerMax /\ signal \in BOOLEAN /\ delay \in BOOLEAN
      /\ active \in BOOLEAN
  BY DEF PhaseInv, CommandInv, TypeInv, TypeOK
<1>2. active' = (start \/ (active /\ ~stop))
  BY DEF Clock, Commands
<1>3. SinceMax \in Nat /\ SinceMax >= RunTime
  BY DEF SinceMax
<1>4. since' = IF signal' # signal THEN 1 ELSE Min2(since + 1, SinceMax)
  BY DEF Clock, History
<1>5. CASE Expire
  <2>1. delay /\ ~signal' /\ counter' = RunTime - 1
    BY <1>1, <1>5 DEF Expire
  <2>2. since' >= 1 /\ since' \in Nat
    BY <1>1, <1>3, <1>4 DEF Min2, SinceMax
  <2>3. since' + counter' >= RunTime
    <3>1. \A s \in Nat : s >= 1 => s + (RunTime - 1) >= RunTime
      OBVIOUS
    <3>2. counter' = RunTime - 1
      BY <2>1
    <3>3. QED
      BY <2>2, <3>1, <3>2
  <2>4. QED
    BY <2>1, <2>3
<1>6. CASE CountDown
  <2>1. active /\ ~delay /\ signal' = signal /\ counter' = counter - 1 /\ counter # 0
    BY <1>1, <1>2, <1>6 DEF CountDown
  <2>2. ~signal /\ since + counter >= RunTime
    BY <2>1 DEF PhaseInv, RunTimes
  <2>3. since' = Min2(since + 1, SinceMax)
    BY <1>4, <2>1
  <2>4. QED
    BY <1>1, <1>3, <2>1, <2>2, <2>3 DEF Min2
<1>7. CASE NotCounting
  BY <1>2, <1>7 DEF NotCounting
<1>8. QED
  BY <1>5, <1>6, <1>7 DEF Clock, Watchdog

LEMMA HeldTimesStep ==
  ASSUME PhaseInv, Clock
  PROVE  HeldTimes'
<1> SUFFICES ASSUME signal'
             PROVE  /\ (reg'.reset /\ ~delayed') => since' = 0
                    /\ start' => since' = 1
                    /\ active' => delay' /\ since' + counter' \in Timer..(Timer + 1)
  BY DEF HeldTimes
<1> USE ConstantsAssumption
<1>1. /\ since \in Nat /\ counter \in 0..TimerMax /\ signal \in BOOLEAN /\ delay \in BOOLEAN
      /\ active \in BOOLEAN /\ reg.timer = Timer /\ CommandInv /\ Pred(reg.timer) = Timer - 1
  BY DEF PhaseInv, CommandInv, TypeInv, TypeOK, TimerKept, Pred
<1>2. /\ delayed' = reg.reset /\ start' = (RisingEdge /\ ~start /\ ~stop)
      /\ active' = (start \/ (active /\ ~stop))
  BY DEF Clock, Commands
<1>3. CASE ~signal
  <2>1. /\ Expire /\ ~delay /\ since' = 1 /\ ~start'
    BY <1>1, <1>3, OnlyExpires
  <2>2. active /\ delay' /\ counter' = Timer - 1
    BY <1>1, <2>1 DEF Expire
  <2>3. ~(reg'.reset /\ ~delayed')
    <3>1. CASE reg.reset
      BY <1>2, <3>1
    <3>2. CASE ~reg.reset /\ bus = "write" /\ call \notin DeviceCalls
      <4>1. reg'.reset = data.reset
        BY <3>2, RegisterStep DEF PhaseInv, CommandInv
      <4>2. Edge
        <5>1. CASE Pulse
          BY <3>2, <5>1 DEF PhaseInv, CommandInv, PulseTrue
        <5>2. CASE ~Pulse
          BY <2>2, <3>2, <5>2
             DEF PhaseInv, CommandInv, ArmedAsCommanded, Edge, Pulse, TypeInv, TypeOK
        <5>3. QED
          BY <5>1, <5>2
      <4>3. ack /\ ~data.reset
        BY <3>2, <4>2 DEF PhaseInv, CommandInv, EdgeFresh, DataKept, DeviceCalls
      <4>4. QED
        BY <4>1, <4>3
    <3>3. CASE ~reg.reset /\ ~(bus = "write" /\ call \notin DeviceCalls)
      BY <3>3, RegisterStep DEF PhaseInv, CommandInv
    <3>4. QED
      BY <3>1, <3>2, <3>3
  <2>4. QED
    BY <2>1, <2>2, <2>3
<1>4. CASE signal
  <2>1. /\ (reg.reset /\ ~delayed) => since = 0
        /\ start => since = 1
        /\ active => delay /\ since + counter \in Timer..(Timer + 1)
    BY <1>4 DEF PhaseInv, HeldTimes
  <2>2. since' = Min2(since + 1, SinceMax)
    BY <1>4 DEF Clock, History
  <2>3. since + 1 <= Timer + 1 => since' = since + 1
    BY <1>1, <2>2 DEF Min2, SinceMax
  <2>4. reg' = reg
    BY <1>4, RegisterStep DEF PhaseInv, CommandInv, HeldCpuIdle
  <2>5. ~(reg'.reset /\ ~delayed')
    BY <1>2, <2>4
  <2>6. start' => since' = 1
    <3>1. start' => reg.reset /\ ~delayed
      BY <1>2, Zenon DEF RisingEdge
    <3>2. since = 0 => since' = 1
      BY <2>3, ConstantsAssumption
    <3>3. QED
      BY <2>1, <3>1, <3>2
  <2>7. ASSUME active' PROVE delay' /\ since' + counter' \in Timer..(Timer + 1)
    <3>1. CASE Expire
      BY <1>1, <1>4, <2>1, <3>1 DEF Expire
    <3>2. CASE CountDown
      <4>1. active /\ counter' = counter - 1 /\ counter # 0 /\ delay' = (start \/ (delay /\ ~stop))
        BY <3>2 DEF CountDown
      <4>2. delay /\ since + counter \in Timer..(Timer + 1)
        BY <2>1, <4>1
      <4>3. since' = since + 1
        BY <1>1, <2>3, <4>1, <4>2
      <4>4. since' + counter' \in Timer..(Timer + 1)
        BY <1>1, <4>1, <4>2, <4>3
      <4>5. delay'
        BY <1>2, <2>7, <4>1, <4>2
      <4>6. QED
        BY <4>4, <4>5
    <3>3. CASE NotCounting
      <4>1. start /\ delay' /\ counter' = Timer - 1
        BY <1>1, <1>2, <2>7, <3>3 DEF NotCounting
      <4>2. since' = 2
        BY <2>1, <2>3, <4>1
      <4>3. QED
        BY <4>1, <4>2
    <3>4. QED
      BY <3>1, <3>2, <3>3 DEF Clock, Watchdog
  <2>8. QED
    BY <2>5, <2>6, <2>7
<1>5. QED
  BY <1>1, <1>3, <1>4

LEMMA PhaseInvariant == Spec => []PhaseInv
<1>1. Init => PhaseInv
  <2> SUFFICES ASSUME Init PROVE PhaseInv
    OBVIOUS
  <2>1. CommandInv
    BY CommandInit
  <2>2. RunTimes /\ HeldTimes
    BY DEF Init, RunTimes, HeldTimes
  <2>3. QED
    BY <2>1, <2>2 DEF PhaseInv
<1>2. PhaseInv /\ [Next]_vars => PhaseInv'
  <2> SUFFICES ASSUME PhaseInv, [Next]_vars PROVE PhaseInv'
    OBVIOUS
  <2>1. CASE Clock
    BY <2>1, CommandClock, RunTimesStep, HeldTimesStep DEF PhaseInv
  <2>2. CASE PushReset
    <3>1. CommandInv'
      BY <2>2, CommandPush DEF PhaseInv
    <3>2. RunTimes' /\ HeldTimes'
      BY <2>2 DEF PushReset, RunTimes, HeldTimes
    <3>3. QED
      BY <3>1, <3>2 DEF PhaseInv
  <2>3. CASE UNCHANGED vars
    <3>1. CommandInv'
      BY <2>3 DEF PhaseInv, CommandInv, TypeInv, TypeOK, TimerKept,
           DataKept, ReadKept, HeldCpuIdle, EdgeFresh, PulseTrue, Edge, Pulse,
           ArmedAsCommanded, vars, regVars, ctrlVars, cpuVars, histVars
    <3>2. QED
      BY <2>3, <3>1 DEF PhaseInv, RunTimes, HeldTimes,
           vars, regVars, ctrlVars, cpuVars, histVars
  <2>4. QED
    BY <2>1, <2>2, <2>3 DEF Next
<1>3. QED
  BY <1>1, <1>2, PTL DEF Spec

\* The two comments of the controller, for every length of the two phases and
\* with no assumption on when the software writes what: a system that was let
\* run runs for RunTime clocks before it is reset again, and one that is let
\* go was held for Timer clocks, two more after a power reset.
THEOREM PhasesLast == Spec => PhaseLengths
<1>1. PhaseInv /\ [Next]_vars
      => [pushes' = pushes =>
            /\ (~signal /\ signal') => since >= RunTime
            /\ (signal /\ ~signal') => since \in Timer..(Timer + 1)]_vars
  <2> SUFFICES ASSUME PhaseInv, Next, pushes' = pushes, signal' # signal
               PROVE  /\ (~signal /\ signal') => since >= RunTime
                      /\ (signal /\ ~signal') => since \in Timer..(Timer + 1)
    OBVIOUS
  <2>1. CommandInv /\ since \in Nat /\ pushes \in Nat
    BY ConstantsAssumption DEF PhaseInv, CommandInv, TypeInv, TypeOK
  <2>2. Clock
    BY <2>1 DEF Next, PushReset
  <2>3. active /\ counter = 0 /\ signal' = ~delay
    BY <2>1, <2>2, OnlyExpires DEF Expire
  <2>4. (~signal /\ signal') => since >= RunTime
    <3>1. ~delay => since + counter >= RunTime
      BY <2>3 DEF PhaseInv, RunTimes
    <3>2. signal' => ~delay
      BY <2>3, Zenon
    <3>3. since + counter = since
      BY <2>1, <2>3
    <3>4. QED
      BY <3>1, <3>2, <3>3
  <2>5. (signal /\ ~signal') => since \in Timer..(Timer + 1)
    <3>1. signal => since + counter \in Timer..(Timer + 1)
      BY <2>3 DEF PhaseInv, HeldTimes
    <3>2. QED
      BY <2>1, <2>3, <3>1
  <2>6. QED
    BY <2>4, <2>5
<1>2. QED
  BY <1>1, PhaseInvariant, PTL DEF Spec, PhaseLengths
-----------------------------------------------------------------------------
(* Why a prompt release is safe.  From the clock the release is presented  *)
(* to the clock its stop pulse is taken there are three, and the running   *)
(* phase must not end on any of them.                                      *)

Margin(n) == (active /\ ~delay) => counter >= n

ReleaseMargin ==
  /\ (bus = "write" /\ call = "Release" /\ reg.reset) => Margin(3)
  /\ (~reg.reset /\ delayed) => Margin(2)
  /\ stop => Margin(1)

Running == ~reg.reset => ~signal

ReleaseInv == CommandInv /\ ReleaseMargin /\ Running

\* It is kept while no release was late.
PromptInv == CommandInv /\ (~late => ReleaseInv)

\* One clock takes one from the margin, unless a new running phase begins.
LEMMA MarginStep ==
  ASSUME TypeInv, Clock, NEW n \in 0..3, Margin(n + 1), RunTime >= 4
  PROVE  Margin(n)'
<1> SUFFICES ASSUME active', ~delay' PROVE counter' >= n
  BY DEF Margin
<1> USE ConstantsAssumption DEF TypeInv, TypeOK
<1>1. active' = (start \/ (active /\ ~stop))
  BY DEF Clock, Commands
<1>2. CASE Expire
  <2>1. delay
    BY <1>2 DEF Expire
  <2>2. counter' = RunTime - 1
    BY <1>2, <2>1 DEF Expire
  <2>3. QED
    BY <2>2
<1>3. CASE CountDown
  <2>1. active /\ ~delay
    BY <1>1, <1>3 DEF CountDown
  <2>2. QED
    BY <1>3, <2>1 DEF CountDown, Margin
<1>4. CASE NotCounting
  BY <1>1, <1>4 DEF NotCounting
<1>5. QED
  BY <1>2, <1>3, <1>4 DEF Clock, Watchdog

\* A running phase with a clock left does not end in this clock.
LEMMA StillRunning ==
  ASSUME TypeInv, Clock, ~signal, Margin(1)
  PROVE  ~signal'
<1>1. CASE Expire
  BY <1>1 DEF Expire, Margin, TypeInv, TypeOK
<1>2. CASE CountDown \/ NotCounting
  BY <1>2 DEF CountDown, NotCounting
<1>3. QED
  BY <1>1, <1>2 DEF Clock, Watchdog

LEMMA MarginWeaken ==
  ASSUME TypeInv, NEW m \in Nat, NEW n \in Nat, n <= m, Margin(m)
  PROVE  Margin(n)
BY DEF Margin, TypeInv, TypeOK

\* A released watchdog does not end a running phase in this clock: either the
\* margin is left or it no longer counts.
LEMMA ReleasedMargin == ASSUME ReleaseInv, ~reg.reset PROVE Margin(1)
<1> USE DEF ReleaseInv, CommandInv
<1>1. CASE delayed
  BY <1>1, MarginWeaken DEF ReleaseMargin
<1>2. CASE stop
  BY <1>2 DEF ReleaseMargin
<1>3. CASE ~delayed /\ ~stop
  <2>1. ~start /\ reg.reset = delayed
    BY <1>3 DEF PulseTrue, TypeInv, TypeOK
  <2>2. ~active
    BY <1>3, <2>1 DEF ArmedAsCommanded
  <2>3. QED
    BY <2>2 DEF Margin
<1>4. QED
  BY <1>1, <1>2, <1>3

LEMMA ReleaseClock ==
  ASSUME ReleaseInv, Clock, ~late', Slack >= 4, RunTime >= 4
  PROVE  ReleaseInv'
<1> USE DEF ReleaseInv, CommandInv
<1>1. CommandInv'
  BY CommandClock
<1>2. delayed' = reg.reset /\ stop' = (~reg.reset /\ delayed /\ ~start /\ ~stop)
  BY DEF Clock, Commands, FallingEdge
<1>3. CASE reg.reset /\ reg'.reset
  <2>1. ~stop' /\ Running'
    BY <1>2, <1>3 DEF Running
  <2>2. ASSUME bus' = "write", call' = "Release" PROVE Margin(3)'
    <3>1. Cpu
      BY <2>2 DEF Clock, System, CpuReset
    <3>2. CpuWrites \/ CpuWaits
      BY <2>2, <3>1
         DEF Cpu, CpuReset, CpuWorks, CpuCalls, CpuReads, CpuReturns,
             CpuClears, cpuVars
    <3>3. CASE CpuWrites
      <4>1. (active /\ ~delay) => counter >= Slack
        <5>1. bus = "idle" /\ call = "Release"
          BY <2>2, <3>3 DEF CpuWrites, BusFree
        <5>2. ~PresentedLate
          BY DEF Clock, History
        <5>3. QED
          BY <2>2, <5>1, <5>2, ConstantsAssumption
             DEF PresentedLate, TypeInv, TypeOK
      <4>2. Margin(4)
        BY <4>1, ConstantsAssumption DEF Margin, TypeInv, TypeOK
      <4>3. QED
        BY <4>2, MarginStep
    <3>4. CASE CpuWaits
      <4>1. bus = "write" /\ call = "Release"
        BY <2>2, <3>4 DEF CpuWaits, cpuVars
      <4>2. ~data.reset
        BY <4>1 DEF DataKept, DeviceCalls
      <4>3. QED
        BY <1>3, <4>1, <4>2, RegisterStep DEF DeviceCalls
    <3>5. QED
      BY <3>2, <3>3, <3>4
  <2>3. QED
    BY <1>1, <1>3, <2>1, <2>2 DEF ReleaseMargin
<1>4. CASE reg.reset /\ ~reg'.reset
  <2>1. bus = "write" /\ call = "Release"
    <3>1. bus = "write" /\ call \notin DeviceCalls /\ ~data.reset
      BY <1>4, RegisterStep
    <3>2. QED
      BY <1>4, <3>1 DEF DataKept, TypeInv, TypeOK, Calls, DeviceCalls
  <2>2. Margin(3) /\ ~signal
    BY <1>4, <2>1 DEF ReleaseMargin, HeldCpuIdle
  <2>3. Margin(2)' /\ ~signal'
    BY <2>2, MarginStep, MarginWeaken, StillRunning
  <2>4. QED
    BY <1>1, <1>2, <1>4, <2>3 DEF ReleaseMargin, Running
<1>5. CASE ~reg.reset /\ delayed
  <2>1. Margin(2) /\ ~signal
    BY <1>5 DEF ReleaseMargin, Running
  <2>2. Margin(1)' /\ ~signal'
    BY <2>1, MarginStep, MarginWeaken, StillRunning
  <2>3. reg'.reset = reg.reset
    <3>1. CASE bus = "write" /\ call \notin DeviceCalls
      BY <1>5, <3>1, RegisterStep DEF EdgeFresh, Edge, DataKept
    <3>2. CASE ~(bus = "write" /\ call \notin DeviceCalls)
      BY <3>2, RegisterStep
    <3>3. QED
      BY <3>1, <3>2
  <2>4. QED
    BY <1>1, <1>2, <1>5, <2>2, <2>3 DEF ReleaseMargin, Running
<1>6. CASE ~reg.reset /\ ~delayed
  <2>1. ~stop' /\ ~delayed' /\ ~signal
    BY <1>2, <1>6 DEF Running
  <2>2. Margin(1)
    BY <1>6, ReleasedMargin
  <2>3. ~signal'
    BY <2>1, <2>2, StillRunning
  <2>4. (bus' = "write" /\ call' = "Release" /\ reg'.reset) => Margin(3)'
    <3> SUFFICES ASSUME bus' = "write", call' = "Release", reg'.reset
                 PROVE  FALSE
      OBVIOUS
    <3>1. bus = "write" /\ call \notin DeviceCalls /\ data.reset
      BY <1>6, RegisterStep
    <3>2. call = "Hold"
      BY <1>6, <3>1 DEF DataKept, TypeInv, TypeOK, Calls, DeviceCalls
    <3>3. QED
      BY <3>1, <3>2
         DEF Clock, System, Cpu, CpuReset, CpuWorks, CpuCalls, CpuWaits,
             CpuReads, CpuWrites, CpuReturns, CpuClears, BusFree, cpuVars
  <2>5. QED
    BY <1>1, <2>1, <2>3, <2>4 DEF ReleaseMargin, Running
<1>7. QED
  BY <1>3, <1>4, <1>5, <1>6

LEMMA PromptInvariant ==
  ASSUME Slack >= 4, RunTime >= 4 PROVE Spec => []PromptInv
<1>1. Init => PromptInv
  <2> SUFFICES ASSUME Init PROVE PromptInv
    OBVIOUS
  <2>1. reg.reset = TRUE
    BY DEF Init
  <2>2. QED
    BY <2>1, CommandInit
       DEF Init, PromptInv, ReleaseInv, ReleaseMargin, Running
<1>2. PromptInv /\ [Next]_vars => PromptInv'
  <2> SUFFICES ASSUME PromptInv, [Next]_vars PROVE PromptInv'
    OBVIOUS
  <2>1. CASE Clock
    <3>1. CommandInv'
      BY <2>1, CommandClock DEF PromptInv
    <3>2. ~late' => ~late
      BY <2>1 DEF Clock, History
    <3>3. QED
      BY <2>1, <3>1, <3>2, ReleaseClock DEF PromptInv
  <2>2. CASE PushReset
    <3>1. CommandInv'
      BY <2>2, CommandPush DEF PromptInv
    <3>2. reg'.reset = TRUE /\ stop' = FALSE /\ bus' = "idle"
      BY <2>2 DEF PushReset, CpuReset
    <3>3. QED
      BY <3>1, <3>2 DEF PromptInv, ReleaseInv, ReleaseMargin, Running
  <2>3. CASE UNCHANGED vars
    <3>1. CommandInv'
      BY <2>3 DEF PromptInv, CommandInv, TypeInv, TypeOK, TimerKept,
           DataKept, ReadKept, HeldCpuIdle, EdgeFresh, PulseTrue, Edge, Pulse,
           ArmedAsCommanded, vars, regVars, ctrlVars, cpuVars, histVars
    <3>2. QED
      BY <2>3, <3>1 DEF PromptInv, ReleaseInv, ReleaseMargin, Running, Margin,
           vars, regVars, ctrlVars, cpuVars, histVars
  <2>4. QED
    BY <2>1, <2>2, <2>3 DEF Next
<1>3. QED
  BY <1>1, <1>2, PTL DEF Spec

\* Software that writes its release with at least four clocks of the running
\* phase left is never held in reset again (until it asks for it, or the
\* switch is pushed), however long the phases are.
THEOREM ReleaseIsSafe ==
  ASSUME Slack >= 4, RunTime >= 4 PROVE Spec => []ReleasedIsRunning
<1>1. PromptInv => ReleasedIsRunning
  BY DEF PromptInv, ReleaseInv, Running, ReleasedIsRunning
<1>2. QED
  BY <1>1, PromptInvariant, PTL
-----------------------------------------------------------------------------
LEMMA SupervisorStep ==
  ASSUME PromptInv, PromptInv', Clock
  PROVE  [Supervisor!Next]_(Supervisor!vars)
<1> USE DEF Supervisor!Next, Supervisor!vars
<1>1. /\ reg.reset \in BOOLEAN /\ reg'.reset \in BOOLEAN
      /\ signal \in BOOLEAN /\ signal' \in BOOLEAN
  BY DEF PromptInv, CommandInv, TypeInv, TypeOK
<1>2. CASE late /\ late'
  BY <1>2
<1>3. CASE late /\ ~late'
  BY <1>3 DEF Clock, History
<1>4. CASE ~late /\ late'
  <2>1. ~signal
    BY <1>4 DEF Clock, History, PresentedLate, System, CpuReset
  <2>2. CASE reg.reset
    BY <1>1, <1>4, <2>1, <2>2 DEF Supervisor!Release
  <2>3. CASE ~reg.reset
    BY <1>1, <1>4, <2>1, <2>3
  <2>4. QED
    BY <1>1, <2>2, <2>3
<1>5. CASE ~late /\ ~late'
  <2>0. ReleaseInv /\ ReleaseInv'
    BY <1>5 DEF PromptInv
  <2>1. CASE reg.reset /\ reg'.reset
    <3>1. CASE signal /\ ~signal'
      BY <1>1, <1>5, <2>1, <3>1 DEF Supervisor!LetGo
    <3>2. CASE ~signal /\ signal'
      BY <1>1, <1>5, <2>1, <3>2 DEF Supervisor!Bite
    <3>3. CASE signal = signal'
      BY <1>1, <1>5, <2>1, <3>3
    <3>4. QED
      BY <1>1, <3>1, <3>2, <3>3
  <2>2. CASE reg.reset /\ ~reg'.reset
    <3>1. ~signal
      BY <2>0, <2>2, RegisterStep DEF ReleaseInv, CommandInv, HeldCpuIdle
    <3>2. ~signal'
      BY <2>0, <2>2 DEF ReleaseInv, Running
    <3>3. QED
      BY <1>1, <1>5, <2>2, <3>1, <3>2 DEF Supervisor!Release
  <2>3. CASE ~reg.reset /\ reg'.reset
    <3>1. ~signal
      BY <2>0, <2>3 DEF ReleaseInv, Running
    <3>2. ~signal'
      BY <2>0, <2>3, <3>1, ReleasedMargin, StillRunning
         DEF ReleaseInv, CommandInv
    <3>3. QED
      BY <1>1, <1>5, <2>3, <3>1, <3>2 DEF Supervisor!Hold
  <2>4. CASE ~reg.reset /\ ~reg'.reset
    BY <1>1, <1>5, <2>0, <2>4 DEF ReleaseInv, Running
  <2>5. QED
    BY <1>1, <2>1, <2>2, <2>3, <2>4
<1>6. QED
  BY <1>2, <1>3, <1>4, <1>5

\* The clocked controller, its register slave and the driver implement the
\* supervisor, up to the first late release: every clock is one of its steps
\* or none, in particular it never holds a system that has been released.
\* (That it keeps biting and letting go is liveness, and is model-checked.)
THEOREM ImplementsSupervisor ==
  ASSUME Slack >= 4, RunTime >= 4 PROVE Spec => Supervisor!Safety
<1>1. Init => Supervisor!Init
  <2> SUFFICES ASSUME Init PROVE Supervisor!Init
    OBVIOUS
  <2>1. reg.reset = TRUE /\ signal = TRUE /\ late = FALSE
    BY DEF Init
  <2>2. QED
    BY <2>1 DEF Supervisor!Init
<1>2. PromptInv /\ PromptInv' /\ [Next]_vars
      => [Supervisor!Next]_(Supervisor!vars)
  <2> SUFFICES ASSUME PromptInv, PromptInv', [Next]_vars
               PROVE  [Supervisor!Next]_(Supervisor!vars)
    OBVIOUS
  <2>1. CASE Clock
    BY <2>1, SupervisorStep
  <2>2. CASE PushReset
    <3>1. reg'.reset = TRUE /\ signal' = TRUE /\ late' = FALSE
      BY <2>2 DEF PushReset
    <3>2. QED
      BY <3>1 DEF Supervisor!Next, Supervisor!PowerReset
  <2>3. CASE UNCHANGED vars
    BY <2>3 DEF vars, regVars, ctrlVars, histVars, Supervisor!vars
  <2>4. QED
    BY <2>1, <2>2, <2>3 DEF Next
<1>3. QED
  BY <1>1, <1>2, PromptInvariant, PTL DEF Spec, Supervisor!Safety
=============================================================================
