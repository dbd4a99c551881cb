--------------------------- MODULE RstController ---------------------------
(***************************************************************************)
(* The reset controller of the TR4 board (RST_Controller/*.vhd), its       *)
(* Avalon register slave, and the NIOS II software that drives it          *)
(* (driver/reset/reset.c).                                                 *)
(*                                                                         *)
(* The controller's output resets the whole Qsys system, the CPU included, *)
(* but not the controller: out of power-up it holds the system for Timer   *)
(* clocks, lets it run for RunTime clocks, and starts again, until the     *)
(* software clears bit 31 of the SimuCam reset register.                   *)
(*                                                                         *)
(* One Clock step is one rising edge of clock_sink_clk: every register     *)
(* takes a value computed from the old ones.  Where the VHDL assigns a     *)
(* signal more than once in the process, the last assignment wins.         *)
(***************************************************************************)
EXTENDS Naturals

CONSTANTS
  Timer,       \* clocks in reset: the register's reset value, 5000000
  RunTime,     \* clocks let run between two resets, 45000000
  TimerMax,    \* largest value of the 30-bit down counter
  CountMod,    \* the reset counter wraps here: bit 31 is kept at 0
  Slack,       \* a release in the running phase is late with fewer clocks left
  MaxPushes    \* bound: how often the reset switch is pushed

ASSUME ConstantsAssumption ==
  /\ Timer \in Nat \ {0} /\ RunTime \in Nat \ {0} /\ TimerMax \in Nat
  /\ Timer <= TimerMax /\ RunTime <= TimerMax
  /\ CountMod \in Nat \ {0}
  /\ Slack \in Nat /\ MaxPushes \in Nat

VARIABLES
  reg,       \* SimuCam reset register: control, counter clear, timer
  rs232,     \* device reset register, bit 9
  ack,       \* waitrequest is low (registered, so one clock late)
  readdata,  \* readdata (registered)
  delayed,   \* s_simucam_reset_cmd_delayed
  start,     \* s_simucam_start
  stop,      \* s_simucam_stop
  active,    \* s_simucam_reset: the watchdog is counting
  delay,     \* s_simucam_delay: it is counting the time in reset
  counter,   \* s_reset_counter
  signal,    \* simucam_reset_signal: the system is held in reset
  cnt,       \* s_reset_cnt
  bus,       \* what the CPU's side of the bus presents
  call,      \* the driver function in progress
  data,      \* its local uliReg
  pushes,    \* pushes of the reset switch so far
  releases,  \* history: releases written since the counter was cleared
  since,     \* history: clocks since signal last changed
  late       \* history: the software has written a late release

regVars   == <<reg, rs232, ack, readdata>>
ctrlVars  == <<delayed, start, stop, active, delay, counter, signal, cnt>>
cpuVars   == <<bus, call, data>>
histVars  == <<releases, since, late>>
vars      == <<regVars, ctrlVars, cpuVars, pushes, histVars>>

Calls == {"Release", "Hold", "HoldDevice", "ReleaseDevice", "Clear"}

\* A word read from or written to the slave: the fields of both registers,
\* of which the address selects one.
Word == [reset : BOOLEAN, clr : BOOLEAN, timer : 0..TimerMax, dev : BOOLEAN]
ZeroWord == [reset |-> FALSE, clr |-> FALSE, timer |-> 0, dev |-> FALSE]

TypeOK ==
  /\ reg \in [reset : BOOLEAN, clr : BOOLEAN, timer : 0..TimerMax]
  /\ rs232 \in BOOLEAN /\ ack \in BOOLEAN /\ readdata \in Word
  /\ delayed \in BOOLEAN /\ start \in BOOLEAN /\ stop \in BOOLEAN
  /\ active \in BOOLEAN /\ delay \in BOOLEAN
  /\ counter \in 0..TimerMax
  /\ signal \in BOOLEAN
  /\ cnt \in 0..(CountMod - 1)
  /\ bus \in {"idle", "read", "write"}
  /\ call \in Calls \cup {"none", "ClearOff"}
  /\ data \in Word
  /\ pushes \in 0..MaxPushes
  /\ releases \in 0..(CountMod - 1)
  /\ since \in Nat
  /\ late \in BOOLEAN
-----------------------------------------------------------------------------
(* Reset.  simucam_reset_cnt_clr has no reset value in the code: at power  *)
(* up it is whatever the flip-flop comes up with, and it outlives a push   *)
(* of the switch.                                                          *)
Init ==
  /\ reg \in [reset : {TRUE}, clr : BOOLEAN, timer : {Timer}]
  /\ rs232 = FALSE /\ ack = FALSE /\ readdata = ZeroWord
  /\ delayed = FALSE /\ start = FALSE /\ stop = FALSE
  /\ active = FALSE /\ delay = TRUE /\ counter = 0 /\ signal = TRUE
  /\ cnt = 0
  /\ bus = "idle" /\ call = "none" /\ data = ZeroWord
  /\ pushes = 0
  /\ releases = 0 /\ since = 0 /\ late = FALSE

CpuReset == bus' = "idle" /\ call' = "none" /\ data' = ZeroWord

\* SW(0) is pushed and let go: the asynchronous reset a_reset.  It reaches
\* neither the reset counter nor the counter clear bit.
PushReset ==
  /\ pushes < MaxPushes
  /\ pushes' = pushes + 1
  /\ reg' = [reset |-> TRUE, clr |-> reg.clr, timer |-> Timer]
  /\ rs232' = FALSE /\ ack' = FALSE /\ readdata' = ZeroWord
  /\ delayed' = FALSE /\ start' = FALSE /\ stop' = FALSE
  /\ active' = FALSE /\ delay' = TRUE /\ counter' = 0 /\ signal' = TRUE
  /\ UNCHANGED cnt
  /\ CpuReset
  /\ releases' = cnt /\ since' = 0 /\ late' = FALSE
-----------------------------------------------------------------------------
(* p_simucam_reset: the controller's process.                              *)

\* A 30-bit subtraction of one: zero wraps to the largest value.
Pred(n) == IF n = 0 THEN TimerMax ELSE n - 1

\* Mutant: the delayed copy of the command comes up as the command itself.
RisingEdge_NotAtPowerUp == reg.reset /\ ~delayed /\ ~signal

RisingEdge == reg.reset /\ ~delayed

\* Mutant: the level of the command instead of its edge.
FallingEdge_Level == ~reg.reset /\ active

FallingEdge == ~reg.reset /\ delayed

\* Mutant: the stop pulse is cleared but stops nothing.
Commands_StopIgnored ==
  /\ delayed' = reg.reset
  /\ start' = (RisingEdge /\ ~start /\ ~stop)
  /\ stop' = (FallingEdge /\ ~start /\ ~stop)
  /\ active' = (start \/ active)

\* Commands become pulses one clock after the edge; taking either command
\* clears both pulses, and start is taken first.
Commands ==
  /\ delayed' = reg.reset
  /\ start' = (RisingEdge /\ ~start /\ ~stop)
  /\ stop' = (FallingEdge /\ ~start /\ ~stop)
  /\ active' = (start \/ (active /\ ~stop))

\* Bit 31 of the counter is forced to 0.
Inc(n) == IF n = CountMod - 1 THEN 0 ELSE n + 1

\* The counter of releases: a clear in the same clock wins.
CountReleases ==
  cnt' = IF reg.clr THEN 0 ELSE IF FallingEdge THEN Inc(cnt) ELSE cnt

\* Mutant: the running phase is loaded one clock short.
Expire_ShortRun ==
  /\ active /\ counter = 0
  /\ delay' = ~delay
  /\ signal' = ~delay
  /\ counter' = IF delay THEN RunTime - 2 ELSE Pred(reg.timer)

\* Mutant: the phase is not changed, the output is.
Expire_SamePhase ==
  /\ active /\ counter = 0
  /\ delay' = delay
  /\ signal' = ~delay
  /\ counter' = IF delay THEN RunTime - 1 ELSE Pred(reg.timer)

\* The phase timer, for a watchdog that was counting before this clock: the
\* process handles it last, so it overrides what a command just stored.
Expire ==
  /\ active /\ counter = 0
  /\ delay' = ~delay
  /\ signal' = ~delay
  /\ counter' = IF delay THEN RunTime - 1 ELSE Pred(reg.timer)

CountDown ==
  /\ active /\ counter # 0
  /\ counter' = counter - 1
  /\ delay' = (start \/ (delay /\ ~stop))
  /\ UNCHANGED signal

NotCounting ==
  /\ ~active
  /\ delay' = (start \/ (delay /\ ~stop))
  /\ counter' = IF start THEN Pred(reg.timer) ELSE IF stop THEN 0 ELSE counter
  /\ UNCHANGED signal

Watchdog == Expire \/ CountDown \/ NotCounting
-----------------------------------------------------------------------------
(* The register slave.  A write is performed on every clock it is          *)
(* presented, and waitrequest falls one clock late: each write is          *)
(* performed twice, and waitrequest is still low in the clock after it.    *)

DeviceCalls == {"HoldDevice", "ReleaseDevice"}

\* Mutant: the address is not decoded.
SlaveWrite_NotDecoded ==
  /\ ack' = (bus # "idle")
  /\ IF bus = "write"
     THEN reg' = [reset |-> data.reset, clr |-> data.clr, timer |-> data.timer]
     ELSE UNCHANGED reg
  /\ rs232' = IF bus = "write" /\ call \in DeviceCalls THEN data.dev ELSE rs232

SlaveWrite ==
  /\ ack' = (bus # "idle")
  /\ IF bus = "write" /\ call \notin DeviceCalls
     THEN reg' = [reset |-> data.reset, clr |-> data.clr, timer |-> data.timer]
     ELSE UNCHANGED reg
  /\ rs232' = IF bus = "write" /\ call \in DeviceCalls THEN data.dev ELSE rs232

SlaveRead ==
  readdata' = IF bus = "read"
              THEN IF call \in DeviceCalls
                   THEN [ZeroWord EXCEPT !.dev = rs232]
                   ELSE [reset |-> reg.reset, clr |-> reg.clr,
                         timer |-> reg.timer, dev |-> FALSE]
              ELSE ZeroWord
-----------------------------------------------------------------------------
(* The driver: every function reads a register, changes one field and      *)
(* writes it back.  vRstcClearResetCounter writes twice.  The program may  *)
(* call the functions in any order, after any number of clocks.            *)

Modify(c, w) ==
  CASE c = "Release"       -> [w EXCEPT !.reset = FALSE]
    [] c = "Hold"          -> [w EXCEPT !.reset = TRUE]
    [] c = "HoldDevice"    -> [w EXCEPT !.dev = TRUE]
    [] c = "ReleaseDevice" -> [w EXCEPT !.dev = FALSE]
    [] c = "Clear"         -> [w EXCEPT !.clr = TRUE]
    [] c = "ClearOff"      -> [w EXCEPT !.clr = FALSE]

\* Between two accesses the program executes other instructions: none is
\* presented while the slave still acknowledges the one before.
BusFree == bus = "idle" /\ ~ack

CpuWorks   == bus = "idle" /\ UNCHANGED cpuVars
CpuCalls   == /\ BusFree /\ call = "none"
              /\ \E c \in Calls : call' = c
              /\ bus' = "read" /\ UNCHANGED data
CpuWaits   == bus # "idle" /\ ~ack /\ UNCHANGED cpuVars
CpuReads   == /\ bus = "read" /\ ack
              /\ data' = Modify(call, readdata)
              /\ bus' = "idle" /\ UNCHANGED call
CpuWrites  == /\ BusFree /\ call # "none"
              /\ bus' = "write" /\ UNCHANGED <<call, data>>
CpuReturns == /\ bus = "write" /\ ack /\ call # "Clear"
              /\ CpuReset
CpuClears  == /\ bus = "write" /\ ack /\ call = "Clear"
              /\ call' = "ClearOff" /\ data' = Modify("ClearOff", data)
              /\ bus' = "idle"

Cpu == \/ CpuWorks \/ CpuCalls \/ CpuWaits \/ CpuReads
       \/ CpuWrites \/ CpuReturns \/ CpuClears

\* rst_n is the inverse of the controller's output: it holds the CPU and
\* the CPU's side of the bus, from the moment it rises.
System == IF signal \/ signal' THEN CpuReset ELSE Cpu
-----------------------------------------------------------------------------
Min2(a, b) == IF a <= b THEN a ELSE b
SinceMax == Timer + RunTime + 4

ReleaseWritten == reg.reset /\ ~reg'.reset

\* A release is presented with fewer than Slack clocks of the running phase
\* left.
PresentedLate ==
  /\ bus = "idle" /\ bus' = "write" /\ call = "Release"
  /\ active /\ ~delay /\ counter < Slack

History ==
  /\ LET base == IF reg.clr THEN 0 ELSE releases
     IN  releases' = IF ReleaseWritten THEN Inc(base) ELSE base
  /\ since' = IF signal' # signal THEN 1 ELSE Min2(since + 1, SinceMax)
  /\ late' = (late \/ PresentedLate)

Clock ==
  /\ Commands /\ CountReleases /\ Watchdog
  /\ SlaveWrite /\ SlaveRead
  /\ System
  /\ History
  /\ UNCHANGED pushes

Next == Clock \/ PushReset

\* The clock does not stop.
Spec == Init /\ [][Next]_vars /\ WF_vars(Clock)
-----------------------------------------------------------------------------
(* Properties. *)

\* Once the release is in the register the system is out of reset, and stays
\* out of it: vRstcReleaseSimucamReset (reset.c:28) does what it is called
\* for, if the software was never late; see ReleaseEndsReset.
ReleasedIsRunning == (~late /\ ~reg.reset) => ~signal

\* No command is lost or taken twice: whenever the edge detector and the
\* pulses are at rest (rst_controller_top.vhd:107-134), the watchdog is
\* counting exactly if the control bit asks for it.
ArmedAsCommanded ==
  (delayed = reg.reset /\ ~start /\ ~stop) => (active = reg.reset)

\* No read-modify-write of the driver, of either register, whenever the
\* system is reset in the middle of it, loses the timer value.
TimerKept == reg.timer = Timer

\* A release is counted once, though the slave performs each write twice
\* and the software may release again what is released: the counter is the
\* number of releases, one of them possibly not yet seen by the edge detector.
CountsReleases == releases = IF FallingEdge THEN Inc(cnt) ELSE cnt

\* The comments "900 ms of delay" and "100 ms of reset": the system is never
\* reset sooner than RunTime clocks after it was let run, and is held for
\* Timer clocks, two more after a power reset (since is 0, not 1, after it).
PhaseLengths ==
  [][pushes' = pushes =>
       /\ (~signal /\ signal') => since >= RunTime
       /\ (signal /\ ~signal') => since \in Timer..(Timer + 1)]_vars

\* Software that does not release the reset is restarted.
UnreleasedIsReset == (reg.reset /\ ~signal) ~> (signal \/ ~reg.reset)

\* After a release the system comes out of reset: "a falling edge ocurred,
\* issue stop command" (rst_controller_top.vhd:111).
ReleaseEndsReset == ~reg.reset ~> ~signal

\* The controller, its registers and its software together keep what the
\* supervisor promises, up to the first late release, which is taken for one
\* that worked.
Supervisor ==
  INSTANCE ResetSupervisor
    WITH armed <- reg.reset /\ ~late, held <- signal /\ ~late

Implements == Supervisor!Spec
=============================================================================
