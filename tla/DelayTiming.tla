---------------------------- MODULE DelayTiming ----------------------------
(***************************************************************************)
(* The delay block alone, driven by anything: on every clock its inputs    *)
(* may be a clear, a trigger with any delay, both or neither.              *)
(***************************************************************************)
EXTENDS DelayBlock

CONSTANT Delays     \* values of delay_timer_i

ConstantsOK == ClkDiv \in Nat \ {0} /\ Delays \subseteq Nat

VARIABLES
  asked,     \* history: the delay of the last trigger that was heard
  elapsed    \* history: clocks since

vars == <<delayVars, asked, elapsed>>

TypeOK ==
  /\ idle \in BOOLEAN /\ divcnt \in 0..ClkDiv /\ divevt \in BOOLEAN
  /\ timer \in Nat /\ finished \in BOOLEAN
  /\ asked \in Nat /\ elapsed \in Nat

DriverInit == Init /\ asked = 0 /\ elapsed = 0

Drive(clr, trigger, delay) ==
  /\ Clock(clr, trigger, delay)
  /\ asked' = IF idle /\ trigger THEN delay ELSE asked
  /\ elapsed' = IF idle THEN 0 ELSE elapsed + 1

Next ==
  \E clr, trigger \in BOOLEAN, delay \in Delays : Drive(clr, trigger, delay)

Spec == DriverInit /\ [][Next]_vars
-----------------------------------------------------------------------------
\* A delay of n ticks ends after exactly n * (g_CLKDIV + 1) clocks, though
\* the event of the divider is taken one clock after it is generated
\* (delay_block_ent.vhd:77-99): not a clock less, and not one more.
DelayExact ==
  /\ finished => elapsed = asked * (ClkDiv + 1)
  /\ ~idle => elapsed < asked * (ClkDiv + 1)
=============================================================================
