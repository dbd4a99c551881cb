----------------------------- MODULE DelayBlock -----------------------------
(***************************************************************************)
(* The delay block of the memory filler (delay_block_ent.vhd): a trigger   *)
(* starts a delay of a number of ticks, a tick is ClkDiv + 1 clocks, and   *)
(* the end of the delay is a pulse of one clock.                           *)
(*                                                                         *)
(* Clock(clr, trigger, delay) is one rising edge of clk_i, with the values *)
(* its inputs had before the edge.  The special case g_CLKDIV = 0 of the   *)
(* code is left out: the filler is built with 49999.                       *)
(***************************************************************************)
EXTENDS Naturals

CONSTANT ClkDiv     \* g_CLKDIV, not 0

VARIABLES
  idle,      \* s_idle
  divcnt,    \* s_clkdiv_cnt
  divevt,    \* s_clkdiv_evt
  timer,     \* s_timer_cnt
  finished   \* delay_finished_o

delayVars == <<idle, divcnt, divevt, timer, finished>>

Init ==
  /\ idle = TRUE /\ divcnt = 0 /\ divevt = FALSE /\ timer = 0
  /\ finished = FALSE

Stopped == idle' = TRUE /\ divcnt' = 0 /\ divevt' = FALSE /\ timer' = 0

\* Mutant: the timer is loaded with the delay itself.
Trigger_OneTooMany(trigger, delay) ==
  /\ idle
  /\ IF trigger /\ delay # 0
     THEN /\ idle' = FALSE /\ divcnt' = 1 /\ divevt' = FALSE
          /\ timer' = delay
     ELSE Stopped
  /\ finished' = (trigger /\ delay = 0)

\* Only an idle block hears a trigger; a delay of 0 finishes at once.
Trigger(trigger, delay) ==
  /\ idle
  /\ IF trigger /\ delay # 0
     THEN /\ idle' = FALSE /\ divcnt' = 1 /\ divevt' = FALSE
          /\ timer' = delay - 1
     ELSE Stopped
  /\ finished' = (trigger /\ delay = 0)

Clear == ~idle /\ Stopped /\ finished' = FALSE

\* The divider raises divevt every ClkDiv + 1 clocks; each event takes one
\* from the timer, and the event that finds it at 0 ends the delay.
Run ==
  /\ ~idle
  /\ divevt' = (divcnt = ClkDiv)
  /\ divcnt' = IF divcnt = ClkDiv THEN 0 ELSE divcnt + 1
  /\ finished' = (divevt /\ timer = 0)
  /\ idle' = finished'
  /\ timer' = IF divevt /\ timer # 0 THEN timer - 1 ELSE timer

Clock(clr, trigger, delay) ==
  Trigger(trigger, delay) \/ (clr /\ Clear) \/ (~clr /\ Run)
=============================================================================
