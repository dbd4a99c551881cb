---------------------------- MODULE SystemClock ----------------------------
(***************************************************************************)
(* The system clock of the board support package and its alarms            *)
(* (alt_tick.c, alt_alarm_start.c, alt_llist.h): the timer's interrupt     *)
(* counts a tick and walks the list of registered alarms, calling those    *)
(* whose time has come.  The counter and the times are 32 bits wide and    *)
(* wrap; a flag per alarm tells the times after the wrap from those before *)
(* it.                                                                     *)
(*                                                                         *)
(* The order of the list is left out: a walk visits the alarms that were   *)
(* registered when it began, each once, in any order.  Interrupts are      *)
(* disabled during a walk, so only callbacks run in the middle of it.      *)
(***************************************************************************)
EXTENDS Integers

CONSTANTS
  Alarms,      \* the alarm structures
  Width,       \* values of an alt_u32: 2^32
  Intervals    \* ticks asked for

\* An interval of Width - 1 is left out: see Start.
ASSUME ConstantsAssumption ==
  /\ Width \in Nat /\ Width >= 2
  /\ Intervals \subseteq 0..(Width - 2)

VARIABLES
  nticks,    \* _alt_nticks
  list,      \* the registered alarms
  todo,      \* those the walk in progress has not come to
  time,      \* time of each alarm
  rollover,  \* its flag
  left       \* history: ticks until each is due, no less than 0

vars == <<nticks, list, todo, time, rollover, left>>

TypeOK ==
  /\ nticks \in 0..(Width - 1)
  /\ list \subseteq Alarms /\ todo \subseteq list
  /\ time \in [Alarms -> 0..(Width - 1)]
  /\ rollover \in [Alarms -> BOOLEAN]
  /\ left \in [Alarms -> Nat]

Plus(t, n) == (t + n) % Width

Init ==
  /\ nticks = 0 /\ list = {} /\ todo = {}
  /\ time = [a \in Alarms |-> 0] /\ rollover = [a \in Alarms |-> FALSE]
  /\ left = [a \in Alarms |-> 0]
-----------------------------------------------------------------------------
\* Mutant: the tick in progress is taken for a whole one.
StartTime_Short(n) == Plus(nticks, n)

StartTime(n) == Plus(nticks, n + 1)

\* alt_alarm_start, of an alarm that is not registered: n whole ticks and the
\* rest of the one in progress.  (For n = Width - 1 the sum is nticks itself,
\* which is neither in the past nor after the wrap: it is due at once.)
Start(a, n) ==
  /\ a \notin list
  /\ list' = list \cup {a}
  /\ time' = [time EXCEPT ![a] = StartTime(n)]
  /\ rollover' = [rollover EXCEPT ![a] = StartTime(n) < nticks]
  /\ left' = [left EXCEPT ![a] = n + 1]
  /\ UNCHANGED <<nticks, todo>>

\* alt_alarm_stop: a walk that has not come to the alarm will not.
Stop(a) ==
  /\ a \in list /\ list' = list \ {a} /\ todo' = todo \ {a}
  /\ UNCHANGED <<nticks, time, rollover, left>>

\* The program starts and stops alarms while the interrupt does not run.
Program ==
  /\ todo = {}
  /\ \E a \in Alarms : Stop(a) \/ \E n \in Intervals : Start(a, n)

\* The timer's interrupt: alt_tick counts, and begins its walk.
Tick ==
  /\ todo = {}
  /\ nticks' = Plus(nticks, 1) /\ todo' = list
  /\ left' = [a \in Alarms |->
                IF a \in list /\ left[a] > 0 THEN left[a] - 1 ELSE left[a]]
  /\ UNCHANGED <<list, time, rollover>>

\* Mutant: the flag is never cleared.
StillRollover_Kept(a) == rollover[a]

\* The flag is cleared once the counter has wrapped.
StillRollover(a) == rollover[a] /\ nticks # 0

Expired(a) == time[a] <= nticks /\ ~StillRollover(a)

\* The walk comes to an alarm that is not due.
Pass(a) ==
  /\ a \in todo /\ ~Expired(a)
  /\ todo' = todo \ {a}
  /\ rollover' = [rollover EXCEPT ![a] = StillRollover(a)]
  /\ UNCHANGED <<nticks, list, time, left>>

\* It is due: its callback returns n, the ticks to the next call.
Again(a, n) ==
  /\ a \in todo /\ Expired(a)
  /\ todo' = todo \ {a}
  /\ time' = [time EXCEPT ![a] = Plus(@, n)]
  /\ rollover' = [rollover EXCEPT ![a] = Plus(time[a], n) < nticks]
  /\ left' = [left EXCEPT ![a] = n]
  /\ UNCHANGED <<nticks, list>>

\* Its callback returns 0.
Last(a) ==
  /\ a \in todo /\ Expired(a)
  /\ todo' = todo \ {a} /\ list' = list \ {a}
  /\ rollover' = [rollover EXCEPT ![a] = StillRollover(a)]
  /\ UNCHANGED <<nticks, time, left>>

\* The callback of a runs, and starts another alarm, which goes to the head
\* of the list, behind the walk.
StartInWalk ==
  \E a \in todo, b \in Alarms, n \in Intervals : Expired(a) /\ Start(b, n)

\* It may also stop another one, but not the one the walk comes to next: the
\* walk has it already, and would never leave it.
StopInWalk ==
  \E a \in todo, b \in list :
    /\ Expired(a) /\ b # a /\ (b \in todo => todo # {a, b})
    /\ Stop(b)

Callback(a) == (\E n \in Intervals \ {0} : Again(a, n)) \/ Last(a)

Visit(a) == Pass(a) \/ Callback(a)

Walk == \E a \in Alarms : Visit(a)

Next == Program \/ Tick \/ Walk \/ StartInWalk \/ StopInWalk

\* The timer does not stop, and a walk goes on to its end.
Spec == Init /\ [][Next]_vars /\ WF_vars(Tick) /\ WF_vars(Walk)
-----------------------------------------------------------------------------
(* Properties. *)

\* A callback is called in the tick it was asked for, not in an earlier one
\* and not in a later one, whatever the counter does meanwhile
\* (alt_tick.c:104-137, alt_alarm_start.c:82-96).
OnTime ==
  [][\A a \in Alarms : (Callback(a) => left[a] = 0) /\ (Pass(a) => left[a] > 0)]_vars

\* An alarm that is registered is called, or stopped: whenever it is
\* registered, its callback is called some time later, or it leaves the list,
\* also when its time lies behind the wrap (alt_tick.c:104-137).
AlarmComes ==
  \A a \in Alarms : []<>(a \notin list) \/ []<><<Callback(a)>>_vars
=============================================================================
