-------------------------- MODULE ResetSupervisor --------------------------
(***************************************************************************)
(* What the reset controller promises the rest of the board: a supervisor  *)
(* that keeps restarting the system until its software says it is alive.   *)
(* It knows nothing of clocks, counters, edges or bus cycles; module       *)
(* RstController is shown to implement it.                                 *)
(***************************************************************************)
VARIABLES armed,   \* the software has not (or no longer) released the reset
          held     \* the system is held in reset

vars == <<armed, held>>

TypeOK == armed \in BOOLEAN /\ held \in BOOLEAN

Init == armed = TRUE /\ held = TRUE

\* An armed supervisor lets the system run, and resets it again.
LetGo == armed /\ held /\ held' = FALSE /\ UNCHANGED armed
Bite  == armed /\ ~held /\ held' = TRUE /\ UNCHANGED armed

\* Running software disarms the supervisor, or arms it again.
Release == armed /\ ~held /\ armed' = FALSE /\ UNCHANGED held
Hold    == ~armed /\ ~held /\ armed' = TRUE /\ UNCHANGED held

\* The board's reset switch starts everything again.
PowerReset == armed' = TRUE /\ held' = TRUE

Next == LetGo \/ Bite \/ Release \/ Hold \/ PowerReset

Fairness == WF_vars(LetGo) /\ WF_vars(Bite)

Safety == Init /\ [][Next]_vars
Spec   == Safety /\ Fairness

\* A disarmed supervisor never holds the system in reset.
DisarmedRuns == ~armed => ~held
=============================================================================
