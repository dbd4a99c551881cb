------------------------------ MODULE FillJob ------------------------------
(***************************************************************************)
(* What the memory filler promises: a fill writes its words one by one,    *)
(* is done only when it has written all of them, or fails and then writes  *)
(* at most what it was asked to.  It knows nothing of clocks, buses and    *)
(* timers; module MemoryFiller is shown to implement it.                   *)
(***************************************************************************)
EXTENDS Naturals

VARIABLES phase,     \* "idle", "filling", "done" or "failed"
          total,     \* words of the fill
          written    \* words of it the memory has taken

vars == <<phase, total, written>>

TypeOK ==
  /\ phase \in {"idle", "filling", "done", "failed"}
  /\ total \in Nat /\ written \in Nat

Init == phase = "idle" /\ total \in Nat /\ written = 0

Begin ==
  /\ phase = "idle" /\ phase' = "filling"
  /\ total' \in Nat \ {0} /\ written' = 0

\* The memory takes a word.
Take == written < total /\ written' = written + 1

\* A word that was under way when the fill failed may still be taken.
WriteWord ==
  /\ phase \in {"filling", "failed"} /\ Take
  /\ UNCHANGED <<phase, total>>

Complete ==
  /\ phase = "filling" /\ written = total
  /\ phase' = "done" /\ UNCHANGED <<total, written>>

\* The timeout may strike in the clock a word is taken, and just after the
\* last one.
Fail ==
  /\ phase \in {"filling", "done"} /\ phase' = "failed"
  /\ \/ UNCHANGED written
     \/ phase = "filling" /\ Take
  /\ UNCHANGED total

\* The word under way may be taken in this very clock.
Acknowledge ==
  /\ phase \in {"done", "failed"} /\ phase' = "idle"
  /\ \/ UNCHANGED written
     \/ phase = "failed" /\ Take
  /\ UNCHANGED total

Reset == phase' = "idle" /\ total' \in Nat /\ written' = 0

Next ==
  Begin \/ WriteWord \/ Complete \/ Fail \/ Acknowledge \/ Reset

Spec == Init /\ [][Next]_vars

\* A fill reported as done has written every word, and none twice.
DoneIsComplete == phase = "done" => written = total
=============================================================================
