---------------------------- MODULE AvalonWriter ----------------------------
(***************************************************************************)
(* The Avalon memory-mapped master of the memory filler                    *)
(* (mfil_avm_data_writer_ent.vhd).  It presents one word at a time, holds  *)
(* it while the memory asks it to wait, and tells the controller when it   *)
(* is done.                                                                *)
(*                                                                         *)
(* Clock(req, abort, request, wait) is one rising edge of clk_i with the   *)
(* values of the controller's request and of the memory's waitrequest.     *)
(***************************************************************************)
EXTENDS Naturals

CONSTANT NoWord     \* the reset value of the registered control

VARIABLES
  wstate,    \* s_mfil_avm_data_writer_state
  word       \* s_avm_slave_wr_registered_control: address and data

writerVars == <<wstate, word>>

WriterStates == {"IDLE", "WRITING", "WAITING", "DONE"}

Init == wstate = "IDLE" /\ word = NoWord

\* The outputs are registered with the state: they are functions of it.
\* (Ready is low in the one clock between reset and the first edge, when
\* nothing can have been started.)
Presenting == wstate \in {"WRITING", "WAITING"}
Ready == wstate \in {"IDLE", "DONE"}
Done == wstate = "DONE"

\* Mutant: the request is not registered.
TakeRequest_NotRegistered(req, request) ==
  /\ Ready
  /\ wstate' = IF req THEN "WRITING" ELSE "IDLE"
  /\ word' = NoWord

\* IDLE and DONE: a request is taken, or the word is forgotten.
TakeRequest(req, request) ==
  /\ Ready
  /\ IF req THEN wstate' = "WRITING" /\ word' = request
            ELSE wstate' = "IDLE" /\ word' = NoWord

\* WRITING: an abort is not looked at.
FirstCycle(wait) ==
  /\ wstate = "WRITING"
  /\ wstate' = IF wait THEN "WAITING" ELSE "DONE"
  /\ UNCHANGED word

\* Mutant: the abort of a word the memory makes wait is not taken.
Wait_NoAbort(abort, wait) ==
  /\ wstate = "WAITING"
  /\ wstate' = IF wait THEN "WAITING" ELSE "DONE"
  /\ UNCHANGED word

\* Mutant: the end of the wait is not noticed.
Wait_Deaf(abort, wait) ==
  /\ wstate = "WAITING"
  /\ wstate' = IF abort THEN "DONE" ELSE "WAITING"
  /\ UNCHANGED word

\* WAITING: an abort gives the word up though the memory asked to wait.
Wait(abort, wait) ==
  /\ wstate = "WAITING"
  /\ wstate' = IF wait /\ ~abort THEN "WAITING" ELSE "DONE"
  /\ UNCHANGED word

Clock(req, abort, request, wait) ==
  TakeRequest(req, request) \/ FirstCycle(wait) \/ Wait(abort, wait)
=============================================================================
