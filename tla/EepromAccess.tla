---------------------------- MODULE EepromAccess ----------------------------
(***************************************************************************)
(* What the functions of i2c.c promise their callers: a call either fails  *)
(* and changes nothing, or it succeeds, and then a write has stored its    *)
(* byte and a read has returned the bytes of the EEPROM.  Every call       *)
(* returns.  A reset of the board breaks a call off.  From then on the     *)
(* promise is a weaker one: a call may succeed wrongly, but only a write   *)
(* changes the EEPROM.  Module I2cDriver is shown to implement it.         *)
(***************************************************************************)
EXTENDS Naturals, Sequences

CONSTANTS MemSize,   \* bytes in the EEPROM
          Bytes,     \* the bytes it may hold
          Calls,     \* the calls software makes, with their arguments
          NoCall,    \* no call has been made
          Contents   \* what the EEPROM may hold at first

VARIABLES mem,       \* the EEPROM
          call,      \* the last call
          busy,      \* it has not returned
          ok,        \* it returned TRUE
          answer,    \* the bytes it returned
          broken     \* a call has been broken off by a reset

vars == <<mem, call, busy, ok, answer, broken>>

\* A byte address selects a byte of the device, which ignores the high bits.
Cell(a) == a % MemSize

Answer(c) ==
  CASE c.fn = "I2C_Write" -> <<>>
    [] c.fn = "I2C_Read" -> <<mem[Cell(c.addr)]>>
    [] c.fn = "I2C_MultipleRead" -> [n \in 1..c.len |-> mem[Cell(n - 1)]]

Init ==
  /\ mem \in Contents /\ broken = FALSE
  /\ call = NoCall /\ busy = FALSE /\ ok = FALSE /\ answer = <<>>

Begin ==
  /\ ~busy /\ busy' = TRUE /\ call' \in Calls
  /\ ok' = FALSE /\ answer' = <<>> /\ UNCHANGED <<mem, broken>>

Succeed ==
  /\ ~broken /\ busy /\ busy' = FALSE /\ ok' = TRUE
  /\ mem' = IF call.fn = "I2C_Write"
            THEN [mem EXCEPT ![Cell(call.addr)] = call.value] ELSE mem
  /\ answer' = Answer(call) /\ UNCHANGED <<call, broken>>

Fail ==
  /\ ~broken /\ busy /\ busy' = FALSE /\ ok' = FALSE
  /\ answer' = <<>> /\ UNCHANGED <<mem, call, broken>>

Reset ==
  /\ broken' = TRUE /\ busy' = FALSE /\ ok' = FALSE
  /\ call' = NoCall /\ answer' = <<>> /\ UNCHANGED mem

ReturnAnything ==
  /\ broken /\ busy /\ busy' = FALSE /\ ok' \in BOOLEAN
  /\ IF call.fn = "I2C_Write"
     THEN mem' \in [DOMAIN mem -> Bytes] ELSE UNCHANGED mem
  /\ Len(answer') = (IF ok' THEN Len(Answer(call)) ELSE 0)
  /\ UNCHANGED <<call, broken>>

Next == Begin \/ Succeed \/ Fail \/ ReturnAnything \/ Reset

\* What a step may do ...
SafeSpec == Init /\ [][Next]_vars
\* ... and no call hangs.
Spec == SafeSpec /\ (busy ~> ~busy)
=============================================================================
